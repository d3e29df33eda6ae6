----------------------------- MODULE RequestHead -----------------------------
(***************************************************************************)
(* The heads of the requests of one connection: connection_handle_read_    *)
(* state (connections.c) looks for the end of a head in chunks that the    *)
(* network has cut anywhere, http_request_parse (request.c) reads it, and  *)
(* connection_reset prepares the slot for the request that follows it in   *)
(* the same bytes.  server.http-parseopts are as they are by default.      *)
(*                                                                         *)
(* A token is a request line, a field, or a byte that counts by itself.    *)
(***************************************************************************)
EXTENDS Integers, Sequences, FiniteSets, SequencesExt, TLC

CONSTANTS
  Streams,    \* what clients send: sequences of tokens
  MaxField,   \* max_request_field_size, in tokens
  MaxChunks   \* bound: chunks of the read queue

CR == <<"r">>
LF == <<"n">>
X == <<"x">>
Line(method, uri, version) == <<"line", method, uri, version>>
Field(name, value) == <<"field", name, value>>
Fold(value) == <<"fold", value>>

\* The numbers that Content-Length has here
Number == "0" :> 0 @@ "1" :> 1 @@ "3" :> 3

HeadAssumption == MaxField \in Nat /\ MaxChunks \in Nat \ {0} /\ \A s \in Streams : Len(s) > 0

VARIABLES
  stream,   \* what the client sends
  came,     \* how much of it was read
  rq,       \* con->read_queue: a sequence of chunks
  st,       \* con->state
  con,      \* what else the connection keeps of its requests
  log       \* each request that was answered: where it began, and what it was taken for

vars == <<stream, came, rq, st, con, log>>

None == "none"
NoRequest == [head |-> <<>>, hdr |-> <<>>, host |-> FALSE, length |-> 0, ctype |-> FALSE,
              ims |-> None, range |-> FALSE, read |-> 0, status |-> 0, version |-> None]

\* keep_alive is what the slot's last connection left there.
Init ==
  /\ stream \in Streams /\ came = 0 /\ rq = <<>> /\ st = "start" /\ log = <<>>
  /\ \E keep \in BOOLEAN : con = NoRequest @@ [count |-> 0, keep |-> keep, at |-> 1]

-----------------------------------------------------------------------------
(* The read queue *)

All(c) == FlattenSeq(c)

RECURSIVE Skip(_, _)
Skip(c, n) == IF c = <<>> \/ (n = 0 /\ Head(c) # <<>>) THEN c
              ELSE IF n >= Len(Head(c)) THEN Skip(Tail(c), n - Len(Head(c)))
              ELSE <<SubSeq(Head(c), n + 1, Len(Head(c)))>> \o Tail(c)

\* connection_read_cq: n tokens come into the last chunk, or into a new one.
Reads(n) ==
  LET new == SubSeq(stream, came + 1, came + n)
  IN IF n = 0 THEN {rq}
     ELSE (IF rq # <<>> THEN {[rq EXCEPT ![Len(rq)] = @ \o new]} ELSE {})
            \cup (IF Len(rq) < MaxChunks THEN {Append(rq, new)} ELSE {})

Least(S) == CHOOSE i \in S : \A j \in S : i <= j
CRLFAt(s, i) == i < Len(s) /\ s[i] = CR /\ s[i + 1] = LF

\* Mutant of Match: it begins anew in each chunk.
MatchInChunk(q, c, i, k) ==
  IF i + 3 <= Len(q[c]) /\ SubSeq(q[c], i, i + 3) = <<CR, LF, CR, LF>> THEN <<c, i + 3>> ELSE <<>>

\* The match of a CRLF CRLF that begins at token i of chunk c goes on through the next chunks.
RECURSIVE Match(_, _, _, _)
Match(q, c, i, k) ==
  IF k > 4 THEN <<c, i - 1>>
  ELSE IF c > Len(q) THEN <<>>
  ELSE IF i > Len(q[c]) THEN Match(q, c + 1, 1, k)
  ELSE IF q[c][i] = <<CR, LF, CR, LF>>[k] THEN Match(q, c, i + 1, k + 1)
  ELSE <<>>

\* The last token of the head: [chunk, token], or <<>>.  An LF LF in one chunk ends the search in
\* this chunk only, so that the end of a head in a later chunk is taken instead of it.
RECURSIVE HeadEnd(_, _, _, _)
HeadEnd(q, c, i, found) ==
  IF c > Len(q) THEN found
  ELSE IF i > Len(q[c]) THEN HeadEnd(q, c + 1, 1, found)
  ELSE LET crlf == Match(q, c, i, 1)
           next == SelectSeq(SubSeq(q, c + 1, Len(q)), LAMBDA x : x # <<>>)
       IN IF q[c][i] = CR /\ crlf # <<>> THEN crlf
          ELSE IF q[c][i] # LF THEN HeadEnd(q, c, i + 1, found)
          ELSE IF i < Len(q[c])
          THEN IF q[c][i + 1] = LF THEN HeadEnd(q, c + 1, 1, <<c, i + 1>>)
               ELSE HeadEnd(q, c, i + 1, found)
          ELSE IF next # <<>> /\ next[1][1] = LF
          THEN <<CHOOSE d \in c + 1 .. Len(q) : q[d] # <<>> /\ \A e \in c + 1 .. d - 1 : q[e] = <<>>, 1>>
          ELSE HeadEnd(q, c, i + 1, found)

\* connection_handle_request_start_state
Start ==
  /\ st = "start" /\ st' = "read"
  /\ con' = [con EXCEPT !.count = @ + 1, !.at = came - Len(All(rq)) + 1]
  /\ UNCHANGED <<stream, came, rq, log>>

\* connection_handle_read_state, with what the read queue then holds
HeadRead(q, closes) ==
  LET end == HeadEnd(q, 1, 1, <<>>)
      size == IF end = <<>> THEN Len(All(q)) ELSE Len(All(SubSeq(q, 1, end[1] - 1))) + end[2]
      large == size > MaxField
  IN [rq |-> Skip(q, IF end = <<>> THEN 0 ELSE size),
      st |-> IF large THEN "handle" ELSE IF end # <<>> THEN "parse" ELSE IF closes THEN "close" ELSE "read",
      con |-> [con EXCEPT !.head = IF end = <<>> THEN @ ELSE SubSeq(All(q), 1, size),
                          !.status = IF large THEN 431 ELSE @, !.keep = @ /\ ~large]]

ReadHead(n, closes) ==
  /\ st = "read" /\ came + n <= Len(stream) /\ (n > 0 => ~closes)
  /\ came' = came + n
  /\ \E r \in {HeadRead(q, closes) : q \in Reads(n)} : rq' = r.rq /\ st' = r.st /\ con' = r.con
  /\ UNCHANGED <<stream, log>>

\* connection_read_cq fails
ReadFails ==
  /\ st = "read" /\ st' = "close" /\ UNCHANGED <<stream, came, rq, con, log>>

-----------------------------------------------------------------------------
(* http_request_parse.  p is con with what the function keeps for itself: [key] of the last field, *)
(* [set] a length was given, [line] the host is the request line's, [wish] Connection.             *)

Bad(p, code) == [p EXCEPT !.status = code, !.keep = FALSE]

\* array_insert_unique: the values of a field that comes again are joined.
Insert(hdr, name, words) ==
  IF name \in DOMAIN hdr THEN [hdr EXCEPT ![name] = @ \o <<",">> \o words] ELSE hdr @@ (name :> words)

\* What is before the request line: after the first request a CRLF may be left of the last body.
Leading(p) == IF p.count > 1 /\ CRLFAt(p.head, 1) THEN 2 ELSE 0

\* The last and the second word of the request line.  An unknown version leaves keep_alive alone.
Version(p, version) ==
  CASE version = "HTTP/1.x" -> Bad(p, 400)
    [] version \in {"HTTP/1.0", "HTTP/1.1"} -> [p EXCEPT !.version = version]
    [] OTHER -> [p EXCEPT !.status = 505]

Target(p, uri) ==
  CASE uri = "x" -> Bad(p, 400)
    [] uri = "http://h/" -> [p EXCEPT !.line = TRUE, !.host = TRUE, !.hdr = Insert(@, "Host", <<"h">>)]
    [] OTHER -> p

\* The request line at token i
RequestLine(p, i) ==
  LET l == p.head[i]
      v == Version([p EXCEPT !.method = l[2]], l[4])
  IN IF Len(l) # 4 \/ ~CRLFAt(p.head, i + 1) THEN Bad(p, 400)
     ELSE IF l[2] = "BREW" THEN Bad(p, 501)
     ELSE IF v.status # 0 THEN v ELSE Target(v, l[3])

\* What of the fields that may come once, or whose second one is not looked at, is known already
Single(p, kept, name, value) ==
  CASE name = "Content-Type" -> IF p.ctype THEN Bad(kept, 400) ELSE [kept EXCEPT !.ctype = TRUE]
    [] name = "Host" -> IF p.line THEN p ELSE IF p.host THEN Bad(kept, 400) ELSE [kept EXCEPT !.host = TRUE]
    [] name = "If-Modified-Since" ->
         IF p.ims = None THEN [kept EXCEPT !.ims = value] ELSE IF p.ims = value THEN p ELSE Bad(kept, 400)
    [] name = "If-None-Match" -> IF name \in DOMAIN p.hdr THEN p ELSE kept
    [] name = "Range" -> IF p.range THEN Bad(kept, 400) ELSE [kept EXCEPT !.range = value = "bytes=0-"]
    [] OTHER -> kept

\* The value of a field is taken.
Take(p, name, value) ==
  LET kept == [p EXCEPT !.hdr = Insert(@, name, <<value>>)] IN
  IF value = "" THEN p
  ELSE CASE name = "Connection" -> [kept EXCEPT !.wish = IF value \in {"close", "keep-alive"} THEN value ELSE @]
         [] name = "Content-Length" ->
              IF p.set \/ value \notin DOMAIN Number THEN Bad(kept, 400)
              ELSE [kept EXCEPT !.set = TRUE, !.length = Number[value]]
         [] OTHER -> Single(p, kept, name, value)

\* A line that begins with a blank goes on with the value of the field before it.
Continue(p, word) ==
  IF p.key = None THEN Bad(p, 400)
  ELSE IF p.key \in DOMAIN p.hdr THEN [p EXCEPT !.hdr[p.key] = Append(@, word)]
  ELSE p

\* The lines from token i to the empty one
RECURSIVE Fields(_, _)
Fields(p, i) ==
  LET h == p.head
  IN IF p.status # 0 THEN p
     ELSE IF CRLFAt(h, i) THEN p
     ELSE IF i > Len(h) \/ h[i][1] \notin {"field", "fold"} \/ ~CRLFAt(h, i + 1) THEN Bad(p, 400)
     ELSE IF h[i][1] = "fold" THEN Fields(Continue(p, h[i][2]), i + 3)
     ELSE Fields(Take([p EXCEPT !.key = h[i][2]], h[i][2], h[i][3]), i + 3)

\* Mutant of Announced: a Content-Length is preferred.
AnnouncedByLength(p) ==
  IF p.set THEN p.length ELSE IF "Transfer-Encoding" \in DOMAIN p.hdr THEN -1 ELSE 0

\* Transfer-Encoding overrides Content-Length; -1 is a chunked body.
Announced(p) == IF "Transfer-Encoding" \in DOMAIN p.hdr THEN -1 ELSE p.length

\* What is known after the last line: whether the connection is kept, the host, the body's length
Whole(p) ==
  LET k == [p EXCEPT !.keep = IF p.version = "HTTP/1.1" THEN p.wish # "close" ELSE p.wish = "keep-alive"]
      name == IF p.host THEN p.hdr["Host"] ELSE <<>>
      te == "Transfer-Encoding" \in DOMAIN p.hdr
      length == Announced(p)
  IN IF p.version = "HTTP/1.1" /\ ~p.host THEN Bad(k, 400)
     ELSE IF name \notin {<<>>, <<"h">>, <<"g">>} THEN Bad(k, 400)
     ELSE IF te /\ p.version = "HTTP/1.0" THEN Bad(k, 400)
     ELSE IF te /\ p.hdr["Transfer-Encoding"] # <<"chunked">> THEN Bad(k, 501)
     ELSE IF p.method \in {"GET", "HEAD"} /\ length # 0 THEN [Bad(k, 400) EXCEPT !.length = length]
     ELSE IF p.method = "POST" /\ ~p.set /\ ~te THEN Bad(k, 411)
     ELSE [k EXCEPT !.length = length]

\* connection_handle_request_end_state
Parse ==
  /\ st = "parse"
  /\ LET p == con @@ [key |-> None, set |-> FALSE, line |-> FALSE, wish |-> None, method |-> None]
         i == Leading(p) + 1
         l == RequestLine(p, i)
         f == Fields(l, i + 3)
         done == IF f.status = 0 THEN Whole(f) ELSE f
     IN /\ con' = [x \in DOMAIN con |-> done[x]]
        /\ st' = IF done.status = 0 /\ done.length # 0 THEN "body" ELSE "handle"
  /\ UNCHANGED <<stream, came, rq, log>>

-----------------------------------------------------------------------------
(* The body, the answer and the end *)

\* What of q is the body: by its length, or up to the last chunk with its empty line
Zero == <<"0">>
BodyEnds(q) ==
  IF con.length >= 0 THEN (IF Len(q) >= con.length THEN {con.length} ELSE {})
  ELSE {i \in 5 .. Len(q) : SubSeq(q, i - 4, i) = <<Zero, CR, LF, CR, LF>>}

\* connection_handle_read_post_state, which PostBody is about, up to the end of the body
ReadBody(n) ==
  /\ st = "body" /\ came + n <= Len(stream) /\ came' = came + n
  /\ \E q \in Reads(n) :
       LET ends == BodyEnds(All(q))
       IN IF ends = {} THEN rq' = q /\ UNCHANGED <<st, con>>
          ELSE /\ rq' = Skip(q, Least(ends)) /\ st' = "handle"
               /\ con' = [con EXCEPT !.read = Least(ends), !.length = Least(ends)]
  /\ UNCHANGED <<stream, log>>

\* An answer that does not wait for the body
Refuse == st = "body" /\ st' = "handle" /\ UNCHANGED <<stream, came, rq, con, log>>

\* Mutant of Reset: the length of the last body stays.
ResetKeepsLength(c) ==
  [x \in DOMAIN c |-> IF x \in DOMAIN NoRequest \ {"length"} THEN NoRequest[x] ELSE c[x]]

\* connection_reset
Reset(c) == [x \in DOMAIN c |-> IF x \in DOMAIN NoRequest THEN NoRequest[x] ELSE c[x]]

\* connection_handle_response_end_state, after the answer
Answer ==
  /\ st = "handle"
  /\ log' = Append(log, [at |-> con.at, status |-> con.status, length |-> con.read,
                         whole |-> con.length = con.read,
                         host |-> IF con.status = 0 /\ con.host THEN con.hdr["Host"] ELSE <<>>])
  /\ IF con.keep /\ con.length = con.read
     THEN st' = "start" /\ con' = Reset(con)
     ELSE st' = "close" /\ UNCHANGED con
  /\ UNCHANGED <<stream, came, rq>>

Next ==
  \/ Start
  \/ \E n \in 0 .. Len(stream), closes \in BOOLEAN : ReadHead(n, closes)
  \/ ReadFails
  \/ Parse
  \/ \E n \in 0 .. Len(stream) : ReadBody(n)
  \/ Refuse
  \/ Answer

Spec == Init /\ [][Next]_vars

-----------------------------------------------------------------------------
(* What the bytes of the client mean, cut nowhere: RFC 7230, 3 and 3.3.3 *)

\* The head of the request at token i of the stream, which is the k-th
HeadFrom(i, k) ==
  LET ends == {j \in i + 3 .. Len(stream) : CRLFAt(stream, j - 3) /\ CRLFAt(stream, j - 1)}
  IN SubSeq(stream, i, IF ends = {} THEN Len(stream) ELSE Least(ends))

\* The lines of a head, and what they say
Words(h) == SelectSeq(h, LAMBDA t : t \notin {CR, LF})
Proper(h, k) ==
  LET w == Words(h)
      text == FlattenSeq([j \in DOMAIN w |-> <<w[j], CR, LF>>]) \o <<CR, LF>>
  IN /\ h = text \/ (k > 1 /\ h = <<CR, LF>> \o text)
     /\ w # <<>> /\ w[1][1] = "line" /\ (Len(w) > 1 => w[2][1] = "field")
     /\ \A j \in 2 .. Len(w) : w[j][1] \in {"field", "fold"}
Values(w, name) ==
  LET at == {j \in DOMAIN w : w[j][1] = "field" /\ w[j][2] = name /\ w[j][3] # ""}
      folds(j) == {k \in j + 1 .. Len(w) : \A l \in j + 1 .. k : w[l][1] = "fold"}
  IN {<<j, <<w[j][3]>> \o [k \in 1 .. Cardinality(folds(j)) |-> w[j + k][2]]>> : j \in at}

Once(w, name) == Cardinality(Values(w, name)) = 1
The(w, name) == (CHOOSE v \in Values(w, name) : TRUE)[2]
HostOf(w) == IF w[1][3] = "http://h/" THEN <<"h">> ELSE IF Once(w, "Host") THEN The(w, "Host") ELSE <<>>
Has(w, name) == Values(w, name) # {}

\* The errors that a head calls for
Errors(h, k) ==
  LET w == Words(h)
      has(name) == Has(w, name)
      length == IF has("Transfer-Encoding") \/ ~has("Content-Length") THEN "0" ELSE The(w, "Content-Length")[1]
      when(test, code) == IF test THEN {code} ELSE {}
  IN when(Len(h) > MaxField, 431) \cup
     IF ~Proper(h, k)
     THEN {400} \cup (IF w # <<>> /\ w[1][1] = "line"
                      THEN when(w[1][2] = "BREW", 501) \cup when(w[1][4] = "HTTP/2.0", 505) ELSE {})
     ELSE UNION {
       when(w[1][2] = "BREW", 501), when(w[1][4] = "HTTP/2.0", 505),
       when(w[1][4] = "HTTP/1.x" \/ w[1][3] = "x", 400),
       when(\E n \in {"Content-Length", "Content-Type", "Range"} : has(n) /\ ~Once(w, n), 400),
       when(Cardinality({v[2] : v \in Values(w, "If-Modified-Since")}) > 1, 400),
       when(has("Host") /\ ~Once(w, "Host") /\ w[1][3] # "http://h/", 400),
       when(HostOf(w) \notin {<<>>, <<"h">>, <<"g">>} \/ (w[1][4] = "HTTP/1.1" /\ HostOf(w) = <<>>), 400),
       when(length \notin DOMAIN Number, 400),
       when(has("Transfer-Encoding") /\ w[1][4] = "HTTP/1.0", 400),
       when(has("Transfer-Encoding") /\ (~Once(w, "Transfer-Encoding") \/ The(w, "Transfer-Encoding") # <<"chunked">>), 501),
       when(w[1][2] \in {"GET", "HEAD"} /\ (has("Transfer-Encoding") \/ length # "0"), 400),
       when(w[1][2] = "POST" /\ ~has("Transfer-Encoding") /\ ~has("Content-Length"), 411)}

\* Where the body that begins at token i ends
BodyLength(w, i) ==
  IF Has(w, "Transfer-Encoding")
  THEN Least({j \in i .. Len(stream) : stream[j] = Zero}) + 5 - i
  ELSE IF Has(w, "Content-Length") THEN Number[The(w, "Content-Length")[1]] ELSE 0

\* The k-th answer and those after it are about the requests from token i on.  A version that is
\* not known leaves keep_alive as it was, so that what follows it is not said to be a request.
RECURSIVE Fits(_, _)
Fits(k, i) ==
  k \in DOMAIN log =>
    LET l == log[k]
        h == HeadFrom(i, k)
        w == Words(h)
    IN /\ l.at = i
       /\ IF l.status # 0 THEN l.status \in Errors(h, k)
          ELSE /\ Errors(h, k) = {} /\ l.host = HostOf(w)
               /\ l.whole => l.length = BodyLength(w, i + Len(h))
       /\ l.status # 505 => (k < Len(log) => l.status = 0 /\ l.whole) /\ Fits(k + 1, i + Len(h) + l.length)

\* However the network cuts what a client sends, each answer is to the request that the bytes up to
\* it mean: it begins where the body of the one before it ended, and it is taken for what its own
\* head says, with nothing left of the requests before it (connections.c:1052, request.c:421).
Framed == Fits(1, 1)

=============================================================================
