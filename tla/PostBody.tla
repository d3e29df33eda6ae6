------------------------------ MODULE PostBody ------------------------------
(***************************************************************************)
(* connection_handle_read_post_state (connections-glue.c): each call reads *)
(* what the client has sent, and moves what belongs to the request's body  *)
(* from con->read_queue to con->request_content_queue, by Content-Length   *)
(* or decoding the chunked coding.  The network cuts the bytes anywhere,   *)
(* so a size, a CRLF or the trailers may span several reads.               *)
(***************************************************************************)
EXTENDS Integers, Sequences, FiniteSets, SequencesExt, TLC

CONSTANTS
  Requests,    \* what clients send: [text, length (-1 chunked, -2 unspecified), expects, max]
               \* max is max_request_size, 0 for none
  MemLimit,    \* 64k: bodies up to this length are kept in memory
  MaxLine,     \* 1024: the longest line with a chunk's size
  OffBits      \* the width of off_t

CR == "r"
LF == "n"
\* hex2int: the digits that the texts use
Digits == [d \in {"0", "1", "2", "f"} |->
             CASE d = "0" -> 0 [] d = "1" -> 1 [] d = "2" -> 2 [] d = "f" -> 15]

PostBodyAssumption ==
  /\ MemLimit \in Nat /\ MaxLine \in Nat /\ OffBits \in 6 .. 64
  /\ \A r \in Requests : r.length \in {-1, -2} \cup Nat /\ r.max \in Nat /\ r.expects \in BOOLEAN

VARIABLES
  request,   \* what the client sends
  got,       \* how much of it was read
  cq,        \* con->read_queue: a sequence of chunks
  te,        \* te_chunked: what is left of the chunk, 2 more for its CRLF; 0 before a size
  body,      \* con->request_content_queue
  length,    \* content_length
  asked,     \* Expect: 100-continue is in the header
  interim,   \* what became of "100 Continue"
  status     \* "reading", "ready", an error's code, or "error"

vars == <<request, got, cq, te, body, length, asked, interim, status>>

Init ==
  /\ request \in Requests
  /\ got = 0 /\ cq = <<>> /\ te = 0 /\ body = <<>>
  /\ length = request.length /\ asked = request.expects /\ interim = "no"
  /\ status = "reading"

-----------------------------------------------------------------------------
(* The read queue *)

\* chunkqueue_remove_finished_chunks
RECURSIVE Trim(_)
Trim(c) == IF c = <<>> \/ Head(c) # <<>> THEN c ELSE Trim(Tail(c))

All(c) == FlattenSeq(c)

\* chunkqueue_mark_written, and the bytes that chunkqueue_steal takes
RECURSIVE Skip(_, _)
Skip(c, n) == IF c = <<>> THEN c
              ELSE IF n >= Len(Head(c)) THEN Skip(Tail(c), n - Len(Head(c)))
              ELSE <<SubSeq(Head(c), n + 1, Len(Head(c)))>> \o Tail(c)

\* connection_handle_read_post_cq_compact: the first chunk is joined with the next that has bytes.
CanCompact(c) == \E i \in 2 .. Len(c) : c[i] # <<>>
Compact(c) == LET i == CHOOSE i \in 2 .. Len(c) : c[i] # <<>> /\ \A j \in 2 .. i - 1 : c[j] = <<>>
              IN <<c[1] \o c[i]>> \o SubSeq(c, i + 1, Len(c))

Places(c, h) == {i \in DOMAIN h : h[i] = c}
Least(S) == CHOOSE i \in S : \A j \in S : i <= j

-----------------------------------------------------------------------------
(* connection_handle_read_post_chunked *)

\* d: [cq, te, body, length, status]; status "more": the loop goes on, "wait": it is left
Off(n) == LET m == n % 2^OffBits IN IF m >= 2^(OffBits - 1) THEN m - 2^OffBits ELSE m
MaxSize == 2^(OffBits - 5) - 1

\* The digits at the head of a line: [value, after], or "too large"
RECURSIVE Size(_, _, _)
Size(h, i, value) ==
  IF h[i] \notin DOMAIN Digits THEN [value |-> value, after |-> i]
  ELSE IF value > MaxSize THEN [value |-> -1, after |-> i]
  ELSE Size(h, i + 1, value * 16 + Digits[h[i]])

RECURSIVE PastBlanks(_, _)
PastBlanks(h, i) == IF h[i] = " " THEN PastBlanks(h, i + 1) ELSE i

\* The empty line that ends the trailers, from the line of the last chunk on
Ends(h, lf) == {j \in lf - 1 .. Len(h) - 3 : SubSeq(h, j, j + 3) = <<CR, LF, CR, LF>>}

\* The last chunk's line is left where it is until the empty line has come.  Trailers are taken to
\* be shorter than max_request_field_size.
RECURSIVE LastChunk(_, _)
LastChunk(d, lf) ==
  LET ends == Ends(Head(d.cq), lf)
  IN IF ends # {}
     THEN [d EXCEPT !.cq = Skip(@, Least(ends) + 3), !.length = Len(d.body), !.status = "wait"]
     ELSE IF CanCompact(d.cq) THEN LastChunk([d EXCEPT !.cq = Compact(@)], lf)
     ELSE [d EXCEPT !.status = "wait"]

\* One line with a size, if there is one; max is max_request_size.
RECURSIVE SizeLine(_, _)
SizeLine(d, max) ==
  IF d.cq = <<>> THEN [d EXCEPT !.status = "wait"]
  ELSE LET h == Head(d.cq) IN
  IF Places(LF, h) = {}
  THEN IF Len(h) >= MaxLine THEN [d EXCEPT !.status = "400"]
       ELSE IF CanCompact(d.cq) THEN SizeLine([d EXCEPT !.cq = Compact(@)], max)
       ELSE [d EXCEPT !.status = "wait"]
  ELSE LET lf == Least(Places(LF, h))
           size == Size(h, 1, 0)
       IN IF size.value < 0 \/ h[PastBlanks(h, size.after)] \notin {CR, ";"} \/ lf >= MaxLine
          THEN [d EXCEPT !.status = "400"]
          ELSE IF size.value = 0 THEN LastChunk(d, lf)
          ELSE IF max # 0 /\ (max < size.value \/ max - size.value < Len(d.body))
          THEN [d EXCEPT !.cq = Skip(@, lf), !.status = "413"]
          ELSE [d EXCEPT !.cq = Skip(@, lf), !.te = Off(size.value + 2)]

\* Mutant of ChunkData: the CRLF that is cut is taken for the end of the chunk.
ChunkDataCut(d, disk) ==
  LET have == Len(All(d.cq))
      len == IF d.te <= 2 THEN 0 ELSE IF have > d.te - 2 THEN d.te - 2 ELSE have
      e == [d EXCEPT !.body = @ \o SubSeq(All(d.cq), 1, len), !.cq = Skip(@, len), !.te = @ - len]
      rest == All(e.cq)
  IN IF d.te > 2 /\ Len(d.body) + d.te > MemLimit /\ ~disk /\ len > 0 THEN [d EXCEPT !.status = "500"]
     ELSE IF e.te # 2 \/ rest = <<>> THEN [e EXCEPT !.status = "wait"]
     ELSE [e EXCEPT !.cq = Skip(@, 2), !.te = 0]

\* The data of a chunk, and the CRLF after it; disk: is there room for temporary files?
ChunkData(d, disk) ==
  LET have == Len(All(d.cq))
      len == IF d.te <= 2 THEN 0 ELSE IF have > d.te - 2 THEN d.te - 2 ELSE have
      e == [d EXCEPT !.body = @ \o SubSeq(All(d.cq), 1, len), !.cq = Skip(@, len), !.te = @ - len]
      rest == All(e.cq)
  IN IF d.te > 2 /\ Len(d.body) + d.te > MemLimit /\ ~disk /\ len > 0 THEN [d EXCEPT !.status = "500"]
     ELSE IF Len(rest) < e.te THEN [e EXCEPT !.status = "wait"]
     ELSE IF e.te # 2 THEN [e EXCEPT !.status = IF rest = <<>> THEN "wait" ELSE "spins"]
     ELSE IF SubSeq(rest, 1, 2) # <<CR, LF>> THEN [e EXCEPT !.status = "400"]
     ELSE [e EXCEPT !.cq = Skip(@, 2), !.te = 0]

RECURSIVE Chunked(_, _, _)
Chunked(d, max, disk) ==
  LET s == IF d.te = 0 THEN SizeLine(d, max) ELSE d
      t == IF s.status = "more" THEN ChunkData(s, disk) ELSE s
  IN IF t.status # "more" THEN t
     ELSE IF t.cq = <<>> THEN [t EXCEPT !.status = "wait"]
     ELSE Chunked(t, max, disk)

-----------------------------------------------------------------------------
(* connection_handle_read_post_state *)

\* network_read: n bytes, in the last chunk if there is room, or in a new one, which stays empty
\* when nothing was there.
Reads(n) ==
  LET new == SubSeq(request.text, got + 1, got + n)
  IN (IF cq # <<>> THEN {[cq EXCEPT ![Len(cq)] = @ \o new]} ELSE {})
       \cup (IF cq # <<>> /\ Last(cq) = <<>> THEN {} ELSE {Append(cq, new)})

\* connection_write_100_continue: sent, sent in part, or not when it would block
Continue(c) ==
  IF c = <<>> /\ body = <<>> /\ asked
  THEN asked' = FALSE /\ interim' \in {"sent", "part", "skipped", "failed"}
  ELSE UNCHANGED <<asked, interim>>

Moved(c, disk) ==
  LET d == [cq |-> c, te |-> te, body |-> body, length |-> length, status |-> "more"]
      want == length - Len(body)
      len == IF Len(All(c)) > want THEN want ELSE Len(All(c))
  IN CASE length = -1 -> Chunked(d, request.max, disk)
       [] length = -2 -> [d EXCEPT !.body = @ \o All(c), !.cq = <<>>,
            !.status = IF request.max # 0 /\ Len(body) + Len(All(c)) > request.max THEN "413" ELSE "wait"]
       [] length >= 0 ->
            IF length > MemLimit /\ len > 0 /\ ~disk THEN [d EXCEPT !.status = "500"]
            ELSE [d EXCEPT !.body = @ \o SubSeq(All(c), 1, len), !.cq = Skip(@, len), !.status = "wait"]

\* con->is_readable or not; the client may have closed, after all it had to send or in the middle.
Handle(n, closes, disk) ==
  /\ status = "reading" /\ got + n <= Len(request.text)
  /\ n > 0 => ~closes
  /\ got' = got + n
  /\ \E c \in {Trim(x) : x \in Reads(n)} :
       /\ Continue(c)
       /\ LET d == Moved(c, disk)
              done == d.status = "wait" /\ Len(d.body) = d.length
          IN IF interim' = "failed"
             THEN cq' = c /\ status' = "error" /\ UNCHANGED <<te, body, length>>
             ELSE /\ cq' = Trim(d.cq) /\ te' = d.te /\ body' = d.body /\ length' = d.length
                  /\ status' = IF d.status # "wait" THEN d.status ELSE IF done THEN "ready"
                               ELSE IF closes THEN "error" ELSE "reading"
  /\ UNCHANGED request

\* network_read failed
ReadFails ==
  /\ status = "reading" /\ status' = "error"
  /\ UNCHANGED <<request, got, cq, te, body, length, asked, interim>>

Next ==
  \/ \E n \in 0 .. Len(request.text), closes, disk \in BOOLEAN : Handle(n, closes, disk)
  \/ ReadFails

Spec == Init /\ [][Next]_vars

-----------------------------------------------------------------------------
(* What the bytes that were received mean, whatever their cuts: RFC 7230, 3.3 and 4.1, with the   *)
(* server's limits.                                                                              *)

RECURSIVE Meaning(_, _)
Meaning(s, have) ==
  LET wait == [status |-> "reading", body |-> have]
      bad(code) == [status |-> code, body |-> have]
  IN
  IF Places(LF, s) = {} THEN (IF Len(s) >= MaxLine THEN bad("400") ELSE wait)
  ELSE LET lf == Least(Places(LF, s))
           k == Least({i \in 1 .. lf : s[i] \notin DOMAIN Digits})
           size == FoldLeft(LAMBDA v, c : v * 16 + Digits[c], 0, SubSeq(s, 1, k - 1))
           sep == Least({i \in k .. lf : s[i] # " "})
       IN IF lf >= MaxLine \/ s[sep] \notin {CR, ";"} \/ size >= 2^(OffBits - 1) THEN bad("400")
          ELSE IF size = 0
          THEN IF Ends(s, lf) = {} THEN wait
               ELSE [status |-> "ready", body |-> have,
                     rest |-> SubSeq(s, Least(Ends(s, lf)) + 4, Len(s))]
          ELSE IF request.max # 0 /\ Len(have) + size > request.max THEN bad("413")
          ELSE IF Len(s) < lf + size + 2
          THEN [wait EXCEPT !.body = have \o SubSeq(s, lf + 1,
                                              IF Len(s) < lf + size THEN Len(s) ELSE lf + size)]
          ELSE IF SubSeq(s, lf + size + 1, lf + size + 2) # <<CR, LF>>
          THEN [bad("400") EXCEPT !.body = have \o SubSeq(s, lf + 1, lf + size)]
          ELSE Meaning(SubSeq(s, lf + size + 3, Len(s)), have \o SubSeq(s, lf + 1, lf + size))

Expected ==
  LET s == SubSeq(request.text, 1, got)
      n == request.length
  IN IF n = -1 THEN Meaning(s, <<>>)
     ELSE IF n = -2
     THEN [status |-> IF request.max # 0 /\ got > request.max THEN "413" ELSE "reading", body |-> s]
     ELSE IF got >= n
     THEN [status |-> "ready", body |-> SubSeq(s, 1, n), rest |-> SubSeq(s, n + 1, got)]
     ELSE [status |-> "reading", body |-> s]

TypeOK == status \in {"reading", "ready", "error", "400", "413", "500"}

\* Wherever the network cuts the bytes, the body, the error or the wait is the one that the bytes
\* received so far mean, and what follows the body is left for the next request
\* (connections-glue.c:122-270, 412-487).
CutsDontMatter ==
  /\ status \in {"reading", "ready", "400", "413"} =>
       status = Expected.status /\ body = Expected.body
  /\ status = "ready" => All(cq) = Expected.rest

=============================================================================
