--------------------------- MODULE ConStateProofs ---------------------------
(***************************************************************************)
(* What holds of a connection for any requests, buffers and limits.        *)
(***************************************************************************)
EXTENDS MCConState, SequenceTheorems, WellFoundedInduction, TLAPS

Tokens == AllKinds \cup {"part", "body"}

Fields == {"st", "used", "open", "uri", "readable", "writable", "keep", "reqCount", "kind", "status",
           "saved", "body", "got", "cq", "cgi", "hctx", "cgiLeft", "started", "fin", "wq", "rq", "pollin",
           "want", "limited", "missing", "readAge", "writeAge", "closeAge"}

\* The type of struct connection; records' sets are too large for the provers to take apart.
Typed(c) ==
  /\ Fields \subseteq DOMAIN c
  /\ c.st \in States /\ c.kind \in AllKinds \cup {NoKind} /\ c.hctx \in {"none", "new", "run"}
  /\ {c.used, c.open, c.uri, c.keep, c.cgi, c.started, c.fin, c.pollin, c.limited, c.missing} \subseteq BOOLEAN
  /\ {c.readable, c.writable, c.readAge, c.writeAge, c.closeAge} \subseteq Int
  /\ {c.reqCount, c.status, c.saved, c.body, c.got, c.cq, c.cgiLeft, c.wq} \subseteq Nat
  /\ c.rq \in Seq(Tokens) /\ c.want \subseteq {"IN", "OUT"}

NetType ==
  [peer : {"none", "open", "fin", "reset"}, sock : Seq(Tokens), todo : Seq(Tokens),
   left : Nat, snd : 0 .. SndBuf]

HistType == [taken : Nat, logged : Nat, idle : Int]

\* A run is queued with the state of a connection in use.
Runs == States \ {"CONNECT"}

TypeOK ==
  /\ Typed(con) /\ net \in NetType
  /\ pc \in {"idle", "run"} /\ ostate \in States /\ jobs \in Seq(Runs)
  /\ graceful \in {"no", "asked", "begun"}
  /\ hist \in HistType

-----------------------------------------------------------------------------
(* The stream of a client's bytes, after the token p that was taken from it *)

Stream(c, n) == c.rq \o n.sock \o n.todo

\* A body comes after a header that announces it, and only there; what is missing of it will not come.
Framed(p, s, peer) ==
  /\ s = <<>> => (Bodied(p) => peer # "open")
  /\ s # <<>> =>
       /\ Bodied(p) <=> s[1] = "body"
       /\ \A i \in 1 .. Len(s) - 1 : Bodied(s[i]) <=> s[i + 1] = "body"
       /\ Bodied(s[Len(s)]) => peer # "open"

Due(c) == IF c.body # c.got THEN "post" ELSE "part"

-----------------------------------------------------------------------------
Waits == {"REQUEST_START", "READ"}
Answers == {"RESPONSE_START", "WRITE", "RESPONSE_END"}

Answering(c) == c.st \in Answers
InService(c) == Answering(c) \/ c.st \in {"READ_POST", "HANDLE_REQUEST"}

Slot(c) == /\ c.used = c.open /\ (c.used <=> c.st # "CONNECT")
           /\ ~c.used => c.hctx = "none"

Course(c) ==
  /\ c.got <= c.body /\ c.body <= 1
  /\ c.st \in Waits \cup {"REQUEST_END"} => Clean(c)
  /\ c.hctx = "run" => c.cgi /\ (c.fin => ~c.keep)
  /\ c.st \in {"READ_POST", "HANDLE_REQUEST"} /\ c.fin => ~c.keep \/ (c.cgi /\ c.hctx = "none")
  /\ Answering(c) => c.status # 0 /\ (c.hctx = "run" => ~c.keep)
  /\ c.st = "RESPONSE_END" /\ c.keep => c.fin /\ c.wq = 0

Aligned(c, n) ==
  /\ c.st \in Waits => Framed("part", Stream(c, n), n.peer)
  /\ c.st = "REQUEST_END" => Framed(c.kind, Stream(c, n), n.peer)
  /\ InService(c) /\ c.keep => Framed(Due(c), Stream(c, n), n.peer)

Counted(c, h) ==
  /\ c.st \in Waits => h.taken = h.logged
  /\ c.st = "REQUEST_END" \/ InService(c) => h.taken = h.logged + 1
  /\ c.st = "ERROR" => h.taken = h.logged + 1 \/ (h.taken = h.logged /\ c.status = 0)

Settled ==
  /\ pc # "idle" /\ con.used => ostate # "CONNECT"
  /\ pc = "idle" /\ con.st = "CONNECT" => con.rq = <<>> /\ con.reqCount = 0
  /\ pc = "idle" /\ con.st = "READ" => "IN" \in con.want
  /\ con.st \in {"CLOSE", "CONNECT"} /\ graceful # "begun" => Clean(con)

IInv == /\ TypeOK /\ Slot(con) /\ Course(con) /\ Aligned(con, net)
        /\ Counted(con, hist) /\ Settled

-----------------------------------------------------------------------------
(* The stream, when bytes move, are taken, or are sent                      *)

\* The tokens of a client's stream.
LEMMA KindsAreTokens == /\ AllKinds \subseteq Tokens /\ "body" \in Tokens /\ "part" \in Tokens
                        /\ ~Bodied("part") /\ Bodied("post") /\ ~Bodied("body")
  BY DEF Tokens, Bodied

\* A read moves bytes from the socket to the read queue.
LEMMA BytesMove ==
  ASSUME NEW a \in Seq(Tokens), NEW b \in Seq(Tokens), NEW d \in Seq(Tokens), NEW k \in 0 .. Len(b)
  PROVE  /\ a \o SubSeq(b, 1, k) \in Seq(Tokens) /\ SubSeq(b, k + 1, Len(b)) \in Seq(Tokens)
         /\ (a \o SubSeq(b, 1, k)) \o SubSeq(b, k + 1, Len(b)) \o d = a \o b \o d
  <1> DEFINE l == SubSeq(b, 1, k)
             r == SubSeq(b, k + 1, Len(b))
  <1>1. Len(b) \in Nat BY LenProperties
  <1>2. \A i \in 1 .. Len(b) : b[i] \in Tokens BY ElementOfSeq
  <1>3. l \in Seq(Tokens) BY <1>1, <1>2, SubSeqProperties
  <1>4. r \in Seq(Tokens) BY <1>1, <1>2, SubSeqProperties
  <1>5. l \o r = b
    <2>1. 1 \in 1 .. Len(b) + 1 /\ k \in 1 - 1 .. Len(b) /\ Len(b) \in k .. Len(b) BY <1>1
    <2>2. SubSeq(b, 1, k) \o SubSeq(b, k + 1, Len(b)) = SubSeq(b, 1, Len(b)) BY <2>1, ConcatAdjacentSubSeq
    <2> QED BY <2>2, SubSeqFull
  <1> HIDE DEF l, r
  <1>6. (a \o l) \o r = a \o b
    <2>1. (a \o l) \o r = a \o (l \o r) BY SMTT(40), <1>3, <1>4, ConcatAssociative
    <2> QED BY <1>5, <2>1
  <1> QED BY <1>3, <1>4, <1>6, ConcatProperties DEF l, r

\* What follows a token that is taken out of the queue follows it in the stream.
LEMMA TokenTaken ==
  ASSUME NEW p, NEW a \in Seq(Tokens), NEW t \in Seq(Tokens), NEW peer, Framed(p, a \o t, peer),
         NEW e \in 1 .. Len(a)
  PROVE  /\ SubSeq(a, e + 1, Len(a)) \in Seq(Tokens)
         /\ Framed(a[e], SubSeq(a, e + 1, Len(a)) \o t, peer)
  <1> DEFINE s == a \o t
             b == SubSeq(a, e + 1, Len(a))
             u == b \o t
  <1>1. Len(a) \in Nat /\ Len(t) \in Nat BY LenProperties
  <1>2. \A i \in 1 .. Len(a) : a[i] \in Tokens BY ElementOfSeq
  <1>3. /\ s \in Seq(Tokens) /\ Len(s) = Len(a) + Len(t)
        /\ \A i \in 1 .. Len(a) + Len(t) : s[i] = IF i <= Len(a) THEN a[i] ELSE t[i - Len(a)]
    BY ConcatProperties
  <1>4. /\ b \in Seq(Tokens) /\ Len(b) = Len(a) - e
        /\ \A i \in 1 .. Len(a) - e : b[i] = a[e + i]
    <2>1. \A i \in e + 1 .. Len(a) : a[i] \in Tokens BY <1>1, <1>2
    <2>2. /\ b \in Seq(Tokens) /\ Len(b) = IF e + 1 <= Len(a) THEN Len(a) - (e + 1) + 1 ELSE 0
          /\ \A i \in 1 .. Len(a) - (e + 1) + 1 : b[i] = a[(e + 1) + i - 1]
      BY <1>1, <2>1, SubSeqProperties
    <2>3. Len(b) = Len(a) - e BY <1>1, <2>2
    <2>4. ASSUME NEW i \in 1 .. Len(a) - e PROVE b[i] = a[e + i]
      <3>1. i \in 1 .. Len(a) - (e + 1) + 1 /\ (e + 1) + i - 1 = e + i BY <1>1
      <3> QED BY <2>2, <3>1
    <2> QED BY <2>2, <2>3, <2>4
  <1>5. /\ u \in Seq(Tokens) /\ Len(u) = Len(b) + Len(t)
        /\ \A i \in 1 .. Len(b) + Len(t) : u[i] = IF i <= Len(b) THEN b[i] ELSE t[i - Len(b)]
    BY <1>4, ConcatProperties
  <1>6. Len(u) = Len(s) - e BY SMTT(40), <1>1, <1>3, <1>4, <1>5
  <1>7. ASSUME NEW i \in 1 .. Len(u) PROVE u[i] = s[e + i]
    <2> HIDE DEF b, s, u
    <2>1. CASE i <= Len(b) BY <1>1, <1>3, <1>4, <1>5, <1>6, <2>1
    <2>2. CASE i > Len(b)
      <3>1. u[i] = t[i - Len(b)] BY <1>1, <1>4, <1>5, <2>2
      <3>2. e + i \in 1 .. Len(a) + Len(t) /\ e + i > Len(a) /\ e + i - Len(a) = i - Len(b)
        BY <1>1, <1>3, <1>4, <1>5, <1>6, <2>2
      <3> QED BY <1>1, <1>3, <3>1, <3>2
    <2> QED BY <1>1, <1>4, <2>1, <2>2
  <1>8. s[e] = a[e] BY <1>1, <1>3
  <1>9. Framed(p, s, peer) OBVIOUS
  <1>10. Framed(a[e], u, peer)
    <2> HIDE DEF s, u, b
    <2>1. s # <<>> BY <1>1, <1>3
    <2>2. /\ \A i \in 1 .. Len(s) - 1 : Bodied(s[i]) <=> s[i + 1] = "body"
          /\ Bodied(s[Len(s)]) => peer # "open"
      BY <1>9, <2>1 DEF Framed
    <2>3. CASE u = <<>>
      <3>1. Len(u) = 0 BY <2>3
      <3>2. e = Len(s) BY <1>1, <1>3, <1>6, <3>1
      <3> QED BY <1>8, <2>2, <2>3, <3>2 DEF Framed
    <2>4. CASE u # <<>>
      <3>1. Len(u) \in Nat \ {0} BY <1>5, <2>4, EmptySeq
      <3>2. e \in 1 .. Len(s) - 1 /\ u[1] = s[e + 1] BY <1>1, <1>3, <1>6, <1>7, <3>1
      <3>3. Bodied(a[e]) <=> u[1] = "body" BY <1>8, <2>2, <3>2
      <3>4. ASSUME NEW i \in 1 .. Len(u) - 1 PROVE Bodied(u[i]) <=> u[i + 1] = "body"
        <4>1. i \in 1 .. Len(u) /\ i + 1 \in 1 .. Len(u) BY <3>1
        <4>2. u[i] = s[e + i] /\ u[i + 1] = s[e + (i + 1)] BY <1>7, <4>1
        <4>3. e + i \in 1 .. Len(s) - 1 /\ e + (i + 1) = (e + i) + 1 BY <1>1, <1>3, <1>6, <3>1
        <4> QED BY <2>2, <4>2, <4>3
      <3>5. u[Len(u)] = s[Len(s)]
        <4>1. Len(u) \in 1 .. Len(u) /\ e + Len(u) = Len(s) BY <1>1, <1>3, <1>6, <3>1
        <4> QED BY <1>7, <4>1
      <3> QED BY <2>2, <2>4, <3>3, <3>4, <3>5 DEF Framed
    <2> QED BY <2>3, <2>4
  <1> QED BY <1>4, <1>10

\* Without the client, its stream ends anywhere.
LEMMA StreamCut ==
  ASSUME NEW p, NEW s \in Seq(Tokens), NEW t \in Seq(Tokens), NEW old, NEW new,
         Framed(p, s \o t, old), new # "open"
  PROVE  Framed(p, s, new)
  <1> DEFINE u == s \o t
  <1>1. /\ Len(u) = Len(s) + Len(t) /\ u \in Seq(Tokens)
        /\ \A i \in 1 .. Len(s) + Len(t) : u[i] = IF i <= Len(s) THEN s[i] ELSE t[i - Len(s)]
    BY ConcatProperties
  <1>2. Len(s) \in Nat /\ Len(t) \in Nat BY LenProperties
  <1>3. CASE s = <<>> BY <1>3 DEF Framed
  <1>4. CASE s # <<>>
    <2> HIDE DEF u
    <2>1. Len(s) \in Nat \ {0} BY <1>4, EmptySeq
    <2>2. u # <<>> BY <1>1, <1>2, <2>1
    <2>3. Framed(p, u, old) BY DEF u
    <2>4. u[1] = s[1] /\ \A i \in 1 .. Len(s) - 1 : u[i] = s[i] /\ u[i + 1] = s[i + 1]
      BY <1>1, <1>2, <2>1
    <2>5. /\ Bodied(p) <=> u[1] = "body"
          /\ \A i \in 1 .. Len(u) - 1 : Bodied(u[i]) <=> u[i + 1] = "body"
      BY <2>2, <2>3 DEF Framed
    <2>6. ASSUME NEW i \in 1 .. Len(s) - 1 PROVE Bodied(s[i]) <=> s[i + 1] = "body"
      <3>1. i \in 1 .. Len(u) - 1 BY <1>1, <1>2, <2>1
      <3> QED BY <2>4, <2>5, <3>1
    <2> QED BY <1>4, <2>4, <2>5, <2>6 DEF Framed
  <1> QED BY <1>3, <1>4

\* A client that sent its last request whole may send another one.
LEMMA RequestJoins ==
  ASSUME NEW p, NEW s \in Seq(Tokens), NEW k \in AllKinds, Framed(p, s, "open")
  PROVE  Bytes(k) \in Seq(Tokens) /\ Framed(p, s \o Bytes(k), "open")
  <1> DEFINE b == Bytes(k)
             u == s \o b
  <1>1. /\ b \in Seq(Tokens) /\ Len(b) \in 1 .. 3 /\ b[1] # "body"
        /\ \A i \in 1 .. Len(b) - 1 : Bodied(b[i]) <=> b[i + 1] = "body"
        /\ ~Bodied(b[Len(b)])
    <2>1. CASE k = "big" BY <2>1 DEF Bytes, Bodied, Tokens, AllKinds
    <2>2. CASE Bodied(k) BY <2>2 DEF Bytes, Bodied, Tokens, AllKinds
    <2>3. CASE k # "big" /\ ~Bodied(k) BY <2>3 DEF Bytes, Bodied, Tokens, AllKinds
    <2> QED BY <2>1, <2>2, <2>3
  <1>2. /\ Len(u) = Len(s) + Len(b) /\ u \in Seq(Tokens)
        /\ \A i \in 1 .. Len(s) + Len(b) : u[i] = IF i <= Len(s) THEN s[i] ELSE b[i - Len(s)]
    BY <1>1, ConcatProperties
  <1>3. Len(s) \in Nat BY LenProperties
  <1> HIDE DEF b, u
  <1>4. u # <<>> BY <1>1, <1>2, <1>3
  <1>5. u[Len(u)] = b[Len(b)] BY <1>1, <1>2, <1>3
  <1>6. CASE s = <<>>
    <2>1. Len(s) = 0 BY <1>6
    <2>2. u[1] = b[1] /\ ~Bodied(p) BY <1>1, <1>2, <1>6, <2>1 DEF Framed
    <2>3. \A i \in 1 .. Len(u) - 1 : u[i] = b[i] /\ u[i + 1] = b[i + 1] BY <1>1, <1>2, <2>1
    <2> QED BY <1>1, <1>2, <1>4, <1>5, <2>1, <2>2, <2>3 DEF Framed, b, u
  <1>7. CASE s # <<>>
    <2>1. Len(s) \in Nat \ {0} BY <1>7, EmptySeq
    <2>2. u[1] = s[1] BY <1>1, <1>2, <2>1
    <2>3. ASSUME NEW i \in 1 .. Len(u) - 1 PROVE Bodied(u[i]) <=> u[i + 1] = "body"
      <3>1. CASE i < Len(s)
        <4>1. u[i] = s[i] /\ u[i + 1] = s[i + 1] BY <1>1, <1>2, <2>1, <3>1
        <4> QED BY <1>7, <2>1, <3>1, <4>1 DEF Framed
      <3>2. CASE i = Len(s)
        <4>1. /\ i \in 1 .. Len(s) + Len(b) /\ i <= Len(s) /\ i + 1 \in 1 .. Len(s) + Len(b)
              /\ ~(i + 1 <= Len(s)) /\ (i + 1) - Len(s) = 1
          BY <1>1, <1>2, <2>1, <3>2
        <4>2. u[i] = s[Len(s)] /\ u[i + 1] = b[1] BY <1>2, <3>2, <4>1
        <4> QED BY <1>1, <1>7, <4>2 DEF Framed
      <3>3. CASE i > Len(s)
        <4>1. i - Len(s) \in 1 .. Len(b) - 1 BY <1>1, <1>2, <1>3, <3>3
        <4>2. u[i] = b[i - Len(s)] /\ u[i + 1] = b[(i - Len(s)) + 1]
          <5>1. i \in 1 .. Len(s) + Len(b) /\ i + 1 \in 1 .. Len(s) + Len(b) /\ (i + 1) - Len(s) = (i - Len(s)) + 1
            BY <1>1, <1>2, <1>3, <3>3
          <5> QED BY <1>2, <1>3, <3>3, <5>1
        <4> QED BY <1>1, <4>1, <4>2
      <3> QED BY <1>3, <3>1, <3>2, <3>3
    <2> QED BY <1>1, <1>4, <1>5, <1>7, <2>2, <2>3 DEF Framed, b, u
  <1> QED BY <1>1, <1>6, <1>7 DEF b, u

-----------------------------------------------------------------------------
(* The handlers: each leaves the connection good if it was.                 *)

Good(c, n) ==
  /\ Typed(c) /\ n \in NetType
  /\ Slot(c) /\ Course(c) /\ Aligned(c, n)

\* What reading, polling and the clock leave alone of a connection.
Same(c, d) ==
  /\ d.used = c.used /\ d.open = c.open /\ d.keep = c.keep /\ d.kind = c.kind /\ d.status = c.status
  /\ d.saved = c.saved /\ d.body = c.body /\ d.got = c.got /\ d.cq = c.cq /\ d.cgi = c.cgi
  /\ d.hctx = c.hctx /\ d.started = c.started /\ d.fin = c.fin /\ d.wq = c.wq
  /\ d.reqCount = c.reqCount

\* A connection that differs only in its time stamps, interests or limit is as good.
LEMMA SameIsGood ==
  ASSUME NEW c, NEW n, NEW d, NEW m, Good(c, n), Typed(d), m \in NetType, Same(c, d),
         d.st = c.st, Stream(d, m) = Stream(c, n), m.peer = n.peer
  PROVE  Good(d, m)
  <1>1. Slot(d) /\ Course(d) BY DEF Good, Same, Slot, Course, Clean, Answering
  <1>2. Aligned(d, m) BY DEF Good, Same, Aligned, InService, Answering, Due
  <1> QED BY <1>1, <1>2 DEF Good

\* What a handler returns.
LEMMA OutIs ==
  ASSUME NEW c, NEW n, NEW r, NEW o \in Out(c, n, r)
  PROVE  o.c = c /\ o.n = n /\ o.r = r
  BY DEF Out

\* What connection_set_state makes a handler return.
LEMMA GoIs ==
  ASSUME NEW c, NEW n, NEW s, NEW o \in Go(c, n, s)
  PROVE  o.c = [c EXCEPT !.st = s] /\ o.n = n /\ o.r = 0
  BY DEF Go, Out

\* connection_handle_request_start_state counts the request and waits for its header.
LEMMA RequestStartGood ==
  ASSUME NEW c, NEW n, Good(c, n), c.st = "REQUEST_START", NEW o \in RequestStart(c, n)
  PROVE  Good(o.c, o.n) /\ o.c.st = "READ"
  <1> DEFINE b == [c EXCEPT !.readAge = 0, !.reqCount = @ + 1]
             d == [b EXCEPT !.st = "READ"]
  <1>1. o.c = d /\ o.n = n
    <2>1. o \in Go(b, n, "READ") BY DEF RequestStart
    <2> HIDE DEF b
    <2> QED BY <2>1, GoIs
  <1>2. Typed(d) /\ d.st = "READ" BY DEF Good, Typed, Fields, States
  <1>3. Slot(d) /\ Course(d) BY DEF Good, Typed, Fields, Slot, Course, Clean, Waits, Answering, Answers
  <1>4. Aligned(d, n) BY DEF Good, Typed, Fields, Aligned, Waits, Stream, InService, Answering, Answers
  <1> HIDE DEF d
  <1> QED BY <1>1, <1>2, <1>3, <1>4 DEF Good

\* What http_response_backend_done changes: the status and the handler's claim, or the end.
LEMMA DoneTyped ==
  ASSUME NEW c, Typed(c)
  PROVE  /\ Typed(BackendDone(c)) /\ BackendDone(c).hctx = c.hctx
         /\ BackendDone(c).st = c.st /\ BackendDone(c).used = c.used /\ BackendDone(c).open = c.open
         /\ BackendDone(c).rq = c.rq /\ BackendDone(c).reqCount = c.reqCount
         /\ BackendDone(c).keep = c.keep /\ BackendDone(c).want = c.want
         /\ BackendDone(c).body = c.body /\ BackendDone(c).got = c.got
  <1> DEFINE d == [c EXCEPT !.status = 500, !.cgi = FALSE]
             e == [c EXCEPT !.fin = TRUE]
  <1>1. BackendDone(c) = d \/ BackendDone(c) = e \/ BackendDone(c) = c BY DEF BackendDone
  <1>2. Typed(d) BY DEF Typed, Fields
  <1>3. /\ d.hctx = c.hctx /\ d.st = c.st /\ d.used = c.used /\ d.open = c.open /\ d.rq = c.rq
        /\ d.reqCount = c.reqCount /\ d.keep = c.keep /\ d.want = c.want
        /\ d.body = c.body /\ d.got = c.got BY DEF Typed, Fields
  <1>4. Typed(e) BY DEF Typed, Fields
  <1>5. /\ e.hctx = c.hctx /\ e.st = c.st /\ e.used = c.used /\ e.open = c.open /\ e.rq = c.rq
        /\ e.reqCount = c.reqCount /\ e.keep = c.keep /\ e.want = c.want
        /\ e.body = c.body /\ e.got = c.got BY DEF Typed, Fields
  <1> HIDE DEF d, e
  <1> QED BY <1>1, <1>2, <1>3, <1>4, <1>5

\* plugins_call_connection_reset ends the script.
LEMMA PluginsResetTyped ==
  ASSUME NEW c, Typed(c)
  PROVE  /\ Typed(PluginsReset(c)) /\ PluginsReset(c).hctx = "none"
         /\ PluginsReset(c).st = c.st /\ PluginsReset(c).used = c.used /\ PluginsReset(c).open = c.open
         /\ PluginsReset(c).rq = c.rq /\ PluginsReset(c).reqCount = c.reqCount
         /\ PluginsReset(c).keep = c.keep /\ PluginsReset(c).want = c.want
         /\ PluginsReset(c).body = c.body /\ PluginsReset(c).got = c.got
  <1> DEFINE d == [c EXCEPT !.hctx = "none"]
             p == PluginsReset(c)
  <1>1. /\ Typed(d) /\ d.hctx = "none"
        /\ d.st = c.st /\ d.used = c.used /\ d.open = c.open /\ d.rq = c.rq /\ d.reqCount = c.reqCount
        /\ d.keep = c.keep /\ d.want = c.want
        /\ d.body = c.body /\ d.got = c.got BY DEF Typed, Fields
  <1>2. (p = c /\ c.hctx = "none") \/ p = d \/ p = BackendDone(d) BY DEF PluginsReset, CgiClose
  <1> HIDE DEF d, p
  <1>3. Typed(p) /\ p.hctx = "none" BY <1>1, <1>2, DoneTyped
  <1>4. /\ p.st = c.st /\ p.used = c.used /\ p.open = c.open /\ p.rq = c.rq /\ p.reqCount = c.reqCount
        /\ p.keep = c.keep /\ p.want = c.want
        /\ p.body = c.body /\ p.got = c.got BY <1>1, <1>2, DoneTyped
  <1> QED BY <1>3, <1>4 DEF p

\* connection_response_reset and connection_reset leave nothing of a request.
LEMMA ResetCleans ==
  ASSUME NEW c, Typed(c)
  PROVE  /\ Typed(Reset(c)) /\ Clean(Reset(c))
         /\ Reset(c).st = c.st /\ Reset(c).used = c.used /\ Reset(c).open = c.open
         /\ Reset(c).rq = c.rq /\ Reset(c).reqCount = c.reqCount
         /\ Reset(c).keep = c.keep /\ Reset(c).want = c.want
  <1> DEFINE p == PluginsReset(c)
             q == [p EXCEPT !.cgi = FALSE, !.status = 0, !.writable = 1, !.fin = FALSE, !.started = FALSE,
                            !.wq = 0]
             d == [q EXCEPT !.readable = 1, !.uri = FALSE, !.kind = NoKind, !.body = 0, !.got = 0,
                            !.cq = 0, !.saved = 0, !.pollin = FALSE]
  <1>1. /\ Typed(p) /\ p.hctx = "none"
        /\ p.st = c.st /\ p.used = c.used /\ p.open = c.open /\ p.rq = c.rq /\ p.reqCount = c.reqCount
        /\ p.keep = c.keep /\ p.want = c.want
    BY PluginsResetTyped
  <1>2. Reset(c) = d BY DEF Reset, ResponseReset
  <1> HIDE DEF p
  <1>3. Typed(q) BY <1>1 DEF Typed, Fields
  <1>4. /\ q.hctx = "none" /\ q.status = 0 /\ q.wq = 0 /\ ~q.fin /\ ~q.cgi
        /\ q.st = p.st /\ q.used = p.used /\ q.open = p.open /\ q.rq = p.rq /\ q.reqCount = p.reqCount
        /\ q.keep = p.keep /\ q.want = p.want
    BY <1>1 DEF Typed, Fields
  <1> HIDE DEF q
  <1>5. Typed(d) BY <1>3 DEF Typed, Fields, NoKind
  <1>6. /\ d.hctx = q.hctx /\ d.status = q.status /\ d.wq = q.wq /\ d.fin = q.fin /\ d.cgi = q.cgi
        /\ d.saved = 0 /\ d.body = 0 /\ d.got = 0 /\ d.cq = 0
        /\ d.st = q.st /\ d.used = q.used /\ d.open = q.open /\ d.rq = q.rq /\ d.reqCount = q.reqCount
        /\ d.keep = q.keep /\ d.want = q.want
    BY <1>3 DEF Typed, Fields
  <1> HIDE DEF d
  <1> QED BY <1>1, <1>2, <1>4, <1>5, <1>6 DEF Clean

-----------------------------------------------------------------------------
(* Reading                                                                  *)

\* What a read may bring: bytes that follow each other in the stream, or an end.
ReadTo(c, n, o) ==
  /\ Typed(o.c) /\ o.n \in NetType /\ Same(c, o.c) /\ o.c.want = c.want /\ o.n.peer = n.peer
  /\ Stream(o.c, o.n) = Stream(c, n) /\ o.r \in {-2, -1, 0}
  /\ o.r = -1 => o.c.st = "ERROR" /\ n.peer = "reset"
  /\ o.r # -1 => o.c.st = c.st

\* connection_read_cq moves bytes from the socket to the read queue, in their order.
LEMMA NetworkReads ==
  ASSUME NEW c, NEW n \in NetType, Typed(c), NEW o \in NetworkRead(c, n)
  PROVE  ReadTo(c, n, o) /\ (n.peer = "reset" => o.r = -1)
  <1> DEFINE k == Least(Len(n.sock), MemLen)
             a == [c EXCEPT !.readable = 0, !.st = "ERROR"]
             b == [c EXCEPT !.readable = 0]
             d == [c EXCEPT !.rq = @ \o SubSeq(n.sock, 1, k), !.readable = IF k = MemLen THEN @ ELSE 0]
             m == [n EXCEPT !.sock = SubSeq(@, k + 1, Len(@))]
             end == IF n.peer = "fin" THEN -2 ELSE 0
  <1>1. n.sock \in Seq(Tokens) /\ n.todo \in Seq(Tokens) /\ c.rq \in Seq(Tokens) BY DEF NetType, Typed
  <1>2. k \in 0 .. Len(n.sock) BY SMTT(40), <1>1, LenProperties, ConStateAssumption DEF Least
  <1>3. /\ c.rq \o SubSeq(n.sock, 1, k) \in Seq(Tokens) /\ SubSeq(n.sock, k + 1, Len(n.sock)) \in Seq(Tokens)
        /\ (c.rq \o SubSeq(n.sock, 1, k)) \o SubSeq(n.sock, k + 1, Len(n.sock)) \o n.todo
             = c.rq \o n.sock \o n.todo
    BY <1>1, <1>2, BytesMove
  <1>4. CASE n.peer = "reset"
    <2>1. o \in Out(a, n, -1) BY <1>4 DEF NetworkRead
    <2>2. Typed(a) /\ Same(c, a) /\ a.st = "ERROR" /\ a.rq = c.rq /\ a.want = c.want
      BY DEF Typed, Fields, Same, States
    <2> HIDE DEF a
    <2>3. o.c = a /\ o.n = n /\ o.r = -1 BY <2>1, OutIs
    <2> QED BY <1>4, <2>2, <2>3 DEF ReadTo, Stream
  <1>5. CASE n.peer # "reset" /\ k = 0
    <2>1. o \in Out(b, n, end) BY <1>5 DEF NetworkRead
    <2>2. Typed(b) /\ Same(c, b) /\ b.st = c.st /\ b.rq = c.rq /\ b.want = c.want BY DEF Typed, Fields, Same
    <2>3. end \in {-2, 0} OBVIOUS
    <2> HIDE DEF b, end
    <2>4. o.c = b /\ o.n = n /\ o.r = end BY <2>1, OutIs
    <2>5. Stream(o.c, o.n) = Stream(c, n) BY <2>2, <2>4 DEF Stream
    <2>6. o.r \in {-2, -1, 0} /\ o.r # -1 BY <2>3, <2>4
    <2> QED BY <1>5, <2>2, <2>4, <2>5, <2>6 DEF ReadTo
  <1>6. CASE n.peer # "reset" /\ k # 0
    <2>1. o \in Out(d, m, 0) BY <1>6 DEF NetworkRead
    <2> DEFINE q == c.rq \o SubSeq(n.sock, 1, k)
               t == SubSeq(n.sock, k + 1, Len(n.sock))
               r == IF k = MemLen THEN c.readable ELSE 0
    <2>2. q \in Seq(Tokens) /\ t \in Seq(Tokens) /\ q \o t \o n.todo = Stream(c, n)
      BY <1>3 DEF Stream
    <2>3. d = [c EXCEPT !.rq = q, !.readable = r] /\ m = [n EXCEPT !.sock = t] OBVIOUS
    <2>4. r \in Int BY DEF Typed
    <2> HIDE DEF q, t, r, d, m
    <2>5. Typed(d) /\ Same(c, d) /\ d.st = c.st /\ d.rq = q /\ d.want = c.want
      BY <2>2, <2>3, <2>4 DEF Typed, Fields, Same
    <2>6. m \in NetType /\ m.sock = t /\ m.todo = n.todo /\ m.peer = n.peer BY <2>2, <2>3 DEF NetType
    <2>7. o.c = d /\ o.n = m /\ o.r = 0 BY <2>1, OutIs
    <2>8. Stream(o.c, o.n) = Stream(c, n) BY <2>2, <2>5, <2>6, <2>7 DEF Stream
    <2>9. o.r \in {-2, -1, 0} /\ o.r # -1 BY <2>7
    <2> QED BY <1>6, <2>5, <2>6, <2>7, <2>8, <2>9 DEF ReadTo
  <1> QED BY <1>4, <1>5, <1>6

\* A connection that is not readable reads nothing.
LEMMA Reads ==
  ASSUME NEW c, NEW n \in NetType, Typed(c), NEW o \in ReadIfReadable(c, n)
  PROVE  ReadTo(c, n, o) /\ (n.peer = "reset" /\ c.readable = 1 => o.r = -1)
  <1> DEFINE d == [c EXCEPT !.readAge = 0]
  <1>1. CASE c.readable = 1
    <2>1. o \in NetworkRead(d, n) BY <1>1 DEF ReadIfReadable
    <2>2. Typed(d) /\ Same(c, d) /\ d.st = c.st /\ d.rq = c.rq /\ d.want = c.want BY DEF Typed, Fields, Same
    <2> HIDE DEF d
    <2>3. ReadTo(d, n, o) /\ (n.peer = "reset" => o.r = -1) BY <2>1, <2>2, NetworkReads
    <2> QED BY <2>2, <2>3 DEF ReadTo, Same, Stream
  <1>2. CASE c.readable # 1
    <2>1. o \in Out(c, n, 0) BY <1>2 DEF ReadIfReadable
    <2>2. o.c = c /\ o.n = n /\ o.r = 0 BY <2>1, OutIs
    <2> QED BY <1>2, <2>2 DEF ReadTo, Same
  <1> QED BY <1>1, <1>2

\* The number of a nonempty set of numbers that has none below it.
LEMMA HasSmallest ==
  ASSUME NEW T \in SUBSET Nat, T # {}
  PROVE  \E x \in T : \A y \in T : ~(y < x)
  <1> DEFINE R == OpToRel(<, Nat)
  <1>1. IsWellFoundedOn(R, Nat) BY NatLessThanWellFounded
  <1>2. \A x, y \in Nat : y < x => <<y, x>> \in R BY DEF OpToRel
  <1> HIDE DEF R
  <1>3. \E x \in T : \A y \in T : ~(<<y, x>> \in R) BY <1>1, WFMin
  <1> QED BY <1>2, <1>3

\* The header found by connection_handle_read_state is where the scan stopped.
LEMMA HeaderEnds ==
  ASSUME NEW q \in Seq(Tokens)
  PROVE  HeaderEnd(q) = 0 \/ (HeaderEnd(q) \in 1 .. Len(q) /\ q[HeaderEnd(q)] \in AllKinds)
  <1> DEFINE T == {i \in 1 .. Len(q) : q[i] \in AllKinds}
  <1>1. CASE T # {}
    <2>1. PICK x \in T : \A y \in T : ~(y < x)
      <3>1. T \in SUBSET Nat BY LenProperties
      <3> HIDE DEF T
      <3> QED BY <1>1, <3>1, HasSmallest
    <2>2. x \in 1 .. Len(q) /\ q[x] \in AllKinds /\ \A j \in 1 .. x - 1 : q[j] \notin AllKinds
      BY <2>1, LenProperties
    <2>3. HeaderEnd(q) \in 1 .. Len(q) /\ q[HeaderEnd(q)] \in AllKinds BY <2>2 DEF HeaderEnd
    <2> QED BY <2>3
  <1>2. CASE T = {} BY <1>2 DEF HeaderEnd
  <1> QED BY <1>1, <1>2

\* The parts of the stream are sequences of tokens.
LEMMA StreamParts ==
  ASSUME NEW a \in Seq(Tokens), NEW b \in Seq(Tokens), NEW d \in Seq(Tokens)
  PROVE  a \o b \o d = a \o (b \o d)
  BY ConcatAssociative

\* A header is taken where one begins, or refused; what comes after it is its own body.
LEMMA HeaderScanned ==
  ASSUME NEW c, NEW n, NEW closed, NEW o \in ScanHeader(c, n, closed), Good(c, n), c.st = "READ"
  PROVE  /\ Good(o.c, o.n) /\ o.n = n
         /\ o.c.st \in {"READ", "REQUEST_END", "HANDLE_REQUEST", "ERROR"}
         /\ o.c.st = "ERROR" => o.c.status = 0
         /\ o.c.used = c.used /\ o.r = 0
  <1> DEFINE e == HeaderEnd(c.rq)
             q == SubSeq(c.rq, e + 1, Len(c.rq))
             a == [c EXCEPT !.st = "REQUEST_END", !.kind = c.rq[e], !.rq = q]
             b == [c EXCEPT !.st = "ERROR"]
  <1> DEFINE Ok(d) ==
        /\ Good(d, n) /\ d.st \in {"READ", "REQUEST_END", "ERROR"}
        /\ d.st = "ERROR" => d.status = 0
        /\ d.used = c.used /\ Clean(d)
  <1>1. ASSUME e = 0 PROVE Ok(c) /\ Ok(b)
    <2>1. Ok(c) BY DEF Good, Course, Waits
    <2>2. Ok(b)
      <3>1. Typed(b) /\ b.st = "ERROR" BY DEF Good, Typed, Fields, States
      <3>2. Slot(b) /\ Course(b) /\ Clean(b) /\ b.used = c.used
        BY DEF Good, Typed, Fields, Slot, Course, Clean, Waits, Answering, Answers
      <3>3. Aligned(b, n) BY <3>1 DEF Aligned, Waits, InService, Answering, Answers
      <3> HIDE DEF b
      <3> QED BY <3>1, <3>2, <3>3 DEF Good, Clean
    <2> QED BY <2>1, <2>2
  <1>2. ASSUME e # 0 PROVE Ok(a)
    <2>1. c.rq \in Seq(Tokens) /\ n.sock \o n.todo \in Seq(Tokens)
          /\ n.sock \in Seq(Tokens) /\ n.todo \in Seq(Tokens)
      BY ConcatProperties DEF Good, Typed, NetType
    <2>2. e \in 1 .. Len(c.rq) /\ c.rq[e] \in AllKinds BY <1>2, <2>1, HeaderEnds
    <2>3. Framed("part", c.rq \o (n.sock \o n.todo), n.peer)
      BY ZenonT(40), <2>1, StreamParts DEF Good, Aligned, Waits, Stream
    <2> HIDE DEF e
    <2>4. q \in Seq(Tokens) /\ Framed(c.rq[e], q \o (n.sock \o n.todo), n.peer)
      BY <2>1, <2>2, <2>3, TokenTaken
    <2> HIDE DEF q
    <2>5. Framed(c.rq[e], q \o n.sock \o n.todo, n.peer) BY ZenonT(40), <2>1, <2>4, StreamParts
    <2>6. Typed(a) /\ a.st = "REQUEST_END" /\ a.kind = c.rq[e] /\ a.rq = q
      BY SMTT(40), <2>2, <2>4 DEF Good, Typed, Fields, States
    <2>7. Slot(a) /\ Course(a) /\ Clean(a) /\ a.used = c.used
      BY DEF Good, Typed, Fields, Slot, Course, Clean, Waits, Answering, Answers
    <2> HIDE DEF a
    <2>8. Aligned(a, n) BY <2>5, <2>6 DEF Aligned, Waits, InService, Answering, Answers, Stream
    <2> QED BY <2>6, <2>7, <2>8 DEF Good
  <1> DEFINE d == CASE e # 0 -> a [] e = 0 /\ closed -> b [] OTHER -> c
             f == [d EXCEPT !.status = 431, !.keep = FALSE]
             g == [f EXCEPT !.st = "HANDLE_REQUEST"]
  <1>3. o \in Go(f, n, "HANDLE_REQUEST") \/ o \in Out(d, n, 0) BY DEF ScanHeader
  <1>4. Ok(d) BY <1>1, <1>2
  <1> HIDE DEF e, q, a, b, d
  <1>5. CASE o \in Out(d, n, 0)
    <2>1. o.c = d /\ o.n = n /\ o.r = 0 BY <1>5, OutIs
    <2> QED BY <1>4, <2>1
  <1>6. CASE o \in Go(f, n, "HANDLE_REQUEST")
    <2> HIDE DEF f
    <2>1. o.c = g /\ o.n = n /\ o.r = 0 BY <1>6, GoIs
    <2> USE DEF f
    <2>2. Typed(g) /\ g.st = "HANDLE_REQUEST" /\ ~g.keep /\ g.used = c.used
      BY <1>4 DEF Good, Typed, Fields, States
    <2>3. g.hctx = d.hctx /\ g.open = d.open /\ g.used = d.used /\ g.got = d.got /\ g.body = d.body
      BY <1>4 DEF Good, Typed, Fields
    <2> HIDE DEF f, g
    <2>4. Slot(g) /\ Course(g)
      BY <1>4, <2>2, <2>3 DEF Good, Slot, Course, Clean, Waits, Answering, Answers
    <2>5. Aligned(g, n) BY <2>2 DEF Aligned, Waits
    <2> QED BY <1>4, <2>1, <2>2, <2>4, <2>5 DEF Good
  <1> QED BY <1>3, <1>5, <1>6

\* connection_handle_read_state takes a header with all of its bytes, or waits, or fails.
LEMMA ReadHeaderGood ==
  ASSUME NEW c, NEW n, Good(c, n), c.st = "READ", NEW o \in ReadHeader(c, n)
  PROVE  /\ Good(o.c, o.n) /\ o.n.peer = n.peer
         /\ o.c.st \in {"READ", "REQUEST_END", "HANDLE_REQUEST", "ERROR"}
         /\ o.c.st = "ERROR" => o.c.status = 0
         /\ o.c.used = c.used
         /\ n.peer = "reset" /\ c.readable = 1 => o.c.st = "ERROR"
  <1>1. PICK q \in ReadIfReadable(c, n) : o \in IF q.r = -1 THEN {q} ELSE ScanHeader(q.c, q.n, q.r = -2)
    BY DEF ReadHeader
  <1>2. Typed(c) /\ n \in NetType BY DEF Good
  <1>3. ReadTo(c, n, q) /\ (n.peer = "reset" /\ c.readable = 1 => q.r = -1) BY <1>1, <1>2, Reads
  <1>4. CASE q.r = -1
    <2>1. o = q BY <1>1, <1>4
    <2>2. Slot(q.c) /\ Course(q.c) /\ q.c.status = 0
      BY <1>3, <1>4 DEF Good, ReadTo, Same, Slot, Course, Clean, Waits, Answering, Answers
    <2>3. Aligned(q.c, q.n)
      BY <1>3, <1>4 DEF ReadTo, Aligned, Waits, InService, Answering, Answers
    <2> QED BY <1>3, <1>4, <2>1, <2>2, <2>3 DEF Good, ReadTo, Same
  <1>5. CASE q.r # -1
    <2>1. PICK closed : o \in ScanHeader(q.c, q.n, closed) BY <1>1, <1>5
    <2>2. Good(q.c, q.n) /\ q.c.st = "READ" /\ q.c.used = c.used /\ q.n.peer = n.peer
      BY <1>3, <1>5, SameIsGood DEF ReadTo, Same
    <2>3. /\ Good(o.c, o.n) /\ o.n = q.n
          /\ o.c.st \in {"READ", "REQUEST_END", "HANDLE_REQUEST", "ERROR"}
          /\ o.c.st = "ERROR" => o.c.status = 0
          /\ o.c.used = q.c.used /\ o.r = 0
      <3> DEFINE d == q.c
                 m == q.n
      <3>1. Good(d, m) BY <2>2
      <3>2. d.st = "READ" BY <2>2
      <3>3. o \in ScanHeader(d, m, closed) BY <2>1
      <3> HIDE DEF d, m
      <3>4. /\ Good(o.c, o.n) /\ o.n = m
            /\ o.c.st \in {"READ", "REQUEST_END", "HANDLE_REQUEST", "ERROR"}
            /\ o.c.st = "ERROR" => o.c.status = 0
            /\ o.c.used = d.used /\ o.r = 0
        BY <3>1, <3>2, <3>3, HeaderScanned
      <3> QED BY <3>4 DEF d, m
    <2> QED BY <1>3, <1>5, <2>2, <2>3
  <1> QED BY <1>4, <1>5

\* A request with a body goes on to read it.
LEMMA RequestEndGood ==
  ASSUME NEW c, NEW n, Good(c, n), c.st = "REQUEST_END", NEW o \in RequestEnd(c, n)
  PROVE  Good(o.c, o.n) /\ o.n = n /\ o.c.st \in {"READ_POST", "HANDLE_REQUEST"} /\ o.c.used = c.used
         /\ o.r = 0
  <1> DEFINE a == [c EXCEPT !.uri = TRUE]
             keep == a.kind \notin {"bad", "getclose"}
             status == IF a.kind = "bad" THEN 400 ELSE 0
             body == IF Bodied(a.kind) THEN 1 ELSE 0
             d == [a EXCEPT !.keep = keep, !.status = status, !.body = body]
             s == IF d.body # 0 THEN "READ_POST" ELSE "HANDLE_REQUEST"
             e == [d EXCEPT !.st = s]
  <1>1. o \in Go(d, n, s) BY DEF RequestEnd, ParseRequest
  <1>2. Typed(a) /\ Same(c, a) /\ a.st = c.st /\ a.rq = c.rq BY DEF Good, Typed, Fields, Same
  <1>3. /\ a.got = 0 /\ a.hctx = "none" /\ ~a.fin /\ (a.used <=> a.open) /\ a.used
        /\ Framed(a.kind, Stream(a, n), n.peer)
    BY <1>2 DEF Good, Same, Course, Clean, Slot, Aligned, Waits, Stream
  <1> HIDE DEF a
  <1>4. keep \in BOOLEAN /\ status \in Nat /\ body \in {0, 1} OBVIOUS
  <1>5. (body = 1) <=> Bodied(a.kind) OBVIOUS
  <1> HIDE DEF keep, status, body
  <1>6. /\ Typed(d) /\ d.body = body /\ d.got = a.got /\ d.hctx = a.hctx /\ d.fin = a.fin
        /\ d.used = a.used /\ d.open = a.open /\ d.rq = a.rq /\ d.kind = a.kind
    BY SMTT(40), <1>2, <1>4 DEF Typed, Fields
  <1> HIDE DEF d
  <1>7. s \in {"READ_POST", "HANDLE_REQUEST"} OBVIOUS
  <1> HIDE DEF s
  <1>8. o.c = e /\ o.n = n /\ o.r = 0 BY <1>1, GoIs
  <1>9. /\ Typed(e) /\ e.st = s /\ e.body = body /\ e.got = 0 /\ e.hctx = "none" /\ ~e.fin
        /\ e.used /\ e.open /\ e.rq = a.rq
    BY ZenonT(40), <1>3, <1>6, <1>7 DEF Typed, Fields, States
  <1> HIDE DEF e
  <1>10. Slot(e) /\ Course(e)
    BY <1>4, <1>7, <1>9 DEF Typed, Slot, Course, Waits, Answering, Answers
  <1>11. Framed(Due(e), Stream(e, n), n.peer)
    <2>1. Bodied(Due(e)) <=> Bodied(a.kind) BY <1>4, <1>5, <1>9 DEF Due, Bodied
    <2>2. Stream(e, n) = Stream(a, n) BY <1>9 DEF Stream
    <2> QED BY <1>3, <2>1, <2>2 DEF Framed
  <1>12. Aligned(e, n) BY <1>7, <1>9, <1>11 DEF Aligned, Waits
  <1> QED BY <1>2, <1>3, <1>7, <1>8, <1>9, <1>10, <1>12 DEF Good, Same

\* connection_close frees the slot.
LEMMA Closes ==
  ASSUME NEW c, NEW n, Typed(c), c.got <= c.body, c.body <= 1, NEW o \in CloseConnection(c, n)
  PROVE  /\ Good(o.c, o.n) /\ o.n = NoClient /\ o.c.st = "CONNECT" /\ ~o.c.used /\ o.r = 0
         /\ Clean(c) => Clean(o.c)
         /\ o.c.status = c.status
  <1> DEFINE left == c.missing \/ c.hctx # "none"
             d == [c EXCEPT !.open = FALSE, !.want = {}, !.missing = left,
                            !.hctx = "none", !.used = FALSE, !.st = "CONNECT"]
  <1>1. o \in Out(d, NoClient, 0) BY DEF CloseConnection
  <1>2. left \in BOOLEAN BY DEF Typed
  <1> HIDE DEF left
  <1>3. /\ Typed(d) /\ d.st = "CONNECT" /\ ~d.used /\ ~d.open /\ d.hctx = "none"
        /\ d.got = c.got /\ d.body = c.body /\ d.status = c.status
    BY <1>2 DEF Typed, Fields, States
  <1>4. d.saved = c.saved /\ d.wq = c.wq /\ d.fin = c.fin /\ d.cgi = c.cgi /\ d.cq = c.cq
    BY DEF Typed, Fields
  <1> HIDE DEF d
  <1>5. o.c = d /\ o.n = NoClient /\ o.r = 0 BY <1>1, OutIs
  <1>6. Slot(d) /\ Course(d) BY <1>3 DEF Typed, Slot, Course, Waits, Answering, Answers
  <1>7. Aligned(d, NoClient) BY <1>3 DEF Aligned, Waits, InService, Answering, Answers
  <1>8. NoClient \in NetType
    <2>1. 0 \in 0 .. SndBuf BY ConStateAssumption
    <2>2. <<>> \in Seq(Tokens) OBVIOUS
    <2> QED BY <2>1, <2>2 DEF NoClient, NetType
  <1> QED BY <1>3, <1>4, <1>5, <1>6, <1>7, <1>8 DEF Good, Clean

\* connection_handle_shutdown lingers, or closes at once when the peer has reset.
LEMMA ShutsDown ==
  ASSUME NEW c, NEW n \in NetType, Typed(c), c.used, c.open, NEW o \in Shutdown(c, n)
  PROVE  Good(o.c, o.n) /\ o.c.st \in {"CONNECT", "CLOSE"} /\ Clean(o.c) /\ o.r = 0
  <1> DEFINE r == Reset(c)
             a == [r EXCEPT !.closeAge = 0]
             d == [a EXCEPT !.st = "CLOSE"]
  <1>1. Typed(r) /\ Clean(r) /\ r.used /\ r.open BY ResetCleans
  <1>2. CASE n.peer = "reset"
    <2>1. o \in CloseConnection(r, n) BY <1>2 DEF Shutdown
    <2>2. r.got <= r.body /\ r.body <= 1 BY <1>1 DEF Clean
    <2> HIDE DEF r
    <2> QED BY <1>1, <2>1, <2>2, Closes
  <1>3. CASE n.peer # "reset"
    <2>1. o \in Go(a, n, "CLOSE") BY <1>3 DEF Shutdown
    <2> HIDE DEF r
    <2>2. Typed(a) /\ Clean(a) /\ a.used /\ a.open
      <3>1. Typed(r) BY <1>1
      <3>2. Typed(a) BY <3>1 DEF Typed, Fields
      <3>3. Same(r, a) BY <3>1 DEF Typed, Fields, Same
      <3> HIDE DEF a
      <3> QED BY <1>1, <3>2, <3>3 DEF Same, Clean
    <2> HIDE DEF a
    <2>3. Typed(d) /\ d.st = "CLOSE" /\ d.used /\ d.open /\ Clean(d)
      BY <2>2 DEF Typed, Fields, States, Clean
    <2>4. o.c = d /\ o.n = n /\ o.r = 0 BY <2>1, GoIs
    <2> HIDE DEF d
    <2>5. Slot(d) /\ Course(d) BY <2>3 DEF Typed, Slot, Course, Clean, Waits, Answering, Answers
    <2>6. Aligned(d, n) BY <2>3 DEF Aligned, Waits, InService, Answering, Answers
    <2> QED BY <2>3, <2>4, <2>5, <2>6 DEF Good
  <1> QED BY <1>2, <1>3

-----------------------------------------------------------------------------
(* A request in service                                                     *)

\* What reading a body leaves alone.
Served(c, d) ==
  /\ d.used = c.used /\ d.open = c.open /\ d.keep = c.keep /\ d.status = c.status /\ d.body = c.body
  /\ d.cgi = c.cgi /\ d.hctx = c.hctx /\ d.fin = c.fin

\* The body's piece in the queue is the request's own.
LEMMA PostRead ==
  ASSUME NEW c, NEW n, NEW o \in ReadPost(c, n), Typed(c), n \in NetType, c.got <= c.body, c.body <= 1,
         c.keep => Framed(Due(c), Stream(c, n), n.peer), c.st \in {"READ_POST", "HANDLE_REQUEST"}
  PROVE  /\ Typed(o.c) /\ o.n \in NetType /\ o.n.peer = n.peer /\ Served(c, o.c) /\ o.c.got <= o.c.body
         /\ o.c.keep => Framed(Due(o.c), Stream(o.c, o.n), o.n.peer)
         /\ o.r \in {"GO_ON", "WAIT", "ERROR"}
         /\ o.c.st \in {"READ_POST", "HANDLE_REQUEST"} \/ (o.c.st = "ERROR" /\ o.r = "ERROR")
  <1>1. PICK q \in ReadIfReadable(c, n) :
          o \in IF q.r = -1 THEN Out(q.c, q.n, "ERROR")
                ELSE LET k == Least(q.c.body - q.c.got, Len(q.c.rq))
                         d == [q.c EXCEPT !.got = @ + k, !.cq = @ + k, !.rq = SubSeq(@, k + 1, Len(@))]
                     IN IF d.got = d.body
                        THEN Out([d EXCEPT !.pollin = FALSE,
                                           !.st = IF @ = "READ_POST" THEN "HANDLE_REQUEST" ELSE @], q.n, "GO_ON")
                        ELSE IF q.r = -2 THEN Out(d, q.n, "ERROR")
                        ELSE Out([d EXCEPT !.pollin = TRUE], q.n, "WAIT")
    BY ZenonT(40) DEF ReadPost
  <1>2. ReadTo(c, n, q) BY <1>1, Reads
  <1> DEFINE x == q.c
             m == q.n
  <1>3. /\ Typed(x) /\ m \in NetType /\ m.peer = n.peer /\ Served(c, x) /\ x.got <= x.body /\ x.body <= 1
        /\ x.keep => Framed(Due(x), Stream(x, m), m.peer)
    BY <1>2 DEF ReadTo, Same, Served, Due
  <1>4. CASE q.r = -1
    <2>1. o \in Out(x, m, "ERROR") BY <1>1, <1>4
    <2>2. x.st = "ERROR" BY <1>2, <1>4 DEF ReadTo
    <2> HIDE DEF x, m
    <2>3. o.c = x /\ o.n = m /\ o.r = "ERROR" BY <2>1, OutIs
    <2> QED BY <1>3, <2>2, <2>3
  <1>5. CASE q.r # -1
    <2> DEFINE k == Least(x.body - x.got, Len(x.rq))
               t == SubSeq(x.rq, k + 1, Len(x.rq))
               d == [x EXCEPT !.got = @ + k, !.cq = @ + k, !.rq = t]
               s == IF d.st = "READ_POST" THEN "HANDLE_REQUEST" ELSE d.st
               a == [d EXCEPT !.pollin = FALSE, !.st = s]
               b == [d EXCEPT !.pollin = TRUE]
    <2>1. /\ o \in Out(a, m, "GO_ON") \/ o \in Out(d, m, "ERROR") \/ o \in Out(b, m, "WAIT")
      BY <1>1, <1>5
    <2>2. x.st \in {"READ_POST", "HANDLE_REQUEST"} BY <1>2, <1>5 DEF ReadTo
    <2> HIDE DEF x, m
    <2>3. x.rq \in Seq(Tokens) /\ x.got \in Nat /\ x.body \in Nat /\ x.cq \in Nat BY <1>3 DEF Typed
    <2>4. Len(x.rq) \in Nat BY <2>3, LenProperties
    <2>5. k \in {0, 1} /\ k <= Len(x.rq) /\ x.got + k <= x.body BY <1>3, <2>3, <2>4 DEF Least
    <2>6. k = 0 => t = x.rq BY <2>3, SubSeqFull
    <2>7. t \in Seq(Tokens)
      <3>1. \A i \in 1 .. Len(x.rq) : x.rq[i] \in Tokens BY <2>3, ElementOfSeq
      <3>2. \A i \in k + 1 .. Len(x.rq) : x.rq[i] \in Tokens BY <2>4, <2>5, <3>1
      <3> QED BY <2>4, <2>5, <3>2, SubSeqProperties
    <2> HIDE DEF k, t
    <2>8. Typed(d)
      <3> DEFINE g == x.got + k
                 z == x.cq + k
      <3>1. Typed(x) /\ g \in Nat /\ z \in Nat BY <1>3, <2>3, <2>5
      <3>2. d = [x EXCEPT !.got = g, !.cq = z, !.rq = t] OBVIOUS
      <3> HIDE DEF g, z, d
      <3> QED BY <2>7, <3>1, <3>2 DEF Typed, Fields
    <2>9. /\ Served(x, d) /\ d.got = x.got + k /\ d.rq = t /\ d.st = x.st
      BY <1>3 DEF Typed, Fields, Served
    <2> HIDE DEF d
    <2>10. x.keep => Framed(Due(d), Stream(d, m), m.peer)
      <3> SUFFICES ASSUME x.keep PROVE Framed(Due(d), Stream(d, m), m.peer) OBVIOUS
      <3>1. Framed(Due(x), Stream(x, m), m.peer) BY <1>3
      <3>2. CASE k = 0
        <4>1. Due(d) = Due(x) BY <2>3, <2>9, <3>2 DEF Due, Served
        <4>2. Stream(d, m) = Stream(x, m) BY <2>6, <2>9, <3>2 DEF Stream
        <4> QED BY <3>1, <4>1, <4>2
      <3>3. CASE k = 1
        <4>1. x.got = 0 /\ x.body = 1 BY <1>3, <2>3, <2>5, <3>3
        <4>2. Due(x) = "post" /\ Due(d) = "part" BY <2>9, <3>3, <4>1 DEF Due, Served
        <4> DEFINE u == m.sock \o m.todo
        <4>3. m.sock \in Seq(Tokens) /\ m.todo \in Seq(Tokens) BY <1>3 DEF NetType
        <4>4. u \in Seq(Tokens) BY <4>3, ConcatProperties
        <4>5. Framed("post", x.rq \o u, m.peer) BY <2>3, <3>1, <4>2, <4>3, StreamParts DEF Stream
        <4>6. 1 \in 1 .. Len(x.rq) BY <2>4, <2>5, <3>3
        <4>7. Framed(x.rq[1], t \o u, m.peer)
          <5>1. t = SubSeq(x.rq, 1 + 1, Len(x.rq)) BY <3>3 DEF t
          <5> HIDE DEF u
          <5> QED BY <2>3, <4>4, <4>5, <4>6, <5>1, TokenTaken
        <4>8. x.rq[1] = "body"
          <5> HIDE DEF u
          <5>1. /\ Len(x.rq \o u) = Len(x.rq) + Len(u) /\ Len(u) \in Nat
                /\ (x.rq \o u)[1] = x.rq[1]
            <6>1. Len(u) \in Nat BY <4>4, LenProperties
            <6>2. 1 \in 1 .. Len(x.rq) + Len(u) /\ 1 <= Len(x.rq) BY <2>4, <4>6, <6>1
            <6> QED BY <2>3, <4>4, <6>1, <6>2, ConcatProperties
          <5>2. x.rq \o u # <<>> BY <2>4, <4>6, <5>1
          <5> QED BY <4>5, <5>1, <5>2, KindsAreTokens DEF Framed
        <4>9. Framed("part", t \o u, m.peer) BY <4>7, <4>8, KindsAreTokens DEF Framed
        <4> QED BY <2>7, <2>9, <4>2, <4>3, <4>9, StreamParts DEF Stream
      <3> QED BY <2>5, <3>2, <3>3
    <2>11. s \in {"READ_POST", "HANDLE_REQUEST"} BY <2>2, <2>9
    <2> HIDE DEF s
    <2>12. Typed(a)
      <3>1. s \in States BY <2>11 DEF States
      <3> QED BY <2>8, <3>1 DEF Typed, Fields
    <2>13. Served(d, a) /\ a.got = d.got /\ a.rq = d.rq /\ a.st = s BY <2>8 DEF Typed, Fields, Served
    <2>14. Typed(b) BY <2>8 DEF Typed, Fields
    <2>15. Served(d, b) /\ b.got = d.got /\ b.rq = d.rq /\ b.st = d.st BY <2>8 DEF Typed, Fields, Served
    <2> HIDE DEF a, b
    <2>16. /\ \/ o.c = a /\ o.r = "GO_ON"
              \/ o.c = d /\ o.r = "ERROR"
              \/ o.c = b /\ o.r = "WAIT"
           /\ o.n = m
      BY <2>1, OutIs
    <2>17. ASSUME NEW y \in {a, b, d}
           PROVE  /\ Typed(y) /\ Served(d, y) /\ y.got = d.got /\ y.rq = d.rq
                  /\ y.st \in {"READ_POST", "HANDLE_REQUEST"}
      BY <2>2, <2>8, <2>9, <2>11, <2>12, <2>13, <2>14, <2>15 DEF Served
    <2>18. ASSUME NEW y \in {a, b, d}
           PROVE  /\ Served(c, y) /\ y.got <= y.body
                  /\ y.keep => Framed(Due(y), Stream(y, m), m.peer)
      <3>1. Due(y) = Due(d) /\ Stream(y, m) = Stream(d, m) BY <2>17 DEF Due, Stream, Served
      <3>2. y.keep = x.keep /\ y.got = x.got + k /\ y.body = x.body BY <2>9, <2>17 DEF Served
      <3>3. Served(c, y) BY <1>3, <2>9, <2>17 DEF Served
      <3> QED BY <2>5, <2>10, <3>1, <3>2, <3>3
    <2> QED BY <1>3, <2>16, <2>17, <2>18
  <1> QED BY <1>4, <1>5

\* A CGI request that mod_cgi_handle_subrequest is asked to go on with.
Asked(c, n) ==
  /\ Typed(c) /\ n \in NetType /\ c.used = TRUE /\ c.open = TRUE /\ c.cgi = TRUE
  /\ c.got <= c.body /\ c.body <= 1 /\ c.st \in {"READ_POST", "HANDLE_REQUEST"}
  /\ c.fin /\ c.keep => c.hctx = "none"
  /\ c.keep => Framed(Due(c), Stream(c, n), n.peer)

\* What http_response_prepare leaves, with its return value: once it has finished, no
\* script runs that would add to the answer.
Prepared(c, n, r) ==
  /\ Typed(c) /\ n \in NetType /\ c.used = TRUE /\ c.open = TRUE
  /\ c.got <= c.body /\ c.body <= 1 /\ r \in {"FINISHED", "WAIT", "ERROR"}
  /\ c.hctx = "run" => c.cgi /\ (c.fin => ~c.keep) /\ r # "FINISHED"
  /\ c.keep => Framed(Due(c), Stream(c, n), n.peer)
  /\ c.st \in {"READ_POST", "HANDLE_REQUEST"} \/ (c.st = "ERROR" /\ r = "ERROR")

\* cgi_handle_subrequest starts the script with the body that was read.
LEMMA ScriptStarts ==
  ASSUME NEW c, NEW n, NEW o \in StartCgi(c, n), Asked(c, n), c.hctx # "none"
  PROVE  Prepared(o.c, o.n, o.r)
  <1> DEFINE a == [c EXCEPT !.hctx = "run", !.cgiLeft = CgiLen, !.cq = 0]
             b(h) == [c EXCEPT !.hctx = h, !.status = 500, !.cgi = FALSE]
  <1>1. Typed(c) BY DEF Asked
  <1>2. CgiLen \in Nat BY ConStateAssumption
  <1>3. CASE o \in Out(a, n, "WAIT")
    <2>1. Typed(a) BY <1>1, <1>2 DEF Typed, Fields
    <2>2. /\ a.used = c.used /\ a.open = c.open /\ a.got = c.got /\ a.body = c.body /\ a.fin = c.fin
          /\ a.keep = c.keep /\ a.cgi = c.cgi /\ a.st = c.st /\ a.rq = c.rq
      BY <1>1 DEF Typed, Fields
    <2> HIDE DEF a
    <2>3. Due(a) = Due(c) /\ Stream(a, n) = Stream(c, n) BY <2>2 DEF Due, Stream
    <2>4. o.c = a /\ o.n = n /\ o.r = "WAIT" BY <1>3, OutIs
    <2> QED BY <2>1, <2>2, <2>3, <2>4 DEF Asked, Prepared
  <1>4. ASSUME NEW h \in {"new", "none"}, o \in Out(b(h), n, "FINISHED") PROVE Prepared(o.c, o.n, o.r)
    <2> DEFINE d == b(h)
    <2>1. Typed(d) BY <1>1 DEF Typed, Fields
    <2>2. /\ d.used = c.used /\ d.open = c.open /\ d.got = c.got /\ d.body = c.body
          /\ d.keep = c.keep /\ d.st = c.st /\ d.rq = c.rq /\ d.hctx = h
      BY <1>1 DEF Typed, Fields
    <2>3. o \in Out(d, n, "FINISHED") BY <1>4
    <2> HIDE DEF d
    <2>4. Due(d) = Due(c) /\ Stream(d, n) = Stream(c, n) BY <2>2 DEF Due, Stream
    <2>5. o.c = d /\ o.n = n /\ o.r = "FINISHED" BY <2>3, OutIs
    <2> QED BY <2>1, <2>2, <2>4, <2>5 DEF Asked, Prepared
  <1>5. CASE o \in Out(c, n, "WAIT") /\ c.hctx # "new"
    <2>1. o.c = c /\ o.n = n /\ o.r = "WAIT" BY <1>5, OutIs
    <2> QED BY <2>1, <1>5 DEF Asked, Prepared
  <1>6. \/ o \in Out(a, n, "WAIT")
        \/ \E h \in {"new", "none"} : o \in Out(b(h), n, "FINISHED")
        \/ o \in Out(c, n, "WAIT") /\ c.hctx # "new"
    BY DEF StartCgi
  <1> QED BY <1>3, <1>4, <1>5, <1>6

\* handle_subrequest of mod_cgi leaves the request as the state machine expects it.
LEMMA SubrequestPrepares ==
  ASSUME NEW c, NEW n, NEW o \in Subrequest(c, n), Asked(c, n)
  PROVE  Prepared(o.c, o.n, o.r)
  <1>1. CASE c.hctx = "none"
    <2>1. o \in Out(c, n, "FINISHED") BY <1>1 DEF Subrequest
    <2>2. o.c = c /\ o.n = n /\ o.r = "FINISHED" BY <2>1, OutIs
    <2> QED BY <1>1, <2>2 DEF Asked, Prepared
  <1>2. CASE c.hctx # "none" /\ c.got = c.body
    <2>1. o \in StartCgi(c, n) BY <1>2 DEF Subrequest
    <2> QED BY <1>2, <2>1, ScriptStarts
  <1>3. CASE c.hctx # "none" /\ c.got # c.body
    <2>1. PICK q \in ReadPost(c, n) :
            o \in CASE q.c.cq # 0 -> Out(q.c, q.n, IF q.r = "GO_ON" THEN "WAIT" ELSE q.r)
                    [] q.c.cq = 0 /\ q.r # "GO_ON" -> {q}
                    [] OTHER -> StartCgi(q.c, q.n)
      BY <1>3 DEF Subrequest
    <2> DEFINE x == q.c
               m == q.n
    <2>2. /\ Typed(x) /\ m \in NetType /\ m.peer = n.peer /\ Served(c, x) /\ x.got <= x.body
          /\ x.keep => Framed(Due(x), Stream(x, m), m.peer)
          /\ q.r \in {"GO_ON", "WAIT", "ERROR"}
          /\ x.st \in {"READ_POST", "HANDLE_REQUEST"} \/ (x.st = "ERROR" /\ q.r = "ERROR")
      BY PostRead DEF Asked
    <2>3. x.hctx # "none" /\ x.cgi = TRUE /\ x.used = TRUE /\ x.open = TRUE /\ (x.fin => ~x.keep) /\ x.body <= 1
      BY <1>3, <2>2 DEF Asked, Served
    <2>4. ASSUME NEW r, r = (IF q.r = "GO_ON" THEN "WAIT" ELSE q.r), o \in Out(x, m, r)
          PROVE  Prepared(o.c, o.n, o.r)
      <3>1. r \in {"WAIT", "ERROR"} /\ (q.r = "ERROR" => r = "ERROR") BY <2>2, <2>4
      <3> HIDE DEF x, m
      <3>2. o.c = x /\ o.n = m /\ o.r = r BY <2>4, OutIs
      <3> QED BY <2>2, <2>3, <3>1, <3>2 DEF Prepared
    <2>5. CASE o = q /\ q.r # "GO_ON"
      BY <2>2, <2>3, <2>5 DEF Prepared
    <2>6. CASE o \in StartCgi(x, m) /\ q.r = "GO_ON"
      <3> HIDE DEF x, m
      <3>1. Asked(x, m) BY <2>2, <2>3, <2>6 DEF Asked
      <3> QED BY <2>3, <2>6, <3>1, ScriptStarts
    <2> QED BY <2>1, <2>4, <2>5, <2>6
  <1> QED BY <1>1, <1>2, <1>3

\* A request in service, before it is handled once more.
LEMMA PrepareGood ==
  ASSUME NEW c, NEW n, NEW o \in Prepare(c, n), Good(c, n), c.st \in {"READ_POST", "HANDLE_REQUEST"}
  PROVE  Prepared(o.c, o.n, o.r)
  <1>1. /\ Typed(c) /\ n \in NetType /\ c.used = TRUE /\ c.open = TRUE /\ c.got <= c.body /\ c.body <= 1
        /\ c.keep => Framed(Due(c), Stream(c, n), n.peer)
    BY DEF Good, Slot, Course, Aligned, InService, Typed
  <1>2. /\ c.hctx = "run" => c.cgi /\ (c.fin => ~c.keep)
        /\ c.fin => ~c.keep \/ (c.cgi /\ c.hctx = "none")
    BY DEF Good, Course
  <1> DEFINE q == IF c.fin THEN c.wq ELSE 0
             a == [c EXCEPT !.wq = q]
             b == [c EXCEPT !.cgi = TRUE, !.hctx = "new"]
             d == [c EXCEPT !.status = 404]
             e == [c EXCEPT !.status = 200, !.wq = RespLen, !.fin = TRUE]
  <1>3. \/ ~c.cgi /\ o \in Out(a, n, "FINISHED")
        \/ c.cgi /\ o \in Subrequest(c, n)
        \/ ~c.cgi /\ o \in Subrequest(b, n)
        \/ ~c.cgi /\ o \in Out(d, n, "FINISHED")
        \/ ~c.cgi /\ o \in Out(e, n, "FINISHED")
    BY <1>1 DEF Prepare
  <1>4. CASE c.cgi /\ o \in Subrequest(c, n)
    <2>1. Asked(c, n) BY <1>1, <1>2, <1>4 DEF Asked, Typed
    <2> QED BY <1>4, <2>1, SubrequestPrepares
  <1>5. CASE ~c.cgi /\ o \in Subrequest(b, n)
    <2>1. Typed(b) BY <1>1 DEF Typed, Fields
    <2>2. /\ b.used = c.used /\ b.open = c.open /\ b.got = c.got /\ b.body = c.body /\ b.fin = c.fin
          /\ b.keep = c.keep /\ b.st = c.st /\ b.rq = c.rq /\ b.cgi = TRUE
      BY <1>1 DEF Typed, Fields
    <2> HIDE DEF b
    <2>3. Due(b) = Due(c) /\ Stream(b, n) = Stream(c, n) BY <2>2 DEF Due, Stream
    <2>4. Asked(b, n) BY <1>1, <1>2, <1>5, <2>1, <2>2, <2>3 DEF Asked
    <2> QED BY <1>5, <2>4, SubrequestPrepares
  <1>6. ASSUME NEW x \in {a, d, e}, ~c.cgi, o \in Out(x, n, "FINISHED") PROVE Prepared(o.c, o.n, o.r)
    <2>1. q \in Nat /\ RespLen \in Nat BY <1>1, ConStateAssumption DEF Typed
    <2> HIDE DEF q
    <2>2. Typed(a) BY <1>1, <2>1 DEF Typed, Fields
    <2>3. Typed(d) BY <1>1 DEF Typed, Fields
    <2>4. Typed(e) BY <1>1, <2>1 DEF Typed, Fields
    <2>5. /\ a.used = c.used /\ a.open = c.open /\ a.got = c.got /\ a.body = c.body /\ a.hctx = c.hctx
          /\ a.keep = c.keep /\ a.st = c.st /\ a.rq = c.rq
      BY <1>1 DEF Typed, Fields
    <2>6. /\ d.used = c.used /\ d.open = c.open /\ d.got = c.got /\ d.body = c.body /\ d.hctx = c.hctx
          /\ d.keep = c.keep /\ d.st = c.st /\ d.rq = c.rq
      BY <1>1 DEF Typed, Fields
    <2>7. /\ e.used = c.used /\ e.open = c.open /\ e.got = c.got /\ e.body = c.body /\ e.hctx = c.hctx
          /\ e.keep = c.keep /\ e.st = c.st /\ e.rq = c.rq
      BY <1>1 DEF Typed, Fields
    <2> HIDE DEF a, d, e
    <2>8. /\ Typed(x) /\ x.used = c.used /\ x.open = c.open /\ x.got = c.got /\ x.body = c.body
          /\ x.hctx = c.hctx /\ x.keep = c.keep /\ x.st = c.st /\ x.rq = c.rq
      BY <1>6, <2>2, <2>3, <2>4, <2>5, <2>6, <2>7
    <2>9. Due(x) = Due(c) /\ Stream(x, n) = Stream(c, n) BY <2>8 DEF Due, Stream
    <2>10. o.c = x /\ o.n = n /\ o.r = "FINISHED" BY <1>6, OutIs
    <2> QED BY <1>1, <1>2, <1>6, <2>8, <2>9, <2>10 DEF Prepared
  <1> QED BY <1>3, <1>4, <1>5, <1>6

\* An outcome that is known is answered, or goes to the error handler without its body.
LEMMA AnsweredGood ==
  ASSUME NEW c, NEW n, NEW r, NEW o \in Answered(c, n), Prepared(c, n, r), r = "FINISHED" \/ (r = "WAIT" /\ c.fin)
  PROVE  /\ Good(o.c, o.n) /\ o.n = n
         /\ o.c.st \in {"READ_POST", "HANDLE_REQUEST", "RESPONSE_START"} /\ o.c.used = c.used
  <1>1. /\ Typed(c) /\ n \in NetType /\ c.used = TRUE /\ c.open = TRUE /\ c.got <= c.body /\ c.body <= 1
        /\ c.hctx = "run" => c.cgi /\ ~c.keep
        /\ c.keep => Framed(Due(c), Stream(c, n), n.peer)
        /\ c.st \in {"READ_POST", "HANDLE_REQUEST"}
    BY DEF Prepared
  <1> DEFINE p == PluginsReset(c)
             keep == p.keep /\ p.body = p.got
             v == c.status
             a == [p EXCEPT !.saved = v, !.status = 0, !.kind = "get", !.writable = 1,
                            !.fin = FALSE, !.started = FALSE, !.wq = 0]
             b == [a EXCEPT !.keep = keep, !.body = 0, !.got = 0, !.cq = 0]
             s == CASE ~c.cgi /\ c.saved # 0 -> c.saved
                    [] (c.cgi \/ c.saved = 0) /\ c.status = 0 -> 200
                    [] OTHER -> c.status
             d == [c EXCEPT !.status = s]
             e == [d EXCEPT !.st = "RESPONSE_START"]
  <1>2. o \in Out(b, n, -1) \/ o \in Go(d, n, "RESPONSE_START") BY DEF Answered
  <1>3. CASE o \in Out(b, n, -1)
    <2>1. /\ Typed(p) /\ p.hctx = "none" /\ p.st = c.st /\ p.used = c.used /\ p.open = c.open
          /\ p.rq = c.rq /\ p.keep = c.keep /\ p.body = c.body /\ p.got = c.got
      BY <1>1, PluginsResetTyped
    <2>2. v \in Nat /\ "get" \in AllKinds BY <1>1 DEF Typed, AllKinds
    <2>3. keep \in BOOLEAN /\ (keep => c.keep /\ c.body = c.got) BY <1>1, <2>1 DEF Typed
    <2> HIDE DEF p, keep, v
    <2>4. Typed(a) BY SMTT(40), <2>1, <2>2 DEF Typed, Fields
    <2>5. a.hctx = p.hctx /\ a.st = p.st /\ a.used = p.used /\ a.open = p.open /\ a.rq = p.rq /\ a.fin = FALSE
      BY <2>1 DEF Typed, Fields
    <2> HIDE DEF a
    <2>6. Typed(b) BY <2>3, <2>4 DEF Typed, Fields
    <2>7. /\ b.hctx = a.hctx /\ b.st = a.st /\ b.used = a.used /\ b.open = a.open /\ b.rq = a.rq
          /\ b.fin = a.fin /\ b.keep = keep /\ b.body = 0 /\ b.got = 0
      BY <2>4 DEF Typed, Fields
    <2> HIDE DEF b
    <2>8. o.c = b /\ o.n = n BY <1>3, OutIs
    <2>9. Slot(b) /\ Course(b)
      <3>1. /\ b.hctx = "none" /\ b.st \in {"READ_POST", "HANDLE_REQUEST"} /\ b.used = TRUE /\ b.open = TRUE
            /\ b.fin = FALSE /\ b.body = 0 /\ b.got = 0
        BY <1>1, <2>1, <2>5, <2>7
      <3>2. Slot(b) BY <3>1 DEF Slot
      <3>3. b.got <= b.body /\ b.body <= 1 /\ ~Answering(b) /\ ~b.fin /\ b.hctx # "run"
        BY <3>1 DEF Answering, Answers
      <3>4. b.st \notin Waits \cup {"REQUEST_END"} BY <3>1 DEF Waits
      <3>5. Course(b) BY <3>1, <3>3, <3>4 DEF Course
      <3> QED BY <3>2, <3>5
    <2>10. keep => Framed(Due(b), Stream(b, n), n.peer)
      <3>1. keep => Due(c) = "part" BY <2>3 DEF Due
      <3>2. Due(b) = "part" BY <2>7 DEF Due
      <3>3. Stream(b, n) = Stream(c, n) BY <2>1, <2>5, <2>7 DEF Stream
      <3> QED BY <1>1, <2>3, <3>1, <3>2, <3>3
    <2>11. Aligned(b, n)
      BY <1>1, <2>1, <2>5, <2>7, <2>10 DEF Aligned, Waits
    <2> QED BY <1>1, <2>1, <2>5, <2>6, <2>7, <2>8, <2>9, <2>11 DEF Good
  <1>4. CASE o \in Go(d, n, "RESPONSE_START")
    <2>1. s \in Nat /\ s # 0 BY <1>1 DEF Typed
    <2> HIDE DEF s
    <2>2. Typed(d) BY <1>1, <2>1 DEF Typed, Fields
    <2>3. Typed(e) BY <1>1, <2>1 DEF Typed, Fields, States
    <2>4. /\ e.hctx = c.hctx /\ e.st = "RESPONSE_START" /\ e.used = c.used /\ e.open = c.open /\ e.rq = c.rq
          /\ e.fin = c.fin /\ e.keep = c.keep /\ e.body = c.body /\ e.got = c.got /\ e.cgi = c.cgi
          /\ e.status = s
      BY <1>1 DEF Typed, Fields
    <2> HIDE DEF d
    <2>5. o.c = e /\ o.n = n BY <1>4, GoIs
    <2> HIDE DEF e
    <2>6. Slot(e) /\ Course(e)
      BY <1>1, <2>1, <2>4 DEF Slot, Course, Waits, Answering, Answers
    <2>7. Due(e) = Due(c) /\ Stream(e, n) = Stream(c, n) BY <2>4 DEF Due, Stream
    <2>8. Aligned(e, n) BY <1>1, <2>4, <2>7 DEF Aligned, Waits
    <2> QED BY <1>1, <2>3, <2>4, <2>5, <2>6, <2>8 DEF Good
  <1> QED BY <1>2, <1>3, <1>4

\* connection_handle_handle_request_state: an answer is begun, or the request waits or fails.
LEMMA HandleRequestGood ==
  ASSUME NEW c, NEW n, NEW o \in HandleRequest(c, n), Good(c, n),
         c.st \in {"READ_POST", "HANDLE_REQUEST"}
  PROVE  /\ Good(o.c, o.n) /\ o.c.used = c.used
         /\ o.c.st \in {"READ_POST", "HANDLE_REQUEST", "RESPONSE_START", "ERROR"}
  <1>1. PICK q \in Prepare(c, n) :
          o \in CASE q.r = "FINISHED" -> Answered(q.c, q.n)
                  [] q.r = "WAIT" -> IF q.c.fin THEN Answered(q.c, q.n) ELSE Out(q.c, q.n, 0)
                  [] q.r = "ERROR" -> Go(q.c, q.n, "ERROR")
    BY DEF HandleRequest
  <1> DEFINE x == q.c
             m == q.n
             r == q.r
             e == [x EXCEPT !.st = "ERROR"]
  <1>2. Prepared(x, m, r) BY PrepareGood
  <1>3. \/ o \in Answered(x, m) /\ (r = "FINISHED" \/ (r = "WAIT" /\ x.fin))
        \/ o \in Out(x, m, 0) /\ r = "WAIT" /\ ~x.fin
        \/ o \in Go(x, m, "ERROR") /\ r = "ERROR"
    BY <1>1, <1>2 DEF Prepared
  <1> HIDE DEF x, m, r
  <1>7. c.used = TRUE BY DEF Good, Slot, Typed
  <1>4. CASE o \in Answered(x, m) /\ (r = "FINISHED" \/ (r = "WAIT" /\ x.fin))
    <2>1. Good(o.c, o.n) /\ o.c.used = x.used BY <1>2, <1>4, AnsweredGood
    <2>2. o.c.st \in {"READ_POST", "HANDLE_REQUEST", "RESPONSE_START"} BY <1>2, <1>4, AnsweredGood
    <2> QED BY <1>2, <2>1, <2>2, <1>7 DEF Prepared
  <1>5. CASE o \in Out(x, m, 0) /\ r = "WAIT" /\ ~x.fin
    <2>1. o.c = x /\ o.n = m BY <1>5, OutIs
    <2>2. x.st \in {"READ_POST", "HANDLE_REQUEST"} BY <1>2, <1>5 DEF Prepared
    <2>3. Slot(x) /\ Course(x) BY <1>2, <1>5, <2>2 DEF Prepared, Slot, Course, Waits, Answering, Answers
    <2>4. Aligned(x, m) BY <1>2, <2>2 DEF Prepared, Aligned, Waits
    <2> QED BY <1>2, <2>1, <2>2, <2>3, <2>4, <1>7 DEF Good, Prepared
  <1>6. CASE o \in Go(x, m, "ERROR") /\ r = "ERROR"
    <2>1. Typed(x) BY <1>2 DEF Prepared
    <2>2. Typed(e) BY <2>1 DEF Typed, Fields, States
    <2>3. /\ e.st = "ERROR" /\ e.used = x.used /\ e.open = x.open /\ e.hctx = x.hctx /\ e.got = x.got
          /\ e.body = x.body /\ e.cgi = x.cgi /\ e.fin = x.fin /\ e.keep = x.keep
      BY <2>1 DEF Typed, Fields
    <2>4. o.c = e /\ o.n = m BY <1>6, GoIs
    <2> HIDE DEF e
    <2>5. Slot(e) /\ Course(e) BY <1>2, <2>3 DEF Prepared, Slot, Course, Waits, Answering, Answers
    <2>6. Aligned(e, m) BY <2>3 DEF Aligned, Waits, InService, Answering, Answers
    <2> QED BY <1>2, <2>2, <2>3, <2>4, <2>5, <2>6, <1>7 DEF Good, Prepared
  <1> QED BY <1>3, <1>4, <1>5, <1>6

\* The header is queued, with or without an error's document; a connection is kept only
\* if it was going to be.
LEMMA ResponseStartGood ==
  ASSUME NEW c, NEW n, NEW o \in ResponseStart(c, n), Good(c, n), c.st = "RESPONSE_START"
  PROVE  Good(o.c, o.n) /\ o.c.st = "WRITE" /\ o.c.used = c.used
  <1> DEFINE p == WritePrepare(c)
             q == p.wq + 1
             k == p.keep /\ p.reqCount <= MaxKeepAlive
             d == [p EXCEPT !.wq = q, !.keep = k]
             e == [d EXCEPT !.st = "WRITE"]
             a == [c EXCEPT !.wq = 1, !.fin = TRUE]
  <1>1. Typed(c) /\ n \in NetType BY DEF Good
  <1>2. p = c \/ p = a BY DEF WritePrepare
  <1>3. Typed(a) BY <1>1 DEF Typed, Fields
  <1>4. /\ a.used = c.used /\ a.open = c.open /\ a.hctx = c.hctx /\ a.got = c.got /\ a.body = c.body
        /\ a.cgi = c.cgi /\ a.keep = c.keep /\ a.status = c.status /\ a.rq = c.rq
    BY <1>1 DEF Typed, Fields
  <1> HIDE DEF a
  <1>5. o \in Go(d, n, "WRITE") BY DEF ResponseStart, WriteHeader
  <1> HIDE DEF p
  <1>6. /\ Typed(p)
        /\ p.used = c.used /\ p.open = c.open /\ p.hctx = c.hctx /\ p.got = c.got /\ p.body = c.body
        /\ p.cgi = c.cgi /\ p.keep = c.keep /\ p.status = c.status /\ p.rq = c.rq
    BY <1>1, <1>2, <1>3, <1>4
  <1>7. q \in Nat /\ k \in BOOLEAN /\ (k => c.keep) BY SMTT(40), <1>6 DEF Typed
  <1> HIDE DEF q, k
  <1>8. Typed(d)
    <2>1. Typed(p) /\ q \in Nat /\ k \in BOOLEAN BY <1>6, <1>7
    <2> QED BY <2>1 DEF Typed, Fields
  <1>9. /\ d.used = p.used /\ d.open = p.open /\ d.hctx = p.hctx /\ d.got = p.got /\ d.body = p.body
        /\ d.cgi = p.cgi /\ d.keep = k /\ d.status = p.status /\ d.rq = p.rq
    BY <1>6 DEF Typed, Fields
  <1> HIDE DEF d
  <1>10. Typed(e) BY <1>8 DEF Typed, Fields, States
  <1>11. /\ e.used = d.used /\ e.open = d.open /\ e.hctx = d.hctx /\ e.got = d.got /\ e.body = d.body
         /\ e.cgi = d.cgi /\ e.keep = d.keep /\ e.status = d.status /\ e.rq = d.rq /\ e.st = "WRITE"
    BY <1>8 DEF Typed, Fields
  <1>12. o.c = e /\ o.n = n BY <1>5, GoIs
  <1> HIDE DEF e
  <1>13. Slot(e) BY <1>6, <1>9, <1>11 DEF Good, Slot
  <1>14. Course(e)
    <2>1. c.got <= c.body /\ c.body <= 1 /\ c.status # 0 /\ (c.hctx = "run" => c.cgi /\ ~c.keep)
      BY DEF Good, Course, Answering, Answers
    <2> QED BY <1>6, <1>7, <1>9, <1>11, <2>1 DEF Course, Waits, Answering, Answers
  <1>15. Aligned(e, n)
    <2>1. c.keep => Framed(Due(c), Stream(c, n), n.peer) BY DEF Good, Aligned, InService, Answering, Answers
    <2>2. Due(e) = Due(c) /\ Stream(e, n) = Stream(c, n) BY <1>6, <1>9, <1>11 DEF Due, Stream
    <2> QED BY <1>7, <1>9, <1>11, <2>1, <2>2 DEF Aligned, Waits
  <1> QED BY <1>1, <1>6, <1>9, <1>10, <1>11, <1>12, <1>13, <1>14, <1>15 DEF Good

-----------------------------------------------------------------------------
(* Writing                                                                  *)

\* An answer that is being written, as a run or an event finds it.
Replying(c, n) ==
  Good(c, n) /\ Answering(c) /\ c.used = TRUE /\ c.st = "WRITE"

\* What the socket, the buffer or a limit leaves alone of an answer.
Replies(c, n, d, m) ==
  /\ Typed(d) /\ m \in NetType
  /\ d.used = c.used /\ d.open = c.open /\ d.hctx = c.hctx /\ d.got = c.got /\ d.body = c.body
  /\ d.cgi = c.cgi /\ d.fin = c.fin /\ d.keep = c.keep /\ d.status = c.status /\ d.rq = c.rq
  /\ m.sock = n.sock /\ m.todo = n.todo /\ m.peer = n.peer
  /\ \/ d.st = c.st
     \/ d.st = "RESPONSE_END" /\ d.fin /\ d.wq = 0
     \/ d.st = "ERROR"

\* An answer that goes on keeps the connection good.
LEMMA RepliesOn ==
  ASSUME NEW c, NEW n, NEW d, NEW m, Replying(c, n), Replies(c, n, d, m)
  PROVE  Good(d, m)
  <1>1. /\ c.got <= c.body /\ c.body <= 1 /\ c.status # 0 /\ (c.hctx = "run" => c.cgi /\ ~c.keep)
        /\ c.keep => Framed(Due(c), Stream(c, n), n.peer)
        /\ c.open = TRUE /\ c.used = TRUE
    BY DEF Replying, Good, Slot, Course, Aligned, InService, Typed
  <1>2. d.st \in {"WRITE", "ERROR", "CLOSE", "RESPONSE_END"} BY DEF Replying, Replies
  <1>3. Slot(d) BY <1>1, <1>2 DEF Slot, Replies
  <1>4. Due(d) = Due(c) /\ Stream(d, m) = Stream(c, n) BY DEF Due, Stream, Replies
  <1>5. d.st \notin Waits \cup {"REQUEST_END"} /\ d.st \notin {"READ_POST", "HANDLE_REQUEST"}
    BY <1>2 DEF Waits
  <1>6. Course(d)
    <2>1. d.got <= d.body /\ d.body <= 1 /\ d.status # 0 /\ (d.hctx = "run" => d.cgi /\ ~d.keep)
      BY <1>1 DEF Replies
    <2>2. d.st = "RESPONSE_END" => d.fin /\ d.wq = 0 BY DEF Replies, Replying
    <2> QED BY <1>5, <2>1, <2>2 DEF Course
  <1>7. d.keep => Framed(Due(d), Stream(d, m), m.peer) BY <1>1, <1>4 DEF Replies
  <1>8. Aligned(d, m) BY <1>5, <1>7 DEF Aligned
  <1> QED BY <1>3, <1>6, <1>8 DEF Good, Replies

\* The loop's condition: there is more to do at once.
Again(d) == d.st = "WRITE" /\ (IF d.wq # 0 THEN d.writable = 1 ELSE d.fin)

\* connection_handle_write leaves the socket full, the answer unfinished, or the state.
LEMMA HandleWriteReplies ==
  ASSUME NEW c, NEW n, NEW o \in HandleWrite(c, n), Typed(c), n \in NetType, c.wq # 0
  PROVE  Replies(c, n, o.c, o.n) /\ ~Again(o.c)
  <1> DEFINE k == Least(c.wq, SndBuf - n.snd)
             d == [c EXCEPT !.wq = @ - k]
             m == [n EXCEPT !.snd = @ + k]
             a == [c EXCEPT !.st = "ERROR"]
             x == [d EXCEPT !.writable = 0, !.writeAge = 0]
             s == IF d.fin THEN "RESPONSE_END" ELSE d.st
             y == [d EXCEPT !.writeAge = 0, !.st = s]
             l == [c EXCEPT !.limited = TRUE, !.writable = 0, !.writeAge = 0]
  <1>1. \/ o \in Go(c, n, "ERROR")
        \/ d.wq # 0 /\ o \in Out(x, m, 0)
        \/ d.wq = 0 /\ o \in Out(y, m, 0)
        \/ o \in Out(l, n, 0)
    BY DEF HandleWrite
  <1>2. c.wq \in Nat /\ n.snd \in 0 .. SndBuf /\ SndBuf \in Nat BY ConStateAssumption DEF Typed, NetType
  <1>3. k \in Nat /\ k <= c.wq /\ k <= SndBuf - n.snd BY <1>2 DEF Least
  <1> HIDE DEF k
  <1>4. m \in NetType /\ m.sock = n.sock /\ m.todo = n.todo /\ m.peer = n.peer
    <2> DEFINE v == n.snd + k
    <2>1. v \in 0 .. SndBuf BY <1>2, <1>3
    <2> HIDE DEF v
    <2>2. m = [n EXCEPT !.snd = v] BY DEF v
    <2> HIDE DEF m
    <2> QED BY <2>1, <2>2 DEF NetType
  <1>5. Typed(d)
    <2> DEFINE v == c.wq - k
    <2>1. v \in Nat BY <1>2, <1>3
    <2>2. d = [c EXCEPT !.wq = v] OBVIOUS
    <2> HIDE DEF v, d
    <2> QED BY <2>1, <2>2 DEF Typed, Fields
  <1>6. /\ d.used = c.used /\ d.open = c.open /\ d.hctx = c.hctx /\ d.got = c.got /\ d.body = c.body
        /\ d.cgi = c.cgi /\ d.fin = c.fin /\ d.keep = c.keep /\ d.status = c.status /\ d.rq = c.rq
        /\ d.st = c.st
    BY DEF Typed, Fields
  <1> HIDE DEF d, m
  <1>7. CASE o \in Go(c, n, "ERROR")
    <2>1. Typed(a) BY DEF Typed, Fields, States
    <2>2. /\ a.used = c.used /\ a.open = c.open /\ a.hctx = c.hctx /\ a.got = c.got /\ a.body = c.body
          /\ a.cgi = c.cgi /\ a.fin = c.fin /\ a.keep = c.keep /\ a.status = c.status /\ a.rq = c.rq
          /\ a.st = "ERROR"
      BY DEF Typed, Fields
    <2>3. o.c = a /\ o.n = n BY <1>7, GoIs
    <2> HIDE DEF a
    <2> QED BY <2>1, <2>2, <2>3 DEF Replies, Again
  <1>8. CASE d.wq # 0 /\ o \in Out(x, m, 0)
    <2>1. Typed(x) BY <1>5 DEF Typed, Fields
    <2>2. /\ x.used = d.used /\ x.open = d.open /\ x.hctx = d.hctx /\ x.got = d.got /\ x.body = d.body
          /\ x.cgi = d.cgi /\ x.fin = d.fin /\ x.keep = d.keep /\ x.status = d.status /\ x.rq = d.rq
          /\ x.st = d.st /\ x.wq = d.wq /\ x.writable = 0
      BY <1>5 DEF Typed, Fields
    <2> HIDE DEF x
    <2>3. o.c = x /\ o.n = m BY <1>8, OutIs
    <2> QED BY <1>4, <1>6, <1>8, <2>1, <2>2, <2>3 DEF Replies, Again
  <1>9. CASE d.wq = 0 /\ o \in Out(y, m, 0)
    <2>1. s \in States /\ ((s = d.st /\ ~d.fin) \/ (s = "RESPONSE_END" /\ d.fin)) BY <1>5 DEF Typed, States
    <2> HIDE DEF s
    <2>2. Typed(y) BY <1>5, <2>1 DEF Typed, Fields
    <2>3. /\ y.used = d.used /\ y.open = d.open /\ y.hctx = d.hctx /\ y.got = d.got /\ y.body = d.body
          /\ y.cgi = d.cgi /\ y.fin = d.fin /\ y.keep = d.keep /\ y.status = d.status /\ y.rq = d.rq
          /\ y.st = s /\ y.wq = d.wq
      BY <1>5 DEF Typed, Fields
    <2> HIDE DEF y
    <2>4. o.c = y /\ o.n = m BY <1>9, OutIs
    <2> QED BY <1>4, <1>6, <1>9, <2>1, <2>2, <2>3, <2>4 DEF Replies, Again
  <1>10. CASE o \in Out(l, n, 0)
    <2>1. Typed(l) BY DEF Typed, Fields
    <2>2. /\ l.used = c.used /\ l.open = c.open /\ l.hctx = c.hctx /\ l.got = c.got /\ l.body = c.body
          /\ l.cgi = c.cgi /\ l.fin = c.fin /\ l.keep = c.keep /\ l.status = c.status /\ l.rq = c.rq
          /\ l.st = c.st /\ l.wq = c.wq /\ l.writable = 0
      BY DEF Typed, Fields
    <2> HIDE DEF l
    <2>3. o.c = l /\ o.n = n BY <1>10, OutIs
    <2> QED BY <2>1, <2>2, <2>3 DEF Replies, Again
  <1> QED BY <1>1, <1>7, <1>8, <1>9, <1>10

\* A turn of the loop of connection_handle_write_state.
LEMMA WriteTurnReplies ==
  ASSUME NEW c, NEW n, NEW o \in WriteTurn(c, n), Typed(c), n \in NetType
  PROVE  Replies(c, n, o.c, o.n) /\ o.r # 1
  <1> DEFINE first == IF c.wq # 0 THEN (IF c.writable = 1 THEN HandleWrite(c, n) ELSE Out(c, n, 0))
                      ELSE IF c.fin THEN Go(c, n, "RESPONSE_END") ELSE Out(c, n, 0)
             e == [c EXCEPT !.st = "RESPONSE_END"]
  <1>1. PICK q \in first : o = [q EXCEPT !.r = IF Again(q.c) THEN 1 ELSE 0] BY DEF WriteTurn, Again
  <1>2. /\ "c" \in DOMAIN q /\ "n" \in DOMAIN q /\ "r" \in DOMAIN q
    <2>1. \A x, m, r : \A p \in Out(x, m, r) : p = [c |-> x, n |-> m, r |-> r] BY DEF Out
    <2>2. \/ q \in HandleWrite(c, n) \/ q \in Out(c, n, 0) \/ q \in Out(e, n, 0) BY <1>1 DEF Go
    <2>3. q \in HandleWrite(c, n) => \E x, m, r : q = [c |-> x, n |-> m, r |-> r]
      BY <2>1 DEF HandleWrite, Go
    <2> QED BY <2>1, <2>2, <2>3
  <1>3. o.c = q.c /\ o.n = q.n /\ (~Again(q.c) => o.r # 1) BY <1>1, <1>2
  <1>4. Replies(c, n, q.c, q.n) /\ ~Again(q.c)
    <2>1. CASE q \in HandleWrite(c, n) /\ c.wq # 0 BY <2>1, HandleWriteReplies
    <2>2. CASE q \in Out(c, n, 0) /\ ~Again(c)
      <3>1. q.c = c /\ q.n = n BY <2>2, OutIs
      <3> QED BY <2>2, <3>1 DEF Replies
    <2>3. CASE q \in Go(c, n, "RESPONSE_END") /\ c.wq = 0 /\ c.fin
      <3>1. Typed(e) BY DEF Typed, Fields, States
      <3>2. /\ e.used = c.used /\ e.open = c.open /\ e.hctx = c.hctx /\ e.got = c.got /\ e.body = c.body
            /\ e.cgi = c.cgi /\ e.fin = c.fin /\ e.keep = c.keep /\ e.status = c.status /\ e.rq = c.rq
            /\ e.st = "RESPONSE_END" /\ e.wq = c.wq
        BY DEF Typed, Fields
      <3>3. q.c = e /\ q.n = n BY <2>3, GoIs
      <3> HIDE DEF e
      <3> QED BY <2>3, <3>1, <3>2, <3>3 DEF Replies, Again
    <2> QED BY <1>1, <2>1, <2>2, <2>3 DEF Again
  <1> QED BY <1>3, <1>4

\* The answer's end: a kept connection starts its next request clean, any other is shut down.
LEMMA ResponseEndGood ==
  ASSUME NEW c, NEW n, NEW o \in ResponseEnd(c, n), Good(c, n), c.st \in {"RESPONSE_END", "ERROR"}
  PROVE  /\ Good(o.c, o.n) /\ Clean(o.c)
         /\ o.c.st \in {"REQUEST_START", "CLOSE", "CONNECT"}
         /\ o.c.st = "REQUEST_START" => /\ c.st = "RESPONSE_END" /\ c.keep /\ o.c.used = c.used /\ c.used
  <1> DEFINE r == Reset(c)
             d == [r EXCEPT !.st = "REQUEST_START"]
             a == [c EXCEPT !.keep = FALSE]
  <1>1. Typed(c) /\ n \in NetType /\ c.used /\ c.open BY DEF Good, Slot, Typed
  <1>2. \/ o \in Go(r, n, "REQUEST_START") /\ c.keep /\ c.body = c.got /\ c.st = "RESPONSE_END"
        \/ o \in Shutdown(a, n)
    BY DEF ResponseEnd
  <1>3. CASE o \in Go(r, n, "REQUEST_START") /\ c.keep /\ c.body = c.got /\ c.st = "RESPONSE_END"
    <2>1. Typed(r) BY <1>1, ResetCleans
    <2>2. Clean(r) /\ r.used = c.used /\ r.open = c.open /\ r.rq = c.rq BY <1>1, ResetCleans
    <2> HIDE DEF r
    <2>3. Typed(d) BY <2>1 DEF Typed, Fields, States
    <2>4. Same(r, d) /\ d.rq = r.rq /\ d.st = "REQUEST_START" BY <2>1 DEF Typed, Fields, Same
    <2>5. o.c = d /\ o.n = n BY <1>3, GoIs
    <2> HIDE DEF d
    <2>6. Clean(d) BY <2>2, <2>4 DEF Clean, Same
    <2>7. Slot(d) /\ Course(d)
      <3>1. d.got <= d.body /\ d.body <= 1 /\ ~d.fin /\ d.hctx = "none" BY <2>6 DEF Clean
      <3>2. Slot(d) BY <1>1, <2>2, <2>4 DEF Slot, Same, Good
      <3> QED BY <2>4, <2>6, <3>1, <3>2 DEF Course, Answering, Answers
    <2>8. Aligned(d, n)
      <3>1. Framed(Due(c), Stream(c, n), n.peer) BY <1>3 DEF Good, Aligned, InService, Answering, Answers
      <3>2. Due(c) = "part" BY <1>3 DEF Due
      <3>3. Stream(d, n) = Stream(c, n) BY <2>2, <2>4 DEF Stream
      <3> QED BY <2>4, <3>1, <3>2, <3>3 DEF Aligned, InService, Answering, Answers
    <2> QED BY <1>1, <1>3, <2>2, <2>3, <2>4, <2>5, <2>6, <2>7, <2>8 DEF Good, Same
  <1>4. CASE o \in Shutdown(a, n)
    <2>1. Typed(a)
      <3>1. Typed(c) BY <1>1
      <3> QED BY <3>1 DEF Typed, Fields
    <2>2. a.used = c.used /\ a.open = c.open BY <1>1 DEF Typed, Fields
    <2> HIDE DEF a
    <2> QED BY <1>1, <1>4, <2>1, <2>2, ShutsDown
  <1> QED BY <1>2, <1>3, <1>4

\* Reading to the end of the stream leaves the request alone.
LEMMA EosTyped ==
  ASSUME NEW c, NEW n \in NetType, Typed(c)
  PROVE  /\ Typed(ReadForEos(c, n).c) /\ ReadForEos(c, n).n \in NetType /\ Same(c, ReadForEos(c, n).c)
         /\ ReadForEos(c, n).c.st = c.st /\ ReadForEos(c, n).c.rq = c.rq
         /\ ReadForEos(c, n).n.peer = n.peer
  <1> DEFINE v == LingerTimeout + 1
             a == [c EXCEPT !.closeAge = v]
             m == [n EXCEPT !.sock = <<>>]
             d == IF n.peer = "open" THEN c ELSE a
  <1>1. v \in Int BY ConStateAssumption
  <1>2. ReadForEos(c, n) = [c |-> d, n |-> m] BY DEF ReadForEos
  <1> HIDE DEF v
  <1>3. Typed(a) BY <1>1 DEF Typed, Fields
  <1>4. Same(c, a) /\ a.st = c.st /\ a.rq = c.rq BY DEF Typed, Fields, Same
  <1>5. m \in NetType /\ m.peer = n.peer
    <2> DEFINE e == <<>>
    <2>1. e \in Seq(Tokens) OBVIOUS
    <2>2. m = [n EXCEPT !.sock = e] OBVIOUS
    <2> HIDE DEF e, m
    <2> QED BY <2>1, <2>2 DEF NetType
  <1> HIDE DEF a, m
  <1>6. Typed(d) /\ Same(c, d) /\ d.st = c.st /\ d.rq = c.rq BY <1>3, <1>4 DEF Same
  <1> HIDE DEF d
  <1> QED BY <1>2, <1>5, <1>6

\* A lingering connection stays good whatever is read and thrown away.
LEMMA EosGood ==
  ASSUME NEW c, NEW n, NEW d, NEW m, Good(c, n), c.st = "CLOSE", Typed(d), m \in NetType, Same(c, d),
         d.st = c.st
  PROVE  Good(d, m)
  <1>1. Slot(d) BY DEF Good, Slot, Same
  <1>2. Course(d) BY DEF Good, Course, Same, Waits, Answering, Answers
  <1>3. Aligned(d, m) BY DEF Aligned, Waits, InService, Answering, Answers
  <1> QED BY <1>1, <1>2, <1>3 DEF Good

\* connection_handle_close_state lingers or closes.
LEMMA CloseStateGood ==
  ASSUME NEW c, NEW n, NEW o \in CloseState(c, n), Good(c, n), c.st = "CLOSE"
  PROVE  /\ Good(o.c, o.n) /\ o.c.st \in {"CLOSE", "CONNECT"}
         /\ Clean(c) => Clean(o.c)
         /\ o.c.st = "CLOSE" => o.c.used = c.used
  <1> DEFINE e == ReadForEos(c, n)
             d == e.c
             m == e.n
  <1>1. Typed(c) /\ n \in NetType /\ c.got <= c.body /\ c.body <= 1 BY DEF Good, Course
  <1>2. Typed(d) /\ m \in NetType /\ Same(c, d) /\ d.st = c.st BY <1>1, EosTyped
  <1>3. o \in CloseConnection(d, m) \/ o \in Out(d, m, 0) BY DEF CloseState
  <1> HIDE DEF d, m
  <1>4. d.got <= d.body /\ d.body <= 1 /\ (Clean(c) => Clean(d)) BY <1>1, <1>2 DEF Same, Clean
  <1>5. CASE o \in CloseConnection(d, m) BY <1>2, <1>4, <1>5, Closes
  <1>6. CASE o \in Out(d, m, 0)
    <2>1. o.c = d /\ o.n = m BY <1>6, OutIs
    <2>2. Good(d, m) BY <1>2, EosGood
    <2> QED BY <1>2, <1>4, <2>1, <2>2 DEF Same
  <1> QED BY <1>3, <1>5, <1>6

\* connection_handle_connect_state forgets the last client's bytes.
LEMMA ConnectGood ==
  ASSUME NEW c, NEW n, NEW o \in ConnectState(c, n), Good(c, n), c.st = "CONNECT"
  PROVE  /\ Good(o.c, o.n) /\ o.c.st = "CONNECT" /\ o.n = n /\ o.c.used = c.used
         /\ o.c.rq = <<>> /\ o.c.reqCount = 0
         /\ Clean(c) => Clean(o.c)
         /\ o.c.status = c.status
  <1> DEFINE d == [c EXCEPT !.rq = <<>>, !.reqCount = 0]
  <1>1. Typed(c) /\ n \in NetType BY DEF Good
  <1>2. o \in Out(d, n, 0) BY DEF ConnectState
  <1>3. Typed(d) BY <1>1 DEF Typed, Fields
  <1>4. /\ d.used = c.used /\ d.open = c.open /\ d.hctx = c.hctx /\ d.got = c.got /\ d.body = c.body
        /\ d.cgi = c.cgi /\ d.fin = c.fin /\ d.keep = c.keep /\ d.status = c.status /\ d.st = c.st
        /\ d.saved = c.saved /\ d.wq = c.wq /\ d.cq = c.cq /\ d.rq = <<>> /\ d.reqCount = 0
    BY <1>1 DEF Typed, Fields
  <1> HIDE DEF d
  <1>5. o.c = d /\ o.n = n BY <1>2, OutIs
  <1>6. Slot(d) BY <1>4 DEF Good, Slot
  <1>7. Course(d) BY <1>4 DEF Good, Course, Waits, Answering, Answers
  <1>8. Aligned(d, n) BY <1>4 DEF Aligned, Waits, InService, Answering, Answers
  <1> QED BY <1>1, <1>3, <1>4, <1>5, <1>6, <1>7, <1>8 DEF Good, Clean

\* Registering for events changes what is waited for, and nothing else.
LEMMA FdeventSets ==
  ASSUME NEW c, Typed(c)
  PROVE  /\ Typed(FdeventSet(c)) /\ Same(c, FdeventSet(c))
         /\ FdeventSet(c).st = c.st /\ FdeventSet(c).rq = c.rq
         /\ c.st = "READ" /\ c.open => "IN" \in FdeventSet(c).want
  <1> DEFINE poll == IF c.pollin THEN {"IN"} ELSE {}
             r == CASE c.st \in {"READ", "CLOSE"} -> {"IN"}
                    [] c.st = "WRITE" ->
                         poll \cup (IF c.wq # 0 /\ c.writable = 0 /\ ~c.limited THEN {"OUT"} ELSE {})
                    [] c.st = "READ_POST" -> poll
                    [] OTHER -> {}
             ra == IF "IN" \in r \ c.want THEN 0 ELSE c.readAge
             wa == IF "OUT" \in r \ c.want THEN 0 ELSE c.writeAge
             d == [c EXCEPT !.want = r, !.readAge = ra, !.writeAge = wa]
  <1>1. FdeventSet(c) = IF ~c.open THEN c ELSE d BY DEF FdeventSet
  <1>2. poll \subseteq {"IN", "OUT"} OBVIOUS
  <1>3. r \subseteq {"IN", "OUT"} /\ (c.st = "READ" => "IN" \in r) BY <1>2
  <1>4. ra \in Int /\ wa \in Int BY DEF Typed
  <1> HIDE DEF r, ra, wa
  <1>5. Typed(d) BY <1>3, <1>4 DEF Typed, Fields
  <1>6. Same(c, d) /\ d.st = c.st /\ d.rq = c.rq /\ d.want = r BY DEF Typed, Fields, Same
  <1> HIDE DEF d
  <1> QED BY <1>1, <1>3, <1>5, <1>6 DEF Same

-----------------------------------------------------------------------------
(* The worker's steps                                                       *)

\* What Finish makes of a handler's outcome.
Left(o) ==
  /\ net' = o.n /\ jobs' = jobs /\ graceful' = graceful
  /\ \/ pc' = "run" /\ con' = o.c /\ ostate' = o.c.st
     \/ pc' = "idle" /\ con' = FdeventSet(o.c) /\ ostate' = ostate /\ o.c.st = ostate
  /\ hist' = [Observe(con, o.c) EXCEPT !.logged = IF Logs THEN @ + 1 ELSE @]

\* What Observe counts.
LEMMA Observed ==
  ASSUME NEW d, hist \in HistType
  PROVE  /\ Observe(con, d) \in HistType
         /\ Observe(con, d).logged = hist.logged
         /\ con.st = "READ" /\ d.st \in {"REQUEST_END", "HANDLE_REQUEST"}
              => Observe(con, d).taken = hist.taken + 1
         /\ ~(con.st = "READ" /\ d.st \in {"REQUEST_END", "HANDLE_REQUEST"})
              => Observe(con, d).taken = hist.taken
  <1> DEFINE t == IF con.st = "READ" /\ d.st \in {"REQUEST_END", "HANDLE_REQUEST"}
                  THEN hist.taken + 1 ELSE hist.taken
             i == IF d.st # "WRITE" \/ con.st # "WRITE" \/ d.wq < con.wq THEN 0 ELSE hist.idle
             h == [hist EXCEPT !.taken = t, !.idle = i]
  <1>1. Observe(con, d) = h BY DEF Observe
  <1>2. t \in Nat /\ i \in Int BY DEF HistType
  <1> HIDE DEF i
  <1>3. h \in HistType /\ h.logged = hist.logged /\ h.taken = t BY <1>2 DEF HistType
  <1> HIDE DEF h
  <1> QED BY <1>1, <1>3

\* What a run counts: the request taken from READ, the answer logged.
LEMMA HistMoves ==
  ASSUME NEW o, Left(o), hist \in HistType
  PROVE  /\ hist' \in HistType
         /\ con.st = "READ" /\ o.c.st \in {"REQUEST_END", "HANDLE_REQUEST"} => hist'.taken = hist.taken + 1
         /\ ~(con.st = "READ" /\ o.c.st \in {"REQUEST_END", "HANDLE_REQUEST"}) => hist'.taken = hist.taken
         /\ hist'.logged = IF Logs THEN hist.logged + 1 ELSE hist.logged
  <1> DEFINE h == Observe(con, o.c)
             l == IF Logs THEN h.logged + 1 ELSE h.logged
             g == [h EXCEPT !.logged = l]
  <1>1. /\ h \in HistType /\ h.logged = hist.logged
        /\ con.st = "READ" /\ o.c.st \in {"REQUEST_END", "HANDLE_REQUEST"} => h.taken = hist.taken + 1
        /\ ~(con.st = "READ" /\ o.c.st \in {"REQUEST_END", "HANDLE_REQUEST"}) => h.taken = hist.taken
    BY Observed
  <1>2. hist' = g BY DEF Left
  <1> HIDE DEF h
  <1>3. l \in Nat BY <1>1 DEF HistType
  <1> HIDE DEF l
  <1>4. g \in HistType /\ g.taken = h.taken /\ g.logged = l BY <1>1, <1>3 DEF HistType
  <1> HIDE DEF g
  <1> QED BY <1>1, <1>2, <1>4 DEF l

\* The counts do not depend on time stamps, interests or limits.
LEMMA SameCounted ==
  ASSUME NEW c, NEW h, NEW d, Same(c, d), d.st = c.st, Counted(c, h)
  PROVE  Counted(d, h)
  BY DEF Same, Counted, InService, Answering

\* Whatever handler ran, the connection goes on or rests as the invariant says.
LEMMA WorkerKeeps ==
  ASSUME NEW o, Left(o), IInv, pc # "idle",
         Good(o.c, o.n), Counted(o.c, hist'),
         o.c.used => con.used,
         con.st = "CONNECT" => o.c.rq = <<>> /\ o.c.reqCount = 0,
         o.c.st \in {"CLOSE", "CONNECT"} /\ graceful # "begun" => Clean(o.c)
  PROVE  IInv'
  <1> DEFINE f == FdeventSet(o.c)
  <1>1. Typed(o.c) BY DEF Good
  <1>2. /\ Typed(f) /\ Same(o.c, f) /\ f.st = o.c.st /\ f.rq = o.c.rq
        /\ o.c.st = "READ" /\ o.c.open => "IN" \in f.want
    BY <1>1, FdeventSets
  <1>3. Good(f, o.n)
    <2>1. Stream(f, o.n) = Stream(o.c, o.n) BY <1>2 DEF Stream
    <2>2. o.n \in NetType BY DEF Good
    <2> HIDE DEF f
    <2> QED BY <1>2, <2>1, <2>2, SameIsGood
  <1> HIDE DEF f
  <1>4. \/ pc' = "run" /\ con' = o.c /\ ostate' = o.c.st
        \/ pc' = "idle" /\ con' = f /\ ostate' = ostate /\ o.c.st = ostate
    BY DEF Left, f
  <1>5. net' = o.n /\ jobs' = jobs /\ graceful' = graceful BY DEF Left
  <1>6. Good(con', net') /\ Counted(con', hist')
    <2>1. Counted(f, hist') BY <1>2, SameCounted
    <2> QED BY <1>3, <1>4, <1>5, <2>1
  <1>7. con'.st = o.c.st /\ con'.used = o.c.used /\ con'.rq = o.c.rq /\ con'.reqCount = o.c.reqCount
        /\ (Clean(o.c) => Clean(con'))
    BY <1>2, <1>4 DEF Same, Clean
  <1>8. TypeOK'
    <2>1. hist \in HistType BY DEF IInv, TypeOK
    <2>2. hist' \in HistType BY <2>1, HistMoves
    <2>3. o.c.st \in States BY <1>1 DEF Typed
    <2>4. Typed(con') /\ net' \in NetType BY <1>6 DEF Good
    <2> QED BY <1>4, <1>5, <2>2, <2>3, <2>4 DEF IInv, TypeOK
  <1>9. Settled'
    <2>2. pc' # "idle" /\ con'.used => ostate' # "CONNECT"
      <3>1. Slot(o.c) BY DEF Good
      <3>2. con.used => ostate # "CONNECT" BY DEF IInv, Settled
      <3> QED BY <1>4, <1>7, <3>1, <3>2 DEF Slot
    <2>3. pc' = "idle" /\ con'.st = "CONNECT" => con'.rq = <<>> /\ con'.reqCount = 0
      <3>1. con.used => ostate # "CONNECT" BY DEF IInv, Settled
      <3>2. ~con.used => con.st = "CONNECT" BY DEF IInv, Slot
      <3> QED BY <1>4, <1>7, <3>1, <3>2
    <2>4. pc' = "idle" /\ con'.st = "READ" => "IN" \in con'.want
      <3>1. o.c.st = "READ" => o.c.open BY DEF Good, Slot
      <3> QED BY <1>2, <1>4, <1>7, <3>1
    <2>5. con'.st \in {"CLOSE", "CONNECT"} /\ graceful' # "begun" => Clean(con')
      BY <1>5, <1>7
    <2> QED BY <2>2, <2>3, <2>4, <2>5 DEF Settled
  <1> QED BY <1>6, <1>8, <1>9 DEF IInv, Good

-----------------------------------------------------------------------------
(* What a step does to the session                                          *)

SameCounts == hist'.taken = hist.taken /\ hist'.logged = hist.logged

Rests  == /\ SameCounts /\ con'.used = con.used
          /\ con'.st = "CLOSE" <=> con.st = "CLOSE"
          /\ con'.st = "REQUEST_START" => con.st = "REQUEST_START"
Takes  == /\ con.used /\ con'.used /\ con.st = "READ" /\ con'.st \in {"REQUEST_END", "HANDLE_REQUEST"}
          /\ hist'.taken = hist.taken + 1 /\ hist'.logged = hist.logged
Ends   == /\ con.used /\ con'.used /\ con.st = "RESPONSE_END" /\ con'.st = "REQUEST_START" /\ con.keep
          /\ hist'.taken = hist.taken /\ hist'.logged = hist.logged + 1
Hangs  == /\ con.used /\ con.st # "CLOSE"
          /\ (con'.used /\ con'.st = "CLOSE") \/ (~con'.used /\ con'.st = "CONNECT")
          /\ hist'.taken = hist.taken
          /\ hist'.logged = hist.logged \/ (hist'.logged = hist.taken /\ hist.taken # hist.logged)
Frees  == con.used /\ con.st = "CLOSE" /\ ~con'.used /\ con'.st = "CONNECT" /\ SameCounts
Opens  == /\ ~con.used /\ con'.used /\ con'.st = "REQUEST_START" /\ hist'.taken = 0 /\ hist'.logged = 0
          /\ con'.rq = <<>> /\ con'.reqCount = 0

Progress == Rests \/ Takes \/ Ends \/ Hangs \/ Frees \/ Opens

Keeps == IInv' /\ Progress

\* The state a handler leaves is the state of the next step.
LEMMA LeftState ==
  ASSUME NEW o, Left(o), Typed(o.c)
  PROVE  con'.st = o.c.st /\ con'.used = o.c.used
  <1>1. con' = o.c \/ con' = FdeventSet(o.c) BY DEF Left
  <1>2. FdeventSet(o.c).st = o.c.st /\ FdeventSet(o.c).used = o.c.used BY FdeventSets DEF Same
  <1> QED BY <1>1, <1>2

\* The invariant, of the connection itself.
LEMMA ConGood ==
  ASSUME IInv
  PROVE  /\ Good(con, net) /\ Counted(con, hist) /\ hist \in HistType
         /\ con.used \in BOOLEAN /\ con.st \in States
  <1>1. Good(con, net) BY DEF IInv, TypeOK, Good
  <1>2. con.used \in BOOLEAN /\ con.st \in States BY DEF IInv, TypeOK, Typed
  <1> QED BY <1>1, <1>2 DEF IInv, TypeOK

\* A run in each state keeps the invariant and is a step of the session.
LEMMA RunRequestStartKeeps ==
  ASSUME IInv, RunRequestStart
  PROVE  Keeps
  <1>1. PICK o \in RequestStart(con, net) : Finish(o, FALSE) BY DEF RunRequestStart, Handle
  <1>2. con.st = "REQUEST_START" /\ pc = "run" BY DEF RunRequestStart, Handle
  <1>3. Left(o) BY <1>1 DEF Finish, Left
  <1>4. Good(o.c, o.n) /\ o.c.st = "READ" BY <1>2, ConGood, RequestStartGood
  <1>5. Slot(con) /\ Slot(o.c) BY <1>4 DEF IInv, Good
  <1>6. con.used = o.c.used BY <1>2, <1>4, <1>5 DEF Slot
  <1>7. SameCounts BY <1>2, <1>3, <1>4, ConGood, HistMoves DEF SameCounts, Logs
  <1>8. Counted(o.c, hist')
    BY <1>2, <1>4, <1>7, ConGood DEF Counted, Waits, InService, Answering, Answers, SameCounts
  <1>9. IInv' BY <1>2, <1>3, <1>4, <1>6, <1>8, WorkerKeeps
  <1>10. Rests BY <1>2, <1>3, <1>4, <1>6, <1>7, LeftState DEF Rests, Good
  <1> QED BY <1>9, <1>10 DEF Keeps, Progress

LEMMA RunReadKeeps ==
  ASSUME IInv, RunRead
  PROVE  Keeps
  <1>1. PICK o \in ReadHeader(con, net) : Finish(o, FALSE) BY DEF RunRead, Handle
  <1>2. con.st = "READ" /\ pc = "run" BY DEF RunRead, Handle
  <1>3. Left(o) BY <1>1 DEF Finish, Left
  <1>4. /\ Good(o.c, o.n) /\ o.c.st \in {"READ", "REQUEST_END", "HANDLE_REQUEST", "ERROR"}
        /\ o.c.st = "ERROR" => o.c.status = 0
        /\ o.c.used = con.used
    BY <1>2, ConGood, ReadHeaderGood
  <1>5. con.used BY <1>2 DEF IInv, Slot
  <1>6. hist'.logged = hist.logged /\ hist.taken = hist.logged
    BY <1>2, <1>3, ConGood, HistMoves DEF Counted, Waits, Logs
  <1>7. /\ o.c.st \in {"REQUEST_END", "HANDLE_REQUEST"} => hist'.taken = hist.taken + 1
        /\ o.c.st \notin {"REQUEST_END", "HANDLE_REQUEST"} => hist'.taken = hist.taken
    BY <1>2, <1>3, ConGood, HistMoves
  <1>8. Counted(o.c, hist')
    BY <1>4, <1>6, <1>7, ConGood DEF Counted, Waits, InService, Answering, Answers
  <1>9. IInv' BY <1>2, <1>3, <1>4, <1>8, WorkerKeeps
  <1>10. con'.st = o.c.st /\ con'.used = o.c.used BY <1>3, <1>4, LeftState DEF Good
  <1>11. Rests \/ Takes BY <1>2, <1>4, <1>5, <1>6, <1>7, <1>10 DEF Rests, Takes, SameCounts
  <1> QED BY <1>9, <1>11 DEF Keeps, Progress

LEMMA RunRequestEndKeeps ==
  ASSUME IInv, RunRequestEnd
  PROVE  Keeps
  <1>1. PICK o \in RequestEnd(con, net) : Finish(o, FALSE) BY DEF RunRequestEnd, Handle
  <1>2. con.st = "REQUEST_END" /\ pc = "run" BY DEF RunRequestEnd, Handle
  <1>3. Left(o) BY <1>1 DEF Finish, Left
  <1>4. Good(o.c, o.n) /\ o.c.st \in {"READ_POST", "HANDLE_REQUEST"} /\ o.c.used = con.used
    BY <1>2, ConGood, RequestEndGood
  <1>5. SameCounts BY <1>2, <1>3, <1>4, ConGood, HistMoves DEF SameCounts, Logs
  <1>6. Counted(o.c, hist')
    BY <1>2, <1>4, <1>5, ConGood DEF Counted, Waits, InService, Answering, Answers, SameCounts
  <1>7. IInv' BY <1>2, <1>3, <1>4, <1>6, WorkerKeeps
  <1>8. Rests BY <1>2, <1>3, <1>4, <1>5, LeftState DEF Rests, Good
  <1> QED BY <1>7, <1>8 DEF Keeps, Progress

LEMMA RunHandleRequestKeeps ==
  ASSUME IInv, RunHandleRequest
  PROVE  Keeps
  <1>1. PICK o \in HandleRequest(con, net) : Finish(o, FALSE) BY DEF RunHandleRequest, Handle
  <1>2. con.st \in {"READ_POST", "HANDLE_REQUEST"} /\ pc = "run" BY DEF RunHandleRequest, Handle
  <1>3. Left(o) BY <1>1 DEF Finish, Left
  <1>4. /\ Good(o.c, o.n) /\ o.c.used = con.used
        /\ o.c.st \in {"READ_POST", "HANDLE_REQUEST", "RESPONSE_START", "ERROR"}
    BY <1>2, ConGood, HandleRequestGood
  <1>5. SameCounts BY <1>2, <1>3, <1>4, ConGood, HistMoves DEF SameCounts, Logs
  <1>6. Counted(o.c, hist')
    BY <1>2, <1>4, <1>5, ConGood DEF Counted, Waits, InService, Answering, Answers, SameCounts
  <1>7. IInv' BY <1>2, <1>3, <1>4, <1>6, WorkerKeeps
  <1>8. Rests BY <1>2, <1>3, <1>4, <1>5, LeftState DEF Rests, Good
  <1> QED BY <1>7, <1>8 DEF Keeps, Progress

LEMMA RunResponseStartKeeps ==
  ASSUME IInv, RunResponseStart
  PROVE  Keeps
  <1>1. PICK o \in ResponseStart(con, net) : Finish(o, FALSE) BY DEF RunResponseStart, Handle
  <1>2. con.st = "RESPONSE_START" /\ pc = "run" BY DEF RunResponseStart, Handle
  <1>3. Left(o) BY <1>1 DEF Finish, Left
  <1>4. Good(o.c, o.n) /\ o.c.st = "WRITE" /\ o.c.used = con.used
    BY <1>2, ConGood, ResponseStartGood
  <1>5. SameCounts BY <1>2, <1>3, <1>4, ConGood, HistMoves DEF SameCounts, Logs
  <1>6. Counted(o.c, hist')
    BY <1>2, <1>4, <1>5, ConGood DEF Counted, Waits, InService, Answering, Answers, SameCounts
  <1>7. IInv' BY <1>2, <1>3, <1>4, <1>6, WorkerKeeps
  <1>8. Rests BY <1>2, <1>3, <1>4, <1>5, LeftState DEF Rests, Good
  <1> QED BY <1>7, <1>8 DEF Keeps, Progress

LEMMA RunWriteKeeps ==
  ASSUME IInv, RunWrite
  PROVE  Keeps
  <1>1. PICK o \in WriteTurn(con, net) : Finish(o, o.r = 1) BY DEF RunWrite
  <1>2. pc = "run" /\ con.st = "WRITE" BY DEF RunWrite, IInv, TypeOK
  <1>3. Replying(con, net)
    BY <1>2, ConGood DEF Replying, Answering, Answers, IInv, Slot
  <1>4. Typed(con) /\ net \in NetType BY ConGood DEF Good
  <1>5. Replies(con, net, o.c, o.n) /\ o.r # 1 BY <1>4, WriteTurnReplies
  <1>6. Left(o) BY <1>1, <1>5 DEF Finish, Left
  <1>7. Good(o.c, o.n) BY <1>3, <1>5, RepliesOn
  <1>8. o.c.used = con.used /\ (o.c.st = con.st \/ o.c.st \in {"RESPONSE_END", "ERROR"}) BY <1>5 DEF Replies
  <1>9. SameCounts BY <1>2, <1>6, ConGood, HistMoves DEF SameCounts, Logs
  <1>10. hist'.taken = hist'.logged + 1
    BY <1>3, <1>9, ConGood DEF Counted, InService, Replying, SameCounts
  <1>11. Counted(o.c, hist')
    BY <1>2, <1>8, <1>10 DEF Counted, Waits
  <1>12. o.c.st \notin {"CLOSE", "CONNECT"} BY <1>2, <1>8
  <1>13. IInv' BY <1>2, <1>6, <1>5, <1>7, <1>8, <1>11, <1>12, WorkerKeeps
  <1>14. con'.st = o.c.st /\ con'.used = o.c.used BY <1>6, <1>7, LeftState DEF Good
  <1>15. Rests BY <1>2, <1>8, <1>9, <1>14 DEF Rests
  <1> QED BY <1>13, <1>15 DEF Keeps, Progress

LEMMA RunResponseEndKeeps ==
  ASSUME IInv, RunResponseEnd
  PROVE  Keeps
  <1>1. PICK o \in ResponseEnd(con, net) : Finish(o, FALSE) BY DEF RunResponseEnd, Handle
  <1>2. con.st \in {"RESPONSE_END", "ERROR"} /\ pc = "run" BY DEF RunResponseEnd, Handle
  <1>3. Left(o) BY <1>1 DEF Finish, Left
  <1>4. /\ Good(o.c, o.n) /\ Clean(o.c)
        /\ o.c.st \in {"REQUEST_START", "CLOSE", "CONNECT"}
        /\ o.c.st = "REQUEST_START" => con.st = "RESPONSE_END" /\ con.keep /\ o.c.used = con.used /\ con.used
    BY <1>2, ConGood, ResponseEndGood
  <1>5. con.used BY <1>2 DEF IInv, Slot
  <1>6. hist'.taken = hist.taken /\ hist'.logged = IF con.status # 0 THEN hist.logged + 1 ELSE hist.logged
    BY <1>2, <1>3, <1>4, ConGood, HistMoves DEF Logs
  <1>7. con.st = "RESPONSE_END" => con.status # 0 /\ hist.taken = hist.logged + 1
    BY <1>2, ConGood DEF IInv, Course, Answering, Answers, Counted, InService
  <1>8. hist.taken \in Nat /\ hist.logged \in Nat BY ConGood DEF HistType
  <1>9. hist'.logged = hist.logged \/ (hist'.logged = hist.taken /\ hist.taken # hist.logged)
    BY <1>2, <1>6, <1>7, <1>8, ConGood DEF Counted
  <1>10. Counted(o.c, hist')
    BY <1>4, <1>6, <1>7, ConGood DEF Counted, Waits, InService, Answering, Answers
  <1>11. IInv' BY <1>2, <1>3, <1>4, <1>5, <1>10, WorkerKeeps
  <1>12. con'.st = o.c.st /\ con'.used = o.c.used BY <1>3, <1>4, LeftState DEF Good
  <1>13. o.c.st = "CLOSE" => o.c.used BY <1>4 DEF Good, Slot
  <1>14. o.c.st = "CONNECT" => ~o.c.used BY <1>4 DEF Good, Slot
  <1>15. Ends \/ Hangs BY <1>2, <1>4, <1>5, <1>6, <1>7, <1>9, <1>12, <1>13, <1>14 DEF Ends, Hangs
  <1> QED BY <1>11, <1>15 DEF Keeps, Progress

LEMMA RunCloseKeeps ==
  ASSUME IInv, RunClose
  PROVE  Keeps
  <1>1. PICK o \in CloseState(con, net) : Finish(o, FALSE) BY DEF RunClose, Handle
  <1>2. con.st = "CLOSE" /\ pc = "run" BY DEF RunClose, Handle
  <1>3. Left(o) BY <1>1 DEF Finish, Left
  <1>4. /\ Good(o.c, o.n) /\ o.c.st \in {"CLOSE", "CONNECT"}
        /\ Clean(con) => Clean(o.c)
        /\ o.c.st = "CLOSE" => o.c.used = con.used
    BY <1>2, ConGood, CloseStateGood
  <1>5. con.used BY <1>2 DEF IInv, Slot
  <1>6. graceful # "begun" => Clean(con) BY <1>2 DEF IInv, Settled
  <1>7. SameCounts BY <1>2, <1>3, <1>4, ConGood, HistMoves DEF SameCounts, Logs
  <1>8. Counted(o.c, hist') BY <1>4 DEF Counted, Waits, InService, Answering, Answers
  <1>9. IInv' BY <1>2, <1>3, <1>4, <1>5, <1>6, <1>8, WorkerKeeps
  <1>10. con'.st = o.c.st /\ con'.used = o.c.used BY <1>3, <1>4, LeftState DEF Good
  <1>11. o.c.st = "CONNECT" => ~o.c.used BY <1>4 DEF Good, Slot
  <1>12. Rests \/ Frees BY <1>2, <1>4, <1>5, <1>7, <1>10, <1>11 DEF Rests, Frees
  <1> QED BY <1>9, <1>12 DEF Keeps, Progress

LEMMA RunConnectKeeps ==
  ASSUME IInv, RunConnect
  PROVE  Keeps
  <1>1. PICK o \in ConnectState(con, net) : Finish(o, FALSE) BY DEF RunConnect, Handle
  <1>2. con.st = "CONNECT" /\ pc = "run" BY DEF RunConnect, Handle
  <1>3. Left(o) BY <1>1 DEF Finish, Left
  <1>4. /\ Good(o.c, o.n) /\ o.c.st = "CONNECT" /\ o.c.used = con.used
        /\ o.c.rq = <<>> /\ o.c.reqCount = 0
        /\ Clean(con) => Clean(o.c)
    BY <1>2, ConGood, ConnectGood
  <1>5. graceful # "begun" => Clean(con) BY <1>2 DEF IInv, Settled
  <1>6. SameCounts BY <1>2, <1>3, <1>4, ConGood, HistMoves DEF SameCounts, Logs
  <1>7. Counted(o.c, hist') BY <1>4 DEF Counted, Waits, InService, Answering, Answers
  <1>8. IInv' BY <1>2, <1>3, <1>4, <1>5, <1>7, WorkerKeeps
  <1>9. con'.st = o.c.st /\ con'.used = o.c.used BY <1>3, <1>4, LeftState DEF Good
  <1>10. Rests BY <1>2, <1>4, <1>6, <1>9 DEF Rests
  <1> QED BY <1>8, <1>10 DEF Keeps, Progress

-----------------------------------------------------------------------------
(* Events                                                                   *)

\* A connection in use fails, or is told to close, in the middle of what it does.
LEMMA StopsGood ==
  ASSUME NEW c, NEW n, NEW s \in {"ERROR", "CLOSE"}, NEW d, d = [c EXCEPT !.st = s],
         Good(c, n), c.used
  PROVE  Good(d, n) /\ Same(c, d) /\ d.st = s /\ d.rq = c.rq /\ d.want = c.want /\ d.limited = c.limited
  <1>1. Typed(c) /\ n \in NetType BY DEF Good
  <1>2. s \in States BY DEF States
  <1>3. Typed(d) BY <1>1, <1>2 DEF Typed, Fields
  <1>4. Same(c, d) /\ d.st = s /\ d.rq = c.rq /\ d.want = c.want /\ d.limited = c.limited
    BY <1>1 DEF Typed, Fields, Same
  <1>5. Slot(d) BY <1>4 DEF Good, Slot, Same
  <1>6. ~InService(d) /\ ~Answering(d) BY <1>4 DEF InService, Answering, Answers
  <1>8. Course(d)
    <2>1. c.got <= c.body /\ c.body <= 1 /\ (c.hctx = "run" => c.cgi /\ (c.fin => ~c.keep)) BY DEF Good, Course
    <2> QED BY <1>4, <1>6, <2>1 DEF Course, Same, Waits
  <1>9. Aligned(d, n) BY <1>4, <1>6 DEF Aligned, Waits
  <1> QED BY <1>1, <1>3, <1>4, <1>5, <1>8, <1>9 DEF Good

\* connection_handle_fdevent on a hang-up.
LEMMA HangsUp ==
  ASSUME NEW c, NEW n, Good(c, n), c.used
  PROVE  /\ Good(EventHup(c), n) /\ Same(c, EventHup(c))
         /\ c.st # "CLOSE" => EventHup(c).st = "ERROR"
         /\ c.st = "CLOSE" => EventHup(c).st = "CLOSE"
  <1> DEFINE v == LingerTimeout + 1
             a == [c EXCEPT !.closeAge = v]
             b == [c EXCEPT !.st = "ERROR"]
  <1>1. CASE c.st = "ERROR" BY <1>1 DEF EventHup, Same
  <1>2. CASE c.st = "CLOSE"
    <2>1. EventHup(c) = a BY <1>2 DEF EventHup
    <2>2. v \in Int /\ Typed(c) /\ n \in NetType BY ConStateAssumption DEF Good
    <2> HIDE DEF v
    <2>3. Typed(a) BY <2>2 DEF Typed, Fields
    <2>4. Same(c, a) /\ a.st = c.st /\ a.rq = c.rq BY <2>2 DEF Typed, Fields, Same
    <2> HIDE DEF a
    <2>5. Good(a, n) BY <1>2, <2>2, <2>3, <2>4, EosGood
    <2> QED BY <1>2, <2>1, <2>4, <2>5
  <1>3. CASE c.st \notin {"ERROR", "CLOSE"}
    <2>1. EventHup(c) = b BY <1>3 DEF EventHup
    <2>2. Good(b, n) /\ Same(c, b) /\ b.st = "ERROR" BY StopsGood
    <2> HIDE DEF b
    <2> QED BY <1>3, <2>1, <2>2
  <1> QED BY <1>1, <1>2, <1>3

\* An event or the script makes the worker run the connection.
LEMMA EventKeeps ==
  ASSUME IInv, NEW d, NEW m, pc = "idle", con' = d, net' = m, pc' = "run", ostate' = OState(d),
         hist' = Observe(con, d), jobs' = jobs, graceful' = graceful,
         con.used, d.used, Good(d, m), Counted(d, hist'),
         d.st \in {"CLOSE", "CONNECT"} /\ graceful # "begun" => Clean(d)
  PROVE  IInv'
  <1>1. Typed(d) /\ m \in NetType /\ d.st # "CONNECT" BY DEF Good, Slot
  <1>2. OState(d) \in States /\ OState(d) # "CONNECT" BY <1>1 DEF OState, Typed, States
  <1>3. hist' \in HistType BY ConGood, Observed
  <1>4. TypeOK' BY <1>1, <1>2, <1>3 DEF IInv, TypeOK
  <1>5. Settled' BY <1>2 DEF IInv, Settled
  <1> QED BY <1>4, <1>5 DEF IInv, Good

\* Failing, closing or ending an answer leaves the request's count as it was.
LEMMA StillCounted ==
  ASSUME NEW c, NEW n, NEW d, NEW h, NEW g, Good(c, n), Counted(c, h),
         g.taken = h.taken, g.logged = h.logged, d.status = c.status,
         d.st \in {c.st, "ERROR", "CLOSE"} \/ (c.st = "WRITE" /\ d.st = "RESPONSE_END"),
         c.st \in {"CLOSE", "CONNECT"} => d.st = c.st
  PROVE  Counted(d, g)
  <1>1. c.st \in Waits \cup {"REQUEST_END"} => c.status = 0 BY DEF Good, Course, Clean
  <1>2. c.st \in States BY DEF Good, Typed
  <1>3. InService(d) => InService(c) \/ d.st = c.st BY DEF InService, Answering, Answers
  <1>4. d.st \in Waits => d.st = c.st BY DEF Waits
  <1>5. d.st = "REQUEST_END" => d.st = c.st OBVIOUS
  <1>6. d.st = c.st => InService(d) = InService(c) BY DEF InService, Answering
  <1>7. ASSUME d.st = "ERROR" PROVE g.taken = g.logged + 1 \/ (g.taken = g.logged /\ d.status = 0)
    <2>1. CASE c.st \in Waits BY <1>1, <2>1 DEF Counted
    <2>2. CASE c.st = "REQUEST_END" \/ InService(c) BY <2>2 DEF Counted
    <2>3. CASE c.st = "ERROR" BY <2>3 DEF Counted
    <2> QED BY <1>2, <1>7, <2>1, <2>2, <2>3 DEF States, Waits, InService, Answering, Answers
  <1> QED BY <1>3, <1>4, <1>5, <1>6, <1>7 DEF Counted

\* An event is handled before the run it causes: read, write, linger, hang up, in that order.
LEMMA FdEventKeeps ==
  ASSUME IInv, FdEvent
  PROVE  Keeps
  <1> DEFINE rd == IF "IN" \in Revents THEN 1 ELSE con.readable
             wr == IF "OUT" \in Revents THEN 1 ELSE con.writable
             b == [con EXCEPT !.readable = rd, !.writable = wr]
  <1>1. pc = "idle" /\ con.open /\ pc' = "run" /\ jobs' = jobs /\ graceful' = graceful BY DEF FdEvent
  <1>2. PICK o \in EventRead(b, net) : \E w \in EventWrite(o.c, o.n) :
          LET e == IF w.c.st = "CLOSE" THEN ReadForEos(w.c, w.n) ELSE [c |-> w.c, n |-> w.n]
              d == IF "HUP" \in Revents THEN EventHup(e.c) ELSE e.c
          IN /\ con' = d /\ net' = e.n /\ ostate' = OState(d)
             /\ hist' = Observe(con, d)
    BY DEF FdEvent
  <1>3. PICK w \in EventWrite(o.c, o.n) :
          LET e == IF w.c.st = "CLOSE" THEN ReadForEos(w.c, w.n) ELSE [c |-> w.c, n |-> w.n]
              d == IF "HUP" \in Revents THEN EventHup(e.c) ELSE e.c
          IN /\ con' = d /\ net' = e.n /\ ostate' = OState(d)
             /\ hist' = Observe(con, d)
    BY <1>2
  <1> DEFINE e == IF w.c.st = "CLOSE" THEN ReadForEos(w.c, w.n) ELSE [c |-> w.c, n |-> w.n]
             d == IF "HUP" \in Revents THEN EventHup(e.c) ELSE e.c
  <1>4. con' = d /\ net' = e.n /\ ostate' = OState(d) /\ hist' = Observe(con, d) BY <1>3
  <1>5. con.used /\ con.st # "CONNECT" BY <1>1 DEF IInv, Slot
  <1>6. Good(con, net) /\ Counted(con, hist) /\ hist \in HistType
    BY <1>1, ConGood DEF Counted, InService, Answering
  <1>7. Good(b, net) /\ Same(con, b) /\ b.st = con.st /\ b.want = con.want /\ b.readable = rd
    <2>1. Typed(con) /\ net \in NetType BY <1>6 DEF Good
    <2>2. rd \in Int /\ wr \in Int BY <2>1 DEF Typed
    <2> HIDE DEF rd, wr
    <2>3. Typed(b) BY <2>1, <2>2 DEF Typed, Fields
    <2>4. Same(con, b) /\ b.st = con.st /\ b.rq = con.rq /\ b.want = con.want /\ b.readable = rd
      BY <2>1 DEF Typed, Fields, Same
    <2> HIDE DEF b
    <2>5. Stream(b, net) = Stream(con, net) BY <2>4 DEF Stream
    <2> QED BY <1>6, <2>1, <2>3, <2>4, <2>5, SameIsGood
  <1> HIDE DEF b
  <1>8. CASE con.st = "READ"
    <2>1. o \in ReadHeader(b, net) BY <1>7, <1>8 DEF EventRead
    <2>2. /\ Good(o.c, o.n) /\ o.n.peer = net.peer
          /\ o.c.st \in {"READ", "REQUEST_END", "HANDLE_REQUEST", "ERROR"}
          /\ o.c.st = "ERROR" => o.c.status = 0
          /\ o.c.used = b.used
          /\ net.peer = "reset" /\ b.readable = 1 => o.c.st = "ERROR"
      BY <1>7, <1>8, <2>1, ReadHeaderGood
    <2>3. w \in Out(o.c, o.n, 0) BY <2>2 DEF EventWrite
    <2>4. w.c = o.c /\ w.n = o.n BY <2>3, OutIs
    <2>5. e.c = o.c /\ e.n = o.n BY <2>2, <2>4
    <2>6. "HUP" \in Revents => net.peer = "reset" /\ rd = 1
      <3>1. "IN" \in con.want BY <1>1, <1>8 DEF IInv, Settled
      <3> QED BY <3>1 DEF Revents
    <2>7. d = o.c BY <1>7, <2>2, <2>5, <2>6 DEF EventHup
    <2> HIDE DEF d, e, rd
    <2>8. con' = o.c /\ net' = o.n /\ ostate' = OState(o.c) /\ hist' = Observe(con, o.c)
      BY <1>4, <2>5, <2>7
    <2>9. hist'.logged = hist.logged /\ hist.taken = hist.logged
      BY <1>6, <1>8, <2>8, Observed DEF Counted, Waits
    <2>10. /\ o.c.st \in {"REQUEST_END", "HANDLE_REQUEST"} => hist'.taken = hist.taken + 1
           /\ o.c.st \notin {"REQUEST_END", "HANDLE_REQUEST"} => hist'.taken = hist.taken
      BY <1>6, <1>8, <2>8, Observed
    <2>11. Counted(o.c, hist')
      BY <2>2, <2>9, <2>10 DEF Counted, Waits, InService, Answering, Answers
    <2>12. o.c.used BY <1>5, <1>7, <2>2 DEF Same
    <2>13. IInv' BY <1>1, <1>5, <2>2, <2>8, <2>11, <2>12, EventKeeps
    <2>14. Rests \/ Takes BY <1>5, <1>8, <2>2, <2>8, <2>9, <2>10, <2>12 DEF Rests, Takes, SameCounts
    <2> QED BY <2>13, <2>14 DEF Keeps, Progress
  <1>9. CASE con.st # "READ"
    <2>1. o \in Out(b, net, 0) BY <1>7, <1>9 DEF EventRead
    <2>2. o.c = b /\ o.n = net BY <2>1, OutIs
    <2>3. /\ Good(w.c, w.n) /\ w.c.used /\ w.c.status = b.status
          /\ w.c.st = b.st \/ (b.st = "WRITE" /\ w.c.st \in {"RESPONSE_END", "ERROR"})
          /\ w.c.st = b.st /\ b.st = "CLOSE" => w.c = b
      <3>1. b.used BY <1>5, <1>7 DEF Same
      <3>2. CASE w \in Out(b, net, 0)
        <4>1. w.c = b /\ w.n = net BY <3>2, OutIs
        <4> QED BY <1>7, <3>1, <4>1
      <3>3. CASE b.st = "WRITE" /\ b.wq # 0 /\ w \in HandleWrite(b, net)
        <4>1. Typed(b) /\ net \in NetType BY <1>7 DEF Good
        <4>2. b.used = TRUE BY <3>1, <4>1 DEF Typed
        <4>3. Replying(b, net) BY <1>7, <3>3, <4>2 DEF Replying, Answering, Answers
        <4>4. Replies(b, net, w.c, w.n) BY <3>3, <4>1, HandleWriteReplies
        <4>5. Good(w.c, w.n) BY <4>3, <4>4, RepliesOn
        <4> QED BY <3>1, <3>3, <4>4, <4>5 DEF Replies
      <3> QED BY <2>2, <3>2, <3>3 DEF EventWrite
    <2>4. /\ Good(e.c, e.n) /\ e.c.st = w.c.st /\ Same(w.c, e.c)
      <3>1. Typed(w.c) /\ w.n \in NetType BY <2>3 DEF Good
      <3>2. CASE w.c.st = "CLOSE"
        <4>1. e = ReadForEos(w.c, w.n) BY <3>2
        <4> HIDE DEF e
        <4>2. Typed(e.c) /\ e.n \in NetType /\ Same(w.c, e.c) /\ e.c.st = w.c.st BY <3>1, <4>1, EosTyped
        <4> QED BY <2>3, <3>2, <4>2, EosGood
      <3>3. CASE w.c.st # "CLOSE"
        <4>1. e.c = w.c /\ e.n = w.n BY <3>3
        <4> HIDE DEF e
        <4> QED BY <2>3, <4>1 DEF Same
      <3> QED BY <3>2, <3>3
    <2> HIDE DEF e
    <2>5. e.c.used BY <2>3, <2>4 DEF Same
    <2>6. /\ Good(d, e.n) /\ Same(e.c, d)
          /\ d.st = e.c.st \/ (d.st = "ERROR" /\ e.c.st # "CLOSE")
      <3>1. CASE "HUP" \in Revents
        <4>1. d = EventHup(e.c) BY <3>1
        <4> HIDE DEF d
        <4> QED BY <2>4, <2>5, <4>1, HangsUp
      <3>2. CASE "HUP" \notin Revents BY <2>4, <3>2 DEF Same
      <3> QED BY <3>1, <3>2
    <2> HIDE DEF d
    <2>7. /\ d.st \in {con.st, "ERROR"} \/ (con.st = "WRITE" /\ d.st = "RESPONSE_END")
          /\ con.st = "CLOSE" => d.st = "CLOSE" /\ (Clean(con) => Clean(d))
          /\ d.status = con.status /\ d.used
      <3>1. d.status = con.status /\ d.used BY <1>7, <2>3, <2>4, <2>5, <2>6 DEF Same
      <3>2. d.st \in {con.st, "ERROR"} \/ (con.st = "WRITE" /\ d.st = "RESPONSE_END")
        BY <1>7, <2>3, <2>4, <2>6
      <3>3. con.st = "CLOSE" => d.st = "CLOSE" /\ w.c = b BY <1>7, <2>3, <2>4, <2>6
      <3>4. w.c = b /\ Clean(con) => Clean(d) BY <1>7, <2>4, <2>6 DEF Same, Clean
      <3> QED BY <3>1, <3>2, <3>3, <3>4
    <2>8. SameCounts BY <1>4, <1>6, <1>9, Observed DEF SameCounts
    <2>9. Counted(d, hist')
      <3>1. con.st \in {"CLOSE", "CONNECT"} => d.st = con.st BY <1>5, <2>7
      <3> QED BY <1>6, <2>7, <2>8, <3>1, StillCounted DEF SameCounts
    <2>10. d.st \in {"CLOSE", "CONNECT"} /\ graceful # "begun" => Clean(d)
      <3>1. con.st = "CLOSE" /\ graceful # "begun" => Clean(con) BY DEF IInv, Settled
      <3> QED BY <1>5, <2>7, <3>1
    <2>11. IInv' BY <1>1, <1>4, <1>5, <2>6, <2>7, <2>9, <2>10, EventKeeps
    <2>12. Rests BY <1>4, <1>5, <1>6, <2>6, <2>7, <2>8 DEF Rests, Good, Typed
    <2> QED BY <2>11, <2>12 DEF Keeps, Progress
  <1> QED BY <1>8, <1>9

-----------------------------------------------------------------------------
(* Scripts                                                                  *)

\* What a running script's output, end or failure makes of its connection.
Scripted(c, d) ==
  /\ Typed(d) /\ d.used = c.used /\ d.open = c.open /\ d.rq = c.rq /\ d.body = c.body /\ d.got = c.got
  /\ d.st = c.st
  /\ d.status = c.status \/ (c.st \in {"READ_POST", "HANDLE_REQUEST"})
  /\ d.keep => c.keep
  /\ d.hctx = "none" \/ (d.hctx = "run" /\ d.cgi = c.cgi /\ d.fin = c.fin)
  /\ d.fin => c.fin \/ ~d.keep \/ (d.cgi /\ d.hctx = "none") \/ c.st \notin {"READ_POST", "HANDLE_REQUEST"}

\* cgi_handle_fdevent, whatever it did, runs the connection.
LEMMA ScriptKeeps ==
  ASSUME IInv, NEW d, Scripted(con, d), CgiRun(d)
  PROVE  Keeps
  <1>1. /\ pc = "idle" /\ con.hctx = "run" /\ con' = d /\ pc' = "run" /\ ostate' = OState(d)
        /\ hist' = Observe(con, d) /\ net' = net /\ jobs' = jobs /\ graceful' = graceful
    BY DEF CgiRun
  <1>2. Good(con, net) /\ Counted(con, hist) /\ hist \in HistType
    BY <1>1, ConGood DEF Counted, InService, Answering
  <1>3. con.used /\ con.open BY <1>1 DEF IInv, Slot
  <1>4. d.used /\ d.open BY <1>3 DEF Scripted
  <1>5. d.st = con.st /\ con.st \notin Waits \cup {"REQUEST_END", "CONNECT"}
    BY <1>1, <1>2, <1>3 DEF Scripted, Good, Course, Clean, Slot
  <1>6. Slot(d) BY <1>3, <1>4, <1>5 DEF Slot
  <1>7. Course(d)
    <2>1. /\ con.got <= con.body /\ con.body <= 1 /\ con.cgi /\ (con.fin => ~con.keep)
          /\ Answering(con) => con.status # 0 /\ ~con.keep
      BY <1>1, <1>2 DEF Good, Course
    <2>2. d.got <= d.body /\ d.body <= 1 BY <2>1 DEF Scripted
    <2>3. d.hctx = "run" => d.cgi /\ (d.fin => ~d.keep) BY <2>1 DEF Scripted
    <2>4. d.st \in {"READ_POST", "HANDLE_REQUEST"} /\ d.fin => ~d.keep \/ (d.cgi /\ d.hctx = "none")
      BY <2>1 DEF Scripted
    <2>5. Answering(d) => Answering(con) /\ d.status = con.status /\ ~d.keep
      BY <1>5, <2>1 DEF Scripted, Answering, Answers
    <2> QED BY <1>5, <2>1, <2>2, <2>3, <2>4, <2>5 DEF Course, Answering, Answers
  <1>8. Aligned(d, net)
    <2>1. Due(d) = Due(con) /\ Stream(d, net) = Stream(con, net) BY DEF Scripted, Due, Stream
    <2>2. InService(d) => InService(con) BY <1>5 DEF InService, Answering
    <2>3. d.keep => con.keep BY DEF Scripted
    <2> QED BY <1>2, <1>5, <2>1, <2>2, <2>3 DEF Good, Aligned
  <1>9. Good(d, net) BY <1>2, <1>6, <1>7, <1>8 DEF Good, Scripted
  <1>10. SameCounts BY <1>1, <1>2, <1>5, Observed DEF SameCounts, Waits
  <1>11. Counted(d, hist')
    <2>1. InService(d) => InService(con) BY <1>5 DEF InService, Answering
    <2>2. d.st = "ERROR" => d.status = con.status BY <1>5 DEF Scripted
    <2> QED BY <1>2, <1>5, <1>10, <2>1, <2>2 DEF Counted, SameCounts
  <1>12. d.st \in {"CLOSE", "CONNECT"} /\ graceful # "begun" => Clean(d)
    BY <1>1, <1>5 DEF IInv, Settled, Clean
  <1>13. IInv' BY <1>1, <1>3, <1>4, <1>9, <1>11, <1>12, EventKeeps
  <1>14. Rests BY <1>1, <1>5, <1>10 DEF Rests, Scripted
  <1> QED BY <1>13, <1>14 DEF Keeps, Progress

\* cgi_connection_close of a running script.
LEMMA ScriptCloses ==
  ASSUME NEW c, NEW x, Typed(c), Typed(x), x.used = c.used, x.open = c.open, x.rq = c.rq,
         x.body = c.body, x.got = c.got, x.st = c.st, x.status = c.status, x.keep => c.keep,
         x.fin => c.fin \/ ~x.keep
  PROVE  Scripted(c, CgiClose(x))
  <1> DEFINE a == [x EXCEPT !.hctx = "none"]
             b == [a EXCEPT !.status = 500, !.cgi = FALSE]
             e == [a EXCEPT !.fin = TRUE]
  <1>1. Typed(a) BY DEF Typed, Fields
  <1>2. /\ a.used = x.used /\ a.open = x.open /\ a.rq = x.rq /\ a.body = x.body /\ a.got = x.got
        /\ a.st = x.st /\ a.status = x.status /\ a.keep = x.keep /\ a.fin = x.fin /\ a.cgi = x.cgi
        /\ a.hctx = "none"
    BY DEF Typed, Fields
  <1>3. \/ CgiClose(x) = a
        \/ CgiClose(x) = b /\ a.st \in {"READ_POST", "HANDLE_REQUEST"}
        \/ CgiClose(x) = e /\ a.cgi
    BY DEF CgiClose, BackendDone
  <1> HIDE DEF a
  <1>4. Typed(b) BY <1>1 DEF Typed, Fields
  <1>5. /\ b.used = a.used /\ b.open = a.open /\ b.rq = a.rq /\ b.body = a.body /\ b.got = a.got
        /\ b.st = a.st /\ b.keep = a.keep /\ b.fin = a.fin /\ b.hctx = a.hctx
    BY <1>1 DEF Typed, Fields
  <1>6. Typed(e) BY <1>1 DEF Typed, Fields
  <1>7. /\ e.used = a.used /\ e.open = a.open /\ e.rq = a.rq /\ e.body = a.body /\ e.got = a.got
        /\ e.st = a.st /\ e.status = a.status /\ e.keep = a.keep /\ e.hctx = a.hctx /\ e.cgi = a.cgi
    BY <1>1 DEF Typed, Fields
  <1> HIDE DEF b, e
  <1>8. Scripted(c, a) BY <1>1, <1>2 DEF Scripted
  <1>9. a.st \in {"READ_POST", "HANDLE_REQUEST"} => Scripted(c, b) BY <1>2, <1>4, <1>5 DEF Scripted
  <1>10. a.cgi => Scripted(c, e) BY <1>2, <1>6, <1>7 DEF Scripted
  <1> QED BY <1>3, <1>8, <1>9, <1>10

\* The script's output, its end, and its failure.
LEMMA CgiDataKeeps ==
  ASSUME IInv, CgiData
  PROVE  Keeps
  <1> DEFINE q == con.wq + 1
             l == con.cgiLeft - 1
             d == [con EXCEPT !.started = TRUE, !.wq = q, !.cgiLeft = l]
  <1>1. con.cgiLeft > 0 /\ CgiRun(d) BY DEF CgiData
  <1>2. Typed(con) BY ConGood DEF Good
  <1>3. q \in Nat /\ l \in Nat BY SMTT(40), <1>1, <1>2 DEF Typed
  <1> HIDE DEF q, l
  <1>4. Typed(d) BY <1>2, <1>3 DEF Typed, Fields
  <1>5. /\ d.used = con.used /\ d.open = con.open /\ d.rq = con.rq /\ d.body = con.body /\ d.got = con.got
        /\ d.st = con.st /\ d.status = con.status /\ d.keep = con.keep /\ d.fin = con.fin
        /\ d.hctx = con.hctx /\ d.cgi = con.cgi
    BY <1>2 DEF Typed, Fields
  <1> HIDE DEF d
  <1>6. con.hctx = "run" BY <1>1 DEF CgiRun
  <1>7. Scripted(con, d) BY <1>4, <1>5, <1>6 DEF Scripted
  <1> QED BY <1>1, <1>7, ScriptKeeps

LEMMA CgiEndKeeps ==
  ASSUME IInv, CgiEnd
  PROVE  Keeps
  <1>1. Typed(con) /\ CgiRun(CgiClose(con)) BY ConGood DEF Good, CgiEnd
  <1>2. Scripted(con, CgiClose(con)) BY <1>1, ScriptCloses
  <1> QED BY <1>1, <1>2, ScriptKeeps

LEMMA CgiFailKeeps ==
  ASSUME IInv, CgiFail
  PROVE  Keeps
  <1> DEFINE a == [con EXCEPT !.cgi = FALSE, !.keep = FALSE, !.fin = TRUE]
             x == IF con.started THEN a ELSE con
  <1>1. Typed(con) /\ CgiRun(CgiClose(x)) BY ConGood DEF Good, CgiFail
  <1>2. Typed(a) BY <1>1 DEF Typed, Fields
  <1>3. /\ a.used = con.used /\ a.open = con.open /\ a.rq = con.rq /\ a.body = con.body /\ a.got = con.got
        /\ a.st = con.st /\ a.status = con.status /\ ~a.keep
    BY <1>1 DEF Typed, Fields
  <1>4. Scripted(con, CgiClose(a))
    <2> HIDE DEF a
    <2> QED BY <1>1, <1>2, <1>3, ScriptCloses
  <1>5. Scripted(con, CgiClose(con)) BY <1>1, ScriptCloses
  <1>6. Scripted(con, CgiClose(x)) BY <1>4, <1>5
  <1> HIDE DEF x
  <1> QED BY <1>1, <1>6, ScriptKeeps

-----------------------------------------------------------------------------
(* The queue of runs, and the client                                        *)

\* The worker takes a queued run.
LEMMA StartRunKeeps ==
  ASSUME IInv, StartRun
  PROVE  Keeps
  <1>1. /\ pc = "idle" /\ jobs # <<>> /\ pc' = "run" /\ ostate' = Head(jobs) /\ jobs' = Tail(jobs)
        /\ con' = con /\ net' = net /\ graceful' = graceful /\ hist' = hist
    BY DEF StartRun
  <1>2. jobs \in Seq(Runs) BY DEF IInv, TypeOK
  <1>3. ostate' \in Runs /\ jobs' \in Seq(Runs) BY <1>1, <1>2, HeadTailProperties
  <1>4. Good(con', net') /\ Counted(con', hist')
    BY <1>1, ConGood DEF Counted, InService, Answering
  <1>5. TypeOK' BY <1>1, <1>3 DEF IInv, TypeOK, Runs, States
  <1>6. Settled' BY <1>1, <1>3 DEF IInv, Settled, Runs
  <1>7. IInv' BY <1>4, <1>5, <1>6 DEF IInv, Good
  <1>8. Rests BY <1>1 DEF Rests, SameCounts
  <1> QED BY <1>7, <1>8 DEF Keeps, Progress

\* What the client does changes nothing but the network.
LEMMA ClientKeeps ==
  ASSUME IInv, ClientOnly, net' \in NetType, Aligned(con, net')
  PROVE  Keeps
  <1>1. con' = con /\ pc' = pc /\ ostate' = ostate /\ jobs' = jobs /\ graceful' = graceful /\ hist' = hist
    BY DEF ClientOnly
  <1>2. IInv' BY <1>1 DEF IInv, TypeOK, Settled
  <1>3. Rests BY <1>1 DEF Rests, SameCounts
  <1> QED BY <1>2, <1>3 DEF Keeps, Progress

\* A client that has closed sends nothing more, and its bytes may end anywhere.
LEMMA ClientCuts ==
  ASSUME IInv, NEW m, m.peer # "open", NEW s \in Seq(Tokens), NEW t \in Seq(Tokens),
         Stream(con, net) = s \o t, Stream(con, m) = s
  PROVE  Aligned(con, m)
  <1>1. ASSUME NEW p, Framed(p, Stream(con, net), net.peer) PROVE Framed(p, Stream(con, m), m.peer)
    <2> DEFINE old == net.peer
               new == m.peer
    <2>1. Framed(p, s \o t, old) /\ new # "open" BY <1>1
    <2> HIDE DEF old, new
    <2>2. Framed(p, s, new) BY <2>1, StreamCut
    <2> QED BY <2>2 DEF new
  <1> QED BY <1>1 DEF IInv, Aligned

\* The client: what it sends, takes, ends and resets.
LEMMA ClientRequestsKeeps ==
  ASSUME IInv, NEW k \in Kinds, ClientRequests(k)
  PROVE  Keeps
  <1> DEFINE b == Bytes(k)
             l == net.left - 1
             m == [net EXCEPT !.todo = b, !.left = l]
  <1>1. net.peer = "open" /\ net.todo = <<>> /\ net.left > 0 /\ net' = m /\ ClientOnly
    BY DEF ClientRequests
  <1>2. k \in AllKinds BY ConStateAssumption
  <1>3. net \in NetType /\ con.rq \in Seq(Tokens) /\ net.sock \in Seq(Tokens) /\ net.left \in Nat
    BY DEF IInv, TypeOK, Typed, NetType
  <1>4. b \in Seq(Tokens)
    <2>1. CASE k = "big" BY <2>1 DEF Bytes, Bodied, Tokens, AllKinds
    <2>2. CASE Bodied(k) BY <2>2 DEF Bytes, Bodied, Tokens, AllKinds
    <2>3. CASE k # "big" /\ ~Bodied(k) BY <1>2, <2>3 DEF Bytes, Bodied, Tokens, AllKinds
    <2> QED BY <2>1, <2>2, <2>3
  <1>5. l \in Nat BY <1>1, <1>3
  <1> HIDE DEF b, l
  <1>6. m \in NetType /\ m.sock = net.sock /\ m.todo = b /\ m.peer = "open" BY <1>1, <1>3, <1>4, <1>5 DEF NetType
  <1> HIDE DEF m
  <1> DEFINE s == con.rq \o net.sock
  <1>7. s \in Seq(Tokens) BY <1>3, ConcatProperties
  <1>8. Stream(con, net) = s
    <2>1. Stream(con, net) = s \o <<>> BY <1>1 DEF Stream
    <2> HIDE DEF s
    <2> QED BY <1>7, <2>1, ConcatEmptySeq
  <1>9. Stream(con, m) = s \o b BY <1>6 DEF Stream
  <1> HIDE DEF s
  <1>10. ASSUME NEW p, Framed(p, Stream(con, net), net.peer) PROVE Framed(p, Stream(con, m), m.peer)
    <2>1. Framed(p, s, "open") BY <1>1, <1>8, <1>10
    <2>2. Framed(p, s \o b, "open") BY <1>2, <1>7, <2>1, RequestJoins DEF b
    <2> QED BY <1>6, <1>9, <2>2
  <1>11. Aligned(con, m) BY <1>10 DEF IInv, Aligned
  <1> QED BY <1>1, <1>6, <1>11, ClientKeeps

\* A byte of d is sent to the end of b.
Sent(a, b, d) ==
  /\ Append(b, Head(d)) \in Seq(Tokens) /\ Tail(d) \in Seq(Tokens)
  /\ a \o Append(b, Head(d)) \o Tail(d) = a \o b \o d

\* Bytes that reach the socket leave the stream as it was.
LEMMA BytesSent ==
  ASSUME NEW a \in Seq(Tokens), NEW b \in Seq(Tokens), NEW d \in Seq(Tokens), d # <<>>
  PROVE  Sent(a, b, d)
  <1> DEFINE h == Head(d)
             t == Tail(d)
  <1>1. h \in Tokens /\ t \in Seq(Tokens) BY HeadTailProperties
  <1>2. <<h>> \o t = d BY HeadTailProperties
  <1>3. Append(b, h) = b \o <<h>> /\ Append(b, h) \in Seq(Tokens) BY <1>1, AppendProperties, AppendIsConcat
  <1>4. <<h>> \in Seq(Tokens) BY <1>1
  <1> DEFINE o == <<h>>
             c == Append(b, h)
  <1> HIDE DEF h, t, o, c
  <1>5. b \o o \o t = b \o (o \o t) BY <1>1, <1>4, StreamParts DEF o
  <1>6. c \in Seq(Tokens) /\ c = b \o o BY <1>3 DEF c, o
  <1>7. a \o c \o t = a \o (c \o t) BY ZenonT(40), <1>1, <1>6, StreamParts
  <1>8. a \o b \o d = a \o (b \o d) BY StreamParts
  <1>9. c \o t = b \o d BY <1>2, <1>5, <1>6 DEF o
  <1> QED BY <1>1, <1>6, <1>7, <1>8, <1>9 DEF h, t, c, Sent

LEMMA ClientSendsKeeps ==
  ASSUME IInv, ClientSends
  PROVE  Keeps
  <1> DEFINE u == Append(net.sock, Head(net.todo))
             v == Tail(net.todo)
             m == [net EXCEPT !.sock = u, !.todo = v]
  <1>1. net.todo # <<>> /\ net' = m /\ ClientOnly BY DEF ClientSends
  <1>2. net \in NetType /\ con.rq \in Seq(Tokens) /\ net.sock \in Seq(Tokens) /\ net.todo \in Seq(Tokens)
    BY DEF IInv, TypeOK, Typed, NetType
  <1>3. /\ u \in Seq(Tokens) /\ v \in Seq(Tokens)
        /\ con.rq \o u \o v = con.rq \o net.sock \o net.todo
    <2>1. Sent(con.rq, net.sock, net.todo) BY <1>1, <1>2, BytesSent
    <2> QED BY <2>1, Zenon DEF Sent
  <1> HIDE DEF u, v
  <1>4. m \in NetType /\ m.sock = u /\ m.todo = v /\ m.peer = net.peer BY <1>2, <1>3 DEF NetType
  <1> HIDE DEF m
  <1>5. Stream(con, m) = Stream(con, net) BY <1>3, <1>4 DEF Stream
  <1>6. Aligned(con, m) BY <1>4, <1>5 DEF IInv, Aligned
  <1> QED BY <1>1, <1>4, <1>6, ClientKeeps

LEMMA ClientReceivesKeeps ==
  ASSUME IInv, ClientReceives
  PROVE  Keeps
  <1> DEFINE v == net.snd - 1
             m == [net EXCEPT !.snd = v]
  <1>1. net.snd > 0 /\ net' = m /\ ClientOnly BY DEF ClientReceives
  <1>2. net \in NetType BY DEF IInv, TypeOK
  <1>3. v \in 0 .. SndBuf
    <2>1. SndBuf \in Nat BY ConStateAssumption
    <2>2. net.snd \in 0 .. SndBuf BY <1>2 DEF NetType
    <2> QED BY <1>1, <2>1, <2>2
  <1> HIDE DEF v
  <1>4. m \in NetType /\ m.sock = net.sock /\ m.todo = net.todo /\ m.peer = net.peer
    BY <1>2, <1>3 DEF NetType
  <1> HIDE DEF m
  <1>5. Stream(con, m) = Stream(con, net) BY <1>4 DEF Stream
  <1>6. Aligned(con, m) BY <1>4, <1>5 DEF IInv, Aligned
  <1> QED BY <1>1, <1>4, <1>6, ClientKeeps

LEMMA ClientFinishesKeeps ==
  ASSUME IInv, ClientFinishes
  PROVE  Keeps
  <1> DEFINE e == <<>>
             p == "fin"
             m == [net EXCEPT !.peer = p, !.todo = e]
             s == con.rq \o net.sock
             t == net.todo
  <1>1. net' = m /\ ClientOnly BY DEF ClientFinishes
  <1>2. net \in NetType /\ con.rq \in Seq(Tokens) /\ net.sock \in Seq(Tokens) /\ t \in Seq(Tokens)
    BY DEF IInv, TypeOK, Typed, NetType
  <1>3. e \in Seq(Tokens) /\ p \in {"none", "open", "fin", "reset"} /\ p # "open" OBVIOUS
  <1>4. s \in Seq(Tokens) /\ s \o e = s BY <1>2, ConcatProperties, ConcatEmptySeq
  <1> HIDE DEF e, p
  <1>5. m \in NetType /\ m.sock = net.sock /\ m.todo = e /\ m.peer = p BY <1>2, <1>3 DEF NetType
  <1> HIDE DEF m
  <1>6. Stream(con, net) = s \o t /\ Stream(con, m) = s BY <1>4, <1>5 DEF Stream
  <1> HIDE DEF s, t
  <1>7. Aligned(con, m) BY <1>2, <1>3, <1>4, <1>5, <1>6, ClientCuts
  <1> QED BY <1>1, <1>5, <1>7, ClientKeeps

LEMMA ClientResetsKeeps ==
  ASSUME IInv, ClientResets
  PROVE  Keeps
  <1> DEFINE e == <<>>
             p == "reset"
             m == [net EXCEPT !.peer = p, !.sock = e, !.todo = e, !.snd = 0]
             s == con.rq
             t == net.sock \o net.todo
  <1>1. net' = m /\ ClientOnly BY DEF ClientResets
  <1>2. net \in NetType /\ s \in Seq(Tokens) /\ net.sock \in Seq(Tokens) /\ net.todo \in Seq(Tokens)
    BY DEF IInv, TypeOK, Typed, NetType
  <1>3. e \in Seq(Tokens) /\ p \in {"none", "open", "fin", "reset"} /\ p # "open" /\ 0 \in 0 .. SndBuf
    BY ConStateAssumption
  <1>4. s \o e = s BY <1>2, ConcatEmptySeq
  <1>5. t \in Seq(Tokens) /\ Stream(con, net) = s \o t BY <1>2, ConcatProperties, StreamParts DEF Stream
  <1> HIDE DEF e, p
  <1>6. m \in NetType /\ m.sock = e /\ m.todo = e /\ m.peer = p BY <1>2, <1>3 DEF NetType
  <1> HIDE DEF m
  <1>7. Stream(con, m) = s BY <1>4, <1>6 DEF Stream
  <1> HIDE DEF s, t
  <1>8. Aligned(con, m) BY <1>2, <1>3, <1>5, <1>6, <1>7, ClientCuts
  <1> QED BY <1>1, <1>6, <1>8, ClientKeeps

-----------------------------------------------------------------------------
(* The main thread                                                          *)

\* connection_accepted gives a new client a clean slot, and its first run.
LEMMA AcceptKeeps ==
  ASSUME IInv, Accept
  PROVE  Keeps
  <1> DEFINE r == IF con.uri THEN Reset(con) ELSE con
             no == {}
             c == [r EXCEPT !.used = TRUE, !.open = TRUE, !.want = no, !.st = "REQUEST_START"]
             e == <<>>
             m == [NoClient EXCEPT !.peer = "open", !.left = MaxRequests]
  <1>1. /\ ~con.used /\ pc = "idle" /\ graceful # "begun"
        /\ con' = c /\ jobs' = Append(jobs, OState(c)) /\ net' = m /\ hist' = NoHistory
        /\ pc' = pc /\ ostate' = ostate /\ graceful' = graceful
    BY DEF Accept, Queued
  <1>2. Typed(con) /\ jobs \in Seq(Runs) /\ ostate \in States /\ graceful \in {"no", "asked", "begun"}
    BY DEF IInv, TypeOK
  <1>3. con.st = "CONNECT" /\ Clean(con) /\ con.rq = e /\ con.reqCount = 0
    BY <1>1 DEF IInv, Slot, Settled
  <1>4. Typed(r) /\ Clean(r) /\ r.rq = e /\ r.reqCount = 0 BY <1>2, <1>3, ResetCleans
  <1> HIDE DEF r
  <1>5. no \subseteq {"IN", "OUT"} OBVIOUS
  <1> HIDE DEF no
  <1>6. Typed(c)
    <2>1. Typed(r) BY <1>4
    <2> QED BY <1>5, <2>1 DEF Typed, Fields, States
  <1>7. /\ c.used /\ c.open /\ c.st = "REQUEST_START" /\ c.rq = r.rq /\ c.reqCount = r.reqCount
        /\ c.status = r.status /\ c.saved = r.saved /\ c.wq = r.wq /\ c.fin = r.fin /\ c.cgi = r.cgi
        /\ c.hctx = r.hctx /\ c.body = r.body /\ c.got = r.got /\ c.cq = r.cq
    BY <1>4 DEF Typed, Fields
  <1> HIDE DEF c
  <1>8. Clean(c) BY <1>4, <1>7 DEF Clean
  <1>9. Slot(c) /\ Course(c)
    <2>1. c.got <= c.body /\ c.body <= 1 /\ ~c.fin /\ c.hctx = "none" BY <1>8 DEF Clean
    <2> QED BY <1>7, <1>8, <2>1 DEF Slot, Course, Answering, Answers
  <1>10. m \in NetType /\ m.sock = e /\ m.todo = e /\ m.peer = "open"
    <2>1. e \in Seq(Tokens) /\ 0 \in 0 .. SndBuf /\ MaxRequests \in Nat BY ConStateAssumption
    <2> DEFINE n == [peer |-> "none", sock |-> e, todo |-> e, left |-> 0, snd |-> 0]
    <2>2. n \in NetType /\ n.sock = e /\ n.todo = e
      <3> HIDE DEF e
      <3> QED BY <2>1 DEF NetType
    <2>3. m = [n EXCEPT !.peer = "open", !.left = MaxRequests] BY DEF NoClient
    <2> HIDE DEF n, m, e
    <2> QED BY <2>1, <2>2, <2>3 DEF NetType
  <1> HIDE DEF m
  <1>11. Aligned(c, m)
    <2>1. Stream(c, m) = <<>>
      <3>1. <<>> \in Seq(Tokens) OBVIOUS
      <3>2. <<>> \o <<>> = <<>> BY <3>1, ConcatEmptySeq
      <3>3. c.rq = <<>> /\ m.sock = <<>> /\ m.todo = <<>> BY <1>4, <1>7, <1>10
      <3> QED BY <3>2, <3>3 DEF Stream
    <2>2. Framed("part", Stream(c, m), m.peer) BY <2>1, KindsAreTokens DEF Framed
    <2> QED BY <1>7, <2>2 DEF Aligned, InService, Answering, Answers
  <1>12. Counted(c, NoHistory)
    BY <1>7 DEF Counted, NoHistory, InService, Answering, Answers
  <1>13. NoHistory \in HistType BY DEF NoHistory, HistType
  <1>14. OState(c) \in Runs BY <1>7 DEF OState, Runs, States
  <1>15. jobs' \in Seq(Runs) BY <1>1, <1>2, <1>14, AppendProperties
  <1>16. TypeOK' BY <1>1, <1>2, <1>6, <1>10, <1>13, <1>15 DEF TypeOK
  <1>17. Settled' BY <1>1, <1>7 DEF IInv, Settled
  <1>18. IInv' BY <1>1, <1>9, <1>11, <1>12, <1>16, <1>17 DEF IInv
  <1>19. Opens BY <1>1, <1>4, <1>7 DEF Opens, NoHistory
  <1> QED BY <1>18, <1>19 DEF Keeps, Progress

\* Runs that the main thread queues for a connection in use.
LEMMA Requeued ==
  ASSUME NEW q \in Seq(Runs), NEW c, NEW changed, Typed(c), c.st # "CONNECT"
  PROVE  q \o Requeue(changed, c) \in Seq(Runs)
  <1>1. OState(c) \in Runs BY DEF OState, Runs, States, Typed
  <1>2. Requeue(changed, c) \in Seq(Runs) BY <1>1 DEF Requeue
  <1> QED BY <1>2, ConcatProperties

\* The shutdown is asked for.
LEMMA GracefulStartKeeps ==
  ASSUME IInv, GracefulStart
  PROVE  Keeps
  <1>1. /\ MayShutdown /\ graceful = "no" /\ graceful' = "asked"
        /\ con' = con /\ net' = net /\ pc' = pc /\ ostate' = ostate /\ jobs' = jobs /\ hist' = hist
    BY DEF GracefulStart
  <1>2. TypeOK' BY <1>1 DEF IInv, TypeOK
  <1>3. Settled' BY <1>1 DEF IInv, Settled
  <1>4. IInv' BY <1>1, <1>2, <1>3 DEF IInv
  <1>5. Rests BY <1>1 DEF Rests, SameCounts
  <1> QED BY <1>4, <1>5 DEF Keeps, Progress

\* What the main thread's timer and its shutdown may do to a connection: age it, take its
\* keep-alive away or its limit, and end it.
Lowered(c, d) ==
  /\ Typed(d) /\ d.used = c.used /\ d.open = c.open /\ d.kind = c.kind /\ d.status = c.status
  /\ d.saved = c.saved /\ d.body = c.body /\ d.got = c.got /\ d.cq = c.cq /\ d.cgi = c.cgi
  /\ d.hctx = c.hctx /\ d.started = c.started /\ d.fin = c.fin /\ d.wq = c.wq
  /\ d.reqCount = c.reqCount /\ d.rq = c.rq /\ d.want = c.want
  /\ d.keep => c.keep
  /\ d.st \in {c.st, "ERROR", "CLOSE"}
  /\ c.st \in {"CLOSE", "CONNECT"} => d.st = c.st

\* Two changes by the main thread make one.
LEMMA LoweredTwice ==
  ASSUME NEW b, NEW c, NEW d, Lowered(b, c), Lowered(c, d)
  PROVE  Lowered(b, d)
  BY DEF Lowered

\* A connection that the main thread fails or closes is still good.
LEMMA LoweredGood ==
  ASSUME NEW c, NEW n, NEW d, Good(c, n), Lowered(c, d)
  PROVE  Good(d, n)
  <1>1. d.st \in {"ERROR", "CLOSE"} => c.st \notin {"CONNECT"} BY DEF Lowered
  <1>2. Slot(d) BY <1>1 DEF Good, Slot, Lowered
  <1>3. d.st \in Waits \cup {"REQUEST_END", "READ_POST", "HANDLE_REQUEST", "RESPONSE_END"} => d.st = c.st
    BY DEF Lowered, Waits
  <1>4. Answering(d) => Answering(c) BY DEF Answering, Answers, Lowered
  <1>5. Course(d)
    <2>1. /\ d.got <= d.body /\ d.body <= 1
          /\ d.st \in Waits \cup {"REQUEST_END"} => Clean(d)
      BY <1>3 DEF Good, Course, Lowered, Clean
    <2>2. /\ d.hctx = "run" => d.cgi /\ (d.fin => ~d.keep)
          /\ d.st \in {"READ_POST", "HANDLE_REQUEST"} /\ d.fin => ~d.keep \/ (d.cgi /\ d.hctx = "none")
      BY <1>3 DEF Good, Course, Lowered
    <2>3. /\ Answering(d) => d.status # 0 /\ (d.hctx = "run" => ~d.keep)
          /\ d.st = "RESPONSE_END" /\ d.keep => d.fin /\ d.wq = 0
      BY <1>3, <1>4 DEF Good, Course, Lowered
    <2> QED BY <2>1, <2>2, <2>3 DEF Course
  <1>6. Aligned(d, n)
    <2>1. Due(d) = Due(c) /\ Stream(d, n) = Stream(c, n) /\ d.kind = c.kind BY DEF Due, Stream, Lowered
    <2>2. InService(d) => InService(c) BY <1>3, <1>4 DEF InService
    <2>3. d.keep => c.keep BY DEF Lowered
    <2> QED BY <1>3, <2>1, <2>2, <2>3 DEF Good, Aligned
  <1> QED BY <1>2, <1>5, <1>6 DEF Good, Lowered

\* A second passes.
LEMMA AgedLowers ==
  ASSUME NEW c, Typed(c)
  PROVE  Lowered(c, Aged(c)) /\ Aged(c).st = c.st
  <1> DEFINE r == Least(c.readAge + 1, OldestAge)
             w == IF c.writeAge = NeverTs THEN c.writeAge ELSE Least(c.writeAge + 1, MaxWriteIdle + 1)
             l == Least(c.closeAge + 1, LingerTimeout + 1)
             d == [c EXCEPT !.readAge = r, !.writeAge = w, !.closeAge = l]
  <1>1. Aged(c) = d BY DEF Aged
  <1>2. r \in Int /\ w \in Int /\ l \in Int
    <2>1. c.readAge \in Int /\ c.writeAge \in Int /\ c.closeAge \in Int BY DEF Typed
    <2>2. OldestAge \in Int /\ MaxWriteIdle \in Int /\ LingerTimeout \in Int
      BY ConStateAssumption DEF OldestAge
    <2> QED BY <2>1, <2>2 DEF Least
  <1> HIDE DEF r, w, l
  <1>3. Typed(d) BY <1>2 DEF Typed, Fields
  <1>4. Same(c, d) /\ d.st = c.st /\ d.rq = c.rq /\ d.want = c.want BY DEF Typed, Fields, Same
  <1> HIDE DEF d
  <1> QED BY <1>1, <1>3, <1>4 DEF Lowered, Same

\* A connection is failed or closed.
LEMMA EndingLowers ==
  ASSUME NEW c, Typed(c), NEW s, s = "CLOSE" \/ (s = "ERROR" /\ c.st # "CLOSE"), c.st # "CONNECT"
  PROVE  Lowered(c, [c EXCEPT !.st = s]) /\ [c EXCEPT !.st = s].st = s
  <1> DEFINE d == [c EXCEPT !.st = s]
  <1>1. s \in States BY DEF States
  <1>2. Typed(d) BY <1>1 DEF Typed, Fields
  <1>3. Same(c, d) /\ d.st = s /\ d.rq = c.rq /\ d.want = c.want BY DEF Typed, Fields, Same
  <1> HIDE DEF d
  <1>4. Lowered(c, d) /\ d.st = s BY <1>2, <1>3 DEF Lowered, Same
  <1> QED BY <1>4 DEF d

\* server_graceful_shutdown_maint.
LEMMA MaintLowers ==
  ASSUME NEW c, Typed(c)
  PROVE  Lowered(c, Maint(c).c) /\ (Maint(c).c.st = "CLOSE" => c.st = "CLOSE")
  <1> DEFINE l == Least(c.closeAge + LingerTimeout - 1, LingerTimeout + 1)
             a == [c EXCEPT !.closeAge = l]
             b == [c EXCEPT !.st = "ERROR"]
             d == CASE c.st = "CLOSE" -> a
                    [] c.st = "READ" /\ c.reqCount > 1 /\ c.rq = <<>> -> b
                    [] OTHER -> c
             e == [d EXCEPT !.keep = FALSE, !.limited = FALSE]
  <1>1. Maint(c).c = e BY DEF Maint
  <1>2. l \in Int
    <2>1. c.closeAge \in Int /\ LingerTimeout \in Int BY ConStateAssumption DEF Typed
    <2> QED BY <2>1 DEF Least
  <1> HIDE DEF l
  <1>3. Lowered(c, a) /\ a.st = c.st
    <2>1. Typed(a) BY <1>2 DEF Typed, Fields
    <2>2. Same(c, a) /\ a.st = c.st /\ a.rq = c.rq /\ a.want = c.want BY DEF Typed, Fields, Same
    <2> HIDE DEF a
    <2> QED BY <2>1, <2>2 DEF Lowered, Same
  <1>4. c.st = "READ" => Lowered(c, b) /\ b.st = "ERROR" BY EndingLowers
  <1>5. Lowered(c, c) BY DEF Lowered
  <1> HIDE DEF a, b
  <1>6. Lowered(c, d) /\ (d.st = "CLOSE" => c.st = "CLOSE") BY <1>3, <1>4, <1>5
  <1> HIDE DEF d
  <1>7. Typed(d) BY <1>6 DEF Lowered
  <1>8. Typed(e) BY <1>7 DEF Typed, Fields
  <1>9. /\ e.st = d.st /\ e.used = d.used /\ e.open = d.open /\ e.kind = d.kind /\ e.status = d.status
        /\ e.saved = d.saved /\ e.body = d.body /\ e.got = d.got /\ e.cq = d.cq /\ e.cgi = d.cgi
        /\ e.hctx = d.hctx /\ e.started = d.started /\ e.fin = d.fin /\ e.wq = d.wq
        /\ e.reqCount = d.reqCount /\ e.rq = d.rq /\ e.want = d.want /\ ~e.keep
    BY <1>7 DEF Typed, Fields
  <1> HIDE DEF e
  <1>10. Lowered(d, e) BY <1>8, <1>9 DEF Lowered
  <1> QED BY <1>1, <1>6, <1>9, <1>10, LoweredTwice

\* The timer of server_main_loop.
LEMMA TimerLowers ==
  ASSUME NEW c, Typed(c), c.st # "CONNECT"
  PROVE  Lowered(c, Timer(c).c) /\ (graceful = "no" /\ Timer(c).c.st = "CLOSE" => c.st = "CLOSE")
  <1> DEFINE x == [c EXCEPT !.st = "CLOSE"]
             y == [c EXCEPT !.st = "ERROR"]
             d == IF graceful # "no" THEN x
                  ELSE IF c.st # "CLOSE" /\ ReadExpired(c) THEN y ELSE c
             z == [d EXCEPT !.st = "ERROR"]
             e == IF WriteExpired(d) THEN z ELSE d
             f == [e EXCEPT !.limited = FALSE]
  <1>1. Timer(c).c = f BY DEF Timer
  <1>2. Lowered(c, x) /\ x.st = "CLOSE" BY EndingLowers
  <1>3. c.st # "CLOSE" => Lowered(c, y) /\ y.st = "ERROR" BY EndingLowers
  <1>4. Lowered(c, c) BY DEF Lowered
  <1> HIDE DEF x, y
  <1>5. Lowered(c, d) /\ (graceful = "no" /\ d.st = "CLOSE" => c.st = "CLOSE") BY <1>2, <1>3, <1>4
  <1> HIDE DEF d
  <1>6. Typed(d) BY <1>5 DEF Lowered
  <1>7. WriteExpired(d) => Lowered(d, z) /\ z.st = "ERROR" BY <1>6, EndingLowers DEF WriteExpired
  <1>8. Lowered(d, d) BY <1>6 DEF Lowered
  <1> HIDE DEF z
  <1>9. Lowered(d, e) /\ (e.st = "CLOSE" => d.st = "CLOSE") BY <1>7, <1>8
  <1> HIDE DEF e
  <1>10. Typed(e) BY <1>9 DEF Lowered
  <1>11. Typed(f) BY <1>10 DEF Typed, Fields
  <1>12. Same(e, f) /\ f.st = e.st /\ f.rq = e.rq /\ f.want = e.want BY <1>10 DEF Typed, Fields, Same
  <1> HIDE DEF f
  <1>13. Lowered(e, f) BY <1>11, <1>12 DEF Lowered, Same
  <1>14. Lowered(c, e) BY <1>5, <1>9, LoweredTwice
  <1>15. Lowered(c, f) BY <1>13, <1>14, LoweredTwice
  <1> QED BY <1>1, <1>5, <1>9, <1>12, <1>15

\* The main thread's changes keep the invariant; the worker's place does not matter.
LEMMA MainKeeps ==
  ASSUME IInv, NEW d, Lowered(con, d), con' = d, net' = net, pc' = pc, ostate' = ostate,
         jobs' \in Seq(Runs), hist' \in HistType, SameCounts, graceful' \in {"no", "asked", "begun"},
         graceful' # "begun" => (d.st = "CLOSE" => con.st = "CLOSE") /\ graceful # "begun"
  PROVE  Keeps
  <1>1. Good(con, net) /\ Counted(con, hist) BY ConGood
  <1>2. Good(d, net) BY <1>1, LoweredGood
  <1>3. Counted(d, hist')
    <2>1. hist'.taken = hist.taken /\ hist'.logged = hist.logged BY DEF SameCounts
    <2>2. d.status = con.status /\ d.st \in {con.st, "ERROR", "CLOSE"}
          /\ (con.st \in {"CLOSE", "CONNECT"} => d.st = con.st)
      BY DEF Lowered
    <2> QED BY <1>1, <2>1, <2>2, StillCounted
  <1>4. TypeOK'
    <2>1. Typed(d) BY DEF Lowered
    <2> QED BY <2>1 DEF IInv, TypeOK
  <1>5. Settled'
    <2>3. pc # "idle" /\ d.used => ostate # "CONNECT" BY DEF IInv, Settled, Lowered
    <2>4. pc = "idle" /\ d.st = "CONNECT" => d.rq = <<>> /\ d.reqCount = 0 BY DEF IInv, Settled, Lowered
    <2>5. pc = "idle" /\ d.st = "READ" => "IN" \in d.want BY DEF IInv, Settled, Lowered
    <2>6. d.st \in {"CLOSE", "CONNECT"} /\ graceful' # "begun" => Clean(d)
      <3>1. d.st = "CONNECT" => con.st = "CONNECT" BY DEF Lowered
      <3>2. Clean(con) => Clean(d) BY DEF Lowered, Clean
      <3> QED BY <3>1, <3>2 DEF IInv, Settled
    <2> QED BY <2>3, <2>4, <2>5, <2>6 DEF Settled
  <1>6. IInv' BY <1>2, <1>3, <1>4, <1>5 DEF IInv, Good
  <1>7. Rests \/ Hangs
    <2>1. con.st # "CONNECT" /\ con.st = "CLOSE" => d.st = "CLOSE" BY DEF Lowered
    <2>2. d.st = "CLOSE" => con.st # "CONNECT" BY DEF Lowered
    <2>3. con.st # "CONNECT" => con.used BY DEF IInv, Slot
    <2>4. d.used = con.used /\ (d.st = "REQUEST_START" => con.st = "REQUEST_START") BY DEF Lowered
    <2> QED BY <2>1, <2>2, <2>3, <2>4 DEF Rests, Hangs, SameCounts
  <1> QED BY <1>6, <1>7 DEF Keeps, Progress

\* A turn of the main loop in shutdown, and a second of the main loop.
LEMMA GracefulPassKeeps ==
  ASSUME IInv, GracefulPass
  PROVE  Keeps
  <1> DEFINE m == IF con.used THEN Maint(con) ELSE [c |-> con, changed |-> FALSE]
             d == m.c
             q == Requeue(m.changed, m.c)
  <1>1. /\ graceful # "no" /\ graceful' = "begun" /\ con' = d /\ jobs' = jobs \o q
        /\ net' = net /\ pc' = pc /\ ostate' = ostate /\ hist' = hist
    BY DEF GracefulPass
  <1>2. Typed(con) /\ jobs \in Seq(Runs) /\ hist \in HistType BY DEF IInv, TypeOK
  <1>3. Lowered(con, d) /\ (d.st = "CLOSE" => con.st = "CLOSE")
    <2>1. CASE con.used
      <3>1. d = Maint(con).c BY <2>1
      <3> HIDE DEF d
      <3> QED BY <1>2, <3>1, MaintLowers
    <2>2. CASE ~con.used
      <3>1. d = con BY <2>2
      <3> HIDE DEF d
      <3> QED BY <1>2, <3>1 DEF Lowered
    <2> QED BY <2>1, <2>2
  <1>4. jobs \o q \in Seq(Runs)
    <2>1. CASE con.used
      <3> DEFINE g == m.changed
      <3>1. Typed(d) /\ d.st # "CONNECT" BY <1>3, <2>1 DEF Lowered, IInv, Slot
      <3> HIDE DEF d, g
      <3>2. jobs \o Requeue(g, d) \in Seq(Runs) BY <1>2, <3>1, Requeued
      <3> QED BY <3>2 DEF d, g
    <2>2. CASE ~con.used
      <3>1. q = <<>> BY <2>2 DEF Requeue
      <3> QED BY <1>2, <3>1, ConcatEmptySeq
    <2> QED BY <2>1, <2>2
  <1> HIDE DEF d, q
  <1>5. SameCounts BY <1>1 DEF SameCounts
  <1> QED BY <1>1, <1>2, <1>3, <1>4, <1>5, MainKeeps

LEMMA TickKeeps ==
  ASSUME IInv, Tick
  PROVE  Keeps
  <1> DEFINE a == Aged(con)
             m == IF graceful # "no" /\ con.used THEN Maint(a) ELSE [c |-> a, changed |-> FALSE]
             b == m.c
             t == IF con.used THEN Timer(b) ELSE m
             d == t.c
             p == Requeue(m.changed, b)
             q == Requeue(t.changed, d)
             i == IF con.st = "WRITE" THEN Least(hist.idle + 1, MaxWriteIdle + 1) ELSE 0
  <1>1. /\ con' = d /\ jobs' = jobs \o p \o q /\ hist' = [hist EXCEPT !.idle = i]
        /\ graceful' = IF graceful = "no" THEN "no" ELSE "begun"
        /\ net' = net /\ pc' = pc /\ ostate' = ostate
    BY DEF Tick
  <1>2. Typed(con) /\ jobs \in Seq(Runs) /\ hist \in HistType /\ graceful \in {"no", "asked", "begun"}
    BY DEF IInv, TypeOK
  <1>3. con.used <=> con.st # "CONNECT" BY DEF IInv, Slot
  <1>4. Lowered(con, a) /\ a.st = con.st /\ Typed(a) BY <1>2, AgedLowers DEF Lowered
  <1> HIDE DEF a
  <1>5. Lowered(a, b) /\ (b.st = "CLOSE" => a.st = "CLOSE") /\ Typed(b)
    <2>1. b = a \/ b = Maint(a).c OBVIOUS
    <2>2. Lowered(a, a) BY <1>4 DEF Lowered
    <2>3. Lowered(a, Maint(a).c) /\ (Maint(a).c.st = "CLOSE" => a.st = "CLOSE") BY <1>4, MaintLowers
    <2> HIDE DEF b
    <2>4. Lowered(a, b) /\ (b.st = "CLOSE" => a.st = "CLOSE") BY <2>1, <2>2, <2>3
    <2> QED BY <2>4 DEF Lowered
  <1>6. con.used => b.st # "CONNECT" BY <1>3, <1>4, <1>5 DEF Lowered
  <1> DEFINE g == m.changed
  <1>7. ~con.used => t = m /\ p = <<>> /\ q = <<>> BY DEF Requeue
  <1>8. p = Requeue(g, b) OBVIOUS
  <1>9. con.used => d = Timer(b).c OBVIOUS
  <1>10. ~con.used => d = b OBVIOUS
  <1> HIDE DEF b, g, p
  <1>11. Lowered(b, d) /\ (graceful = "no" /\ d.st = "CLOSE" => b.st = "CLOSE")
    <2> HIDE DEF d
    <2>1. CASE con.used BY <1>5, <1>6, <1>9, <2>1, TimerLowers
    <2>2. CASE ~con.used BY <1>5, <1>10, <2>2 DEF Lowered
    <2> QED BY <2>1, <2>2
  <1>12. jobs \o p \o q \in Seq(Runs)
    <2>1. CASE con.used
      <3> DEFINE h == t.changed
      <3>1. jobs \o p \in Seq(Runs) BY <1>2, <1>5, <1>6, <1>8, <2>1, Requeued
      <3>2. Typed(d) /\ d.st # "CONNECT" BY <1>6, <1>11, <2>1 DEF Lowered
      <3> DEFINE j == jobs \o p
      <3> HIDE DEF d, h, j
      <3>3. j \in Seq(Runs) BY <3>1 DEF j
      <3>4. j \o Requeue(h, d) \in Seq(Runs) BY <3>2, <3>3, Requeued
      <3> QED BY <3>4 DEF j, h, d
    <2>2. CASE ~con.used BY <1>2, <1>7, <2>2, ConcatEmptySeq
    <2> QED BY <2>1, <2>2
  <1> HIDE DEF d, q, t
  <1>13. Lowered(con, d) BY <1>4, <1>5, <1>11, LoweredTwice
  <1>14. graceful = "no" /\ d.st = "CLOSE" => con.st = "CLOSE" BY <1>4, <1>5, <1>11
  <1>15. hist' \in HistType /\ SameCounts
    <2>1. i \in Int
      <3>1. hist.idle \in Int /\ MaxWriteIdle \in Int BY <1>2, ConStateAssumption DEF HistType
      <3> QED BY <3>1 DEF Least
    <2> HIDE DEF i
    <2> QED BY <1>1, <1>2, <2>1 DEF HistType, SameCounts
  <1> QED BY <1>1, <1>2, <1>12, <1>13, <1>14, <1>15, MainKeeps

-----------------------------------------------------------------------------
(* The theorems                                                             *)

\* The first state, and every step.
LEMMA Starts == Init => IInv
  <1> SUFFICES ASSUME Init PROVE IInv OBVIOUS
  <1>1. con = NewConnection /\ net = NoClient /\ pc = "idle" /\ ostate = "CONNECT" /\ jobs = <<>>
        /\ graceful = "no" /\ hist = NoHistory
    BY DEF Init
  <1>2. Typed(con)
    <2> DEFINE e == <<>>
               l == LingerTimeout + 1
               no == {}
    <2>1. e \in Seq(Tokens) /\ l \in Int /\ no \subseteq {"IN", "OUT"} /\ NeverTs \in Int
      BY ConStateAssumption DEF NeverTs
    <2> DEFINE n == [st |-> "CONNECT", used |-> FALSE, open |-> FALSE, uri |-> FALSE,
                     readable |-> 0, writable |-> 0, keep |-> FALSE, reqCount |-> 0,
                     kind |-> "none", status |-> 0, saved |-> 0, body |-> 0, got |-> 0, cq |-> 0,
                     cgi |-> FALSE, hctx |-> "none", cgiLeft |-> 0,
                     started |-> FALSE, fin |-> FALSE, wq |-> 0, rq |-> e,
                     pollin |-> FALSE, want |-> no, limited |-> FALSE, missing |-> FALSE,
                     readAge |-> 0, writeAge |-> NeverTs, closeAge |-> l]
    <2>2. con = n BY <1>1, Zenon DEF NewConnection, NoKind
    <2> HIDE DEF e, l, no
    <2>3. Typed(n) BY <2>1 DEF Typed, Fields, States, NoKind
    <2> QED BY <2>2, <2>3
  <1>3. NoClient \in NetType
    <2>1. 0 \in 0 .. SndBuf BY ConStateAssumption
    <2>2. <<>> \in Seq(Tokens) OBVIOUS
    <2> QED BY <2>1, <2>2 DEF NoClient, NetType
  <1>4. TypeOK BY <1>1, <1>2, <1>3 DEF TypeOK, NoHistory, HistType, States
  <1>5. /\ con.st = "CONNECT" /\ con.used = FALSE /\ con.open = FALSE /\ con.hctx = "none" /\ Clean(con)
        /\ con.got = 0 /\ con.body = 0 /\ con.rq = <<>> /\ con.reqCount = 0
    BY <1>1 DEF NewConnection, Clean
  <1>6. Slot(con) BY <1>5 DEF Slot
  <1>7. Course(con) BY <1>1, <1>5 DEF Course, Clean, Answering, Answers
  <1>8. Aligned(con, net) BY <1>1, <1>5 DEF Aligned, Waits, InService, Answering, Answers
  <1>9. Counted(con, hist) BY <1>1, <1>5 DEF Counted, Waits, InService, Answering, Answers
  <1>10. Settled BY <1>1, <1>5 DEF Settled
  <1> QED BY <1>4, <1>6, <1>7, <1>8, <1>9, <1>10 DEF IInv

LEMMA StepKeeps ==
  ASSUME IInv, Next
  PROVE  Keeps
  <1>1. CASE Worker
    BY <1>1, RunConnectKeeps, RunRequestStartKeeps, RunReadKeeps, RunRequestEndKeeps, RunHandleRequestKeeps,
       RunResponseStartKeeps, RunResponseEndKeeps, RunCloseKeeps, RunWriteKeeps, StartRunKeeps, FdEventKeeps
    DEF Worker
  <1>2. CASE CgiData \/ CgiEnd \/ CgiFail BY <1>2, CgiDataKeeps, CgiEndKeeps, CgiFailKeeps
  <1>3. CASE Accept \/ Tick \/ GracefulPass \/ GracefulStart
    BY <1>3, AcceptKeeps, TickKeeps, GracefulPassKeeps, GracefulStartKeeps
  <1>4. CASE Client
    <2>1. ASSUME NEW k \in Kinds, ClientRequests(k) PROVE Keeps BY <2>1, ClientRequestsKeeps
    <2> QED
      BY <1>4, <2>1, ClientSendsKeeps, ClientReceivesKeeps, ClientFinishesKeeps, ClientResetsKeeps DEF Client
  <1> QED BY <1>1, <1>2, <1>3, <1>4 DEF Next

\* Stuttering.
LEMMA IdlesKeeps ==
  ASSUME IInv, UNCHANGED vars
  PROVE  IInv'
  BY DEF vars, IInv, TypeOK, Settled

\* The invariant: where a connection stands, its request, the bytes of its client, the
\* worker and the counts of requests agree, whatever the requests, buffers and limits.
THEOREM Invariance == Spec => []IInv
  <1>1. IInv /\ [Next]_vars => IInv' BY StepKeeps, IdlesKeeps DEF Keeps
  <1> QED BY Starts, <1>1, PTL DEF Spec

\* With stream_response_body off, the loop of connection_handle_write_state never takes a
\* second turn: connection_handle_write clears is_writable or leaves CON_STATE_WRITE, so the
\* main thread cannot get in between two turns.
THEOREM OneTurn == Spec => [](pc # "write")
  <1>1. IInv => pc # "write" BY DEF IInv, TypeOK
  <1> QED BY <1>1, Invariance, PTL

\* BytesAligned: where connection_handle_read_state looks for a header, the bytes to come
\* never begin in the body of an earlier request.
THEOREM Alignment == Spec => []BytesAligned
  <1>1. IInv => BytesAligned
    <2> DEFINE z == con.rq \o net.sock \o net.todo
    <2> SUFFICES ASSUME IInv, con.st \in {"REQUEST_START", "READ"}, z # <<>> PROVE Head(z) # "body"
      BY DEF BytesAligned
    <2>1. Framed("part", z, net.peer) BY DEF IInv, Aligned, Waits, Stream
    <2> HIDE DEF z
    <2>2. Head(z) = z[1] OBVIOUS
    <2>3. ~Bodied("part") BY DEF Bodied
    <2> QED BY <2>1, <2>2, <2>3 DEF Framed
  <1> QED BY <1>1, Invariance, PTL

\* AnswerComplete: connection_handle_response_end_state goes on to the next request only
\* after the whole response of the last one was written, and its script is done with.
THEOREM Completeness == Spec => AnswerComplete
  <1>1. IInv /\ [Next]_vars =>
          [con.st = "RESPONSE_END" /\ con'.st = "REQUEST_START"
             => con.fin /\ con.wq = 0 /\ con.hctx # "run"]_vars
    <2> SUFFICES ASSUME IInv, Next, con.st = "RESPONSE_END", con'.st = "REQUEST_START"
                 PROVE  con.fin /\ con.wq = 0 /\ con.hctx # "run"
      OBVIOUS
    <2>1. Keeps BY StepKeeps
    <2>2. con.used BY DEF IInv, Slot
    <2>3. con.keep BY <2>1, <2>2 DEF Keeps, Progress, Rests, Takes, Ends, Hangs, Frees, Opens
    <2> QED BY <2>3 DEF IInv, Course, Answering, Answers
  <1> QED BY <1>1, Invariance, PTL DEF Spec, AnswerComplete

\* CleanSlate: connection_reset, or the slot's reuse in connection_accepted, leaves nothing
\* of an earlier request, and no byte of an earlier client.
THEOREM Cleanliness == Spec => CleanSlate
  <1>1. IInv /\ [Next]_vars =>
          [con.st # "REQUEST_START" /\ con'.st = "REQUEST_START"
             => Clean(con') /\ (~con.used => con'.rq = <<>> /\ con'.reqCount = 0)]_vars
    <2> SUFFICES ASSUME IInv, Next, con.st # "REQUEST_START", con'.st = "REQUEST_START"
                 PROVE  Clean(con') /\ (~con.used => con'.rq = <<>> /\ con'.reqCount = 0)
      OBVIOUS
    <2>1. Keeps BY StepKeeps
    <2>2. Clean(con') BY <2>1 DEF Keeps, IInv, Course, Waits
    <2>3. ~con.used => con'.rq = <<>> /\ con'.reqCount = 0
      BY <2>1 DEF Keeps, Progress, Rests, Takes, Ends, Hangs, Frees, Opens
    <2> QED BY <2>2, <2>3
  <1> QED BY <1>1, Invariance, PTL DEF Spec, CleanSlate

\* The session's phase, case by case.
LEMMA PhaseIs ==
  /\ ~con.used => Phase = "free"
  /\ con.used /\ con.st = "CLOSE" => Phase = "closing"
  /\ con.used /\ con.st # "CLOSE" /\ hist.taken # hist.logged => Phase = "busy"
  /\ con.used /\ con.st # "CLOSE" /\ hist.taken = hist.logged => Phase = "waiting"
  BY DEF Phase

\* HttpSession: one request at a time is served on a connection, and logged once, at its
\* end, whatever the order of the worker's runs, the main thread's seconds and the shutdown.
THEOREM Implementation == Spec => ImplementsSession
  <1>1. Init => Session!Init
    <2> SUFFICES ASSUME Init PROVE Session!Init OBVIOUS
    <2>1. ~con.used /\ hist.taken = 0 /\ hist.logged = 0
      BY DEF Init, NewConnection, NoHistory
    <2>2. Phase = "free" BY <2>1, PhaseIs
    <2> QED BY <2>1, <2>2 DEF Session!Init
  <1>2. IInv /\ IInv' /\ [Next]_vars => [Session!Next]_(Session!vars)
    <2> SUFFICES ASSUME IInv, IInv', [Next]_vars PROVE [Session!Next]_(Session!vars) OBVIOUS
    <2>1. /\ hist.taken \in Nat /\ hist.logged \in Nat /\ con.used \in BOOLEAN
      BY DEF IInv, TypeOK, HistType, Typed
    <2>2. con'.used \in BOOLEAN /\ con'.st # "CONNECT" <=> con'.used
      BY DEF IInv, TypeOK, Typed, Slot
    <2>3. /\ ~con'.used => Phase' = "free"
          /\ con'.used /\ con'.st = "CLOSE" => Phase' = "closing"
          /\ con'.used /\ con'.st # "CLOSE" /\ hist'.taken # hist'.logged => Phase' = "busy"
          /\ con'.used /\ con'.st # "CLOSE" /\ hist'.taken = hist'.logged => Phase' = "waiting"
      BY DEF Phase
    <2>4. CASE UNCHANGED vars
      <3>1. con' = con /\ hist' = hist BY <2>4 DEF vars
      <3>2. Phase' = Phase BY <3>1 DEF Phase
      <3> QED BY <3>1, <3>2 DEF Session!vars
    <2>5. CASE Next
      <3>1. Progress BY <2>5, StepKeeps DEF Keeps
      <3>2. CASE Rests
        <4>1. hist'.taken = hist.taken /\ hist'.logged = hist.logged /\ con'.used = con.used
              /\ (con'.st = "CLOSE" <=> con.st = "CLOSE")
          BY <3>2 DEF Rests, SameCounts
        <4>2. Phase' = Phase BY <2>1, <2>3, <4>1, PhaseIs
        <4> QED BY <4>1, <4>2 DEF Session!vars
      <3>3. CASE Takes
        <4>1. hist.taken = hist.logged BY <3>3 DEF Takes, IInv, Counted, Waits
        <4>2. Phase = "waiting" BY <3>3, <4>1, PhaseIs DEF Takes
        <4>3. hist'.taken # hist'.logged /\ con'.st # "CLOSE" /\ con'.used BY <2>1, <3>3, <4>1 DEF Takes
        <4>4. Phase' = "busy" BY <2>3, <4>3
        <4>5. Session!Take BY <3>3, <4>1, <4>2, <4>4 DEF Takes, Session!Take
        <4> QED BY <4>5 DEF Session!Next
      <3>4. CASE Ends
        <4>1. hist.taken = hist.logged + 1 BY <3>4 DEF Ends, IInv, Counted, InService, Answering, Answers
        <4>2. Phase = "busy" BY <2>1, <3>4, <4>1, PhaseIs DEF Ends
        <4>3. Phase' = "waiting" BY <2>3, <3>4, <4>1 DEF Ends
        <4>4. Session!Finish BY <2>1, <3>4, <4>1, <4>2, <4>3 DEF Ends, Session!Finish
        <4> QED BY <4>4 DEF Session!Next
      <3>5. CASE Hangs
        <4>1. Phase \in {"waiting", "busy"} /\ (hist.taken # hist.logged => Phase = "busy")
          BY <3>5, PhaseIs DEF Hangs
        <4>2. Phase' \in {"closing", "free"} BY <2>3, <3>5 DEF Hangs
        <4>3. Session!Hangup BY <3>5, <4>1, <4>2 DEF Hangs, Session!Hangup
        <4> QED BY <4>3 DEF Session!Next
      <3>6. CASE Frees
        <4>1. Phase = "closing" /\ Phase' = "free" BY <2>3, <3>6, PhaseIs DEF Frees
        <4>2. Session!Close BY <3>6, <4>1 DEF Frees, SameCounts, Session!Close
        <4> QED BY <4>2 DEF Session!Next
      <3>7. CASE Opens
        <4>1. Phase = "free" BY <3>7, PhaseIs DEF Opens
        <4>2. Phase' = "waiting" BY <2>3, <3>7 DEF Opens
        <4>3. Session!Open BY <3>7, <4>1, <4>2 DEF Opens, Session!Open
        <4> QED BY <4>3 DEF Session!Next
      <3> QED BY <3>1, <3>2, <3>3, <3>4, <3>5, <3>6, <3>7 DEF Progress
    <2> QED BY <2>4, <2>5
  <1> QED BY <1>1, <1>2, Invariance, PTL DEF Spec, ImplementsSession, Session!Spec
=============================================================================
