-------------------------- MODULE ChunkQueueProofs --------------------------
(***************************************************************************)
(* BytesKept of ChunkQueue, for bodies of any length, any limits, any      *)
(* number of upload directories and any failures of the system calls.      *)
(*                                                                         *)
(* The invariant puts all bytes of the body into one row: those the        *)
(* backend has got, those in the chunks on their way to it, those in the   *)
(* chunks of the content, and those read: the bytes 1 .. fed.  Bytes go    *)
(* from one part of the row to the one before it.  Of the chunks of one    *)
(* file the last deletes it.                                               *)
(***************************************************************************)
EXTENDS ChunkQueueLemmas

-----------------------------------------------------------------------------
(* The invariant: where every byte of the body is.                          *)

\* A queue's counters tell its length.
Count(cq, fs) == cq.in - cq.out = Len(Flow(cq.chunks, fs))
\* The bytes that were sent and those still held, in their order.
Row(s, w, c, r) == s \o w \o c \o r

JobType == [src : Queues, dest : Queues, temp : BOOLEAN, len : Int, rest : Seq(Nat)]
Types ==
  /\ q \in [Queues -> CqType] /\ pc \in Places /\ fed \in Nat /\ sent \in Seq(Nat)
  /\ job \in JobType /\ setup \in Setups

WbFlow == Flow(q["wb"].chunks, files)
ContentFlow == Flow(q["content"].chunks, files)
ReadFlow == Flow(q["read"].chunks, files)
Body == Three(q["wb"].chunks, q["content"].chunks, q["read"].chunks, files)
Counts == Count(q["wb"], files) /\ Count(q["content"], files) /\ Count(q["read"], files)
Way(src, dest, temp) ==
  \/ src = "read" /\ dest = "content"
  \/ src = "content" /\ dest = "wb" /\ ~temp
Jobs ==
  /\ pc \in {"steal", "temp"} => Way(job.src, job.dest, job.temp) /\ job.len >= 0
  /\ pc = "temp" => /\ job.temp /\ q["read"].chunks # <<>> /\ job.len > 0
                    /\ Remaining(q["read"].chunks[1]) > 0
Order ==
  /\ pc \notin {"temp", "failed"} => Row(sent, WbFlow, ContentFlow, ReadFlow) = Upto(fed)
  /\ pc = "temp" => Row(sent, WbFlow, ContentFlow, job.rest \o Drop(ReadFlow, Use)) = Upto(fed)
ChunkIInv == Types /\ Body /\ Counts /\ Jobs /\ Order

\* Bytes go from one part of the row to the one before.
Cat(a, b) == a \o b

\* Putting together is associative, as a relation on sequences of bytes.
LEMMA CatIs ==
  /\ \A a, b \in Seq(Nat) : Cat(a, b) \in Seq(Nat)
  /\ \A a, b, c \in Seq(Nat) : Cat(a, Cat(b, c)) = Cat(Cat(a, b), c)
<1>1. ASSUME NEW a \in Seq(Nat), NEW b \in Seq(Nat) PROVE Cat(a, b) \in Seq(Nat)
  BY ConcatProperties DEF Cat
<1>2. ASSUME NEW a \in Seq(Nat), NEW b \in Seq(Nat), NEW c \in Seq(Nat)
      PROVE  Cat(a, Cat(b, c)) = Cat(Cat(a, b), c)
  BY Joined DEF Cat
<1> QED BY <1>1, <1>2

\* Bytes v go from what was read to the content.
LEMMA RowRead ==
  ASSUME NEW s \in Seq(Nat), NEW w \in Seq(Nat), NEW c \in Seq(Nat), NEW r \in Seq(Nat), NEW v \in Seq(Nat),
         NEW x, Joins(x, c, v), NEW y, Joins(y, v, r)
  PROVE  Row(s, w, x, r) = Row(s, w, c, y)
<1>1. Cat(Cat(Cat(s, w), Cat(c, v)), r) = Cat(Cat(Cat(s, w), c), Cat(v, r))
  BY CatIs
<1>2. x = Cat(c, v) /\ y = Cat(v, r)
  BY DEF Joins, Cat
<1>3. Cat(Cat(Cat(s, w), x), r) = Cat(Cat(Cat(s, w), c), y)
  BY <1>1, <1>2
<1> QED BY <1>3, Zenon DEF Row, Cat

\* Bytes v go from the content to the backend's queue.
LEMMA RowContent ==
  ASSUME NEW s \in Seq(Nat), NEW w \in Seq(Nat), NEW c \in Seq(Nat), NEW r \in Seq(Nat), NEW v \in Seq(Nat),
         NEW x, Joins(x, w, v), NEW y, Joins(y, v, c)
  PROVE  Row(s, x, c, r) = Row(s, w, y, r)
<1>1. Cat(Cat(Cat(s, Cat(w, v)), c), r) = Cat(Cat(Cat(s, w), Cat(v, c)), r)
  BY CatIs
<1>2. x = Cat(w, v) /\ y = Cat(v, c)
  BY DEF Joins, Cat
<1>3. Cat(Cat(Cat(s, x), c), r) = Cat(Cat(Cat(s, w), y), r)
  BY <1>1, <1>2
<1> QED BY <1>3, Zenon DEF Row, Cat

\* Bytes v are sent.
LEMMA RowWb ==
  ASSUME NEW s \in Seq(Nat), NEW w \in Seq(Nat), NEW c \in Seq(Nat), NEW r \in Seq(Nat), NEW v \in Seq(Nat),
         NEW x, Joins(x, s, v), NEW y, Joins(y, v, w)
  PROVE  Row(x, w, c, r) = Row(s, y, c, r)
<1>1. Cat(Cat(Cat(Cat(s, v), w), c), r) = Cat(Cat(Cat(s, Cat(v, w)), c), r)
  BY CatIs
<1>2. x = Cat(s, v) /\ y = Cat(v, w)
  BY DEF Joins, Cat
<1>3. Cat(Cat(Cat(x, w), c), r) = Cat(Cat(Cat(s, y), c), r)
  BY <1>1, <1>2
<1> QED BY <1>3, Zenon DEF Row, Cat

\* Bytes v are read.
LEMMA RowEnd ==
  ASSUME NEW s \in Seq(Nat), NEW w \in Seq(Nat), NEW c \in Seq(Nat), NEW r \in Seq(Nat), NEW v \in Seq(Nat),
         NEW x, Joins(x, r, v)
  PROVE  Joins(Row(s, w, c, x), Row(s, w, c, r), v)
<1>1. Cat(Cat(Cat(s, w), c), Cat(r, v)) = Cat(Cat(Cat(Cat(s, w), c), r), v)
  <2>1. Cat(s, w) \in Seq(Nat)
    BY CatIs
  <2>2. PICK b \in Seq(Nat) : b = Cat(Cat(s, w), c)
    BY <2>1, CatIs
  <2>3. Cat(b, Cat(r, v)) = Cat(Cat(b, r), v)
    BY CatIs
  <2> QED BY <2>2, <2>3
<1>2. x = Cat(r, v)
  BY DEF Joins, Cat
<1>3. Cat(Cat(Cat(s, w), c), x) = Cat(Cat(Cat(Cat(s, w), c), r), v)
  BY <1>1, <1>2
<1> QED BY <1>3, Zenon DEF Row, Cat, Joins

\* Two parts of a sequence.
LEMMA Halves ==
  ASSUME NEW s \in Seq(Nat), NEW p \in 0 .. Len(s)
  PROVE  /\ s = Take(s, p) \o Drop(s, p) /\ Take(s, p) \in Seq(Nat) /\ Drop(s, p) \in Seq(Nat)
         /\ Len(Take(s, p)) = p /\ Len(Drop(s, p)) = Len(s) - p
<1>1. s = SubSeq(s, 1, p) \o SubSeq(s, p + 1, Len(s))
  BY SplitAt
<1>2. SubSeq(s, 1, p) \in Seq(Nat) /\ Len(SubSeq(s, 1, p)) = p
  BY Prefix
<1>3. SubSeq(s, p + 1, Len(s)) \in Seq(Nat) /\ Len(SubSeq(s, p + 1, Len(s))) = Len(s) - p
  BY Suffix
<1> QED BY <1>1, <1>2, <1>3 DEF Take, Drop

\* The content of a queue is what its chunks hold.
LEMMA ContentIs == ASSUME NEW n \in Queues PROVE Content(n) = Flow(q[n].chunks, files)
  BY DEF Content, Flow, Bytes, BytesIn

\* The three queues, one of them or two in another state.
LEMMA QueuesAre ==
  ASSUME q \in [Queues -> CqType]
  PROVE  q["wb"] \in CqType /\ q["content"] \in CqType /\ q["read"] \in CqType
  BY DEF Queues

\* The fields of a queue.
LEMMA CqParts ==
  ASSUME NEW cq \in CqType
  PROVE  cq.chunks \in Seq(ChunkType) /\ cq.in \in Int /\ cq.out \in Int /\ cq.dir \in Int
  BY DEF CqType
\* Only the bytes read may come and go as memory does.
LEMMA ReadChanged ==
  ASSUME NEW W, NEW C, NEW R, NEW fs, Three(W, C, R, fs), NEW Q, Fit(Q, fs), AllMem(Q)
  PROVE  Three(W, C, Q, fs)
  BY DEF Three, Fit

-----------------------------------------------------------------------------
(* Reading, and the moves between the queues (chunk.c).                     *)

\* What the invariant says of the three queues.
LEMMA Held ==
  ASSUME ChunkIInv
  PROVE  /\ Three(q["wb"].chunks, q["content"].chunks, q["read"].chunks, files)
         /\ q["wb"] \in CqType /\ q["content"] \in CqType /\ q["read"] \in CqType /\ q \in [Queues -> CqType]
         /\ WbFlow \in Seq(Nat) /\ ContentFlow \in Seq(Nat) /\ ReadFlow \in Seq(Nat)
         /\ sent \in Seq(Nat) /\ fed \in Nat
<1>1. Body /\ Types
  BY DEF ChunkIInv
<1>2. Three(q["wb"].chunks, q["content"].chunks, q["read"].chunks, files)
  BY <1>1 DEF Body
<1>3. WbFlow \in Seq(Nat) /\ ContentFlow \in Seq(Nat) /\ ReadFlow \in Seq(Nat)
  BY <1>2, ThreeFit DEF WbFlow, ContentFlow, ReadFlow
<1>4. q \in [Queues -> CqType] /\ sent \in Seq(Nat) /\ fed \in Nat
  BY <1>1 DEF Types
<1> QED BY <1>2, <1>3, <1>4, QueuesAre

\* Bytes put into a chunk of memory, or into a new one.
Filled(c, s) == [c EXCEPT !.bytes = @ \o s]

\* A chunk of memory that is filled up is good and has the bytes.
LEMMA FilledIs ==
  ASSUME NEW fs \in Seq(FileType), NEW c, Good(c, fs), c.type = "mem", NEW s \in Seq(Nat)
  PROVE  /\ Good(Filled(c, s), fs) /\ Filled(c, s).type = "mem"
         /\ BytesIn(Filled(c, s), fs) = BytesIn(c, fs) \o s
<1>1. c \in ChunkType /\ c.bytes \in Seq(Nat) /\ c.offset \in Nat /\ c.offset <= Len(c.bytes) /\ ~c.temp
  BY MemFacts
<1>2. BytesIn(c, fs) = SubSeq(c.bytes, c.offset + 1, Len(c.bytes))
  BY MemFacts
<1>3. PICK b \in Seq(Nat) : b = c.bytes \o s
  BY <1>1, ConcatProperties
<1>4. Len(c.bytes) \in Nat /\ Len(b) = Len(c.bytes) + Len(s)
  BY <1>1, <1>3, ConcatProperties
<1>5. Filled(c, s) = [c EXCEPT !.bytes = b]
  BY <1>3 DEF Filled
<1>6. PICK d : d = Filled(c, s)
  OBVIOUS
<1>7. /\ d \in ChunkType /\ d.type = "mem" /\ d.bytes = b /\ d.offset = c.offset
      /\ d.temp = c.temp
  BY <1>1, <1>5, <1>6 DEF ChunkType
<1>8. c.offset <= Len(b)
  BY <1>1, <1>4
<1>9. Good(d, fs)
  BY <1>1, <1>7, <1>8 DEF Good, GoodMem, GoodFile
<1>10. BytesIn(d, fs) = Drop(b, c.offset)
  BY <1>7 DEF BytesIn, Drop
<1>11. Drop(b, c.offset) = Drop(c.bytes, c.offset) \o s
  <2>1. c.offset \in 0 .. Len(c.bytes)
    BY <1>1, <1>4
  <2> QED BY <1>1, <1>3, <2>1, DropConcat
<1>12. BytesIn(d, fs) = BytesIn(c, fs) \o s
  BY <1>2, <1>10, <1>11 DEF Drop
<1> QED BY <1>6, <1>7, <1>9, <1>12

\* A new chunk of memory has its bytes.
LEMMA MemIs ==
  ASSUME NEW fs \in Seq(FileType), NEW s \in Seq(Nat)
  PROVE  Good(Mem(s), fs) /\ Mem(s).type = "mem" /\ BytesIn(Mem(s), fs) = s /\ Remaining(Mem(s)) = Len(s)
<1>1. Mem(s) \in ChunkType
  BY DEF Mem, ChunkType, NoFile
<1>2. Mem(s).type = "mem" /\ Mem(s).bytes = s /\ Mem(s).offset = 0 /\ Mem(s).temp = FALSE
  BY DEF Mem
<1>3. Len(s) \in Nat
  OBVIOUS
<1>4. Good(Mem(s), fs)
  BY <1>1, <1>2, <1>3 DEF Good, GoodMem, GoodFile
<1>5. BytesIn(Mem(s), fs) = s
  <2>1. BytesIn(Mem(s), fs) = SubSeq(s, 0 + 1, Len(s))
    BY <1>2 DEF BytesIn
  <2> QED BY <2>1, SubSeqFull
<1>6. Remaining(Mem(s)) = Len(s)
  BY <1>2, <1>3 DEF Remaining
<1> QED BY <1>2, <1>4, <1>5, <1>6

\* A chunk of memory takes the bytes that were read: the last one, or a new one behind it.
LEMMA ReadGrows ==
  ASSUME NEW R, NEW fs, Fit(R, fs), AllMem(R), NEW s \in Seq(Nat)
  PROVE  /\ R # <<>> =>
              /\ Fit(SetLast(R, Filled(R[Len(R)], s)), fs) /\ AllMem(SetLast(R, Filled(R[Len(R)], s)))
              /\ Flow(SetLast(R, Filled(R[Len(R)], s)), fs) = Flow(R, fs) \o s
         /\ Fit(Append(R, Mem(s)), fs) /\ AllMem(Append(R, Mem(s)))
         /\ Flow(Append(R, Mem(s)), fs) = Flow(R, fs) \o s
<1>1. R \in Seq(ChunkType) /\ fs \in Seq(FileType)
  BY DEF Fit
<1>2. PICK n \in Nat : n = Len(R)
  BY <1>1
<1>3. Good(Mem(s), fs) /\ Mem(s).type = "mem" /\ BytesIn(Mem(s), fs) = s
  BY <1>1, MemIs
<1>4. Fit(Append(R, Mem(s)), fs) /\ Flow(Append(R, Mem(s)), fs) = Flow(R, fs) \o s
  BY <1>3, FlowAppend
<1>5. AllMem(Append(R, Mem(s)))
  <2>1. PICK e \in ChunkType : e = Mem(s)
    BY <1>3 DEF Good
  <2>2. PICK m \in Nat : m = Len(R) + 1
    BY <1>1
  <2>3. /\ DOMAIN Append(R, e) = 1 .. m /\ DOMAIN R = 1 .. Len(R) /\ Append(R, e)[m] = e
        /\ \A i \in DOMAIN R : Append(R, e)[i] = R[i]
    BY <1>1, <2>2, Appended
  <2>4. ASSUME NEW i \in 1 .. m PROVE Append(R, e)[i].type = "mem"
    <3>1. CASE i = m
      BY <1>3, <2>1, <2>3, <3>1
    <3>2. CASE i # m
      <4>1. i \in DOMAIN R
        BY <1>1, <2>2, <2>3, <3>2
      <4> QED BY <2>3, <4>1 DEF AllMem
    <3> QED BY <3>1, <3>2
  <2> QED BY <2>1, <2>3, <2>4 DEF AllMem
<1>6. ASSUME R # <<>>
      PROVE  LET D == SetLast(R, Filled(R[Len(R)], s))
             IN  Fit(D, fs) /\ AllMem(D) /\ Flow(D, fs) = Flow(R, fs) \o s
  <2>1. n # 0 /\ LenIs(R, n)
    BY <1>1, <1>2, <1>6 DEF LenIs
  <2>2. PICK c : c = Filled(R[n], s)
    OBVIOUS
  <2>3. Good(R[n], fs) /\ R[n].type = "mem"
    <3>1. n \in DOMAIN R
      BY <1>1, <1>2, <2>1
    <3> QED BY <3>1 DEF Fit, AllMem
  <2>4. Good(c, fs) /\ c.type = "mem" /\ BytesIn(c, fs) = BytesIn(R[n], fs) \o s
    BY <1>1, <2>2, <2>3, FilledIs
  <2>5. OthersKept(R, fs, fs, n)
    <3>1. DOMAIN R = 1 .. n
      BY <1>1, <1>2
    <3> QED BY <3>1 DEF OthersKept, Fit
  <2>6. Joins(BytesIn(c, fs), BytesIn(R[n], fs), s)
    BY <2>4 DEF Joins
  <2> DEFINE D == SetLast(R, c)
  <2>7. Fit(D, fs)
    BY <1>1, <2>1, <2>4, <2>5, <2>6, FlowSetLast
  <2>8. LenIs(D, n)
    BY <1>1, <2>1, <2>4, <2>5, <2>6, FlowSetLast
  <2>9. LastIs(D, c, R, n)
    BY <1>1, <2>1, <2>4, <2>5, <2>6, FlowSetLast
  <2>10. Joins(Flow(D, fs), Flow(R, fs), s)
    BY <1>1, <2>1, <2>4, <2>5, <2>6, FlowSetLast
  <2> HIDE DEF D
  <2>11. AllMem(D)
    <3>1. DOMAIN D = 1 .. n /\ DOMAIN R = 1 .. n
      BY <1>1, <1>2, <2>7, <2>8 DEF Fit, LenIs
    <3>2. ASSUME NEW i \in 1 .. n PROVE D[i].type = "mem"
      BY <2>4, <2>9, <3>1 DEF LastIs, AllMem
    <3> QED BY <3>1, <3>2 DEF AllMem
  <2>12. D = SetLast(R, Filled(R[Len(R)], s))
    BY <1>2, <2>2 DEF D
  <2> QED BY <2>7, <2>10, <2>11, <2>12 DEF Joins
<1> QED BY <1>4, <1>5, <1>6

\* How an action changes a queue, as one new value of it.
Other(cq, cs, in, out) == [cq EXCEPT !.chunks = cs, !.in = in, !.out = out]

\* The fields of that value.
LEMMA OtherIs ==
  ASSUME NEW cq \in CqType, NEW cs, NEW in \in Int, NEW out \in Int
  PROVE  /\ Other(cq, cs, in, out).chunks = cs /\ Other(cq, cs, in, out).in = in
         /\ Other(cq, cs, in, out).out = out /\ Other(cq, cs, in, out).dir = cq.dir
         /\ cs \in Seq(ChunkType) => Other(cq, cs, in, out) \in CqType
  BY DEF Other, CqType

\* Bytes that go into the last chunk of the read queue, as one new value of the queue.
LEMMA Refilled ==
  ASSUME NEW p \in [Queues -> CqType], NEW s, NEW n \in Nat
  PROVE  [p EXCEPT !["read"].chunks[Len(p["read"].chunks)].bytes = @ \o s, !["read"].in = @ + n]
         = [p EXCEPT !["read"] = Other(p["read"],
                                       SetLast(p["read"].chunks, Filled(p["read"].chunks[Len(p["read"].chunks)], s)),
                                       p["read"].in + n, p["read"].out)]
<1>1. p["read"] \in CqType
  BY DEF Queues
<1> QED BY <1>1 DEF SetLast, Filled, CqType, Other, Queues

\* A chunk more in a queue.
LEMMA Append1Is ==
  ASSUME NEW cq \in CqType, NEW c \in ChunkType, Remaining(c) \in Int
  PROVE  /\ Append1(cq, c) \in CqType /\ Append1(cq, c).chunks = Append(cq.chunks, c)
         /\ Append1(cq, c).in = cq.in + Remaining(c) /\ Append1(cq, c).out = cq.out
         /\ Append1(cq, c).dir = cq.dir
<1>1. cq.chunks \in Seq(ChunkType) /\ cq.in \in Int
  BY CqParts
<1>2. PICK x \in Seq(ChunkType) : x = Append(cq.chunks, c)
  <2>1. PICK m \in Nat : m = Len(cq.chunks) + 1
    BY <1>1
  <2> QED BY <1>1, <2>1, Appended
<1>3. PICK n \in Int : n = cq.in + Remaining(c)
  BY <1>1
<1>4. Append1(cq, c) = [cq EXCEPT !.chunks = x, !.in = n]
  BY <1>2, <1>3 DEF Append1
<1>5. [cq EXCEPT !.chunks = x, !.in = n] \in CqType
  BY DEF CqType
<1> QED BY <1>2, <1>3, <1>4, <1>5 DEF CqType

\* connection_handle_read: the read queue has n bytes more, at its end.
LEMMA ReadQueue ==
  ASSUME ChunkIInv, NEW n \in Nat, Read(n)
  PROVE  LET s == [i \in 1 .. n |-> fed + i] IN
           /\ q'["wb"] = q["wb"] /\ q'["content"] = q["content"] /\ q' \in [Queues -> CqType]
           /\ q'["read"].in = q["read"].in + n /\ q'["read"].out = q["read"].out
           /\ Fit(q'["read"].chunks, files) /\ AllMem(q'["read"].chunks)
           /\ Flow(q'["read"].chunks, files) = ReadFlow \o s
<1>1. /\ Three(q["wb"].chunks, q["content"].chunks, q["read"].chunks, files)
      /\ q["read"] \in CqType /\ q \in [Queues -> CqType] /\ fed \in Nat
  BY Held
<1>2. PICK s \in Seq(Nat) : s = [i \in 1 .. n |-> fed + i]
  BY <1>1, UptoGrows
<1>3. s \in Seq(Nat) /\ Len(s) = n
  BY <1>1, <1>2, UptoGrows
<1> DEFINE R == q["read"].chunks
<1>5. Fit(R, files) /\ AllMem(R) /\ files \in Seq(FileType)
  BY <1>1 DEF Three
<1>6. \/ R # <<>> /\ q' = [q EXCEPT !["read"].chunks[Len(R)].bytes = @ \o s, !["read"].in = @ + n]
      \/ q' = [q EXCEPT !["read"] = Append1(@, Mem(s))]
  BY <1>2 DEF Read
<1>7. CASE R # <<>> /\ q' = [q EXCEPT !["read"].chunks[Len(R)].bytes = @ \o s, !["read"].in = @ + n]
  <2>1. PICK D : D = SetLast(R, Filled(R[Len(R)], s))
    OBVIOUS
  <2>2. PICK x : x = Other(q["read"], D, q["read"].in + n, q["read"].out)
    OBVIOUS
  <2>3. q' = [q EXCEPT !["read"] = x]
    <3>1. [q EXCEPT !["read"].chunks[Len(R)].bytes = @ \o s, !["read"].in = @ + n]
          = [q EXCEPT !["read"] = Other(q["read"], SetLast(R, Filled(R[Len(R)], s)), q["read"].in + n, q["read"].out)]
      BY <1>1, Refilled
    <3> HIDE DEF R
    <3> QED BY <1>7, <2>1, <2>2, <3>1, Zenon
  <2>4. Fit(D, files) /\ AllMem(D) /\ Flow(D, files) = Flow(R, files) \o s
    BY <1>3, <1>5, <1>7, <2>1, ReadGrows
  <2>5. /\ x.chunks = D /\ x.in = q["read"].in + n /\ x.out = q["read"].out
        /\ D \in Seq(ChunkType) => x \in CqType
    <3>1. q["read"].in \in Int /\ q["read"].out \in Int
      BY <1>1, CqParts
    <3>2. q["read"].in + n \in Int
      BY <3>1
    <3> QED BY <1>1, <2>2, <3>1, <3>2, OtherIs
  <2>6. x \in CqType
    BY <2>4, <2>5 DEF Fit
  <2>7. q'["wb"] = q["wb"] /\ q'["content"] = q["content"] /\ q'["read"] = x /\ q' \in [Queues -> CqType]
    BY <1>1, <2>3, <2>6 DEF Queues
  <2> QED BY <1>2, <2>4, <2>5, <2>7 DEF ReadFlow
<1>8. CASE q' = [q EXCEPT !["read"] = Append1(@, Mem(s))]
  <2>1. Good(Mem(s), files) /\ Remaining(Mem(s)) = n
    BY <1>3, <1>5, MemIs
  <2>2. Mem(s) \in ChunkType /\ Remaining(Mem(s)) \in Int
    BY <2>1 DEF Good
  <2>3. PICK x : x = Append1(q["read"], Mem(s))
    OBVIOUS
  <2>4. x \in CqType /\ x.chunks = Append(R, Mem(s)) /\ x.in = q["read"].in + n /\ x.out = q["read"].out
    BY <1>1, <2>1, <2>2, <2>3, Append1Is
  <2>5. q' = [q EXCEPT !["read"] = x]
    BY <1>8, <2>3
  <2>6. q'["wb"] = q["wb"] /\ q'["content"] = q["content"] /\ q'["read"] = x /\ q' \in [Queues -> CqType]
    BY <1>1, <2>4, <2>5 DEF Queues
  <2>7. /\ Fit(Append(R, Mem(s)), files) /\ AllMem(Append(R, Mem(s)))
        /\ Flow(Append(R, Mem(s)), files) = Flow(R, files) \o s
    BY <1>3, <1>5, ReadGrows
  <2> QED BY <1>2, <2>4, <2>6, <2>7 DEF ReadFlow
<1> QED BY <1>6, <1>7, <1>8

\* connection_handle_read keeps the invariant.
LEMMA ReadKeeps == ASSUME ChunkIInv, NEW n \in Nat, Read(n) PROVE ChunkIInv'
<1>1. /\ Three(q["wb"].chunks, q["content"].chunks, q["read"].chunks, files)
      /\ q["read"] \in CqType /\ WbFlow \in Seq(Nat) /\ ContentFlow \in Seq(Nat) /\ ReadFlow \in Seq(Nat)
      /\ sent \in Seq(Nat) /\ fed \in Nat
  BY Held
<1>2. PICK s \in Seq(Nat) : s = [i \in 1 .. n |-> fed + i]
  BY <1>1, UptoGrows
<1>3. s \in Seq(Nat) /\ Len(s) = n
  BY <1>1, <1>2, UptoGrows
<1>4. q'["wb"] = q["wb"] /\ q'["content"] = q["content"] /\ q' \in [Queues -> CqType]
  BY ReadQueue
<1>5. q'["read"].in = q["read"].in + n /\ q'["read"].out = q["read"].out
  BY ReadQueue
<1>6. /\ Fit(q'["read"].chunks, files) /\ AllMem(q'["read"].chunks)
      /\ Flow(q'["read"].chunks, files) = ReadFlow \o s
  BY <1>2, ReadQueue
<1>7. /\ pc = "idle" /\ pc' = pc /\ files' = files /\ fed' = fed + n /\ sent' = sent /\ job' = job
      /\ setup' = setup
  BY DEF Read
<1>8. WbFlow' = WbFlow /\ ContentFlow' = ContentFlow /\ ReadFlow' = ReadFlow \o s
  BY <1>4, <1>6, <1>7 DEF WbFlow, ContentFlow, ReadFlow
<1>9. Types'
  BY <1>1, <1>4, <1>7 DEF ChunkIInv, Types
<1>10. Body'
  BY <1>1, <1>4, <1>6, <1>7, ReadChanged DEF Body
<1>11. Counts'
  <2>1. Len(ReadFlow \o s) = Len(ReadFlow) + n
    BY <1>1, <1>3, ConcatProperties
  <2>2. q["read"].in \in Int /\ q["read"].out \in Int /\ Len(ReadFlow) \in Nat
    BY <1>1, CqParts
  <2>3. q["read"].in - q["read"].out = Len(ReadFlow)
    BY DEF ChunkIInv, Counts, Count, ReadFlow
  <2>c. PICK l \in Nat : l = Len(ReadFlow)
    BY <2>2
  <2>a. PICK i \in Int : i = q["read"].in
    BY <2>2
  <2>b. PICK o \in Int : o = q["read"].out
    BY <2>2
  <2>4. q'["read"].in - q'["read"].out = Len(ReadFlow')
    <3>1. Len(ReadFlow') = Len(ReadFlow) + n
      BY <1>8, <2>1
    <3>2. i - o = l
      BY <2>3, <2>a, <2>b, <2>c
    <3>3. i + n - o = l + n
      BY <3>2
    <3> QED BY <1>5, <2>a, <2>b, <2>c, <3>1, <3>3
  <2>5. Count(q["wb"], files) /\ Count(q["content"], files)
    BY DEF ChunkIInv, Counts
  <2> QED BY <1>4, <1>7, <2>4, <2>5 DEF Counts, Count, ReadFlow
<1>12. Jobs'
  BY <1>7 DEF Jobs
<1>13. Order'
  <2>1. Row(sent, WbFlow, ContentFlow, ReadFlow) = Upto(fed)
    BY <1>7 DEF ChunkIInv, Order
  <2>2. Upto(fed) \o s = Upto(fed + n)
    BY <1>1, <1>2, UptoGrows
  <2>3. Joins(ReadFlow', ReadFlow, s)
    BY <1>8 DEF Joins
  <2>5. Joins(Row(sent, WbFlow, ContentFlow, ReadFlow'), Row(sent, WbFlow, ContentFlow, ReadFlow), s)
    BY <1>1, <1>3, <2>3, RowEnd
  <2>4. Row(sent, WbFlow, ContentFlow, ReadFlow') = Upto(fed + n)
    BY <2>1, <2>2, <2>5 DEF Joins
  <2> QED BY <1>7, <1>8, <2>4 DEF Order
<1> QED BY <1>9, <1>10, <1>11, <1>12, <1>13 DEF ChunkIInv

\* The queues hold what they held.
LEMMA Standing ==
  ASSUME ChunkIInv, files' = files,
         \A n \in Queues : q'[n].chunks = q[n].chunks /\ q'[n].in = q[n].in /\ q'[n].out = q[n].out
  PROVE  Body' /\ Counts' /\ WbFlow' = WbFlow /\ ContentFlow' = ContentFlow /\ ReadFlow' = ReadFlow
<1>1. /\ q'["wb"].chunks = q["wb"].chunks /\ q'["content"].chunks = q["content"].chunks
      /\ q'["read"].chunks = q["read"].chunks
  BY DEF Queues
<1>2. /\ q'["wb"].in = q["wb"].in /\ q'["content"].in = q["content"].in /\ q'["read"].in = q["read"].in
      /\ q'["wb"].out = q["wb"].out /\ q'["content"].out = q["content"].out /\ q'["read"].out = q["read"].out
  BY DEF Queues
<1>3. Body'
  BY <1>1 DEF ChunkIInv, Body
<1>4. Counts'
  BY <1>1, <1>2 DEF ChunkIInv, Counts, Count
<1> QED BY <1>1, <1>3, <1>4 DEF WbFlow, ContentFlow, ReadFlow

\* What the job may be.
LEMMA JobIs ==
  ASSUME ChunkIInv, pc \in {"steal", "temp"}
  PROVE  /\ job \in JobType /\ job.len \in Nat
         /\ \/ job.src = "read" /\ job.dest = "content"
            \/ job.src = "content" /\ job.dest = "wb" /\ ~job.temp
<1>1. job \in JobType /\ job.len >= 0 /\ Way(job.src, job.dest, job.temp)
  BY DEF ChunkIInv, Types, Jobs
<1>2. job.len \in Int
  BY <1>1 DEF JobType
<1> QED BY <1>1, <1>2 DEF Way

\* The bytes a turn uses are in the chunk at the head, and a turn on a chunk with bytes uses some.
LEMMA UseIs ==
  ASSUME ChunkIInv, pc \in {"steal", "temp"}, Source.chunks # <<>>
  PROVE  /\ Good(Head1, files) /\ Head1 = Source.chunks[1] /\ Fit(Source.chunks, files)
         /\ Use \in Nat /\ Use <= Remaining(Head1) /\ Use <= job.len /\ Remaining(Head1) \in Nat
         /\ (job.len > 0 /\ Remaining(Head1) > 0 => Use > 0)
<1>1. Three(q["wb"].chunks, q["content"].chunks, q["read"].chunks, files)
  BY Held
<1>2. Fit(q["content"].chunks, files) /\ Fit(q["read"].chunks, files)
  BY <1>1, ThreeFit
<1>3. job.len \in Nat /\ job.src \in {"read", "content"}
  BY JobIs
<1>4. Fit(Source.chunks, files)
  BY <1>2, <1>3 DEF Source
<1>5. Good(Head1, files) /\ Head1 = Source.chunks[1]
  BY <1>4, FlowHead DEF Head1
<1>6. Remaining(Head1) \in Nat
  BY <1>4, <1>5, BytesTyped DEF Fit
<1>7. Use \in Nat /\ Use <= Remaining(Head1) /\ Use <= job.len
  BY <1>3, <1>6 DEF Use
<1>8. job.len > 0 /\ Remaining(Head1) > 0 => Use > 0
  BY <1>3, <1>6 DEF Use
<1> QED BY <1>4, <1>5, <1>6, <1>7, <1>8

\* The end of chunkqueue_steal.
LEMMA StealEndsKeeps == ASSUME ChunkIInv, StealEnds PROVE ChunkIInv'
<1>1. q' = q /\ files' = files /\ pc = "steal" /\ pc' = "idle" /\ job' = NoJob
      /\ UNCHANGED <<fed, sent, setup>>
  BY DEF StealEnds
<1>2. Body' /\ Counts' /\ WbFlow' = WbFlow /\ ContentFlow' = ContentFlow /\ ReadFlow' = ReadFlow
  BY <1>1, Standing
<1>3. Types'
  <2>1. NoJob \in JobType
    BY DEF NoJob, JobType, Queues
  <2> QED BY <1>1, <2>1 DEF ChunkIInv, Types, Places
<1>4. Jobs'
  BY <1>1 DEF Jobs
<1>5. Order'
  BY <1>1, <1>2 DEF ChunkIInv, Order
<1> QED BY <1>2, <1>3, <1>4, <1>5 DEF ChunkIInv

\* The start of network_backend_write.
LEMMA SendKeeps == ASSUME ChunkIInv, ChunkQueueAssumption, Send PROVE ChunkIInv'
<1>1. /\ q' = q /\ files' = files /\ pc = "idle" /\ pc' = "send" /\ job' = [NoJob EXCEPT !.len = MaxBytes]
      /\ UNCHANGED <<fed, sent, setup>>
  BY DEF Send
<1>2. Body' /\ Counts' /\ WbFlow' = WbFlow /\ ContentFlow' = ContentFlow /\ ReadFlow' = ReadFlow
  BY <1>1, Standing
<1>3. Types'
  <2>1. MaxBytes \in Nat
    BY DEF ChunkQueueAssumption
  <2>2. NoJob \in JobType
    BY DEF NoJob, JobType, Queues
  <2>3. [NoJob EXCEPT !.len = MaxBytes] \in JobType
    BY <2>1, <2>2 DEF JobType
  <2> QED BY <1>1, <2>3 DEF ChunkIInv, Types, Places
<1>4. Jobs'
  BY <1>1 DEF Jobs
<1>5. Order'
  BY <1>1, <1>2 DEF ChunkIInv, Order
<1> QED BY <1>2, <1>3, <1>4, <1>5 DEF ChunkIInv

\* The part of the first chunk that is to be written to a file comes first of what was read.
LEMMA StealToFileKeeps == ASSUME ChunkIInv, StealToFile PROVE ChunkIInv'
<1>1. /\ q' = q /\ files' = files /\ pc = "steal" /\ pc' = "temp" /\ UNCHANGED <<fed, sent, setup>>
      /\ job' = [job EXCEPT !.rest = SubSeq(Bytes(Head1), 1, Use)]
      /\ job.temp /\ job.len > 0 /\ Source.chunks # <<>> /\ Remaining(Head1) > 0
  BY DEF StealToFile, Stealing
<1>2. Body' /\ Counts' /\ WbFlow' = WbFlow /\ ContentFlow' = ContentFlow /\ ReadFlow' = ReadFlow
  BY <1>1, Standing
<1>3. job \in JobType /\ job.src = "read" /\ job.dest = "content"
  BY <1>1, JobIs
<1>4. /\ Good(Head1, files) /\ Head1 = Source.chunks[1] /\ Fit(Source.chunks, files)
      /\ Use \in Nat /\ Use <= Remaining(Head1) /\ Remaining(Head1) \in Nat
  BY <1>1, UseIs
<1>5. Source.chunks = q["read"].chunks
  BY <1>3 DEF Source
<1>6. PICK p \in 0 .. Remaining(Head1) : p = Use
  BY <1>4
<1>7. Bytes(Head1) = BytesIn(Head1, files)
  BY DEF Bytes, BytesIn
<1>8. Take(ReadFlow, p) = Take(BytesIn(Head1, files), p) /\ p <= Len(ReadFlow)
  BY <1>1, <1>4, <1>5, FlowAhead DEF ReadFlow
<1>9. ReadFlow \in Seq(Nat)
  BY Held
<1>10. /\ ReadFlow = Take(ReadFlow, p) \o Drop(ReadFlow, p) /\ Take(ReadFlow, p) \in Seq(Nat)
  <2>1. p \in 0 .. Len(ReadFlow)
    BY <1>4, <1>8, <1>9
  <2> QED BY <1>9, <2>1, Halves
<1>11. PICK r \in Seq(Nat) : r = Take(ReadFlow, p)
  BY <1>10
<1>12. SubSeq(Bytes(Head1), 1, Use) = r
  BY <1>6, <1>7, <1>8, <1>11 DEF Take
<1>13. job' \in JobType /\ job'.rest = r /\ job'.src = job.src /\ job'.dest = job.dest /\ job'.temp = job.temp
       /\ job'.len = job.len
  BY <1>1, <1>3, <1>12 DEF JobType
<1>14. Types'
  BY <1>1, <1>13 DEF ChunkIInv, Types, Places
<1>15. Jobs'
  <2>1. job.len >= 0
    BY <1>1, JobIs
  <2>2. Way(job.src, job.dest, job.temp)
    BY <1>1 DEF ChunkIInv, Jobs
  <2> QED BY <1>1, <1>4, <1>5, <1>13, <2>1, <2>2 DEF Jobs
<1>16. Use' = Use
  BY <1>1, <1>13 DEF Use, Head1, Source
<1>17. Order'
  <2>1. Row(sent, WbFlow, ContentFlow, ReadFlow) = Upto(fed)
    BY <1>1 DEF ChunkIInv, Order
  <2>2. job'.rest \o Drop(ReadFlow', Use') = ReadFlow
    BY <1>2, <1>6, <1>10, <1>11, <1>13, <1>16
  <2> QED BY <1>1, <1>2, <2>1, <2>2 DEF Order
<1> QED BY <1>2, <1>14, <1>15, <1>17 DEF ChunkIInv

\* The bytes read without the finished chunks.
LEMMA TrimmedIs ==
  ASSUME ChunkIInv, NEW n \in {"read", "content"}
  PROVE  /\ Trimmed(n) \in CqType /\ Trimmed(n).in = q[n].in /\ Trimmed(n).out = q[n].out
         /\ Fit(Trimmed(n).chunks, files) /\ Flow(Trimmed(n).chunks, files) = Flow(q[n].chunks, files)
         /\ n = "read" => AllMem(Trimmed(n).chunks)
         /\ n = "content" => Trimmed(n) = q[n]
<1>1. /\ Three(q["wb"].chunks, q["content"].chunks, q["read"].chunks, files)
      /\ q["content"] \in CqType /\ q["read"] \in CqType
  BY Held
<1>2. Fit(q["content"].chunks, files) /\ Fit(q["read"].chunks, files)
  BY <1>1, ThreeFit
<1>3. CASE n = "content"
  BY <1>1, <1>2, <1>3 DEF Trimmed
<1>4. CASE n = "read"
  <2>1. PICK cq \in CqType : cq = q["read"]
    BY <1>1
  <2>2. PICK k : k = Finished(cq)
    OBVIOUS
  <2>3. k \in 0 .. Len(cq.chunks) /\ Flow(DropFirst(cq, k).chunks, files) = Flow(cq.chunks, files)
    BY <1>2, <2>1, <2>2, FlowTrimmed
  <2>4. Fit(DropFirst(cq, k).chunks, files) /\ DropFirst(cq, k) \in CqType
    BY <1>2, <2>1, <2>3, FlowDropped
  <2>5. DropFirst(cq, k).in = cq.in /\ DropFirst(cq, k).out = cq.out
    BY <2>1 DEF DropFirst, CqType
  <2>6. /\ Len(DropFirst(cq, k).chunks) = Len(cq.chunks) - k
        /\ \A i \in 1 .. Len(cq.chunks) - k : DropFirst(cq, k).chunks[i] = cq.chunks[k + i]
    BY <1>2, <2>1, <2>3, FlowDropped
  <2>7. AllMem(DropFirst(cq, k).chunks)
    <3>1. AllMem(cq.chunks) /\ cq.chunks \in Seq(ChunkType)
      BY <1>1, <1>2, <2>1 DEF Three, Fit
    <3>2. PICK l \in Nat : l = Len(cq.chunks)
      BY <3>1
    <3>3. DOMAIN DropFirst(cq, k).chunks = 1 .. l - k
      BY <2>4, <2>6, <3>2 DEF Fit
    <3>4. ASSUME NEW i \in 1 .. l - k PROVE DropFirst(cq, k).chunks[i].type = "mem"
      <4>1. k + i \in DOMAIN cq.chunks
        BY <2>3, <3>1, <3>2
      <4>2. cq.chunks[k + i].type = "mem"
        BY <3>1, <4>1 DEF AllMem
      <4> QED BY <2>6, <3>2, <4>2
    <3> QED BY <3>3, <3>4 DEF AllMem
  <2>8. Trimmed(n) = DropFirst(cq, k)
    BY <1>4, <2>1, <2>2 DEF Trimmed
  <2> QED BY <1>4, <2>1, <2>3, <2>4, <2>5, <2>7, <2>8
<1> QED BY <1>3, <1>4

\* The start of chunkqueue_steal and chunkqueue_steal_with_tempfiles.
LEMMA StealKeeps ==
  ASSUME ChunkIInv, NEW src, NEW dest, NEW len \in Nat, NEW temp, Steal(src, dest, len, temp)
  PROVE  ChunkIInv'
<1>1. /\ q' = [q EXCEPT ![src] = Trimmed(src)] /\ pc = "idle" /\ pc' = "steal" /\ files' = files
      /\ UNCHANGED <<fed, sent, setup>> 
      /\ <<src, dest, temp>> \in {<<"read", "content", FALSE>>, <<"read", "content", TRUE>>,
                                 <<"content", "wb", FALSE>>}
      /\ job' = [src |-> src, dest |-> dest, temp |-> temp, len |-> len, rest |-> <<>>]
  BY DEF Steal
<1>2. src \in {"read", "content"} /\ src \in Queues /\ dest \in Queues /\ temp \in BOOLEAN
  BY <1>1 DEF Queues
<1>3. /\ Three(q["wb"].chunks, q["content"].chunks, q["read"].chunks, files)
      /\ q \in [Queues -> CqType]
  BY Held
<1>4. PICK t \in CqType : t = Trimmed(src)
  BY <1>2, TrimmedIs
<1>5. t.in = q[src].in /\ t.out = q[src].out /\ Fit(t.chunks, files)
  BY <1>2, <1>4, TrimmedIs
<1>6. Flow(t.chunks, files) = Flow(q[src].chunks, files)
  BY <1>2, <1>4, TrimmedIs
<1>7. (src = "read" => AllMem(t.chunks)) /\ (src = "content" => t = q[src])
  BY <1>2, <1>4, TrimmedIs
<1>8. q' = [q EXCEPT ![src] = t]
  BY <1>1, <1>4
<1>9. q' \in [Queues -> CqType] /\ q'[src] = t /\ \A m \in Queues : m # src => q'[m] = q[m]
  BY <1>2, <1>3, <1>8
<1>10. Body'
  <2>1. CASE src = "read"
    <3>1. q'["wb"] = q["wb"] /\ q'["content"] = q["content"] /\ q'["read"] = t
      BY <1>9, <2>1 DEF Queues
    <3> QED BY <1>1, <1>3, <1>5, <1>7, <2>1, <3>1, ReadChanged DEF Body
  <2>2. CASE src = "content"
    <3>1. q'["wb"] = q["wb"] /\ q'["content"] = q["content"] /\ q'["read"] = q["read"]
      BY <1>7, <1>9, <2>2 DEF Queues
    <3> QED BY <1>1, <1>3, <3>1 DEF Body
  <2> QED BY <1>2, <2>1, <2>2
<1>11. \A m \in Queues : /\ Flow(q'[m].chunks, files) = Flow(q[m].chunks, files)
                         /\ q'[m].in = q[m].in /\ q'[m].out = q[m].out
  BY <1>5, <1>6, <1>9
<1>12. WbFlow' = WbFlow /\ ContentFlow' = ContentFlow /\ ReadFlow' = ReadFlow
  BY <1>1, <1>11 DEF Queues, WbFlow, ContentFlow, ReadFlow
<1>13. Counts'
  BY <1>1, <1>11 DEF ChunkIInv, Counts, Count, Queues
<1>14. Types'
  <2>1. job' \in JobType
    BY <1>1, <1>2 DEF JobType
  <2> QED BY <1>1, <1>9, <2>1 DEF ChunkIInv, Types, Places
<1>15. Jobs'
  <2>1. Way(src, dest, temp)
    BY <1>1 DEF Way
  <2> QED BY <1>1, <2>1 DEF Jobs
<1>16. Order'
  BY <1>1, <1>12 DEF ChunkIInv, Order
<1> QED BY <1>10, <1>13, <1>14, <1>15, <1>16 DEF ChunkIInv

\* Bytes v go from the head of a queue to the end of the next.
Passed(q1, q2, src, dest, fs, v) ==
  /\ q2 \in [Queues -> CqType] /\ \A m \in Queues : m # src /\ m # dest => q2[m] = q1[m]
  /\ Joins(Flow(q2[dest].chunks, fs), Flow(q1[dest].chunks, fs), v)
  /\ Joins(Flow(q1[src].chunks, fs), v, Flow(q2[src].chunks, fs))
  /\ q2[dest].in = q1[dest].in + Len(v) /\ q2[dest].out = q1[dest].out
  /\ q2[src].in = q1[src].in /\ q2[src].out = q1[src].out + Len(v)

\* The counters of two queues, when bytes v go from one to the other.
LEMMA CountPassed ==
  ASSUME NEW c1 \in CqType, NEW c2 \in CqType, NEW d1 \in CqType, NEW d2 \in CqType, NEW fs,
         NEW v \in Seq(Nat),
         Flow(c1.chunks, fs) \in Seq(Nat), Flow(c2.chunks, fs) \in Seq(Nat), Flow(d1.chunks, fs) \in Seq(Nat),
         Joins(Flow(d2.chunks, fs), Flow(d1.chunks, fs), v),
           Joins(Flow(c1.chunks, fs), v, Flow(c2.chunks, fs)),
         d2.in = d1.in + Len(v), d2.out = d1.out, c2.in = c1.in, c2.out = c1.out + Len(v),
         Count(c1, fs), Count(d1, fs)
  PROVE  Count(c2, fs) /\ Count(d2, fs)
<1>1. PICK l \in Nat : l = Len(v)
  OBVIOUS
<1>2. PICK a \in Nat, b \in Nat, c \in Nat :
        a = Len(Flow(c1.chunks, fs)) /\ b = Len(Flow(c2.chunks, fs)) /\ c = Len(Flow(d1.chunks, fs))
  OBVIOUS
<1>3. a = l + b
  BY <1>1, <1>2, ConcatProperties DEF Joins
<1>4. Len(Flow(d2.chunks, fs)) = c + l
  BY <1>1, <1>2, ConcatProperties DEF Joins
<1>5. PICK ci \in Int, co \in Int, di \in Int, do \in Int :
        ci = c1.in /\ co = c1.out /\ di = d1.in /\ do = d1.out
  BY CqParts
<1>6. ci - co = a /\ di - do = c
  BY <1>2, <1>5 DEF Count
<1>7. ci - (co + l) = b /\ di + l - do = c + l
  BY <1>3, <1>6
<1>8. c2.in = ci /\ c2.out = co + l /\ d2.in = di + l /\ d2.out = do
  BY <1>1, <1>5
<1> QED BY <1>2, <1>4, <1>7, <1>8 DEF Count

\* Such a transfer keeps the counters and the row.
LEMMA Transferred ==
  ASSUME ChunkIInv, Body', files' = files, pc \notin {"temp", "failed"}, pc' \notin {"temp", "failed"},
         fed' = fed, sent' = sent, NEW src, NEW dest, Way(src, dest, FALSE), NEW v \in Seq(Nat),
         Passed(q, q', src, dest, files, v)
  PROVE  Counts' /\ Order'
<1>1. /\ q["wb"] \in CqType /\ q["content"] \in CqType /\ q["read"] \in CqType
      /\ WbFlow \in Seq(Nat) /\ ContentFlow \in Seq(Nat) /\ ReadFlow \in Seq(Nat) /\ sent \in Seq(Nat)
  BY Held
<1>2. WbFlow' \in Seq(Nat) /\ ContentFlow' \in Seq(Nat) /\ ReadFlow' \in Seq(Nat)
  <2>1. Three(q'["wb"].chunks, q'["content"].chunks, q'["read"].chunks, files')
    BY DEF Body
  <2> QED BY <2>1, ThreeFit DEF WbFlow, ContentFlow, ReadFlow
<1>3. q'["wb"] \in CqType /\ q'["content"] \in CqType /\ q'["read"] \in CqType
  BY DEF Passed, Queues
<1>4. Count(q["wb"], files) /\ Count(q["content"], files) /\ Count(q["read"], files)
  BY DEF ChunkIInv, Counts
<1>5. Row(sent, WbFlow, ContentFlow, ReadFlow) = Upto(fed)
  BY DEF ChunkIInv, Order
<1>6. CASE src = "read" /\ dest = "content"
  <2>1. q'["wb"] = q["wb"]
    BY <1>6 DEF Passed, Queues
  <2>2. Joins(ContentFlow', ContentFlow, v) /\ Joins(ReadFlow, v, ReadFlow')
    BY <1>6 DEF Passed, ContentFlow, ReadFlow
  <2>3. Count(q'["read"], files) /\ Count(q'["content"], files)
    <3>1. /\ q'["content"].in = q["content"].in + Len(v) /\ q'["content"].out = q["content"].out
          /\ q'["read"].in = q["read"].in /\ q'["read"].out = q["read"].out + Len(v)
      BY <1>6 DEF Passed
    <3>2. /\ Flow(q["read"].chunks, files) \in Seq(Nat) /\ Flow(q'["read"].chunks, files) \in Seq(Nat)
          /\ Flow(q["content"].chunks, files) \in Seq(Nat)
      BY <1>1, <1>2 DEF ReadFlow, ContentFlow
    <3>3. /\ Joins(Flow(q'["content"].chunks, files), Flow(q["content"].chunks, files), v)
          /\ Joins(Flow(q["read"].chunks, files), v, Flow(q'["read"].chunks, files))
      BY <2>2 DEF ContentFlow, ReadFlow
    <3> QED BY <1>1, <1>3, <1>4, <3>1, <3>2, <3>3, CountPassed
  <2>4. Counts'
    BY <1>4, <2>1, <2>3 DEF Counts
  <2>5. WbFlow' = WbFlow
    BY <2>1 DEF WbFlow
  <2>6. Row(sent, WbFlow, ContentFlow', ReadFlow') = Row(sent, WbFlow, ContentFlow, ReadFlow)
    BY <1>1, <1>2, <2>2, RowRead
  <2> QED BY <1>5, <2>4, <2>5, <2>6 DEF Order
<1>7. CASE src = "content" /\ dest = "wb"
  <2>1. q'["read"] = q["read"]
    BY <1>7 DEF Passed, Queues
  <2>2. Joins(WbFlow', WbFlow, v) /\ Joins(ContentFlow, v, ContentFlow')
    BY <1>7 DEF Passed, ContentFlow, WbFlow
  <2>3. Count(q'["content"], files) /\ Count(q'["wb"], files)
    <3>1. /\ q'["wb"].in = q["wb"].in + Len(v) /\ q'["wb"].out = q["wb"].out
          /\ q'["content"].in = q["content"].in /\ q'["content"].out = q["content"].out + Len(v)
      BY <1>7 DEF Passed
    <3>2. /\ Flow(q["content"].chunks, files) \in Seq(Nat) /\ Flow(q'["content"].chunks, files) \in Seq(Nat)
          /\ Flow(q["wb"].chunks, files) \in Seq(Nat)
      BY <1>1, <1>2 DEF WbFlow, ContentFlow
    <3>3. /\ Joins(Flow(q'["wb"].chunks, files), Flow(q["wb"].chunks, files), v)
          /\ Joins(Flow(q["content"].chunks, files), v, Flow(q'["content"].chunks, files))
      BY <2>2 DEF ContentFlow, WbFlow
    <3> QED BY <1>1, <1>3, <1>4, <3>1, <3>2, <3>3, CountPassed
  <2>4. Counts'
    BY <1>4, <2>1, <2>3 DEF Counts
  <2>5. ReadFlow' = ReadFlow
    BY <2>1 DEF ReadFlow
  <2>6. Row(sent, WbFlow', ContentFlow', ReadFlow) = Row(sent, WbFlow, ContentFlow, ReadFlow)
    BY <1>1, <1>2, <2>2, RowContent
  <2> QED BY <1>5, <2>4, <2>5, <2>6 DEF Order
<1> QED BY <1>6, <1>7 DEF Way

\* Memory stays memory when the first chunk goes or gives bytes.
LEMMA MemTail ==
  ASSUME NEW R \in Seq(ChunkType), AllMem(R), R # <<>>
  PROVE  /\ AllMem(Tail(R)) /\ R[1].type = "mem"
         /\ \A c : c.type = "mem" => AllMem(SetHead(R, c))
<1>1. PICK n \in Nat : n = Len(R) /\ n # 0
  OBVIOUS
<1>2. DOMAIN R = 1 .. n
  BY <1>1
<1>3. R[1].type = "mem"
  BY <1>1, <1>2 DEF AllMem
<1>4. AllMem(Tail(R))
  <2>1. DOMAIN Tail(R) = 1 .. n - 1 /\ \A i \in 1 .. n - 1 : Tail(R)[i] = R[i + 1]
    BY <1>1
  <2>2. ASSUME NEW i \in 1 .. n - 1 PROVE Tail(R)[i].type = "mem"
    <3>1. i + 1 \in DOMAIN R
      BY <1>1, <1>2
    <3>2. R[i + 1].type = "mem"
      BY <3>1 DEF AllMem
    <3> QED BY <2>1, <3>2
  <2> QED BY <2>1, <2>2 DEF AllMem
<1>5. ASSUME NEW c, c.type = "mem" PROVE AllMem(SetHead(R, c))
  <2>1. DOMAIN SetHead(R, c) = 1 .. n /\ \A i \in 1 .. n : SetHead(R, c)[i] = IF i = 1 THEN c ELSE R[i]
    BY <1>1, <1>2 DEF SetHead
  <2>2. ASSUME NEW i \in 1 .. n PROVE SetHead(R, c)[i].type = "mem"
    <3>1. R[i].type = "mem"
      BY <1>2 DEF AllMem
    <3> QED BY <1>5, <2>1, <3>1
  <2> QED BY <2>1, <2>2 DEF AllMem
<1> QED BY <1>3, <1>4, <1>5

\* A chunk more, as a row put behind.
LEMMA OneMem ==
  ASSUME NEW C \in Seq(ChunkType), NEW c \in ChunkType
  PROVE  Append(C, c) = C \o <<c>> /\ (c.type = "mem" => AllMem(<<c>>))
<1>1. Append(C, c) = C \o <<c>>
  BY AppendIsConcat
<1>2. c.type = "mem" => AllMem(<<c>>)
  BY DEF AllMem
<1> QED BY <1>1, <1>2

\* The first of several chunks and the others.
LEMMA HeadFirst ==
  ASSUME NEW S, NEW C \in Seq(S), C # <<>>
  PROVE  C = <<Head(C)>> \o Tail(C) /\ Tail(C) \in Seq(S) /\ <<Head(C)>> \in Seq(S)
<1>1. PICK n \in Nat : n = Len(C) /\ n # 0
  OBVIOUS
<1>2. PICK T \in Seq(S) : T = Tail(C) /\ Len(T) = n - 1
  <2>1. Tail(C) \in Seq(S)
    BY <1>1
  <2>2. Len(Tail(C)) = n - 1
    BY <1>1
  <2> QED BY <2>1, <2>2
<1>3. \A i \in 1 .. n - 1 : T[i] = C[i + 1]
  BY <1>1, <1>2
<1>4. PICK h \in S : h = Head(C) /\ h = C[1]
  BY <1>1
<1>5. <<h>> \in Seq(S) /\ Len(<<h>>) = 1 /\ <<h>>[1] = h
  OBVIOUS
<1>6. /\ <<h>> \o T \in Seq(S) /\ Len(<<h>> \o T) = n
      /\ \A i \in 1 .. n : (<<h>> \o T)[i] = IF i <= 1 THEN <<h>>[i] ELSE T[i - 1]
  BY <1>1, <1>2, <1>5, ConcatProperties
<1>7. ASSUME NEW i \in 1 .. n PROVE (<<h>> \o T)[i] = C[i]
  <2>1. CASE i = 1
    BY <1>4, <1>5, <1>6, <2>1
  <2>2. CASE i # 1
    <3>1. PICK j \in 1 .. n - 1 : i = j + 1
      BY <1>1, <2>2
    <3>2. (<<h>> \o T)[i] = T[j]
      BY <1>6, <3>1
    <3> QED BY <1>3, <3>1, <3>2
  <2> QED BY <2>1, <2>2
<1>8. <<h>> \o T = C
  BY <1>1, <1>6, <1>7, SeqEqual
<1> QED BY <1>2, <1>4, <1>5, <1>8

\* A whole chunk moves: the three queues after it.
LEMMA WholeMoved ==
  ASSUME NEW W, NEW C, NEW R, NEW fs, Three(W, C, R, fs)
  PROVE  /\ R # <<>> => Three(W, Append(C, Head(R)), Tail(R), fs)
         /\ C # <<>> => Three(Append(W, Head(C)), Tail(C), R, fs)
<1>1. W \in Seq(ChunkType) /\ C \in Seq(ChunkType) /\ R \in Seq(ChunkType) /\ Fit(R, fs) /\ AllMem(R)
      /\ fs \in Seq(FileType)
  BY DEF Three, Fit
<1>2. ASSUME R # <<>> PROVE Three(W, Append(C, Head(R)), Tail(R), fs)
  <2>1. Good(Head(R), fs) /\ Fit(Tail(R), fs) /\ Head(R) = R[1]
    BY <1>1, <1>2, FlowHead
  <2>2. PICK h \in ChunkType : h = Head(R)
    BY <2>1 DEF Good
  <2>3. AllMem(Tail(R)) /\ h.type = "mem"
    BY <1>1, <1>2, <2>1, <2>2, MemTail
  <2>4. Fit(<<h>>, fs)
    BY <1>1, <2>1, <2>2, FlowOne
  <2>5. Append(C, h) = C \o <<h>> /\ AllMem(<<h>>)
    BY <1>1, <2>3, OneMem
  <2>6. Three(W, C \o <<h>>, Tail(R), fs)
    BY <2>1, <2>3, <2>4, <2>5, MemAdded
  <2> QED BY <2>2, <2>5, <2>6
<1>3. ASSUME C # <<>> PROVE Three(Append(W, Head(C)), Tail(C), R, fs)
  <2>1. C = <<Head(C)>> \o Tail(C) /\ Tail(C) \in Seq(ChunkType) /\ <<Head(C)>> \in Seq(ChunkType)
    BY <1>1, <1>3, HeadFirst
  <2>2. PICK T \in Seq(ChunkType), D \in Seq(ChunkType) : T = <<Head(C)>> /\ D = Tail(C)
    BY <2>1
  <2>3. Three(W, T \o D, R, fs)
    BY <2>1, <2>2
  <2>4. Three(W \o T, D, R, fs)
    BY <2>3, Shifted
  <2>5. Head(C) \in ChunkType
    BY <1>1, <1>3
  <2>6. Append(W, Head(C)) = W \o <<Head(C)>>
    BY <1>1, <2>5, OneMem
  <2> QED BY <2>2, <2>4, <2>6
<1> QED BY <1>2, <1>3

\* Of the chunk at the head a part goes, from what was read or from the content.
LEMMA PartMoved ==
  ASSUME NEW W, NEW C, NEW R, NEW fs, Three(W, C, R, fs), NEW p \in Nat
  PROVE  /\ R # <<>> /\ p < Remaining(R[1]) =>
              Three(W, Append(C, SplitOff(R[1], p)), SetHead(R, Ahead(R[1], p)), fs)
         /\ C # <<>> /\ p < Remaining(C[1]) =>
              Three(Append(W, SplitOff(C[1], p)), SetHead(C, Ahead(C[1], p)), R, fs)
<1>1. /\ W \in Seq(ChunkType) /\ C \in Seq(ChunkType) /\ R \in Seq(ChunkType) /\ Fit(R, fs) /\ AllMem(R)
      /\ fs \in Seq(FileType) /\ Fit(C, fs)
  BY ThreeFit DEF Three, Fit
<1>2. ASSUME R # <<>>, p < Remaining(R[1])
      PROVE  Three(W, Append(C, SplitOff(R[1], p)), SetHead(R, Ahead(R[1], p)), fs)
  <2>1. Good(Head(R), fs) /\ Head(R) = R[1]
    BY <1>1, <1>2, FlowHead
  <2>2. PICK c : c = R[1]
    OBVIOUS
  <2>3. Good(c, fs) /\ Remaining(c) \in Nat
    BY <1>1, <2>1, <2>2, BytesTyped
  <2>4. p \in 0 .. Remaining(c)
    BY <1>2, <2>2, <2>3
  <2>5. c.type = "mem"
    BY <1>1, <1>2, <2>2, MemTail
  <2>6. Good(Ahead(c, p), fs) /\ Ahead(c, p).type = "mem"
    BY <1>1, <2>3, <2>4, <2>5, AheadIs DEF Alike
  <2>7. Good(SplitOff(c, p), fs) /\ SplitOff(c, p).type = "mem"
    BY <1>1, <2>3, <2>4, <2>5, SplitOffIs
  <2>8. Fit(SetHead(R, Ahead(c, p)), fs)
    BY <1>1, <1>2, <2>6, FlowSetHead
  <2>9. AllMem(SetHead(R, Ahead(c, p)))
    BY <1>1, <1>2, <2>6, MemTail
  <2>10. PICK d \in ChunkType : d = SplitOff(c, p)
    BY <2>7 DEF Good
  <2>11. Fit(<<d>>, fs)
    BY <1>1, <2>7, <2>10, FlowOne
  <2>12. Append(C, d) = C \o <<d>> /\ AllMem(<<d>>)
    BY <1>1, <2>7, <2>10, OneMem
  <2>13. Three(W, C \o <<d>>, SetHead(R, Ahead(c, p)), fs)
    BY <2>8, <2>9, <2>11, <2>12, MemAdded
  <2> QED BY <2>2, <2>10, <2>12, <2>13
<1>3. ASSUME C # <<>>, p < Remaining(C[1])
      PROVE  Three(Append(W, SplitOff(C[1], p)), SetHead(C, Ahead(C[1], p)), R, fs)
  <2>1. Good(C[1], fs)
    BY <1>1, <1>3, FlowHead
  <2>2. Remaining(C[1]) \in Nat
    BY <1>1, <2>1, BytesTyped
  <2>3. p \in 0 .. Remaining(C[1]) /\ p # Remaining(C[1])
    BY <1>3, <2>2
  <2> QED BY <1>3, <2>3, PieceMoved
<1> QED BY <1>2, <1>3

\* A chunk or a part of it moves: what both have in common.
LEMMA StealFacts ==
  ASSUME ChunkIInv, Stealing
  PROVE  /\ pc = "steal" /\ job \in JobType /\ job.len \in Nat /\ Way(job.src, job.dest, FALSE)
         /\ Way(job.src, job.dest, job.temp)
         /\ job.src \in Queues /\ job.dest \in Queues /\ job.src # job.dest
         /\ Source.chunks # <<>> /\ Good(Head1, files) /\ Head1 = Source.chunks[1] /\ Head1 \in ChunkType
         /\ Use \in Nat /\ Use <= Remaining(Head1) /\ Use <= job.len /\ Remaining(Head1) \in Nat
<1>1. pc = "steal" /\ Source.chunks # <<>>
  BY DEF Stealing
<1>2. /\ job \in JobType /\ job.len \in Nat
      /\ \/ job.src = "read" /\ job.dest = "content"
         \/ job.src = "content" /\ job.dest = "wb" /\ ~job.temp
  BY <1>1, JobIs
<1>3. /\ Good(Head1, files) /\ Head1 = Source.chunks[1]
      /\ Use \in Nat /\ Use <= Remaining(Head1) /\ Use <= job.len /\ Remaining(Head1) \in Nat
  BY <1>1, UseIs
<1>4. Way(job.src, job.dest, FALSE) /\ Way(job.src, job.dest, job.temp)
  BY <1>2 DEF Way
<1>5. job.src \in Queues /\ job.dest \in Queues /\ job.src # job.dest
  BY <1>2 DEF Queues
<1>6. Head1 \in ChunkType
  BY <1>3 DEF Good
<1> QED BY <1>1, <1>2, <1>3, <1>4, <1>5, <1>6

\* u bytes v move as chunk d and leave the chunks S of the source.
LEMMA StealStep ==
  ASSUME ChunkIInv, Stealing, files' = files, pc' = pc, UNCHANGED <<fed, sent, setup>>,
         job' = [job EXCEPT !.len = @ - Use],
         NEW S \in Seq(ChunkType), NEW d, Good(d, files), NEW v \in Seq(Nat),
         Len(v) = Use, Remaining(d) = Use, BytesIn(d, files) = v,
         Joins(Flow(q[job.src].chunks, files), v, Flow(S, files)),
         q' = [q EXCEPT ![job.src].chunks = S, ![job.src].out = @ + Use, ![job.dest] = Append1(@, d)],
         job.src = "read" => Three(q["wb"].chunks, Append(q["content"].chunks, d), S, files),
         job.src = "content" => Three(Append(q["wb"].chunks, d), S, q["read"].chunks, files)
  PROVE  ChunkIInv'
<1>1. PICK a \in Queues, b \in Queues : a = job.src /\ b = job.dest /\ a # b /\ Way(a, b, FALSE)
  BY StealFacts
<1>2. PICK u \in Nat : u = Use /\ u <= job.len
  BY StealFacts
<1>3. pc = "steal" /\ job \in JobType /\ job.len \in Nat /\ Way(job.src, job.dest, job.temp)
  BY StealFacts
<1>4. /\ Three(q["wb"].chunks, q["content"].chunks, q["read"].chunks, files)
      /\ q \in [Queues -> CqType]
  BY Held
<1>5. q[a] \in CqType /\ q[b] \in CqType
  BY <1>4
<1>6. d \in ChunkType /\ Remaining(d) = u
  BY <1>2 DEF Good
<1>7. PICK y : y = Append1(q[b], d)
  OBVIOUS
<1>8. /\ y \in CqType /\ y.chunks = Append(q[b].chunks, d) /\ y.in = q[b].in + u /\ y.out = q[b].out
  BY <1>5, <1>6, <1>7, Append1Is
<1>9. PICK cq \in CqType : cq = q[a]
  BY <1>5
<1>a. PICK o \in Int : o = cq.out + u
  <2>1. cq.out \in Int
    BY CqParts
  <2> QED BY <2>1
<1>b. PICK x : x = [cq EXCEPT !.chunks = S, !.out = o]
  OBVIOUS
<1>10. /\ x.chunks = S /\ x.in = q[a].in /\ x.out = q[a].out + u /\ x \in CqType
  BY <1>9, <1>a, <1>b DEF CqType
<1>11. q' = [q EXCEPT ![a].chunks = S, ![a].out = @ + u, ![b] = Append1(@, d)]
  BY <1>1, <1>2
<1>12. /\ q' \in [Queues -> CqType] /\ q'[a] = x /\ q'[b] = y
       /\ \A m \in Queues : m # a /\ m # b => q'[m] = q[m]
  <2>1. q'[b] = y
    BY <1>1, <1>4, <1>7, <1>11
  <2>2. q'[a] = x
    BY <1>1, <1>4, <1>9, <1>a, <1>b, <1>11
  <2>3. \A m \in Queues : m # a /\ m # b => q'[m] = q[m]
    BY <1>1, <1>4, <1>11
  <2>4. q' = [m \in Queues |-> q'[m]]
    BY <1>4, <1>11
  <2>5. \A m \in Queues : q'[m] \in CqType
    BY <1>4, <1>8, <1>10, <2>1, <2>2, <2>3
  <2> QED BY <2>1, <2>2, <2>3, <2>4, <2>5
<1>13. Body'
  <2>1. a = "read" => b = "content"
    BY <1>1 DEF Way
  <2>2. a = "content" => b = "wb"
    BY <1>1 DEF Way
  <2>3. q'[b].chunks = Append(q[b].chunks, d) /\ q'[a].chunks = S
    BY <1>8, <1>10, <1>12
  <2>4. PICK D : D = Append(q[b].chunks, d)
    OBVIOUS
  <2>5. a = "read" => Three(q["wb"].chunks, D, S, files)
    BY <1>1, <2>1, <2>4
  <2>6. a = "content" => Three(D, S, q["read"].chunks, files)
    BY <1>1, <2>2, <2>4
  <2>7. q'[b].chunks = D /\ q'[a].chunks = S
    BY <2>3, <2>4
  <2>8. CASE a = "read"
    <3>1. q'["wb"] = q["wb"] /\ b = "content"
      BY <1>12, <2>1, <2>8 DEF Queues
    <3> QED BY <2>5, <2>7, <2>8, <3>1 DEF Body
  <2>9. CASE a = "content"
    <3>1. q'["read"] = q["read"] /\ b = "wb"
      BY <1>12, <2>2, <2>9 DEF Queues
    <3> QED BY <2>6, <2>7, <2>9, <3>1 DEF Body
  <2> QED BY <1>1, <2>8, <2>9 DEF Way
<1>14. Passed(q, q', a, b, files, v)
  <2>1. Fit(q[b].chunks, files)
    <3>1. b \in {"wb", "content"}
      BY <1>1 DEF Way
    <3>2. Fit(q["wb"].chunks, files) /\ Fit(q["content"].chunks, files)
      BY <1>4, ThreeFit
    <3> QED BY <3>1, <3>2
  <2>2. Flow(Append(q[b].chunks, d), files) = Flow(q[b].chunks, files) \o BytesIn(d, files)
    BY <2>1, FlowAppend
  <2>3. Joins(Flow(q'[b].chunks, files), Flow(q[b].chunks, files), v)
    BY <1>8, <1>12, <2>2 DEF Joins
  <2>4. Joins(Flow(q[a].chunks, files), v, Flow(q'[a].chunks, files))
    BY <1>1, <1>10, <1>12
  <2>5. /\ q'[b].in = q[b].in + Len(v) /\ q'[b].out = q[b].out
        /\ q'[a].in = q[a].in /\ q'[a].out = q[a].out + Len(v)
    BY <1>2, <1>8, <1>10, <1>12
  <2> QED BY <1>12, <2>3, <2>4, <2>5 DEF Passed
<1>15. Counts' /\ Order'
  BY <1>1, <1>3, <1>13, <1>14, Transferred
<1>16. /\ job' \in JobType /\ job'.src = job.src /\ job'.dest = job.dest /\ job'.temp = job.temp
       /\ job'.len = job.len - u
  <2>1. PICK l \in Int : l = job.len - u
    BY <1>3
  <2>2. job' = [job EXCEPT !.len = l]
    BY <1>2, <2>1
  <2> QED BY <1>3, <2>1, <2>2 DEF JobType
<1>17. Types'
  BY <1>12, <1>16 DEF ChunkIInv, Types
<1>18. Jobs'
  <2>1. job'.len >= 0
    BY <1>2, <1>3, <1>16
  <2> QED BY <1>3, <1>16, <2>1 DEF Jobs
<1> QED BY <1>13, <1>15, <1>17, <1>18 DEF ChunkIInv

\* chunkqueue_steal: the chunk at the head goes whole.
LEMMA StealWholeKeeps == ASSUME ChunkIInv, StealWhole PROVE ChunkIInv'
<1>1. /\ Stealing /\ Use = Remaining(Head1) /\ files' = files /\ pc' = pc /\ UNCHANGED <<fed, sent, setup>>
      /\ job' = [job EXCEPT !.len = @ - Use]
      /\ q' = [q EXCEPT ![job.src].chunks = Tail(@), ![job.src].out = @ + Use, ![job.dest] = Append1(@, Head1)]
  BY DEF StealWhole
<1>2. /\ Source.chunks # <<>> /\ Good(Head1, files) /\ Head1 = Source.chunks[1]
         /\ Way(job.src, job.dest, FALSE)
      /\ job.src \in Queues
  BY <1>1, StealFacts
<1>3. /\ Three(q["wb"].chunks, q["content"].chunks, q["read"].chunks, files)
      /\ q \in [Queues -> CqType]
  BY Held
<1>4. Fit(Source.chunks, files)
  <2>1. Fit(q["read"].chunks, files) /\ Fit(q["content"].chunks, files)
    BY <1>3, ThreeFit
  <2> QED BY <1>2, <2>1 DEF Source, Way
<1>5. files \in Seq(FileType)
  BY <1>4 DEF Fit
<1>6. PICK S : S = Tail(Source.chunks)
  OBVIOUS
<1>7. PICK v \in Seq(Nat) : v = BytesIn(Head1, files) /\ Len(v) = Use
  BY <1>1, <1>2, <1>5, BytesTyped
<1>8. Fit(S, files) /\ Flow(Source.chunks, files) = v \o Flow(S, files)
  BY <1>2, <1>4, <1>6, <1>7, FlowHead DEF Head1
<1>9. Joins(Flow(q[job.src].chunks, files), v, Flow(S, files)) /\ S \in Seq(ChunkType)
  BY <1>8 DEF Joins, Source, Fit
<1>10. q' = [q EXCEPT ![job.src].chunks = S, ![job.src].out = @ + Use, ![job.dest] = Append1(@, Head1)]
  BY <1>1, <1>2, <1>3, <1>6 DEF Source
<1>11. job.src = "read" => Three(q["wb"].chunks, Append(q["content"].chunks, Head1), S, files)
  BY <1>2, <1>3, <1>6, WholeMoved DEF Source, Head1
<1>12. job.src = "content" => Three(Append(q["wb"].chunks, Head1), S, q["read"].chunks, files)
  BY <1>2, <1>3, <1>6, WholeMoved DEF Source, Head1
<1> QED BY <1>1, <1>2, <1>7, <1>9, <1>10, <1>11, <1>12, StealStep

\* chunkqueue_steal: a part of the chunk at the head is copied, or split off.
LEMMA StealPartKeeps == ASSUME ChunkIInv, StealPart PROVE ChunkIInv'
<1>1. /\ Stealing /\ Use < Remaining(Head1) /\ files' = files /\ pc' = pc /\ UNCHANGED <<fed, sent, setup>>
      /\ job' = [job EXCEPT !.len = @ - Use]
      /\ q' = [q EXCEPT ![job.src].chunks = Advance(@, Use), ![job.src].out = @ + Use,
                        ![job.dest] = Append1(@, SplitOff(Head1, Use))]
  BY DEF StealPart
<1>2. /\ Source.chunks # <<>> /\ Good(Head1, files) /\ Head1 = Source.chunks[1]
         /\ Way(job.src, job.dest, FALSE)
      /\ job.src \in Queues /\ Use \in Nat /\ Remaining(Head1) \in Nat
  BY <1>1, StealFacts
<1>3. /\ Three(q["wb"].chunks, q["content"].chunks, q["read"].chunks, files)
      /\ q \in [Queues -> CqType]
  BY Held
<1>4. Fit(Source.chunks, files)
  <2>1. Fit(q["read"].chunks, files) /\ Fit(q["content"].chunks, files)
    BY <1>3, ThreeFit
  <2> QED BY <1>2, <2>1 DEF Source, Way
<1>5. files \in Seq(FileType)
  BY <1>4 DEF Fit
<1>6. PICK u \in 0 .. Remaining(Head1) : u = Use
  BY <1>1, <1>2
<1>7. PICK cs \in Seq(ChunkType) : cs = Source.chunks
  BY <1>4 DEF Fit
<1>8. PICK S : S = SetHead(cs, Ahead(cs[1], u))
  OBVIOUS
<1>9. u \in 0 .. Remaining(cs[1]) /\ Fit(cs, files) /\ cs # <<>>
  BY <1>2, <1>4, <1>6, <1>7
<1>10. Fit(S, files) /\ Flow(S, files) = Drop(Flow(cs, files), u) /\ u <= Len(Flow(cs, files))
  BY <1>8, <1>9, FlowAhead
<1>11. Take(Flow(cs, files), u) = Take(BytesIn(cs[1], files), u)
  BY <1>9, FlowAhead
<1>12. Flow(cs, files) \in Seq(Nat)
  BY <1>9, EachTyped
<1>13. u \in 0 .. Len(Flow(cs, files))
  BY <1>10, <1>12
<1>14. PICK v \in Seq(Nat) : v = Take(Flow(cs, files), u)
  BY <1>12, <1>13, Halves
<1>15. Len(v) = Use /\ Flow(cs, files) = v \o Flow(S, files)
  <2>1. PICK F \in Seq(Nat) : F = Flow(cs, files)
    BY <1>12
  <2>2. Len(Take(F, u)) = u
    BY <1>13, <2>1, Halves
  <2>3. F = Take(F, u) \o Drop(F, u)
    BY <1>13, <2>1, Halves
  <2> QED BY <1>6, <1>10, <1>14, <2>1, <2>2, <2>3
<1>16. Joins(Flow(q[job.src].chunks, files), v, Flow(S, files)) /\ S \in Seq(ChunkType)
  BY <1>7, <1>10, <1>15 DEF Joins, Source, Fit
<1>17. PICK d : d = SplitOff(Head1, u)
  OBVIOUS
<1>18. Good(d, files) /\ Remaining(d) = u /\ BytesIn(d, files) = Take(BytesIn(Head1, files), u)
  BY <1>2, <1>5, <1>6, <1>17, SplitOffIs
<1>19. Remaining(d) = Use /\ BytesIn(d, files) = v
  BY <1>2, <1>6, <1>7, <1>11, <1>14, <1>18
<1>20. q' = [q EXCEPT ![job.src].chunks = S, ![job.src].out = @ + Use, ![job.dest] = Append1(@, d)]
  <2>1. Advance(cs, u) = S
    BY <1>8 DEF Advance, SetHead, Ahead
  <2>2. cs = q[job.src].chunks
    BY <1>7 DEF Source
  <2> QED BY <1>1, <1>2, <1>3, <1>6, <1>17, <2>1, <2>2
<1>21. job.src = "read" => Three(q["wb"].chunks, Append(q["content"].chunks, d), S, files)
  <2>1. ASSUME job.src = "read"
        PROVE Three(q["wb"].chunks, Append(q["content"].chunks, d), S, files)
    <3>1. cs = q["read"].chunks /\ Head1 = cs[1]
      BY <1>2, <1>7, <2>1 DEF Source
    <3>2. u \in Nat /\ u < Remaining(cs[1])
      BY <1>1, <1>2, <1>6, <3>1
    <3> QED BY <1>3, <1>8, <1>9, <1>17, <3>1, <3>2, PartMoved
  <2> QED BY <2>1
<1>22. job.src = "content" => Three(Append(q["wb"].chunks, d), S, q["read"].chunks, files)
  <2>1. ASSUME job.src = "content"
        PROVE Three(Append(q["wb"].chunks, d), S, q["read"].chunks, files)
    <3>1. cs = q["content"].chunks /\ Head1 = cs[1]
      BY <1>2, <1>7, <2>1 DEF Source
    <3>2. u \in Nat /\ u < Remaining(cs[1])
      BY <1>1, <1>2, <1>6, <3>1
    <3> QED BY <1>3, <1>8, <1>9, <1>17, <3>1, <3>2, PartMoved
  <2> QED BY <2>1
<1> QED BY <1>1, <1>15, <1>16, <1>18, <1>19, <1>20, <1>21, <1>22, StealStep

\* The bytes of two groups of chunks, one after the other.
LEMMA FlowsJoined ==
  ASSUME NEW a, NEW b, NEW fs, Fit(a, fs), Fit(b, fs), NEW z, Joins(z, a, b)
  PROVE  Joins(Flow(z, fs), Flow(a, fs), Flow(b, fs))
<1>1. Flow(a \o b, fs) = Flow(a, fs) \o Flow(b, fs)
  BY FlowConcat
<1> QED BY <1>1 DEF Joins

\* All of the source is appended: the three queues after it.
LEMMA AllMoved ==
  ASSUME NEW W, NEW C, NEW R, NEW fs, Three(W, C, R, fs), NEW T, Fit(T, fs), AllMem(T)
  PROVE  Three(W, C \o T, <<>>, fs) /\ Three(W \o C, <<>>, R, fs)
<1>1. W \in Seq(ChunkType) /\ C \in Seq(ChunkType) /\ fs \in Seq(FileType)
  BY DEF Three
<1>2. Fit(<<>>, fs) /\ AllMem(<<>>)
  BY <1>1, FlowEmpty DEF AllMem
<1>3. Three(W, C \o T, <<>>, fs)
  BY <1>2, MemAdded
<1>4. PICK E \in Seq(ChunkType) : E = <<>>
  BY <1>2 DEF Fit
<1>5. C \o E = C
  BY <1>1, <1>4
<1>6. Three(W, C \o E, R, fs)
  BY <1>5
<1>7. Three(W \o C, E, R, fs)
  BY <1>1, <1>6, Shifted
<1> QED BY <1>3, <1>4, <1>7

\* chunkqueue_append_chunkqueue.
LEMMA AppendQueueKeeps ==
  ASSUME ChunkIInv, NEW src \in Queues, NEW dest \in Queues, AppendQueue(src, dest)
  PROVE  ChunkIInv'
<1>1. /\ pc = "idle" /\ pc' = pc /\ files' = files /\ UNCHANGED <<job, fed, sent, setup>>
      /\ <<src, dest>> \in {<<"read", "content">>, <<"content", "wb">>}
      /\ q' = [q EXCEPT ![dest].chunks = @ \o Trimmed(src).chunks,
                        ![dest].in = @ + Trimmed(src).in - Trimmed(src).out,
                        ![src] = [Trimmed(src) EXCEPT !.chunks = <<>>, !.out = Trimmed(src).in]]
  BY DEF AppendQueue
<1>2. Way(src, dest, FALSE) /\ src # dest /\ src \in {"read", "content"} /\ dest \in {"wb", "content"}
  BY <1>1 DEF Way
<1>3. /\ Three(q["wb"].chunks, q["content"].chunks, q["read"].chunks, files)
      /\ q \in [Queues -> CqType]
  BY Held
<1>4. PICK s \in CqType : s = Trimmed(src)
  BY <1>2, TrimmedIs
<1>5. s.in = q[src].in /\ s.out = q[src].out /\ Fit(s.chunks, files)
  BY <1>2, <1>4, TrimmedIs
<1>6. Flow(s.chunks, files) = Flow(q[src].chunks, files)
  BY <1>2, <1>4, TrimmedIs
<1>7. (src = "read" => AllMem(s.chunks)) /\ (src = "content" => s = q[src])
  BY <1>2, <1>4, TrimmedIs
<1>8. PICK T \in Seq(ChunkType), v \in Seq(Nat) : T = s.chunks /\ v = Flow(T, files)
  BY <1>5, EachTyped DEF Fit
<1>9. PICK i \in Int, o \in Int : i = s.in /\ o = s.out
  BY CqParts
<1>10. i - o = Len(v)
  <2>1. Count(q[src], files)
    BY <1>2 DEF ChunkIInv, Counts
  <2> QED BY <1>5, <1>6, <1>8, <1>9, <2>1 DEF Count
<1>11. PICK d \in CqType : d = q[dest]
  BY <1>3
<1>12. PICK C \in Seq(ChunkType), di \in Int : C = d.chunks /\ di = d.in
  BY CqParts
<1>13. PICK D \in Seq(ChunkType) : D = C \o T
  BY ConcatProperties
<1>14. PICK x : x = [s EXCEPT !.chunks = <<>>, !.out = i]
  OBVIOUS
<1>15. x \in CqType /\ x.chunks = <<>> /\ x.in = i /\ x.out = i
  <2>1. <<>> \in Seq(ChunkType)
    OBVIOUS
  <2> QED BY <1>9, <1>14, <2>1 DEF CqType
<1>16. PICK y : y = [d EXCEPT !.chunks = D, !.in = di + i - o]
  OBVIOUS
<1>17. y \in CqType /\ y.chunks = D /\ y.in = di + i - o /\ y.out = d.out
  <2>1. PICK n \in Int : n = di + i - o
    OBVIOUS
  <2>2. y = [d EXCEPT !.chunks = D, !.in = n]
    BY <1>16, <2>1
  <2> QED BY <2>1, <2>2 DEF CqType
<1>18. q' = [q EXCEPT ![dest].chunks = @ \o T, ![dest].in = @ + i - o, ![src] = x]
  BY <1>1, <1>4, <1>8, <1>9, <1>14
<1>19. q' \in [Queues -> CqType] /\ q'[src] = x /\ q'[dest] = y /\ \A m \in Queues : m # src
       /\ m # dest => q'[m] = q[m]
  <2>1. q'[src] = x
    BY <1>2, <1>3, <1>18
  <2>2. q'[dest] = y
    BY <1>2, <1>3, <1>11, <1>12, <1>13, <1>16, <1>18
  <2>3. \A m \in Queues : m # src /\ m # dest => q'[m] = q[m]
    BY <1>2, <1>3, <1>18
  <2>4. q' = [m \in Queues |-> q'[m]]
    BY <1>3, <1>18
  <2>5. \A m \in Queues : q'[m] \in CqType
    BY <1>3, <1>15, <1>17, <2>1, <2>2, <2>3
  <2> QED BY <2>1, <2>2, <2>3, <2>4, <2>5
<1>20. Body'
  <2>1. CASE src = "read" /\ dest = "content"
    <3>1. q'["wb"] = q["wb"] /\ q'["content"].chunks = D /\ q'["read"].chunks = <<>>
      BY <1>15, <1>17, <1>19, <2>1 DEF Queues
    <3>2. Three(q["wb"].chunks, C \o T, <<>>, files)
      BY <1>3, <1>5, <1>7, <1>8, <1>11, <1>12, <2>1, AllMoved
    <3> QED BY <1>1, <1>13, <3>1, <3>2 DEF Body
  <2>2. CASE src = "content" /\ dest = "wb"
    <3>1. q'["wb"].chunks = D /\ q'["content"].chunks = <<>> /\ q'["read"] = q["read"]
      BY <1>15, <1>17, <1>19, <2>2 DEF Queues
    <3>2. PICK W, B, R : W = q["wb"].chunks /\ B = q["content"].chunks /\ R = q["read"].chunks
      OBVIOUS
    <3>3. Fit(R, files) /\ AllMem(R)
      BY <1>3, <3>2 DEF Three
    <3>4. Three(W \o B, <<>>, R, files)
      BY <1>3, <3>2, <3>3, AllMoved
    <3>5. W = C /\ B = T
      BY <1>7, <1>8, <1>11, <1>12, <2>2, <3>2
    <3> QED BY <1>1, <1>13, <3>1, <3>2, <3>4, <3>5 DEF Body
  <2> QED BY <1>2, <2>1, <2>2 DEF Way
<1>21. Passed(q, q', src, dest, files, v)
  <2>1. Fit(C, files)
    <3>1. Fit(q["wb"].chunks, files) /\ Fit(q["content"].chunks, files)
      BY <1>3, ThreeFit
    <3> QED BY <1>2, <1>11, <1>12, <3>1
  <2>2. Joins(Flow(D, files), Flow(C, files), v)
    <3>1. Fit(T, files)
      BY <1>5, <1>8
    <3>2. Joins(D, C, T)
      BY <1>13 DEF Joins
    <3> QED BY <1>8, <2>1, <3>1, <3>2, FlowsJoined
  <2>3. Joins(Flow(q'[dest].chunks, files), Flow(q[dest].chunks, files), v)
    BY <1>11, <1>12, <1>17, <1>19, <2>2
  <2>4. Flow(q'[src].chunks, files) = <<>>
    <3>1. files \in Seq(FileType)
      BY <1>5 DEF Fit
    <3>2. Flow(<<>>, files) = <<>>
      BY <3>1, FlowEmpty
    <3> QED BY <1>15, <1>19, <3>2
  <2>5. Joins(Flow(q[src].chunks, files), v, Flow(q'[src].chunks, files))
    <3>1. v \o <<>> = v
      OBVIOUS
    <3> QED BY <1>6, <1>8, <2>4, <3>1 DEF Joins
  <2>6. q'[dest].in = q[dest].in + Len(v) /\ q'[dest].out = q[dest].out
    <3>1. di + i - o = di + Len(v)
      BY <1>10
    <3> QED BY <1>11, <1>12, <1>17, <1>19, <3>1
  <2>7. q'[src].in = q[src].in /\ q'[src].out = q[src].out + Len(v)
    <3>1. i = o + Len(v)
      BY <1>10
    <3> QED BY <1>5, <1>9, <1>15, <1>19, <3>1
  <2> QED BY <1>19, <2>3, <2>5, <2>6, <2>7 DEF Passed
<1>22. Counts' /\ Order'
  BY <1>1, <1>2, <1>20, <1>21, Transferred
<1>23. Types'
  BY <1>1, <1>19 DEF ChunkIInv, Types
<1>24. Jobs'
  BY <1>1 DEF Jobs
<1> QED BY <1>20, <1>22, <1>23, <1>24 DEF ChunkIInv

\* The queues hold the bytes that they held.
LEMMA SameFlows ==
  ASSUME ChunkIInv, WbFlow' = WbFlow, ContentFlow' = ContentFlow, ReadFlow' = ReadFlow,
         \A n \in Queues : q'[n].in = q[n].in /\ q'[n].out = q[n].out
  PROVE  Counts'
<1>1. /\ q'["wb"].in = q["wb"].in /\ q'["content"].in = q["content"].in /\ q'["read"].in = q["read"].in
      /\ q'["wb"].out = q["wb"].out /\ q'["content"].out = q["content"].out /\ q'["read"].out = q["read"].out
  BY DEF Queues
<1>2. Count(q["wb"], files) /\ Count(q["content"], files) /\ Count(q["read"], files)
  BY DEF ChunkIInv, Counts
<1>3. Count(q["wb"], files)'
  BY <1>1, <1>2 DEF Count, WbFlow
<1>4. Count(q["content"], files)'
  BY <1>1, <1>2 DEF Count, ContentFlow
<1>5. Count(q["read"], files)'
  BY <1>1, <1>2 DEF Count, ReadFlow
<1> QED BY <1>3, <1>4, <1>5 DEF Counts

\* The chunk at the head of a queue is empty and goes.
LEMMA HeadGone ==
  ASSUME NEW cq \in CqType, NEW fs, Fit(cq.chunks, fs), cq.chunks # <<>>, Remaining(cq.chunks[1]) = 0
  PROVE  LET D == DropFirst(cq, 1).chunks IN
           /\ Fit(D, fs) /\ D = Tail(cq.chunks) /\ Flow(D, fs) = Flow(cq.chunks, fs)
           /\ DropFirst(cq, 1) \in CqType /\ DropFirst(cq, 1).in = cq.in /\ DropFirst(cq, 1).out = cq.out
<1>1. PICK cs \in Seq(ChunkType) : cs = cq.chunks /\ cs # <<>>
  BY CqParts
<1>2. 1 \in 0 .. Len(cs) /\ 1 \in 1 .. Len(cs) /\ 0 \in 0 .. Len(cs)
  BY <1>1
<1>3. DropFirst(cq, 1).chunks = SubSeq(cs, 2, Len(cs))
  BY <1>1 DEF DropFirst, CqType
<1>4. Tail(cs) = SubSeq(cs, 2, Len(cs))
  BY <1>1, FlowHead
<1>5. LengthTo(cq, 0) = 0
  BY <1>1, <1>2, LengthBounds
<1>6. LengthTo(cq, 1) = 0
  <2>1. PICK k \in 1 .. Len(cs) : k = 1 /\ k - 1 = 0
    BY <1>2
  <2>2. LengthTo(cq, k) = LengthTo(cq, k - 1) + Remaining(cq.chunks[k])
    BY <1>1, LengthGrows
  <2> QED BY <1>5, <2>1, <2>2
<1>7. Fit(DropFirst(cq, 1).chunks, fs) /\ DropFirst(cq, 1) \in CqType
  BY <1>1, <1>2, FlowDropped
<1>8. Flow(DropFirst(cq, 1).chunks, fs) = Drop(Flow(cs, fs), LengthTo(cq, 1))
  BY <1>1, <1>2, FlowDropped
<1>9. Flow(cs, fs) \in Seq(Nat)
  BY <1>1, EachTyped
<1>10. Drop(Flow(cs, fs), 0) = Flow(cs, fs)
  BY <1>9, DropAll
<1>11. DropFirst(cq, 1).in = cq.in /\ DropFirst(cq, 1).out = cq.out
  BY DEF DropFirst, CqType
<1> QED BY <1>1, <1>3, <1>4, <1>6, <1>7, <1>8, <1>10, <1>11

-----------------------------------------------------------------------------
(* Temporary files (chunk.c).                                               *)

\* The first of several chunks is gone.
LEMMA FirstGone ==
  ASSUME NEW S, NEW C \in Seq(S), C # <<>>, NEW n \in Nat, n = Len(C)
  PROVE  \E h : Picked(Tail(C), C, {1}, n, h)
<1>0. n # 0
  OBVIOUS
<1>1. PICK m \in Nat : n = m + 1
  BY <1>0
<1>2. PICK D : D = Tail(C) /\ Len(D) = m
  <2>1. Len(Tail(C)) = n - 1
    OBVIOUS
  <2>2. n - 1 = m
    BY <1>1
  <2> QED BY <2>1, <2>2
<1>3. \A i \in 1 .. m : D[i] = C[i + 1]
  BY <1>1, <1>2
<1> DEFINE h == [i \in 1 .. m |-> i + 1]
<1>4. h \in [1 .. m -> (1 .. n) \ {1}]
  BY <1>1
<1>5. \A i \in 1 .. m : h[i] = i + 1
  OBVIOUS
<1>6. \A a \in (1 .. n) \ {1} : \E i \in 1 .. m : h[i] = a
  <2>1. ASSUME NEW a \in (1 .. n) \ {1} PROVE \E i \in 1 .. m : h[i] = a
    <3>1. PICK i \in 1 .. m : i = a - 1
      BY <1>1
    <3> QED BY <1>5, <3>1
  <2> QED BY <2>1
<1> HIDE DEF h
<1>7. \A i, j \in 1 .. m : h[j] <= h[i] => j <= i
  BY <1>5
<1>8. \A i \in 1 .. m : D[i] = C[h[i]]
  BY <1>3, <1>5
<1>9. Picked(D, C, {1}, n, h)
  BY <1>2, <1>4, <1>6, <1>7, <1>8 DEF Picked
<1> QED BY <1>2, <1>9

\* An empty chunk at the head of the content goes, with its file.
LEMMA HeadSkipped ==
  ASSUME NEW W, NEW C, NEW R, NEW fs, Three(W, C, R, fs), C # <<>>, Remaining(C[1]) = 0
  PROVE  Three(W, Tail(C), R, Unlinked(fs, {C[1]}))
<1>1. C \in Seq(ChunkType) /\ Fit(C, fs)
  BY ThreeFit DEF Three
<1>2. PICK n \in Nat : n = Len(C) /\ n # 0
  BY <1>1
<1>3. PICK h : Picked(Tail(C), C, {1}, n, h)
  BY <1>1, <1>2, FirstGone
<1>4. PICK D : D = Tail(C) /\ Fit(D, fs)
  BY <1>1, FlowHead
<1>5. PICK I : I = {1}
  OBVIOUS
<1>a. I \subseteq 1 .. n /\ \A i \in I : Remaining(C[i]) = 0
  BY <1>2, <1>5
<1>6. Frees({C[1]}, C, I)
  BY <1>5 DEF Frees
<1>7. Picked(D, C, I, n, h)
  BY <1>3, <1>4, <1>5
<1>8. Three(W, D, R, Unlinked(fs, {C[1]}))
  BY <1>2, <1>4, <1>a, <1>6, <1>7, Skipped
<1> QED BY <1>4, <1>8

\* chunkqueue_steal: an empty chunk is freed.
LEMMA StealEmptyKeeps == ASSUME ChunkIInv, StealEmpty PROVE ChunkIInv'
<1>1. /\ pc = "steal" /\ pc' = pc /\ Source.chunks # <<>> /\ Remaining(Head1) = 0
      /\ q' = [q EXCEPT ![job.src] = DropFirst(@, 1)]
      /\ files' = Unlinked(files, {Head1}) /\ UNCHANGED <<job, fed, sent, setup>>
  BY DEF StealEmpty
<1>2. PICK a \in Queues : a = job.src /\ a \in {"read", "content"}
  BY <1>1, JobIs DEF Queues
<1>3. /\ Three(q["wb"].chunks, q["content"].chunks, q["read"].chunks, files)
      /\ q \in [Queues -> CqType]
  BY Held
<1>4. Fit(q["wb"].chunks, files) /\ Fit(q["content"].chunks, files) /\ Fit(q["read"].chunks, files)
  BY <1>3, ThreeFit
<1>5. PICK cq \in CqType : cq = q[a]
  BY <1>3
<1>6. /\ Fit(cq.chunks, files) /\ cq.chunks # <<>> /\ Remaining(cq.chunks[1]) = 0 /\ Head1 = cq.chunks[1]
      /\ files \in Seq(FileType)
  BY <1>1, <1>2, <1>4, <1>5, FlowHead DEF Source, Head1, Fit
<1>7. PICK x : x = DropFirst(cq, 1)
  OBVIOUS
<1>8. x \in CqType /\ x.in = cq.in /\ x.out = cq.out
  BY <1>6, <1>7, HeadGone
<1>9. Fit(x.chunks, files) /\ x.chunks = Tail(cq.chunks) /\ Flow(x.chunks, files) = Flow(cq.chunks, files)
  BY <1>6, <1>7, HeadGone
<1>10. q' = [q EXCEPT ![a] = x]
  BY <1>1, <1>2, <1>5, <1>7
<1>11. q' \in [Queues -> CqType] /\ q'[a] = x /\ \A m \in Queues : m # a => q'[m] = q[m]
  BY <1>2, <1>3, <1>8, <1>10
<1>12. \A m \in Queues : q'[m].in = q[m].in /\ q'[m].out = q[m].out
  BY <1>5, <1>8, <1>11
<1>13. PICK gs : gs = Unlinked(files, {Head1})
  OBVIOUS
<1>14. /\ Flow(q["wb"].chunks, gs) = WbFlow /\ Flow(q["content"].chunks, gs) = ContentFlow
       /\ Flow(q["read"].chunks, gs) = ReadFlow /\ Flow(x.chunks, gs) = Flow(q[a].chunks, files)
  BY <1>4, <1>5, <1>9, <1>13, FlowUnlinked DEF WbFlow, ContentFlow, ReadFlow
<1>15. WbFlow' = WbFlow /\ ContentFlow' = ContentFlow /\ ReadFlow' = ReadFlow
  <2>1. CASE a = "read"
    <3>1. q'["wb"] = q["wb"] /\ q'["content"] = q["content"] /\ q'["read"] = x
      BY <1>11, <2>1 DEF Queues
    <3> QED BY <1>1, <1>13, <1>14, <2>1, <3>1 DEF WbFlow, ContentFlow, ReadFlow
  <2>2. CASE a = "content"
    <3>1. q'["wb"] = q["wb"] /\ q'["content"] = x /\ q'["read"] = q["read"]
      BY <1>11, <2>2 DEF Queues
    <3> QED BY <1>1, <1>13, <1>14, <2>2, <3>1 DEF WbFlow, ContentFlow, ReadFlow
  <2> QED BY <1>2, <2>1, <2>2
<1>16. Counts'
  BY <1>12, <1>15, SameFlows
<1>17. Body'
  <2>1. CASE a = "read"
    <3>1. q'["wb"] = q["wb"] /\ q'["content"] = q["content"] /\ q'["read"] = x
      BY <1>11, <2>1 DEF Queues
    <3>2. AllMem(cq.chunks) /\ cq.chunks \in Seq(ChunkType)
      BY <1>3, <1>5, <1>6, <2>1 DEF Three, Fit
    <3>3. AllMem(x.chunks) /\ Head1.type = "mem"
      BY <1>6, <1>9, <3>2, MemTail
    <3>4. ~Head1.temp
      <4>1. Good(Head1, files)
        BY <1>6, FlowHead
      <4> QED BY <3>3, <4>1, MemFacts
    <3>5. gs = files
      BY <1>6, <1>13, <3>4, UnlinkedNone
    <3>6. Three(q["wb"].chunks, q["content"].chunks, x.chunks, files)
      BY <1>3, <1>9, <3>3, ReadChanged
    <3> QED BY <1>1, <1>13, <3>1, <3>5, <3>6 DEF Body
  <2>2. CASE a = "content"
    <3>1. q'["wb"] = q["wb"] /\ q'["content"] = x /\ q'["read"] = q["read"]
      BY <1>11, <2>2 DEF Queues
    <3>2. PICK C : C = cq.chunks
      OBVIOUS
    <3>3. Three(q["wb"].chunks, C, q["read"].chunks, files) /\ C # <<>> /\ Remaining(C[1]) = 0
      BY <1>3, <1>5, <1>6, <2>2, <3>2
    <3>4. Three(q["wb"].chunks, Tail(C), q["read"].chunks, Unlinked(files, {C[1]}))
      BY <3>3, HeadSkipped
    <3> QED BY <1>1, <1>6, <1>9, <3>1, <3>2, <3>4 DEF Body
  <2> QED BY <1>2, <2>1, <2>2
<1>18. Types'
  BY <1>1, <1>11 DEF ChunkIInv, Types
<1>19. Jobs'
  BY <1>1 DEF ChunkIInv, Jobs
<1>20. Order'
  BY <1>1, <1>15 DEF ChunkIInv, Order
<1> QED BY <1>16, <1>17, <1>18, <1>19, <1>20 DEF ChunkIInv

\* While bytes are to be written to a file.
LEMMA TempFacts ==
  ASSUME ChunkIInv, pc = "temp"
  PROVE  /\ job.src = "read" /\ job.dest = "content" /\ job \in JobType /\ job.len \in Nat
         /\ job.temp /\ q["read"].chunks # <<>> /\ job.len > 0 /\ Remaining(q["read"].chunks[1]) > 0
         /\ Dest = q["content"] /\ Source = q["read"] /\ Head1 = q["read"].chunks[1]
         /\ Use \in Nat /\ Use <= Remaining(Head1) /\ Use <= job.len
<1>1. job.temp /\ q["read"].chunks # <<>> /\ job.len > 0 /\ Remaining(q["read"].chunks[1]) > 0
  BY DEF ChunkIInv, Jobs
<1>2. job \in JobType /\ job.len \in Nat /\ job.src = "read" /\ job.dest = "content"
  BY <1>1, JobIs
<1>3. Dest = q["content"] /\ Source = q["read"]
  BY <1>2 DEF Dest, Source
<1>4. Use \in Nat /\ Use <= Remaining(Head1) /\ Use <= job.len /\ Head1 = q["read"].chunks[1]
  BY <1>1, <1>3, UseIs
<1> QED BY <1>1, <1>2, <1>3, <1>4

\* The content changes and holds what it held.
LEMMA TempKeeps ==
  ASSUME ChunkIInv, pc = "temp", pc' \in {"temp", "failed"}, job' = job, UNCHANGED <<fed, sent, setup>>,
         NEW y \in CqType, q' = [q EXCEPT !["content"] = y],
         y.in = q["content"].in, y.out = q["content"].out,
         Three(q["wb"].chunks, y.chunks, q["read"].chunks, files'),
         Flow(q["wb"].chunks, files') = WbFlow, Flow(y.chunks, files') = ContentFlow,
         Flow(q["read"].chunks, files') = ReadFlow
  PROVE  ChunkIInv'
<1>1. q \in [Queues -> CqType]
  BY Held
<1>2. q' \in [Queues -> CqType] /\ q'["wb"] = q["wb"] /\ q'["content"] = y /\ q'["read"] = q["read"]
  BY <1>1 DEF Queues
<1>3. WbFlow' = WbFlow /\ ContentFlow' = ContentFlow /\ ReadFlow' = ReadFlow
  BY <1>2 DEF WbFlow, ContentFlow, ReadFlow
<1>4. Counts'
  <2>1. \A n \in Queues : q'[n].in = q[n].in /\ q'[n].out = q[n].out
    BY <1>2 DEF Queues
  <2> QED BY <1>3, <2>1, SameFlows
<1>5. Body'
  BY <1>2 DEF Body
<1>6. Types'
  BY <1>2 DEF ChunkIInv, Types, Places
<1>7. Jobs'
  BY <1>2 DEF ChunkIInv, Jobs
<1>8. Use' = Use
  <2>1. Source = q["read"] /\ job.src = "read"
    BY TempFacts
  <2>2. Source' = Source
    BY <1>2, <2>1 DEF Source
  <2> QED BY <2>2 DEF Use, Head1
<1>9. Order'
  BY <1>3, <1>8 DEF ChunkIInv, Order
<1> QED BY <1>4, <1>5, <1>6, <1>7, <1>9 DEF ChunkIInv

\* A chunk whose file is closed or opened.
LEMMA OpenIs ==
  ASSUME NEW fs, NEW t, Good(t, fs), NEW b \in BOOLEAN, NEW c, c = [t EXCEPT !.open = b]
  PROVE  Good(c, fs) /\ Alike(c, t) /\ Remaining(c) = Remaining(t) /\ BytesIn(c, fs) = BytesIn(t, fs)
<1>1. t \in ChunkType /\ GoodMem(t) /\ GoodFile(t, fs)
  BY DEF Good
<1>2. c \in ChunkType
  BY <1>1 DEF ChunkType
<1>3. /\ c.type = t.type /\ c.bytes = t.bytes /\ c.offset = t.offset /\ c.name = t.name /\ c.start = t.start
      /\ c.length = t.length /\ c.temp = t.temp
  BY <1>1 DEF ChunkType
<1>4. GoodMem(c)
  BY <1>1, <1>3 DEF GoodMem
<1>5. GoodFile(c, fs)
  BY <1>1, <1>3 DEF GoodFile
<1>6. Remaining(c) = Remaining(t)
  BY <1>3 DEF Remaining
<1>7. BytesIn(c, fs) = BytesIn(t, fs)
  BY <1>3 DEF BytesIn
<1> QED BY <1>2, <1>3, <1>4, <1>5, <1>6, <1>7 DEF Good, Alike

\* The last chunk of the content.
LEMMA LastIsAt ==
  ASSUME NEW C, NEW fs, Fit(C, fs), C # <<>>
  PROVE  /\ C \in Seq(ChunkType) /\ fs \in Seq(FileType) /\ Len(C) \in Nat /\ Len(C) # 0 /\ LenIs(C, Len(C))
         /\ Last(C) = C[Len(C)] /\ Good(C[Len(C)], fs)
<1>1. C \in Seq(ChunkType) /\ fs \in Seq(FileType)
  BY DEF Fit
<1>2. Len(C) \in Nat /\ Len(C) # 0 /\ Len(C) \in DOMAIN C
  BY <1>1
<1>3. Good(C[Len(C)], fs)
  BY <1>2 DEF Fit
<1>4. Last(C) = C[Len(C)]
  BY DEF Last
<1> QED BY <1>1, <1>2, <1>3, <1>4 DEF LenIs

\* The fields of a queue whose last chunk is replaced.
LEMMA SetTargetIs ==
  ASSUME NEW cq \in CqType, NEW c
  PROVE  /\ SetTarget(cq, c).chunks = SetLast(cq.chunks, c) /\ SetTarget(cq, c).in = cq.in
         /\ SetTarget(cq, c).out = cq.out /\ SetTarget(cq, c).dir = cq.dir
         /\ SetLast(cq.chunks, c) \in Seq(ChunkType) => SetTarget(cq, c) \in CqType
<1>1. SetTarget(cq, c) = [cq EXCEPT !.chunks = SetLast(cq.chunks, c)]
  BY DEF SetTarget, SetLast, CqType
<1>2. PICK D : D = SetLast(cq.chunks, c)
  OBVIOUS
<1>3. SetTarget(cq, c) = [cq EXCEPT !.chunks = D]
  BY <1>1, <1>2
<1>4. /\ SetTarget(cq, c).chunks = D /\ SetTarget(cq, c).in = cq.in /\ SetTarget(cq, c).out = cq.out
      /\ SetTarget(cq, c).dir = cq.dir
  BY <1>3 DEF CqType
<1>5. D \in Seq(ChunkType) => SetTarget(cq, c) \in CqType
  BY <1>3 DEF CqType
<1> QED BY <1>2, <1>4, <1>5

\* The last chunk of the content closed: the queue, in any directory.
LEMMA TargetClosed ==
  ASSUME ChunkIInv, q["content"].chunks # <<>>, NEW b \in BOOLEAN, NEW cq \in CqType,
         cq.chunks = q["content"].chunks, NEW y, y = SetTarget(cq, [Last(cq.chunks) EXCEPT !.open = b])
  PROVE  /\ y \in CqType /\ y.in = cq.in /\ y.out = cq.out
         /\ Three(q["wb"].chunks, y.chunks, q["read"].chunks, files) /\ Flow(y.chunks, files) = ContentFlow
<1>1. PICK W, C, R : W = q["wb"].chunks /\ C = q["content"].chunks /\ R = q["read"].chunks
  OBVIOUS
<1>2. Three(W, C, R, files) /\ C # <<>> /\ cq.chunks = C
  BY <1>1, Held
<1>3. Fit(C, files)
  BY <1>2, ThreeFit
<1>4. PICK n \in Nat : n = Len(C) /\ n # 0 /\ LenIs(C, n)
  BY <1>2, <1>3, LastIsAt
<1>5. Last(C) = C[n] /\ Good(C[n], files)
  BY <1>2, <1>3, <1>4, LastIsAt
<1>6. PICK c : c = [C[n] EXCEPT !.open = b]
  OBVIOUS
<1>7. Good(c, files) /\ Alike(c, C[n]) /\ Remaining(c) = Remaining(C[n])
      /\ BytesIn(c, files) = BytesIn(C[n], files)
  BY <1>5, <1>6, OpenIs
<1>8. Three(W, SetLast(C, c), R, files)
  BY <1>2, <1>4, <1>7, Closed
<1>9. Flow(SetLast(C, c), files) = Flow(C, files)
  BY <1>2, <1>4, <1>7, Closed
<1>10. y = SetTarget(cq, c)
  BY <1>2, <1>5, <1>6
<1>11. SetLast(C, c) \in Seq(ChunkType)
  BY <1>8 DEF Three
<1>12. y.chunks = SetLast(C, c) /\ y.in = cq.in /\ y.out = cq.out
  BY <1>2, <1>10, SetTargetIs
<1>13. y \in CqType
  BY <1>2, <1>10, <1>11, SetTargetIs
<1> QED BY <1>1, <1>8, <1>9, <1>12, <1>13 DEF ContentFlow

\* chunkqueue_get_append_tempfile: a file that is large enough is closed, or its close() fails.
LEMMA TempTooLargeKeeps == ASSUME ChunkIInv, TempTooLarge PROVE ChunkIInv'
<1>1. /\ pc = "temp" /\ pc' \in {"temp", "failed"} /\ files' = files /\ job' = job
         /\ UNCHANGED <<fed, sent, setup>>
      /\ Dest.chunks # <<>>
      /\ q' = [q EXCEPT ![job.dest] = SetTarget(@, [Target EXCEPT !.open = FALSE])]
  BY DEF TempTooLarge, Appendable
<1>2. job.dest = "content" /\ Dest = q["content"]
  BY <1>1, TempFacts
<1>3. PICK cq \in CqType : cq = q["content"]
  BY Held
<1>4. PICK y : y = SetTarget(cq, [Last(cq.chunks) EXCEPT !.open = FALSE])
  OBVIOUS
<1>5. cq.chunks # <<>> /\ cq.chunks = q["content"].chunks
  BY <1>1, <1>2, <1>3
<1>6. y \in CqType /\ y.in = cq.in /\ y.out = cq.out
  BY <1>4, <1>5, TargetClosed
<1>7. Three(q["wb"].chunks, y.chunks, q["read"].chunks, files) /\ Flow(y.chunks, files) = ContentFlow
  BY <1>4, <1>5, TargetClosed
<1>8. q \in [Queues -> CqType]
  BY Held
<1>9. q' = [q EXCEPT !["content"] = y]
  BY <1>1, <1>2, <1>3, <1>4, <1>8 DEF Target
<1>10. Three(q["wb"].chunks, y.chunks, q["read"].chunks, files') /\ Flow(y.chunks, files') = ContentFlow
  BY <1>1, <1>7
<1>11. Flow(q["wb"].chunks, files') = WbFlow /\ Flow(q["read"].chunks, files') = ReadFlow
  BY <1>1 DEF WbFlow, ReadFlow
<1> QED BY <1>1, <1>3, <1>6, <1>9, <1>10, <1>11, TempKeeps

\* The number of upload directories.
LEMMA DirsIs == ASSUME ChunkIInv, ChunkQueueAssumption PROVE Dirs \in Nat
  BY DEF ChunkIInv, Types, ChunkQueueAssumption, Dirs

\* A queue that goes to another of them.
LEMMA DirSet ==
  ASSUME NEW cq \in CqType, NEW d \in Int, NEW y, y = [cq EXCEPT !.dir = d]
  PROVE  y \in CqType /\ y.chunks = cq.chunks /\ y.in = cq.in /\ y.out = cq.out
  BY DEF CqType

\* chunkqueue_get_append_newtempfile makes a file, or finds no directory for one.
LEMMA GetTempfileKeeps == ASSUME ChunkIInv, ChunkQueueAssumption, GetTempfile PROVE ChunkIInv'
<1>1. pc = "temp" /\ job' = job /\ UNCHANGED <<fed, sent, setup>>
  BY DEF GetTempfile
<1>2. job.dest = "content" /\ Dest = q["content"]
  BY <1>1, TempFacts
<1>3. PICK cq \in CqType : cq = q["content"]
  BY Held
<1>4. q \in [Queues -> CqType] /\ Three(q["wb"].chunks, q["content"].chunks, q["read"].chunks, files)
  BY Held
<1>5. Dirs \in Nat
  BY DirsIs
<1>6. files \in Seq(FileType)
  BY <1>4 DEF Three
<1>7. ASSUME NEW d \in (IF Dirs = 0 THEN {0} ELSE Dest.dir .. Dirs - 1), pc' = pc,
             files' = Append(files, [bytes |-> <<>>, linked |-> TRUE]),
             q' = [q EXCEPT ![job.dest] = Append1([@ EXCEPT !.dir = d], File(Len(files) + 1, 0, 0, TRUE, TRUE))]
      PROVE  ChunkIInv'
  <2>1. cq.dir \in Int /\ cq.dir = Dest.dir
    BY <1>2, <1>3, CqParts
  <2>2. d \in Int
    BY <1>5, <1>7, <2>1
  <2>3. PICK e : e = [cq EXCEPT !.dir = d]
    OBVIOUS
  <2>4. e \in CqType /\ e.chunks = cq.chunks /\ e.in = cq.in /\ e.out = cq.out
    BY <2>2, <2>3, DirSet
  <2>5. PICK n \in Nat : n = Len(files) + 1
    BY <1>6
  <2>6. PICK c : c = File(n, 0, 0, TRUE, TRUE)
    OBVIOUS
  <2>7. PICK gs : gs = Append(files, NewFile)
    OBVIOUS
  <2>8. files' = gs
    BY <1>7, <2>7 DEF NewFile
  <2>a. PICK W, C, R, fs : /\ W = q["wb"].chunks /\ C = q["content"].chunks /\ R = q["read"].chunks
                           /\ fs = files
    OBVIOUS
  <2>b. Three(W, C, R, fs) /\ n = Len(fs) + 1
    BY <1>4, <2>5, <2>a
  <2>c. PICK D : D = Append(C, c)
    OBVIOUS
  <2>d. Made(gs, fs) /\ WithNew(D, C, n)
    BY <2>6, <2>7, <2>a, <2>c DEF Made, WithNew
  <2>e. Three(W, D, R, gs) /\ Flow(W, gs) = Flow(W, fs) /\ Flow(D, gs) = Flow(C, fs)
        /\ Flow(R, gs) = Flow(R, fs)
    <3>1. Three(W, D, R, gs)
      BY <2>b, <2>d, FileMade
    <3>2. FlowsStay(W, D, R, gs, C, fs)
      BY <2>b, <2>d, FileMade
    <3> QED BY <3>1, <3>2 DEF FlowsStay
  <2>9. Three(q["wb"].chunks, D, q["read"].chunks, gs)
    BY <2>a, <2>e
  <2>10. Flow(q["wb"].chunks, gs) = WbFlow /\ Flow(q["read"].chunks, gs) = ReadFlow
    BY <2>a, <2>e DEF WbFlow, ReadFlow
  <2>11. Flow(D, gs) = ContentFlow
    BY <2>a, <2>e DEF ContentFlow
  <2>12. Remaining(c) = 0
    BY <2>b, <2>d, <2>6, FileMade
  <2>13. c \in ChunkType
    BY <2>5, <2>6 DEF File, ChunkType
  <2>14. PICK y : y = Append1(e, c)
    OBVIOUS
  <2>15. y \in CqType /\ y.chunks = Append(e.chunks, c) /\ y.in = e.in + Remaining(c) /\ y.out = e.out
    BY <2>4, <2>12, <2>13, <2>14, Append1Is
  <2>16. y.in = cq.in /\ y.out = cq.out /\ y.chunks = D
    <3>1. cq.in \in Int
      BY CqParts
    <3> QED BY <1>3, <2>4, <2>12, <2>15, <2>a, <2>c, <3>1
  <2>17. q' = [q EXCEPT !["content"] = y]
    BY <1>2, <1>3, <1>4, <1>7, <2>3, <2>5, <2>6, <2>14
  <2>18. pc' \in {"temp", "failed"}
    BY <1>1, <1>7
  <2> QED BY <1>1, <1>3, <2>8, <2>9, <2>10, <2>11, <2>15, <2>16, <2>17, <2>18, TempKeeps
<1>8. ASSUME q' = [q EXCEPT ![job.dest].dir = Dirs], pc' = "failed", files' = files
      PROVE  ChunkIInv'
  <2>1. PICK y : y = [cq EXCEPT !.dir = Dirs]
    OBVIOUS
  <2>2. y \in CqType /\ y.chunks = cq.chunks /\ y.in = cq.in /\ y.out = cq.out
    BY <1>5, <2>1, DirSet
  <2>3. q' = [q EXCEPT !["content"] = y]
    BY <1>2, <1>3, <1>4, <1>8, <2>1
  <2>4. /\ Three(q["wb"].chunks, y.chunks, q["read"].chunks, files') /\ Flow(y.chunks, files') = ContentFlow
        /\ Flow(q["wb"].chunks, files') = WbFlow /\ Flow(q["read"].chunks, files') = ReadFlow
    BY <1>3, <1>4, <1>8, <2>2 DEF WbFlow, ContentFlow, ReadFlow
  <2>5. pc' \in {"temp", "failed"}
    BY <1>8
  <2> QED BY <1>1, <1>3, <2>2, <2>3, <2>4, <2>5, TempKeeps
<1>9. \/ \E d \in (IF Dirs = 0 THEN {0} ELSE Dest.dir .. Dirs - 1) :
            /\ pc' = pc /\ files' = Append(files, [bytes |-> <<>>, linked |-> TRUE])
            /\ q' = [q EXCEPT ![job.dest] = Append1([@ EXCEPT !.dir = d], File(Len(files) + 1, 0, 0, TRUE, TRUE))]
      \/ q' = [q EXCEPT ![job.dest].dir = Dirs] /\ pc' = "failed" /\ files' = files
  BY DEF GetTempfile
<1> QED BY <1>7, <1>8, <1>9

\* What goes is told by the chunks alone.
FinishedOf(C) == CHOOSE k \in 0 .. Len(C) :
  /\ \A i \in 1 .. k : Remaining(C[i]) = 0
  /\ k = Len(C) \/ Remaining(C[k + 1]) # 0
GoesOf(C, k) == CHOOSE G \in SUBSET DOMAIN C : \A i \in DOMAIN C :
  i \in G <=> i <= k \/ (Remaining(C[i]) = 0 /\ i - 1 \notin G)

\* Queues with the same chunks lose the same.
LEMMA GoesSame == ASSUME NEW c, NEW d, c.chunks = d.chunks PROVE Goes(c) = Goes(d)
<1>1. Finished(c) = FinishedOf(c.chunks) /\ Finished(d) = FinishedOf(d.chunks)
  BY DEF Finished, FinishedOf
<1>2. Goes(c) = GoesOf(c.chunks, Finished(c)) /\ Goes(d) = GoesOf(d.chunks, Finished(d))
  BY DEF Goes, GoesOf
<1> QED BY <1>1, <1>2

\* chunkqueue_remove_empty_chunks: the fields of the queue.
LEMMA NotEmptyIs ==
  ASSUME NEW cq \in CqType, NEW S, S = Stay(cq.chunks, Goes(cq)), S \in Seq(ChunkType)
  PROVE  NotEmpty(cq) \in CqType /\ NotEmpty(cq).chunks = S /\ NotEmpty(cq).in = cq.in
         /\ NotEmpty(cq).out = cq.out
<1>1. NotEmpty(cq) = [cq EXCEPT !.chunks = S]
  BY DEF NotEmpty, Stay
<1> QED BY <1>1 DEF CqType

\* The empty chunks of the content are removed.
Leaving(C, G) == {C[i] : i \in G}

\* The queues without the empty chunks of the content and their files.
LEMMA EmptyRemoved ==
  ASSUME NEW W, NEW C, NEW R, NEW fs, Three(W, C, R, fs), NEW G, NEW n \in Nat, n = Len(C),
         G \subseteq 1 .. n,
         \A i \in G : Remaining(C[i]) = 0, NEW S, S = Stay(C, G), NEW gs, gs = Unlinked(fs, Leaving(C, G))
  PROVE  Three(W, S, R, gs) /\ FlowsStay(W, S, R, gs, C, fs)
<1>1. Fit(C, fs) /\ Fit(W, fs) /\ Fit(R, fs)
  BY ThreeFit
<1>2. Fit(S, fs) /\ Flow(S, fs) = Flow(C, fs)
  BY <1>1, StayIs
<1>3. PICK h : Picked(S, C, G, n, h)
  BY <1>1, StayIs
<1>4. PICK X : X = Leaving(C, G)
  OBVIOUS
<1>5. Frees(X, C, G)
  BY <1>4 DEF Frees, Leaving
<1>6. Three(W, S, R, Unlinked(fs, X))
  BY <1>2, <1>3, <1>5, Skipped
<1>7. Flow(W, Unlinked(fs, X)) = Flow(W, fs)
  BY <1>1, FlowUnlinked
<1>8. Flow(R, Unlinked(fs, X)) = Flow(R, fs)
  BY <1>1, FlowUnlinked
<1>9. Flow(S, Unlinked(fs, X)) = Flow(C, fs)
  BY <1>2, FlowUnlinked
<1> QED BY <1>4, <1>6, <1>7, <1>8, <1>9 DEF FlowsStay

\* chunkqueue_append_mem_to_tempfile: the write fails, and another directory is tried or none is left.
LEMMA WriteTempFailsKeeps ==
  ASSUME ChunkIInv, ChunkQueueAssumption, NEW full \in BOOLEAN, WriteTempFails(full)
  PROVE  ChunkIInv'
<1> DEFINE dir == IF full /\ Dirs # 0 THEN Dest.dir + 1 ELSE Dest.dir
<1>1. pc = "temp" /\ pc' \in {"temp", "failed"} /\ job' = job /\ UNCHANGED <<fed, sent, setup>>
      /\ Dest.chunks # <<>>
  BY DEF WriteTempFails, Appendable
<1>2. job.dest = "content" /\ Dest = q["content"]
  BY <1>1, TempFacts
<1>3. PICK cq \in CqType : cq = q["content"]
  BY Held
<1>4. q \in [Queues -> CqType] /\ Three(q["wb"].chunks, q["content"].chunks, q["read"].chunks, files)
  BY Held
<1>5. dir \in Int
  BY <1>2, <1>3, CqParts
<1>6. PICK d : d = [Dest EXCEPT !.dir = dir]
  OBVIOUS
<1>7. d \in CqType /\ d.chunks = cq.chunks /\ d.in = cq.in /\ d.out = cq.out
  BY <1>2, <1>3, <1>5, <1>6, DirSet
<1>8. \/ /\ q' = [q EXCEPT ![job.dest] = NotEmpty(d)]
         /\ files' = Unlinked(files, {Dest.chunks[i] : i \in Goes(Dest)})
      \/ /\ q' = [q EXCEPT ![job.dest] = SetTarget(d, [Target EXCEPT !.open = FALSE])]
         /\ files' = files
  BY <1>6 DEF WriteTempFails
<1> HIDE DEF dir
<1>9. CASE /\ q' = [q EXCEPT ![job.dest] = NotEmpty(d)]
           /\ files' = Unlinked(files, {Dest.chunks[i] : i \in Goes(Dest)})
  <2>1. PICK W, C, R, fs : W = q["wb"].chunks /\ C = q["content"].chunks /\ R = q["read"].chunks /\ fs = files
    OBVIOUS
  <2>2. Three(W, C, R, fs) /\ C \in Seq(ChunkType)
    BY <1>4, <2>1 DEF Three
  <2>3. PICK n \in Nat : n = Len(C) /\ DOMAIN C = 1 .. n
    BY <2>2
  <2>4. PICK G : G = Goes(cq)
    OBVIOUS
  <2>5. G \subseteq 1 .. n /\ \A i \in G : Remaining(C[i]) = 0
    BY <1>3, <2>1, <2>3, <2>4, GoesIs
  <2>6. PICK S : S = Stay(C, G)
    OBVIOUS
  <2>7. PICK gs : gs = Unlinked(fs, Leaving(C, G))
    OBVIOUS
  <2>8. files' = gs
    BY <1>2, <1>3, <1>9, <2>1, <2>4, <2>7 DEF Leaving
  <2>9. Three(W, S, R, gs)
    BY <2>2, <2>3, <2>5, <2>6, <2>7, EmptyRemoved
  <2>10. FlowsStay(W, S, R, gs, C, fs)
    BY <2>2, <2>3, <2>5, <2>6, <2>7, EmptyRemoved
  <2>11. S \in Seq(ChunkType)
    BY <2>9 DEF Three
  <2>12. Goes(d) = G
    BY <1>7, <2>4, GoesSame
  <2>13. S = Stay(d.chunks, Goes(d))
    BY <1>3, <1>7, <2>1, <2>6, <2>12
  <2>14. PICK y : y = NotEmpty(d)
    OBVIOUS
  <2>15. y \in CqType /\ y.chunks = S /\ y.in = d.in /\ y.out = d.out
    BY <1>7, <2>11, <2>13, <2>14, NotEmptyIs
  <2>16. q' = [q EXCEPT !["content"] = y]
    BY <1>2, <1>9, <2>14
  <2>17. /\ Three(q["wb"].chunks, y.chunks, q["read"].chunks, files') /\ Flow(y.chunks, files') = ContentFlow
         /\ Flow(q["wb"].chunks, files') = WbFlow /\ Flow(q["read"].chunks, files') = ReadFlow
    BY <2>1, <2>8, <2>9, <2>10, <2>15 DEF FlowsStay, WbFlow, ContentFlow, ReadFlow
  <2>18. y.in = q["content"].in /\ y.out = q["content"].out
    BY <1>3, <1>7, <2>15
  <2> QED BY <1>1, <2>15, <2>16, <2>17, <2>18, TempKeeps
<1>10. CASE /\ q' = [q EXCEPT ![job.dest] = SetTarget(d, [Target EXCEPT !.open = FALSE])]
            /\ files' = files
  <2>1. PICK y : y = SetTarget(d, [Last(d.chunks) EXCEPT !.open = FALSE])
    OBVIOUS
  <2>2. q["content"].chunks # <<>> /\ d.chunks = q["content"].chunks
    BY <1>1, <1>2, <1>3, <1>7
  <2>3. y \in CqType /\ y.in = d.in /\ y.out = d.out
    BY <1>7, <2>1, <2>2, TargetClosed
  <2>4. Three(q["wb"].chunks, y.chunks, q["read"].chunks, files) /\ Flow(y.chunks, files) = ContentFlow
    BY <1>7, <2>1, <2>2, TargetClosed
  <2>5. q' = [q EXCEPT !["content"] = y]
    BY <1>2, <1>10, <2>1, <2>2 DEF Target
  <2>6. /\ Three(q["wb"].chunks, y.chunks, q["read"].chunks, files') /\ Flow(y.chunks, files') = ContentFlow
        /\ Flow(q["wb"].chunks, files') = WbFlow /\ Flow(q["read"].chunks, files') = ReadFlow
    BY <1>10, <2>4 DEF WbFlow, ReadFlow
  <2>7. y.in = q["content"].in /\ y.out = q["content"].out
    BY <1>3, <1>7, <2>3
  <2> QED BY <1>1, <2>3, <2>5, <2>6, <2>7, TempKeeps
<1> QED BY <1>8, <1>9, <1>10

\* A queue counts the bytes it gets, and those it gives.
LEMMA CountGrows ==
  ASSUME NEW c \in CqType, NEW d \in CqType, NEW fs, NEW gs, NEW v \in Seq(Nat),
         Flow(c.chunks, fs) \in Seq(Nat),
         Joins(Flow(d.chunks, gs), Flow(c.chunks, fs), v), d.in = c.in + Len(v), d.out = c.out, Count(c, fs)
  PROVE  Count(d, gs)
<1>1. PICK l \in Nat, a \in Nat : l = Len(v) /\ a = Len(Flow(c.chunks, fs))
  OBVIOUS
<1>2. Len(Flow(d.chunks, gs)) = a + l
  BY <1>1, ConcatProperties DEF Joins
<1>3. PICK ci \in Int, co \in Int : ci = c.in /\ co = c.out
  BY CqParts
<1>4. ci - co = a
  BY <1>1, <1>3 DEF Count
<1>5. ci + l - co = a + l
  BY <1>4
<1>6. d.in = ci + l /\ d.out = co
  BY <1>1, <1>3
<1>7. d.in - d.out = a + l
  BY <1>5, <1>6
<1> QED BY <1>2, <1>7, Zenon DEF Count

\* The counters of a queue of which u bytes are taken.
LEMMA CountTaken ==
  ASSUME NEW c \in CqType, NEW d \in CqType, NEW fs, NEW gs, Flow(c.chunks, fs) \in Seq(Nat), NEW u \in Nat,
         u <= Len(Flow(c.chunks, fs)), Flow(d.chunks, gs) = Drop(Flow(c.chunks, fs), u),
         d.in = c.in, d.out = c.out + u, Count(c, fs)
  PROVE  Count(d, gs)
<1>1. PICK F \in Seq(Nat) : F = Flow(c.chunks, fs)
  OBVIOUS
<1>2. PICK a \in Nat : a = Len(F)
  OBVIOUS
<1>3. u \in 0 .. Len(F)
  BY <1>1
<1>4. Len(Flow(d.chunks, gs)) = a - u
  BY <1>1, <1>2, <1>3, Halves
<1>5. PICK ci \in Int, co \in Int : ci = c.in /\ co = c.out
  BY CqParts
<1>6. ci - co = a
  BY <1>1, <1>2, <1>5 DEF Count
<1>7. ci - (co + u) = a - u
  BY <1>6
<1> QED BY <1>4, <1>5, <1>7 DEF Count

\* The chunk at the head of the bytes read gives u bytes, or goes.
Given(R, u) == IF u = Remaining(R[1]) THEN Tail(R) ELSE SetHead(R, Ahead(R[1], u))

\* The bytes read, without the first u.
LEMMA ReadTaken ==
  ASSUME NEW R, NEW fs, Fit(R, fs), AllMem(R), R # <<>>, NEW u \in Nat, u <= Remaining(R[1]), NEW S,
         S = Given(R, u)
  PROVE  Fit(S, fs) /\ AllMem(S) /\ Flow(S, fs) = Drop(Flow(R, fs), u) /\ u <= Len(Flow(R, fs))
<1>1. R \in Seq(ChunkType) /\ fs \in Seq(FileType)
  BY DEF Fit
<1>2. PICK c : c = R[1]
  OBVIOUS
<1>3. Good(c, fs)
  <2>1. 1 \in DOMAIN R
    BY <1>1
  <2> QED BY <1>2, <2>1 DEF Fit
<1>4. Remaining(c) \in Nat /\ u \in 0 .. Remaining(c)
  <2>1. Remaining(c) \in Nat
    BY <1>1, <1>3, BytesTyped
  <2> QED BY <1>2, <2>1
<1>5. u <= Len(Flow(R, fs))
  BY <1>2, <1>4, FlowAhead
<1>6. CASE u # Remaining(c)
  <2>1. S = SetHead(R, Ahead(c, u))
    BY <1>2, <1>6 DEF Given
  <2>2. Fit(S, fs) /\ Flow(S, fs) = Drop(Flow(R, fs), u)
    BY <1>2, <1>4, <2>1, FlowAhead
  <2>3. AllMem(S)
    <3>1. c.type = "mem"
      BY <1>1, <1>2 DEF AllMem
    <3>2. Alike(Ahead(c, u), c)
      BY <1>1, <1>3, <1>4, AheadIs
    <3>3. Ahead(c, u).type = "mem"
      BY <3>1, <3>2 DEF Alike
    <3> QED BY <1>1, <2>1, <3>3, MemTail
  <2> QED BY <1>5, <2>2, <2>3
<1>7. CASE u = Remaining(c)
  <2>1. S = Tail(R)
    BY <1>2, <1>7 DEF Given
  <2>2. Fit(S, fs)
    BY <2>1, FlowHead
  <2>3. AllMem(S)
    BY <1>1, <2>1, MemTail
  <2>4. Flow(R, fs) = BytesIn(c, fs) \o Flow(S, fs)
    BY <1>1, <1>2, <2>1, FlowHead
  <2>5. PICK b \in Seq(Nat) : b = BytesIn(c, fs) /\ Len(b) = u
    BY <1>1, <1>3, <1>7, BytesTyped
  <2>6. PICK t \in Seq(Nat) : t = Flow(S, fs)
    BY <2>2, EachTyped
  <2>7. SubSeq(b \o t, Len(b) + 1, Len(b \o t)) = t
    BY SplitUnique
  <2>8. Drop(b \o t, u) = t
    BY <2>5, <2>7 DEF Drop
  <2> QED BY <1>5, <2>2, <2>3, <2>4, <2>5, <2>6, <2>8
<1> QED BY <1>6, <1>7

\* m bytes s are written to the last file of the content.
LEMMA TargetWritten ==
  ASSUME ChunkIInv, pc = "temp", Appendable, NEW s \in Seq(Nat), NEW m \in Nat, m = Len(s),
         NEW gs, gs = [files EXCEPT ![Target.name].bytes = @ \o s],
         NEW d, d = [SetTarget(Dest, [Target EXCEPT !.length = @ + m]) EXCEPT !.in = @ + m]
  PROVE  /\ d \in CqType /\ d.in = q["content"].in + m /\ d.out = q["content"].out
         /\ Three(q["wb"].chunks, d.chunks, q["read"].chunks, gs)
         /\ FlowGrows(q["wb"].chunks, d.chunks, q["read"].chunks, gs, q["content"].chunks, files, s)
<1>1. PICK W, C, R, fs : W = q["wb"].chunks /\ C = q["content"].chunks /\ R = q["read"].chunks /\ fs = files
  OBVIOUS
<1>2. Three(W, C, R, fs)
  BY <1>1, Held
<1>3. PICK cq \in CqType : cq = q["content"]
  BY Held
<1>4. Dest = cq /\ cq.chunks = C
  BY <1>1, <1>3, TempFacts
<1>5. Fit(C, fs) /\ C # <<>>
  BY <1>2, <1>4, ThreeFit DEF Appendable
<1>6. PICK n \in Nat : n = Len(C) /\ n # 0 /\ LenIs(C, n)
  BY <1>5, LastIsAt
<1>7. Target = C[n] /\ Good(C[n], fs)
  BY <1>4, <1>5, <1>6, LastIsAt DEF Target
<1>8. C[n].type = "file" /\ C[n].temp /\ C[n].offset = 0
  BY <1>7 DEF Appendable
<1>9. PICK c : c = Longer(C[n], m)
  OBVIOUS
<1>10. PICK D : D = SetLast(C, c)
  OBVIOUS
<1>11. Larger(gs, fs, C[n].name, s)
  BY <1>1, <1>7 DEF Larger, Grown
<1>12. LastLonger(D, C, n, Len(s))
  BY <1>9, <1>10 DEF LastLonger
<1>13. Three(W, D, R, gs)
  BY <1>2, <1>6, <1>8, <1>11, <1>12, FileGrown
<1>14. FlowGrows(W, D, R, gs, C, fs, s)
  BY <1>2, <1>6, <1>8, <1>11, <1>12, FileGrown
<1>15. D \in Seq(ChunkType)
  BY <1>13 DEF Three
<1>16. PICK e : e = SetTarget(cq, c)
  OBVIOUS
<1>17. e \in CqType /\ e.chunks = D /\ e.in = cq.in /\ e.out = cq.out
  BY <1>4, <1>10, <1>15, <1>16, SetTargetIs
<1>18. d = [e EXCEPT !.in = @ + m]
  BY <1>4, <1>7, <1>9, <1>16 DEF Longer
<1>19. PICK i \in Int : i = cq.in + m
  <2>1. cq.in \in Int
    BY CqParts
  <2> QED BY <2>1
<1>20. d = [e EXCEPT !.in = i]
  BY <1>17, <1>18, <1>19
<1>21. d \in CqType /\ d.chunks = D /\ d.in = i /\ d.out = cq.out
  BY <1>17, <1>20 DEF CqType
<1> QED BY <1>1, <1>3, <1>13, <1>14, <1>19, <1>21

\* A part of the bytes for the file goes elsewhere.
LEMMA JoinsMove ==
  ASSUME NEW d \in Seq(Nat), NEW v \in Seq(Nat), NEW t \in Seq(Nat), NEW rest, Joins(rest, v, t),
         NEW y, Joins(y, rest, d), NEW r, Joins(r, t, d)
  PROVE  Joins(y, v, r) /\ r \in Seq(Nat)
<1>1. rest = Cat(v, t) /\ y = Cat(rest, d) /\ r = Cat(t, d)
  BY DEF Joins, Cat
<1>2. Cat(t, d) \in Seq(Nat)
  BY CatIs
<1>3. Cat(v, Cat(t, d)) = Cat(Cat(v, t), d)
  BY CatIs
<1>4. y = Cat(v, r)
  BY <1>1, <1>3
<1> QED BY <1>1, <1>2, <1>4 DEF Joins, Cat

\* A part of the bytes for the file is written.
LEMMA WriteTempPart ==
  ASSUME ChunkIInv, NEW n \in Nat, WriteTemp(n), n < Len(job.rest)
  PROVE  ChunkIInv'
<1>1. /\ pc = "temp" /\ Appendable /\ n \in 0 .. Len(job.rest) /\ UNCHANGED <<fed, sent, setup>>
      /\ files' = [files EXCEPT ![Target.name].bytes = @ \o SubSeq(job.rest, 1, n)]
      /\ q' = [q EXCEPT ![job.dest] = [SetTarget(Dest, [Target EXCEPT !.length = @ + n]) EXCEPT !.in = @ + n]]
      /\ job' = [job EXCEPT !.rest = SubSeq(@, n + 1, Len(@))] /\ pc' = pc
  BY DEF WriteTemp
<1>2. job.src = "read" /\ job.dest = "content" /\ job \in JobType /\ job.len \in Nat
  BY <1>1, TempFacts
<1>3. PICK rest \in Seq(Nat) : rest = job.rest
  BY <1>2 DEF JobType
<1>4. n \in 0 .. Len(rest)
  BY <1>1, <1>3
<1>5. PICK s \in Seq(Nat) : s = Take(rest, n) /\ Len(s) = n
  BY <1>4, Halves
<1>6. PICK t \in Seq(Nat) : t = Drop(rest, n)
  BY <1>4, Halves
<1>7. PICK gs : gs = files'
  OBVIOUS
<1>8. gs = [files EXCEPT ![Target.name].bytes = @ \o s]
  BY <1>1, <1>3, <1>5, <1>7 DEF Take
<1>9. PICK d : d = [SetTarget(Dest, [Target EXCEPT !.length = @ + n]) EXCEPT !.in = @ + n]
  OBVIOUS
<1>10. d \in CqType /\ d.in = q["content"].in + n /\ d.out = q["content"].out
  BY <1>1, <1>5, <1>8, <1>9, TargetWritten
<1>11. Three(q["wb"].chunks, d.chunks, q["read"].chunks, gs)
  BY <1>1, <1>5, <1>8, <1>9, TargetWritten
<1>12. FlowGrows(q["wb"].chunks, d.chunks, q["read"].chunks, gs, q["content"].chunks, files, s)
  BY <1>1, <1>5, <1>8, <1>9, TargetWritten
<1>13. q \in [Queues -> CqType]
  BY Held
<1>14. q' = [q EXCEPT !["content"] = d]
  BY <1>1, <1>2, <1>9
<1>15. q' \in [Queues -> CqType] /\ q'["wb"] = q["wb"] /\ q'["content"] = d /\ q'["read"] = q["read"]
  BY <1>10, <1>13, <1>14 DEF Queues
<1>16. WbFlow' = WbFlow /\ ReadFlow' = ReadFlow /\ Joins(ContentFlow', ContentFlow, s)
  BY <1>7, <1>12, <1>15 DEF FlowGrows, WbFlow, ReadFlow, ContentFlow
<1>17. WbFlow \in Seq(Nat) /\ ContentFlow \in Seq(Nat) /\ ReadFlow \in Seq(Nat) /\ sent \in Seq(Nat)
  BY Held
<1>18. Body'
  BY <1>7, <1>11, <1>15 DEF Body
<1>19. Counts'
  <2>1. Count(q["wb"], files) /\ Count(q["content"], files) /\ Count(q["read"], files)
    BY DEF ChunkIInv, Counts
  <2>2. Joins(Flow(d.chunks, gs), Flow(q["content"].chunks, files), s)
    BY <1>12 DEF FlowGrows
  <2>3. q["content"] \in CqType
    BY Held
  <2>4. Count(d, gs)
    BY <1>5, <1>10, <1>17, <2>1, <2>2, <2>3, CountGrows DEF ContentFlow
  <2>5. Count(q["wb"], gs) /\ Count(q["read"], gs)
    BY <1>12, <2>1 DEF FlowGrows, Count
  <2> QED BY <1>7, <1>15, <2>4, <2>5 DEF Counts
<1>20. job' = [job EXCEPT !.rest = t]
  BY <1>1, <1>2, <1>3, <1>6 DEF Drop, JobType
<1>21. /\ job' \in JobType /\ job'.rest = t /\ job'.src = job.src /\ job'.dest = job.dest
          /\ job'.temp = job.temp
       /\ job'.len = job.len
  BY <1>2, <1>20 DEF JobType
<1>22. Types'
  BY <1>1, <1>15, <1>21 DEF ChunkIInv, Types
<1>23. Jobs'
  BY <1>1, <1>15, <1>21 DEF ChunkIInv, Jobs
<1>24. Use' = Use
  <2>1. Source' = Source /\ Source = q["read"]
    BY <1>2, <1>15, <1>21 DEF Source
  <2> QED BY <1>21, <2>1 DEF Use, Head1
<1>25. Order'
  <2>1. PICK e \in Seq(Nat) : e = Drop(ReadFlow, Use)
    <3>1. Use \in Nat /\ Use <= Remaining(Head1) /\ Head1 = q["read"].chunks[1] /\ q["read"].chunks # <<>>
      BY <1>1, TempFacts
    <3>2. PICK u \in Nat : u = Use
      BY <3>1
    <3>3. PICK R : R = q["read"].chunks
      OBVIOUS
    <3>4. Fit(R, files) /\ AllMem(R)
      BY <3>3, Held DEF Three
    <3>5. u <= Len(Flow(R, files))
      BY <3>1, <3>2, <3>3, <3>4, ReadTaken
    <3>6. u \in 0 .. Len(ReadFlow)
      BY <1>17, <3>3, <3>5 DEF ReadFlow
    <3> QED BY <1>17, <3>2, <3>6, Halves
  <2>2. PICK y, r : Joins(y, rest, e) /\ Joins(r, t, e)
    BY DEF Joins
  <2>3. Row(sent, WbFlow, ContentFlow, y) = Upto(fed)
    BY <1>1, <1>3, <2>1, <2>2 DEF ChunkIInv, Order, Joins
  <2>4. Joins(rest, s, t)
    <3>1. rest = Take(rest, n) \o Drop(rest, n)
      BY <1>4, Halves
    <3> QED BY <1>5, <1>6, <3>1 DEF Joins
  <2>5. Row(sent, WbFlow, ContentFlow', r) = Upto(fed)
    <3>1. Row(sent, WbFlow, ContentFlow', r) = Row(sent, WbFlow, ContentFlow, y)
      <4>1. Joins(y, s, r) /\ r \in Seq(Nat)
        BY <2>2, <2>4, JoinsMove
      <4>2. PICK b, w, c, x : b = sent /\ w = WbFlow /\ c = ContentFlow /\ x = ContentFlow'
        OBVIOUS
      <4>3. b \in Seq(Nat) /\ w \in Seq(Nat) /\ c \in Seq(Nat) /\ Joins(x, c, s)
        BY <1>16, <1>17, <4>2
      <4>4. Row(b, w, x, r) = Row(b, w, c, y)
        BY <4>1, <4>3, RowRead
      <4> QED BY <4>2, <4>4
    <3> QED BY <2>3, <3>1
  <2>6. r = job'.rest \o Drop(ReadFlow', Use')
    BY <1>16, <1>21, <1>24, <2>1, <2>2 DEF Joins
  <2>7. Row(sent', WbFlow', ContentFlow', job'.rest \o Drop(ReadFlow', Use')) = Upto(fed')
    BY <1>1, <1>16, <2>5, <2>6
  <2> QED BY <1>1, <2>7 DEF Order
<1> QED BY <1>18, <1>19, <1>22, <1>23, <1>25 DEF ChunkIInv

\* The source of a write to a file gives the bytes that were written.
SourceOf(cq, u) == IF u = Remaining(cq.chunks[1]) THEN DropFirst([cq EXCEPT !.out = @ + u], 1)
                   ELSE [[cq EXCEPT !.out = @ + u] EXCEPT !.chunks = Advance(@, u)]

\* The fields of that queue.
LEMMA SourceTaken ==
  ASSUME NEW cq \in CqType, NEW u \in Nat, NEW o \in Int, o = cq.out + u, NEW S, S = Given(cq.chunks, u),
         S \in Seq(ChunkType), cq.chunks # <<>>, NEW e, e = SourceOf(cq, u)
  PROVE  e \in CqType /\ e.chunks = S /\ e.in = cq.in /\ e.out = o
<1>1. PICK s : s = [cq EXCEPT !.out = o]
  OBVIOUS
<1>2. s \in CqType /\ s.chunks = cq.chunks /\ s.in = cq.in /\ s.out = o
  BY <1>1 DEF CqType
<1>3. e = IF u = Remaining(cq.chunks[1]) THEN DropFirst(s, 1) ELSE [s EXCEPT !.chunks = Advance(@, u)]
  BY <1>1 DEF SourceOf
<1>4. PICK R \in Seq(ChunkType) : R = cq.chunks /\ R # <<>>
  BY CqParts
<1>5. e = [s EXCEPT !.chunks = S]
  <2>1. CASE u = Remaining(R[1])
    <3>1. S = Tail(R)
      BY <1>4, <2>1 DEF Given
    <3>2. Tail(R) = SubSeq(R, 2, Len(R))
      BY <1>4
    <3>3. e = [s EXCEPT !.chunks = SubSeq(@, 1 + 1, Len(@))]
      BY <1>3, <1>4, <2>1 DEF DropFirst
    <3>4. SubSeq(R, 1 + 1, Len(R)) = S
      BY <3>1, <3>2
    <3> QED BY <1>2, <1>4, <3>3, <3>4
  <2>2. CASE u # Remaining(R[1])
    <3>1. S = SetHead(R, Ahead(R[1], u))
      BY <1>4, <2>2 DEF Given
    <3>2. Advance(R, u) = S
      BY <3>1 DEF Advance, SetHead, Ahead
    <3> QED BY <1>2, <1>3, <1>4, <2>2, <3>2
  <2> QED BY <2>1, <2>2
<1> QED BY <1>2, <1>5 DEF CqType

\* The rest of the bytes for the file is written.
LEMMA WriteTempAll ==
  ASSUME ChunkIInv, NEW n \in Nat, WriteTemp(n), ~(n < Len(job.rest))
  PROVE  ChunkIInv'
<1>1. /\ pc = "temp" /\ Appendable /\ n \in 0 .. Len(job.rest) /\ UNCHANGED <<fed, sent, setup>>
      /\ files' = [files EXCEPT ![Target.name].bytes = @ \o SubSeq(job.rest, 1, n)]
      /\ q' = [q EXCEPT ![job.dest] = [SetTarget(Dest, [Target EXCEPT !.length = @ + n]) EXCEPT !.in = @ + n],
                        ![job.src] = IF Use = Remaining(Head1)
                                     THEN DropFirst([Source EXCEPT !.out = @ + Use], 1)
                                     ELSE [[Source EXCEPT !.out = @ + Use] EXCEPT !.chunks = Advance(@, Use)]]
      /\ job' = [job EXCEPT !.len = @ - Use, !.rest = <<>>] /\ pc' = "steal"
  BY DEF WriteTemp
<1>2. job.src = "read" /\ job.dest = "content" /\ job \in JobType /\ job.len \in Nat /\ job.temp
  BY <1>1, TempFacts
<1>3. PICK rest \in Seq(Nat) : rest = job.rest
  BY <1>2 DEF JobType
<1>4. n \in 0 .. Len(rest) /\ n = Len(rest)
  BY <1>1, <1>3
<1>5. SubSeq(rest, 1, n) = rest
  <2>1. Len(SubSeq(rest, 1, n)) = n /\ SubSeq(rest, 1, n) \in Seq(Nat)
    BY <1>4, Prefix
  <2>2. \A i \in 1 .. n : SubSeq(rest, 1, n)[i] = rest[i]
    BY <1>4, Prefix
  <2> QED BY <1>4, <2>1, <2>2, SeqEqual
<1>6. PICK gs : gs = files'
  OBVIOUS
<1>7. gs = [files EXCEPT ![Target.name].bytes = @ \o rest]
  BY <1>1, <1>3, <1>5, <1>6
<1>8. PICK d : d = [SetTarget(Dest, [Target EXCEPT !.length = @ + n]) EXCEPT !.in = @ + n]
  OBVIOUS
<1>9. d \in CqType /\ d.in = q["content"].in + n /\ d.out = q["content"].out
  BY <1>1, <1>4, <1>7, <1>8, TargetWritten
<1>10. Three(q["wb"].chunks, d.chunks, q["read"].chunks, gs)
  BY <1>1, <1>4, <1>7, <1>8, TargetWritten
<1>11. FlowGrows(q["wb"].chunks, d.chunks, q["read"].chunks, gs, q["content"].chunks, files, rest)
  BY <1>1, <1>4, <1>7, <1>8, TargetWritten
<1>12. PICK cq \in CqType : cq = q["read"]
  BY Held
<1>13. /\ Source = cq /\ Head1 = cq.chunks[1] /\ cq.chunks # <<>>
       /\ Use \in Nat /\ Use <= Remaining(Head1) /\ Use <= job.len
  BY <1>1, <1>12, TempFacts
<1>14. PICK u \in Nat : u = Use
  BY <1>13
<1>15. PICK R, S : R = cq.chunks /\ S = Given(R, u)
  OBVIOUS
<1>16. Fit(R, gs) /\ AllMem(R)
  BY <1>10, <1>12, <1>15 DEF Three
<1>17. R # <<>> /\ u <= Remaining(R[1])
  BY <1>13, <1>14, <1>15
<1>18. Fit(S, gs) /\ AllMem(S) /\ Flow(S, gs) = Drop(Flow(R, gs), u) /\ u <= Len(Flow(R, gs))
  BY <1>15, <1>16, <1>17, ReadTaken
<1>19. PICK o \in Int : o = cq.out + u
  <2>1. cq.out \in Int
    BY CqParts
  <2> QED BY <2>1
<1>20. PICK e : e = SourceOf(cq, u)
  OBVIOUS
<1>21. S \in Seq(ChunkType) /\ S = Given(cq.chunks, u) /\ cq.chunks # <<>>
  BY <1>15, <1>17, <1>18 DEF Fit
<1>22. e \in CqType /\ e.chunks = S /\ e.in = cq.in /\ e.out = o
  BY <1>19, <1>20, <1>21, SourceTaken
<1>23. q \in [Queues -> CqType]
  BY Held
<1>24. q' = [q EXCEPT !["content"] = d, !["read"] = e]
  BY <1>1, <1>2, <1>8, <1>13, <1>14, <1>20 DEF SourceOf
<1>25. q' \in [Queues -> CqType] /\ q'["wb"] = q["wb"] /\ q'["content"] = d /\ q'["read"] = e
  BY <1>9, <1>22, <1>23, <1>24 DEF Queues
<1>26. WbFlow \in Seq(Nat) /\ ContentFlow \in Seq(Nat) /\ ReadFlow \in Seq(Nat) /\ sent \in Seq(Nat)
  BY Held
<1>27. Flow(R, gs) = ReadFlow
  BY <1>11, <1>12, <1>15 DEF FlowGrows, ReadFlow
<1>28. WbFlow' = WbFlow /\ ReadFlow' = Drop(ReadFlow, u) /\ Joins(ContentFlow', ContentFlow, rest)
  <2>1. Flow(e.chunks, gs) = Drop(ReadFlow, u)
    BY <1>18, <1>22, <1>27
  <2> QED BY <1>6, <1>11, <1>25, <2>1 DEF FlowGrows, WbFlow, ReadFlow, ContentFlow
<1>29. Body'
  <2>1. Three(q["wb"].chunks, d.chunks, S, gs)
    BY <1>10, <1>18, ReadChanged
  <2> QED BY <1>6, <1>22, <1>25, <2>1 DEF Body
<1>30. Counts'
  <2>1. Count(q["wb"], files) /\ Count(q["content"], files) /\ Count(cq, files)
    BY <1>12 DEF ChunkIInv, Counts
  <2>2. Joins(Flow(d.chunks, gs), Flow(q["content"].chunks, files), rest)
    BY <1>11 DEF FlowGrows
  <2>3. q["content"] \in CqType
    BY Held
  <2>4. Count(d, gs)
    BY <1>4, <1>9, <1>26, <2>1, <2>2, <2>3, CountGrows DEF ContentFlow
  <2>5. Flow(cq.chunks, files) = ReadFlow
    BY <1>12 DEF ReadFlow
  <2>6. Flow(e.chunks, gs) = Drop(Flow(cq.chunks, files), u) /\ u <= Len(Flow(cq.chunks, files))
    BY <1>18, <1>22, <1>27, <2>5
  <2>7. Count(e, gs)
    BY <1>19, <1>22, <1>26, <2>1, <2>5, <2>6, CountTaken
  <2>8. Count(q["wb"], gs)
    BY <1>11, <2>1 DEF FlowGrows, Count
  <2> QED BY <1>6, <1>25, <2>4, <2>7, <2>8 DEF Counts
<1>31. PICK l \in Nat : l = job.len - u
  BY <1>2, <1>13, <1>14
<1>32. /\ job' \in JobType /\ job'.src = job.src /\ job'.dest = job.dest /\ job'.temp = job.temp
          /\ job'.len = l
  <2>1. PICK r : r = <<>>
    OBVIOUS
  <2>2. r \in Seq(Nat)
    BY <2>1
  <2>3. job' = [job EXCEPT !.len = l, !.rest = r]
    BY <1>1, <1>2, <1>14, <1>31, <2>1
  <2>4. job' \in JobType
    <3>1. PICK k \in Int : k = l
      OBVIOUS
    <3>2. job' = [job EXCEPT !.len = k, !.rest = r]
      BY <2>3, <3>1
    <3> QED BY <1>2, <2>2, <3>2 DEF JobType
  <2>5. job'.src = job.src /\ job'.dest = job.dest /\ job'.temp = job.temp
    BY <1>2, <2>3 DEF JobType
  <2>6. job'.len = l
    BY <1>2, <2>3 DEF JobType
  <2> QED BY <2>4, <2>5, <2>6
<1>33. Types'
  BY <1>1, <1>25, <1>32 DEF ChunkIInv, Types, Places
<1>34. Jobs'
  <2>1. Way(job.src, job.dest, job.temp)
    BY <1>1 DEF ChunkIInv, Jobs
  <2> QED BY <1>1, <1>32, <2>1 DEF Jobs
<1>35. Order'
  <2>1. PICK r \in Seq(Nat) : r = Drop(ReadFlow, u)
    <3>1. u \in 0 .. Len(ReadFlow)
      BY <1>18, <1>26, <1>27
    <3> QED BY <1>26, <3>1, Halves
  <2>2. PICK y : Joins(y, rest, r)
    BY DEF Joins
  <2>3. Row(sent, WbFlow, ContentFlow, y) = Upto(fed)
    BY <1>1, <1>3, <1>14, <2>1, <2>2 DEF ChunkIInv, Order, Joins
  <2>4. Row(sent, WbFlow, ContentFlow', r) = Row(sent, WbFlow, ContentFlow, y)
    BY <1>26, <1>28, <2>2, RowRead
  <2>5. Row(sent', WbFlow', ContentFlow', ReadFlow') = Upto(fed')
    BY <1>1, <1>28, <2>1, <2>3, <2>4
  <2> QED BY <1>1, <2>5 DEF Order
<1> QED BY <1>29, <1>30, <1>33, <1>34, <1>35 DEF ChunkIInv

\* chunkqueue_append_mem_to_tempfile writes n bytes, all of the chunk's or fewer.
LEMMA WriteTempKeeps == ASSUME ChunkIInv, NEW n \in Nat, WriteTemp(n) PROVE ChunkIInv'
  BY WriteTempPart, WriteTempAll

-----------------------------------------------------------------------------
(* Writing to the backend (network_write.c).                                *)

\* The backend gets u bytes, and the queue to it changes otherwise in no byte.
LEMMA WbKeeps ==
  ASSUME ChunkIInv, pc \notin {"temp", "failed"}, pc' \in {"idle", "send", "sent"}, job' \in JobType,
         UNCHANGED <<fed, setup>>, NEW y \in CqType, q' = [q EXCEPT !["wb"] = y], NEW u \in Nat,
           u <= Len(WbFlow),
         Joins(sent', sent, Take(WbFlow, u)), Flow(y.chunks, files') = Drop(WbFlow, u),
         y.in = q["wb"].in, y.out = q["wb"].out + u,
         Three(y.chunks, q["content"].chunks, q["read"].chunks, files'),
         Flow(q["content"].chunks, files') = ContentFlow, Flow(q["read"].chunks, files') = ReadFlow
  PROVE  ChunkIInv'
<1>1. q \in [Queues -> CqType]
  BY Held
<1>2. q' \in [Queues -> CqType] /\ q'["wb"] = y /\ q'["content"] = q["content"] /\ q'["read"] = q["read"]
  BY <1>1 DEF Queues
<1>3. WbFlow' = Drop(WbFlow, u) /\ ContentFlow' = ContentFlow /\ ReadFlow' = ReadFlow
  BY <1>2 DEF WbFlow, ContentFlow, ReadFlow
<1>4. WbFlow \in Seq(Nat) /\ ContentFlow \in Seq(Nat) /\ ReadFlow \in Seq(Nat) /\ sent \in Seq(Nat)
  BY Held
<1>5. u \in 0 .. Len(WbFlow)
  BY <1>4
<1>6. PICK v \in Seq(Nat), w \in Seq(Nat) : v = Take(WbFlow, u) /\ w = Drop(WbFlow, u) /\ Joins(WbFlow, v, w)
  BY <1>4, <1>5, Halves DEF Joins
<1>7. Joins(sent', sent, v) /\ w = WbFlow'
  BY <1>3, <1>6
<1>8. sent' \in Seq(Nat)
  BY <1>4, <1>7, ConcatProperties DEF Joins
<1>9. Counts'
  <2>1. Count(q["wb"], files) /\ Count(q["content"], files) /\ Count(q["read"], files)
    BY DEF ChunkIInv, Counts
  <2>2. PICK c \in CqType : c = q["wb"]
    BY Held
  <2>3. Flow(c.chunks, files) = WbFlow
    BY <2>2 DEF WbFlow
  <2>4. Count(y, files')
    <3>1. PICK gs : gs = files'
      OBVIOUS
    <3>2. Flow(c.chunks, files) \in Seq(Nat) /\ u <= Len(Flow(c.chunks, files))
      BY <1>4, <2>3
    <3>3. Flow(y.chunks, gs) = Drop(Flow(c.chunks, files), u)
      BY <2>3, <3>1
    <3>4. y.in = c.in /\ y.out = c.out + u /\ Count(c, files)
      BY <2>1, <2>2
    <3>5. Count(y, gs)
      BY <3>2, <3>3, <3>4, CountTaken
    <3> QED BY <3>1, <3>5
  <2>5. Count(q["content"], files') /\ Count(q["read"], files')
    BY <2>1 DEF Count, ContentFlow, ReadFlow
  <2> QED BY <1>2, <2>4, <2>5 DEF Counts
<1>10. Body'
  BY <1>2 DEF Body
<1>11. Types'
  BY <1>2, <1>8 DEF ChunkIInv, Types, Places
<1>12. Jobs'
  BY DEF Jobs
<1>13. Order'
  <2>1. Row(sent, WbFlow, ContentFlow, ReadFlow) = Upto(fed)
    BY DEF ChunkIInv, Order
  <2>2. PICK x : x = sent'
    OBVIOUS
  <2>3. Joins(x, sent, v)
    BY <1>7, <2>2
  <2>4. Row(x, w, ContentFlow, ReadFlow) = Row(sent, WbFlow, ContentFlow, ReadFlow)
    BY <1>4, <1>6, <2>3, RowWb
  <2>5. Row(sent', WbFlow', ContentFlow', ReadFlow') = Upto(fed')
    BY <1>3, <1>7, <2>1, <2>2, <2>4
  <2> QED BY <2>5 DEF Order
<1> QED BY <1>9, <1>10, <1>11, <1>12, <1>13 DEF ChunkIInv

\* The first k chunks V of the queue to the backend go, with their files.
LEMMA FirstFrees ==
  ASSUME NEW cq, NEW W, NEW k \in Nat, \A i \in 1 .. k : Alike(cq.chunks[i], W[i])
  PROVE  Frees(First(cq, k), W, 1 .. k)
<1>1. \A i \in 1 .. k : cq.chunks[i].temp = W[i].temp /\ cq.chunks[i].name = W[i].name
  BY DEF Alike
<1> QED BY <1>1 DEF Frees, First

\* The first k chunks of the backend's queue go, with their files.
LEMMA FirstGo ==
  ASSUME ChunkIInv, NEW cq, Len(cq.chunks) = Len(q["wb"].chunks),
         \A i \in 1 .. Len(q["wb"].chunks) : Alike(cq.chunks[i], q["wb"].chunks[i]),
         NEW k \in 0 .. Len(q["wb"].chunks), NEW V, Fit(V, files), LenIs(V, Len(q["wb"].chunks) - k),
         \A i \in 1 .. Len(V) : Alike(V[i], q["wb"].chunks[k + i]),
         NEW gs, gs = Unlinked(files, First(cq, k))
  PROVE  /\ Three(V, q["content"].chunks, q["read"].chunks, gs) /\ Flow(V, gs) = Flow(V, files)
         /\ Flow(q["content"].chunks, gs) = ContentFlow /\ Flow(q["read"].chunks, gs) = ReadFlow
<1>1. PICK W, C, R, fs : W = q["wb"].chunks /\ C = q["content"].chunks /\ R = q["read"].chunks /\ fs = files
  OBVIOUS
<1>2. Three(W, C, R, fs)
  BY <1>1, Held
<1>3. Fit(C, fs) /\ Fit(R, fs) /\ Fit(V, fs)
  BY <1>1, <1>2, ThreeFit
<1>4. PICK X : X = First(cq, k)
  OBVIOUS
<1>5. Frees(X, W, 1 .. k)
  <2>1. k \in Nat /\ \A i \in 1 .. k : Alike(cq.chunks[i], W[i])
    <3>1. W \in Seq(ChunkType)
      BY <1>2 DEF Three
    <3> QED BY <1>1, <3>1
  <2> QED BY <1>4, <2>1, FirstFrees
<1>6. Len(V) = Len(W) - k /\ \A i \in 1 .. Len(V) : Alike(V[i], W[k + i])
  BY <1>1 DEF LenIs
<1>7. k \in 0 .. Len(W)
  BY <1>1
<1>8. Three(V, C, R, Unlinked(fs, X))
  BY <1>2, <1>3, <1>5, <1>6, <1>7, Arrived
<1>9. Flow(V, Unlinked(fs, X)) = Flow(V, fs)
  BY <1>3, FlowUnlinked
<1>10. Flow(C, Unlinked(fs, X)) = Flow(C, fs)
  BY <1>3, FlowUnlinked
<1>11. Flow(R, Unlinked(fs, X)) = Flow(R, fs)
  BY <1>3, FlowUnlinked
<1> QED BY <1>1, <1>4, <1>8, <1>9, <1>10, <1>11 DEF ContentFlow, ReadFlow

\* The finished chunks are removed from the queue to the backend.
LEMMA FinishedGo ==
  ASSUME ChunkIInv, pc \notin {"temp", "failed"}, pc' \in {"idle", "send", "sent"}, job' \in JobType,
         UNCHANGED <<fed, sent, setup>>, q' = [q EXCEPT !["wb"] = DropFirst(@, Finished(@))],
         files' = Unlinked(files, First(Wb, Finished(Wb)))
  PROVE  ChunkIInv'
<1>1. PICK cq \in CqType : cq = q["wb"]
  BY Held
<1>2. Fit(cq.chunks, files)
  BY <1>1, Held, ThreeFit
<1>3. PICK k : k = Finished(cq)
  OBVIOUS
<1>4. k \in 0 .. Len(cq.chunks) /\ Flow(DropFirst(cq, k).chunks, files) = Flow(cq.chunks, files)
  BY <1>2, <1>3, FlowTrimmed
<1>5. PICK y : y = DropFirst(cq, k)
  OBVIOUS
<1>6. /\ Fit(y.chunks, files) /\ y \in CqType /\ y.in = cq.in /\ y.out = cq.out
      /\ Len(y.chunks) = Len(cq.chunks) - k
  BY <1>2, <1>4, <1>5, FlowDropped
<1>7. \A i \in 1 .. Len(cq.chunks) - k : y.chunks[i] = cq.chunks[k + i]
  BY <1>2, <1>4, <1>5, FlowDropped
<1>8. PICK gs : gs = Unlinked(files, First(cq, k))
  OBVIOUS
<1>9. files' = gs
  BY <1>1, <1>3, <1>8 DEF Wb
<1>10. PICK V : V = y.chunks
  OBVIOUS
<1>11. /\ Len(cq.chunks) = Len(q["wb"].chunks) /\ k \in 0 .. Len(q["wb"].chunks) /\ Fit(V, files)
       /\ LenIs(V, Len(q["wb"].chunks) - k)
       /\ \A i \in 1 .. Len(q["wb"].chunks) : Alike(cq.chunks[i], q["wb"].chunks[i])
       /\ \A i \in 1 .. Len(V) : Alike(V[i], q["wb"].chunks[k + i])
  BY <1>1, <1>4, <1>6, <1>7, <1>10 DEF LenIs, Alike
<1>12. Three(V, q["content"].chunks, q["read"].chunks, gs)
  BY <1>8, <1>11, FirstGo
<1>13. Flow(V, gs) = Flow(V, files)
  BY <1>8, <1>11, FirstGo
<1>14. Flow(q["content"].chunks, gs) = ContentFlow
  BY <1>8, <1>11, FirstGo
<1>15. Flow(q["read"].chunks, gs) = ReadFlow
  BY <1>8, <1>11, FirstGo
<1>16. q' = [q EXCEPT !["wb"] = y]
  <2>1. q \in [Queues -> CqType]
    BY Held
  <2> QED BY <1>1, <1>3, <1>5, <2>1
<1>17. WbFlow \in Seq(Nat) /\ sent \in Seq(Nat)
  BY Held
<1>18. PICK u \in Nat : u = 0
  OBVIOUS
<1>19. u <= Len(WbFlow) /\ Drop(WbFlow, u) = WbFlow
  BY <1>17, <1>18, DropAll
<1>20. Joins(sent', sent, Take(WbFlow, u))
  <2>1. PICK t \in Seq(Nat) : t = Take(WbFlow, u) /\ Len(t) = u
    <3>1. u \in 0 .. Len(WbFlow)
      BY <1>17, <1>18
    <3> QED BY <1>17, <3>1, Halves
  <2>2. t = <<>>
    BY <1>18, <2>1
  <2>3. sent \o <<>> = sent
    BY <1>17, ConcatEmptySeq
  <2> QED BY <2>1, <2>2, <2>3 DEF Joins
<1>21. Flow(y.chunks, files') = Drop(WbFlow, u)
  BY <1>1, <1>4, <1>5, <1>9, <1>10, <1>13, <1>19 DEF WbFlow
<1>22. y.in = q["wb"].in /\ y.out = q["wb"].out + u
  BY <1>1, <1>6, <1>18, CqParts
<1>23. /\ Three(y.chunks, q["content"].chunks, q["read"].chunks, files')
       /\ Flow(q["content"].chunks, files') = ContentFlow /\ Flow(q["read"].chunks, files') = ReadFlow
  BY <1>9, <1>10, <1>12, <1>14, <1>15
<1> QED BY <1>6, <1>16, <1>19, <1>20, <1>21, <1>22, <1>23, WbKeeps

\* No job is a job too.
LEMMA NoJobIs == NoJob \in JobType
<1>1. <<>> \in Seq(Nat)
  OBVIOUS
<1> QED BY <1>1 DEF NoJob, JobType, Queues

\* The end of network_backend_write.
LEMMA SendEndsKeeps == ASSUME ChunkIInv, SendEnds PROVE ChunkIInv'
<1>1. /\ pc \in {"sent", "send"} /\ pc' = "idle" /\ job' = NoJob /\ UNCHANGED <<fed, sent, setup>>
      /\ q' = [q EXCEPT !["wb"] = DropFirst(@, Finished(@))]
      /\ files' = Unlinked(files, First(Wb, Finished(Wb)))
  BY DEF SendEnds
<1> QED BY <1>1, NoJobIs, FinishedGo

\* network_backend_write removes finished chunks before it goes on.
LEMMA RemovedKeeps == ASSUME ChunkIInv, pc = "send", Removed PROVE ChunkIInv'
<1>1. /\ pc' = pc /\ job' = job /\ UNCHANGED <<fed, sent, setup>>
      /\ q' = [q EXCEPT !["wb"] = DropFirst(@, Finished(@))]
      /\ files' = Unlinked(files, First(Wb, Finished(Wb)))
  BY DEF Removed
<1>2. job \in JobType
  BY DEF ChunkIInv, Types
<1> QED BY <1>1, <1>2, FinishedGo

\* wr bytes are written of a queue that is the one to the backend in all that counts.
LEMMA WroteKeeps ==
  ASSUME ChunkIInv, pc = "send", NEW cq \in CqType, Fit(cq.chunks, files),
         LenIs(cq.chunks, Len(q["wb"].chunks)),
         \A i \in 1 .. Len(q["wb"].chunks) : Alike(cq.chunks[i], q["wb"].chunks[i]),
         Flow(cq.chunks, files) = WbFlow, cq.in = q["wb"].in, cq.out = q["wb"].out,
         NEW toSend, NEW wr \in Nat, wr <= Len(WbFlow), Wrote(cq, toSend, wr)
  PROVE  ChunkIInv'
<1>1. /\ q' = [q EXCEPT !["wb"] = MarkWritten(cq, wr)] /\ files' = Unlinked(files, First(cq, Whole(cq, wr)))
      /\ sent' = sent \o SubSeq(Content("wb"), 1, wr) /\ job' = [job EXCEPT !.len = @ - wr]
      /\ pc' \in {"send", "sent"} /\ UNCHANGED <<fed, setup>>
  BY DEF Wrote
<1>2. PICK k : k = Whole(cq, wr)
  OBVIOUS
<1>3. PICK y : y = MarkWritten(cq, wr)
  OBVIOUS
<1>4. wr <= Len(Flow(cq.chunks, files))
  OBVIOUS
<1>5. /\ k \in 0 .. Len(cq.chunks) /\ y \in CqType /\ Fit(y.chunks, files)
      /\ y.in = cq.in /\ y.out = cq.out + wr
      /\ Len(y.chunks) = Len(cq.chunks) - k
  BY <1>2, <1>3, <1>4, MarkWrittenIs
<1>6. /\ \A i \in 1 .. Len(y.chunks) : Alike(y.chunks[i], cq.chunks[k + i])
      /\ Flow(y.chunks, files) = Drop(WbFlow, wr)
  BY <1>2, <1>3, <1>4, MarkWrittenIs
<1>7. PICK V : V = y.chunks
  OBVIOUS
<1>8. PICK gs : gs = Unlinked(files, First(cq, k))
  OBVIOUS
<1>9. files' = gs
  BY <1>1, <1>2, <1>8
<1>10. Len(cq.chunks) = Len(q["wb"].chunks) /\ Len(q["wb"].chunks) \in Nat
  <2>1. cq.chunks \in Seq(ChunkType)
    BY DEF Fit
  <2> QED BY <2>1 DEF LenIs
<1>11. /\ k \in 0 .. Len(q["wb"].chunks) /\ Fit(V, files) /\ LenIs(V, Len(q["wb"].chunks) - k)
  BY <1>5, <1>7, <1>10 DEF LenIs
<1>12. \A i \in 1 .. Len(V) : Alike(V[i], q["wb"].chunks[k + i])
  <2> SUFFICES ASSUME NEW i \in 1 .. Len(V) PROVE Alike(V[i], q["wb"].chunks[k + i])
    OBVIOUS
  <2>1. Alike(V[i], cq.chunks[k + i])
    BY <1>6, <1>7
  <2>2. PICK j : j = k + i
    OBVIOUS
  <2>3. j \in 1 .. Len(q["wb"].chunks)
    BY <1>10, <1>11, <2>2 DEF LenIs
  <2>4. Alike(cq.chunks[j], q["wb"].chunks[j])
    BY <2>3
  <2> QED BY <2>1, <2>2, <2>4 DEF Alike
<1>13. Three(V, q["content"].chunks, q["read"].chunks, gs)
  BY <1>8, <1>10, <1>11, <1>12, FirstGo
<1>14. Flow(V, gs) = Flow(V, files)
  BY <1>8, <1>10, <1>11, <1>12, FirstGo
<1>15. Flow(q["content"].chunks, gs) = ContentFlow
  BY <1>8, <1>10, <1>11, <1>12, FirstGo
<1>16. Flow(q["read"].chunks, gs) = ReadFlow
  BY <1>8, <1>10, <1>11, <1>12, FirstGo
<1>17. Joins(sent', sent, Take(WbFlow, wr))
  <2>1. Content("wb") = WbFlow
    BY ContentIs DEF Queues, WbFlow
  <2> QED BY <1>1, <2>1 DEF Joins, Take
<1>18. job' \in JobType
  <2>1. job \in JobType
    BY DEF ChunkIInv, Types
  <2>2. PICK l \in Int : l = job.len - wr
    BY <2>1 DEF JobType
  <2>3. job' = [job EXCEPT !.len = l]
    BY <1>1, <2>2
  <2> QED BY <2>1, <2>3 DEF JobType
<1>19. q' = [q EXCEPT !["wb"] = y]
  BY <1>1, <1>3
<1>20. Flow(y.chunks, files') = Drop(WbFlow, wr)
       /\ Three(y.chunks, q["content"].chunks, q["read"].chunks, files')
  BY <1>6, <1>7, <1>9, <1>13, <1>14
<1>21. Flow(q["content"].chunks, files') = ContentFlow /\ Flow(q["read"].chunks, files') = ReadFlow
  BY <1>9, <1>15, <1>16
<1>22. y.in = q["wb"].in /\ y.out = q["wb"].out + wr
  BY <1>5
<1> QED BY <1>1, <1>5, <1>17, <1>18, <1>19, <1>20, <1>21, <1>22, WbKeeps

\* What is known of the queue to the backend while bytes of it are sent.
LEMMA WbFacts ==
  ASSUME ChunkIInv, Wb.chunks # <<>>
  PROVE  /\ q["wb"] \in CqType /\ Fit(q["wb"].chunks, files) /\ files \in Seq(FileType)
         /\ Good(q["wb"].chunks[1], files) /\ Remaining(q["wb"].chunks[1]) \in Nat
         /\ Remaining(q["wb"].chunks[1]) <= Len(WbFlow) /\ job.len \in Int
<1>1. PICK cq \in CqType : cq = q["wb"]
  BY Held
<1>2. Fit(cq.chunks, files) /\ cq.chunks # <<>>
  BY <1>1, Held, ThreeFit DEF Wb
<1>3. PICK cs : cs = cq.chunks
  OBVIOUS
<1>4. cs \in Seq(ChunkType) /\ files \in Seq(FileType) /\ Fit(cs, files) /\ cs # <<>>
  BY <1>2, <1>3 DEF Fit
<1>5. Good(cs[1], files)
  <2>1. 1 \in DOMAIN cs
    BY <1>4
  <2> QED BY <1>4, <2>1 DEF Fit
<1>6. PICK p \in Nat : p = Remaining(cs[1])
  BY <1>4, <1>5, BytesTyped
<1>7. p \in 0 .. Remaining(cs[1])
  BY <1>6
<1>8. p <= Len(Flow(cs, files))
  BY <1>4, <1>7, FlowAhead
<1>9. job.len \in Int
  BY DEF ChunkIInv, Types, JobType
<1> QED BY <1>1, <1>2, <1>3, <1>4, <1>5, <1>6, <1>8, <1>9 DEF WbFlow

\* The queue to the backend as it is.
LEMMA WroteWb ==
  ASSUME ChunkIInv, pc = "send", Wb.chunks # <<>>, NEW toSend, NEW wr \in Nat, wr <= Len(WbFlow),
         Wrote(Wb, toSend, wr)
  PROVE  ChunkIInv'
<1>1. PICK cq : cq = q["wb"]
  OBVIOUS
<1>2. cq \in CqType /\ Fit(cq.chunks, files)
  BY <1>1, WbFacts
<1>3. /\ LenIs(cq.chunks, Len(q["wb"].chunks)) /\ Flow(cq.chunks, files) = WbFlow
      /\ \A i \in 1 .. Len(q["wb"].chunks) : Alike(cq.chunks[i], q["wb"].chunks[i])
      /\ cq.in = q["wb"].in /\ cq.out = q["wb"].out
  BY <1>1 DEF LenIs, WbFlow, Alike
<1>4. Wrote(cq, toSend, wr)
  BY <1>1 DEF Wb
<1> QED BY <1>2, <1>3, <1>4, WroteKeeps

\* network_write_mem_chunk.
LEMMA SendMemKeeps == ASSUME ChunkIInv, NEW wr \in Nat, SendMem(wr) PROVE ChunkIInv'
<1> DEFINE toSend == IF Remaining(Wb.chunks[1]) > job.len THEN job.len ELSE Remaining(Wb.chunks[1])
<1>1. pc = "send" /\ job.len > 0 /\ Wb.chunks # <<>>
  BY DEF SendMem, Sending
<1>2. Removed \/ (wr \in 0 .. toSend /\ Wrote(Wb, toSend, wr))
  BY DEF SendMem
<1>3. toSend \in Nat /\ toSend <= Len(WbFlow)
  <2>1. /\ Remaining(q["wb"].chunks[1]) \in Nat /\ job.len \in Int
        /\ Remaining(q["wb"].chunks[1]) <= Len(WbFlow) /\ Len(WbFlow) \in Nat
    BY <1>1, WbFacts, Held
  <2> QED BY <1>1, <2>1 DEF Wb
<1> HIDE DEF toSend
<1>4. CASE Removed
  BY <1>1, <1>4, RemovedKeeps
<1>5. CASE wr \in 0 .. toSend /\ Wrote(Wb, toSend, wr)
  <2>1. wr <= Len(WbFlow)
    BY <1>3, <1>5, Held
  <2> QED BY <1>1, <1>5, <2>1, WroteWb
<1> QED BY <1>2, <1>4, <1>5

\* The chunks that one writev takes.
LEMMA VectorIs ==
  ASSUME Len(Wb.chunks) \in Nat, Len(Wb.chunks) # 0
  PROVE  Vector \in 1 .. Len(Wb.chunks)
<1> DEFINE used(n) == Cardinality({i \in 1 .. n : Remaining(Wb.chunks[i]) > 0})
           more(n) == /\ n < Len(Wb.chunks) /\ Wb.chunks[n + 1].type = "mem"
                      /\ used(n) < MaxIov /\ LengthTo(Wb, n) < job.len
           S == {k \in 1 .. Len(Wb.chunks) : ~more(k)}
<1>1. S \subseteq Nat /\ Len(Wb.chunks) \in S
  OBVIOUS
<1>2. PICK k \in S : \A m \in S : k <= m
  <2> HIDE DEF S
  <2> QED BY <1>1, LeastNatural
<1>3. k \in 1 .. Len(Wb.chunks) /\ ~more(k)
  OBVIOUS
<1>4. \A n \in 1 .. k - 1 : more(n)
  <2> SUFFICES ASSUME NEW n \in 1 .. k - 1 PROVE more(n)
    OBVIOUS
  <2> HIDE DEF more
  <2>1. n \in 1 .. Len(Wb.chunks) /\ ~(k <= n)
    BY <1>3
  <2> QED BY <1>2, <2>1
<1>5. \E k1 \in 1 .. Len(Wb.chunks) : ~more(k1) /\ \A n \in 1 .. k1 - 1 : more(n)
  <2> HIDE DEF more
  <2> QED BY <1>3, <1>4
<1>6. Vector = CHOOSE k1 \in 1 .. Len(Wb.chunks) : ~more(k1) /\ \A n \in 1 .. k1 - 1 : more(n)
  BY DEF Vector
<1> HIDE DEF more
<1> QED BY <1>5, <1>6

\* network_writev_mem_chunks: one writev of several chunks.
LEMMA SendMemsKeeps == ASSUME ChunkIInv, NEW wr \in Nat, SendMems(wr) PROVE ChunkIInv'
<1>1. pc = "send" /\ Wb.chunks # <<>>
  BY DEF SendMems, Sending
<1>2. PICK toSend : toSend = LengthTo(Wb, Vector)
  OBVIOUS
<1>3. Removed \/ (wr \in 0 .. toSend /\ Wrote(Wb, toSend, wr))
  BY <1>2 DEF SendMems
<1>4. toSend \in Nat /\ toSend <= Len(WbFlow)
  <2>1. Fit(Wb.chunks, files) /\ Wb.chunks \in Seq(ChunkType)
    BY <1>1, WbFacts DEF Wb, Fit
  <2>2. Vector \in 1 .. Len(Wb.chunks)
    BY <1>1, <2>1, VectorIs
  <2>3. PICK k \in 0 .. Len(Wb.chunks) : k = Vector
    BY <2>1, <2>2
  <2>4. LengthTo(Wb, k) \in Nat /\ LengthTo(Wb, k) <= Len(Flow(Wb.chunks, files))
    BY <2>1, LengthBounds
  <2> QED BY <1>2, <2>3, <2>4 DEF WbFlow, Wb
<1>5. CASE Removed
  BY <1>1, <1>5, RemovedKeeps
<1>6. CASE wr \in 0 .. toSend /\ Wrote(Wb, toSend, wr)
  <2>1. wr <= Len(WbFlow)
    BY <1>4, <1>6, Held
  <2> QED BY <1>1, <1>6, <2>1, WroteWb
<1> QED BY <1>3, <1>5, <1>6

\* The first of several chunks is opened.
LEMMA HeadOpened ==
  ASSUME NEW W, NEW fs, Fit(W, fs), W # <<>>, NEW c, Good(c, fs), Alike(c, W[1]),
         BytesIn(c, fs) = BytesIn(W[1], fs),
         NEW V, V = SetHead(W, c)
  PROVE  /\ Fit(V, fs) /\ LenIs(V, Len(W)) /\ Flow(V, fs) = Flow(W, fs)
         /\ \A i \in 1 .. Len(W) : Alike(V[i], W[i])
<1>1. Fit(SetHead(W, c), fs)
  BY FlowSetHead
<1>2. Len(SetHead(W, c)) = Len(W)
  BY FlowSetHead
<1>3. Flow(SetHead(W, c), fs) = BytesIn(c, fs) \o Flow(Tail(W), fs)
  BY FlowSetHead
<1>4. Flow(W, fs) = BytesIn(W[1], fs) \o Flow(Tail(W), fs)
  BY FlowHead
<1>5. \A i \in 1 .. Len(W) : SetHead(W, c)[i] = IF i = 1 THEN c ELSE W[i]
  BY FlowSetHead
<1>6. \A i \in 1 .. Len(W) : Alike(V[i], W[i])
  BY <1>5 DEF Alike
<1>7. Flow(V, fs) = Flow(W, fs)
  BY <1>3, <1>4
<1> QED BY <1>1, <1>2, <1>6, <1>7 DEF LenIs

\* network_write_file_chunk_sendfile and _no_mmap.
LEMMA SendFileKeeps == ASSUME ChunkIInv, NEW wr \in Nat, SendFile(wr) PROVE ChunkIInv'
<1> DEFINE toSend == IF Remaining(Wb.chunks[1]) > job.len THEN job.len ELSE Remaining(Wb.chunks[1])
<1>1. pc = "send" /\ job.len > 0 /\ Wb.chunks # <<>>
  BY DEF SendFile, Sending
<1>2. Removed \/ (wr \in 0 .. toSend /\ Wrote([Wb EXCEPT !.chunks[1].open = TRUE], toSend, wr))
  BY DEF SendFile
<1>3. toSend \in Nat /\ toSend <= Len(WbFlow)
  <2>1. /\ Remaining(q["wb"].chunks[1]) \in Nat /\ job.len \in Int
        /\ Remaining(q["wb"].chunks[1]) <= Len(WbFlow) /\ Len(WbFlow) \in Nat
    BY <1>1, WbFacts, Held
  <2> QED BY <1>1, <2>1 DEF Wb
<1> HIDE DEF toSend
<1>4. CASE Removed
  BY <1>1, <1>4, RemovedKeeps
<1>5. CASE wr \in 0 .. toSend /\ Wrote([Wb EXCEPT !.chunks[1].open = TRUE], toSend, wr)
  <2>1. PICK b \in CqType : b = q["wb"]
    BY Held
  <2>2. PICK W \in Seq(ChunkType) : W = b.chunks /\ W # <<>> /\ Fit(W, files) /\ files \in Seq(FileType)
    BY <1>1, <2>1, WbFacts DEF Fit, Wb
  <2>3. Good(W[1], files)
    BY <1>1, <2>1, <2>2, WbFacts
  <2>4. PICK c : c = [W[1] EXCEPT !.open = TRUE]
    OBVIOUS
  <2>5. Good(c, files) /\ Alike(c, W[1]) /\ BytesIn(c, files) = BytesIn(W[1], files)
    BY <2>3, <2>4, OpenIs
  <2>6. PICK V : V = SetHead(W, c)
    OBVIOUS
  <2>7. Fit(V, files) /\ LenIs(V, Len(W))
    BY <2>2, <2>5, <2>6, HeadOpened
  <2>8. \A i \in 1 .. Len(W) : Alike(V[i], W[i])
    BY <2>2, <2>5, <2>6, HeadOpened
  <2>9. Flow(V, files) = Flow(W, files)
    BY <2>2, <2>5, <2>6, HeadOpened
  <2>10. PICK cq : cq = [b EXCEPT !.chunks = V]
    OBVIOUS
  <2>11. V \in Seq(ChunkType)
    BY <2>7 DEF Fit
  <2>12. cq \in CqType /\ cq.chunks = V /\ cq.in = b.in /\ cq.out = b.out
    BY <2>10, <2>11 DEF CqType
  <2>13. cq = [Wb EXCEPT !.chunks[1].open = TRUE]
    BY <2>1, <2>2, <2>4, <2>6, <2>10 DEF Wb, SetHead
  <2>14. Wrote(cq, toSend, wr)
    BY <1>5, <2>13
  <2>15. Fit(cq.chunks, files) /\ LenIs(cq.chunks, Len(q["wb"].chunks)) /\ Flow(cq.chunks, files) = WbFlow
    BY <2>1, <2>2, <2>7, <2>9, <2>12 DEF LenIs, WbFlow
  <2>16. \A i \in 1 .. Len(q["wb"].chunks) : Alike(cq.chunks[i], q["wb"].chunks[i])
    BY <2>1, <2>2, <2>8, <2>12
  <2>17. cq.in = q["wb"].in /\ cq.out = q["wb"].out
    BY <2>1, <2>12
  <2>18. wr <= Len(WbFlow)
    BY <1>3, <1>5, Held
  <2> QED BY <1>1, <2>12, <2>14, <2>15, <2>16, <2>17, <2>18, WroteKeeps
<1> QED BY <1>2, <1>4, <1>5

-----------------------------------------------------------------------------
(* The start and the end of a request.                                      *)

\* Three queues without chunks, and no file.
LEMMA NoChunks ==
  /\ Three(<<>>, <<>>, <<>>, <<>>) /\ Flow(<<>>, <<>>) = <<>> /\ Count(Empty, <<>>) /\ Empty \in CqType
  /\ Row(<<>>, <<>>, <<>>, <<>>) = Upto(0)
<1>1. <<>> \in Seq(FileType) /\ <<>> \in Seq(ChunkType) /\ <<>> \o <<>> = <<>> /\ DOMAIN <<>> = {}
      /\ Len(<<>>) = 0
  OBVIOUS
<1>2. Flow(<<>>, <<>>) = <<>> /\ Fit(<<>>, <<>>)
  BY <1>1, FlowEmpty
<1>3. PICK e : e = <<>>
  OBVIOUS
<1>4. Own(e, 0, e)
  BY <1>1, <1>3 DEF Own, Owned, LastOwns, AloneEmpty
<1>5. Three(<<>>, <<>>, <<>>, <<>>)
  BY <1>1, <1>2, <1>3, <1>4 DEF Three, AllMem
<1>6. Empty \in CqType
  BY <1>1 DEF Empty, CqType
<1>7. Count(Empty, <<>>)
  BY <1>1, <1>2 DEF Count, Empty
<1>8. Row(<<>>, <<>>, <<>>, <<>>) = <<>>
  BY <1>1 DEF Row
<1>9. Upto(0) = <<>>
  BY DEF Upto
<1> QED BY <1>2, <1>5, <1>6, <1>7, <1>8, <1>9

\* No chunk is there at the start.
LEMMA InitIs == ASSUME Init PROVE ChunkIInv
<1>1. /\ q = [n \in Queues |-> Empty] /\ files = <<>> /\ pc = "idle" /\ job = NoJob /\ fed = 0 /\ sent = <<>>
      /\ setup \in Setups
  BY DEF Init
<1>2. q["wb"] = Empty /\ q["content"] = Empty /\ q["read"] = Empty /\ Empty.chunks = <<>>
  BY <1>1 DEF Queues, Empty
<1>3. q \in [Queues -> CqType]
  BY <1>1, NoChunks
<1>4. WbFlow = <<>> /\ ContentFlow = <<>> /\ ReadFlow = <<>>
  BY <1>1, <1>2, NoChunks DEF WbFlow, ContentFlow, ReadFlow
<1>5. Body
  BY <1>1, <1>2, NoChunks DEF Body
<1>6. Counts
  BY <1>1, <1>2, NoChunks DEF Counts
<1>7. <<>> \in Seq(Nat)
  OBVIOUS
<1>8. Types
  BY <1>1, <1>3, <1>7, NoJobIs DEF Types, Places
<1>9. Order
  BY <1>1, <1>4, NoChunks DEF Order
<1>10. Jobs
  BY <1>1 DEF Jobs
<1> QED BY <1>5, <1>6, <1>8, <1>9, <1>10 DEF ChunkIInv

\* When all queues are reset, no file keeps its name.
LEMMA NoneLinked ==
  ASSUME ChunkIInv, NEW fs, fs = Unlinked(files, UNION {First(q[n], Len(q[n].chunks)) : n \in Queues})
  PROVE  \A f \in DOMAIN fs : ~fs[f].linked
<1>1. PICK W, C : W = q["wb"].chunks /\ C = q["content"].chunks
  OBVIOUS
<1>2. /\ W \in Seq(ChunkType) /\ C \in Seq(ChunkType) /\ files \in Seq(FileType)
      /\ Own(W \o C, Len(W), files)
  BY <1>1, Held DEF Three
<1>3. PICK X : X = UNION {First(q[n], Len(q[n].chunks)) : n \in Queues}
  OBVIOUS
<1>4. fs = Unlinked(files, X)
  BY <1>3
<1>5. DOMAIN fs = DOMAIN files
  BY <1>2, <1>4, UnlinkedIs
<1>6. \A f \in DOMAIN files : fs[f].linked <=> (files[f].linked /\ ~ \E c \in X : c.temp /\ c.name = f)
  BY <1>2, <1>4, UnlinkedIs
<1>7. (\A i \in 1 .. Len(W) : W[i] \in X) /\ \A i \in 1 .. Len(C) : C[i] \in X
  BY <1>1, <1>3 DEF First, Queues
<1>8. PICK A \in Seq(ChunkType) : A = W \o C
  BY <1>2, ConcatProperties
<1>9. \A i \in DOMAIN A : A[i] \in X
  <2> SUFFICES ASSUME NEW i \in DOMAIN A PROVE A[i] \in X
    OBVIOUS
  <2>1. PICK b \in Nat, n \in Nat : b = Len(W) /\ n = Len(C)
    BY <1>2
  <2>2. LenIs(W, b) /\ LenIs(C, n)
    BY <2>1 DEF LenIs
  <2>3. Len(A) = b + n
    BY <1>2, <1>8, <2>2, JoinAt
  <2>4. Ahead1(A, W, b)
    BY <1>2, <1>8, <2>2, JoinAt
  <2>5. Behind(A, b, C, n)
    BY <1>2, <1>8, <2>2, JoinAt
  <2>6. i \in 1 .. b + n
    BY <2>3
  <2>7. i \in 1 .. b \/ \E j \in 1 .. n : i = b + j
    BY <2>6, JoinCases
  <2> QED BY <1>7, <2>1, <2>4, <2>5, <2>7 DEF Ahead1, Behind
<1>10. \A f \in DOMAIN files : files[f].linked => \E i \in DOMAIN A : A[i].temp /\ A[i].name = f
  BY <1>2, <1>8 DEF Own, Owned
<1> QED BY <1>5, <1>6, <1>9, <1>10

\* connection_reset: the queues are emptied and their files are deleted.
LEMMA ResetKeeps == ASSUME ChunkIInv, Reset PROVE ChunkIInv'
<1>1. /\ q' = [n \in Queues |-> Empty] /\ pc' = "idle" /\ job' = NoJob /\ fed' = 0 /\ sent' = <<>>
         /\ setup' = setup
  BY DEF Reset
<1>2. files' = <<>>
  <2>1. PICK fs : fs = Unlinked(files, UNION {First(q[n], Len(q[n].chunks)) : n \in Queues})
    OBVIOUS
  <2>2. files' = IF \E f \in DOMAIN fs : fs[f].linked THEN fs ELSE <<>>
    BY <2>1 DEF Reset
  <2>3. \A f \in DOMAIN fs : ~fs[f].linked
    BY <2>1, NoneLinked
  <2> QED BY <2>2, <2>3
<1>3. q'["wb"] = Empty /\ q'["content"] = Empty /\ q'["read"] = Empty /\ Empty.chunks = <<>>
  BY <1>1 DEF Queues, Empty
<1>4. q' \in [Queues -> CqType]
  BY <1>1, NoChunks
<1>5. WbFlow' = <<>> /\ ContentFlow' = <<>> /\ ReadFlow' = <<>>
  BY <1>2, <1>3, NoChunks DEF WbFlow, ContentFlow, ReadFlow
<1>6. Body'
  BY <1>2, <1>3, NoChunks DEF Body
<1>7. Counts'
  BY <1>2, <1>3, NoChunks DEF Counts
<1>8. <<>> \in Seq(Nat)
  OBVIOUS
<1>9. Types'
  BY <1>1, <1>4, <1>8, NoJobIs DEF ChunkIInv, Types, Places
<1>10. Order'
  BY <1>1, <1>5, NoChunks DEF Order
<1>11. Jobs'
  BY <1>1 DEF Jobs
<1> QED BY <1>6, <1>7, <1>9, <1>10, <1>11 DEF ChunkIInv

-----------------------------------------------------------------------------
(* The names of the files that are there.                                   *)

\* The chunks of the three queues in the order of FilesOwned: where each of those behind the bytes read is.
PlaceOf(a, b, n, r) == IF a > b THEN r + (a - b) ELSE r + n + a
Spread(A, all, R, b, n, r) ==
  /\ A \in Seq(ChunkType) /\ DOMAIN A = 1 .. b + n /\ DOMAIN all = 1 .. r + n + b
  /\ \A i \in 1 .. r : all[i] = R[i]
  /\ \A a \in 1 .. b + n : all[PlaceOf(a, b, n, r)] = A[a]

\* The chunks of one row in the other.
LEMMA Placed ==
  ASSUME NEW W \in Seq(ChunkType), NEW C \in Seq(ChunkType), NEW R \in Seq(ChunkType),
         NEW b \in Nat, NEW n \in Nat, NEW r \in Nat, LenIs(W, b), LenIs(C, n), LenIs(R, r),
         NEW A, Joins(A, W, C), NEW T, Joins(T, R, C), NEW all, Joins(all, T, W)
  PROVE  Spread(A, all, R, b, n, r)
<1>0. A = W \o C /\ T = R \o C /\ all = T \o W
  BY DEF Joins
<1>1. T \in Seq(ChunkType) /\ Len(T) = r + n
  BY <1>0, JoinAt
<1>2. Ahead1(T, R, r)
  BY <1>0, JoinAt
<1>3. Behind(T, r, C, n)
  BY <1>0, JoinAt
<1>4. PICK m \in Nat : m = r + n
  OBVIOUS
<1>5. LenIs(T, m)
  BY <1>1, <1>4 DEF LenIs
<1>6. all \in Seq(ChunkType) /\ Len(all) = m + b
  <2>1. T \o W \in Seq(ChunkType)
    BY <1>1, <1>5, JoinAt
  <2>2. Len(T \o W) = m + b
    BY <1>1, <1>5, JoinAt
  <2> QED BY <1>0, <2>1, <2>2
<1>7. Ahead1(all, T, m)
  BY <1>0, <1>1, <1>5, JoinAt
<1>8. Behind(all, m, W, b)
  BY <1>0, <1>1, <1>5, JoinAt
<1>9. A \in Seq(ChunkType) /\ Len(A) = b + n
  BY <1>0, JoinAt
<1>10. Ahead1(A, W, b)
  BY <1>0, JoinAt
<1>11. Behind(A, b, C, n)
  BY <1>0, JoinAt
<1>12. ASSUME NEW a \in 1 .. b + n PROVE all[PlaceOf(a, b, n, r)] = A[a]
  <2>1. CASE a \in 1 .. b
    <3>1. PlaceOf(a, b, n, r) = m + a
      BY <1>4, <2>1 DEF PlaceOf
    <3>2. all[m + a] = W[a]
      BY <1>8, <2>1 DEF Behind
    <3>3. A[a] = W[a]
      BY <1>10, <2>1 DEF Ahead1
    <3> QED BY <3>1, <3>2, <3>3
  <2>2. CASE \E j \in 1 .. n : a = b + j
    <3>1. PICK j \in 1 .. n : a = b + j
      BY <2>2
    <3>2. PlaceOf(a, b, n, r) = r + j
      BY <3>1 DEF PlaceOf
    <3>3. r + j \in 1 .. m
      BY <1>4
    <3>4. all[r + j] = T[r + j]
      BY <1>7, <3>3 DEF Ahead1
    <3>5. T[r + j] = C[j]
      BY <1>3 DEF Behind
    <3>6. A[a] = C[j]
      BY <1>11, <3>1 DEF Behind
    <3> QED BY <3>2, <3>4, <3>5, <3>6
  <2> QED BY <2>1, <2>2, JoinCases
<1>13. ASSUME NEW i \in 1 .. r PROVE all[i] = R[i]
  <2>1. i \in 1 .. m
    BY <1>4
  <2> QED BY <1>2, <1>7, <2>1 DEF Ahead1
<1>14. DOMAIN A = 1 .. b + n
  BY <1>9
<1>15. DOMAIN all = 1 .. r + n + b
  BY <1>4, <1>6
<1> QED BY <1>9, <1>12, <1>13, <1>14, <1>15 DEF Spread

\* Each chunk of the other row is one of the bytes read or has one such place.
LEMMA PlaceIs ==
  ASSUME NEW b \in Nat, NEW n \in Nat, NEW r \in Nat
  PROVE  /\ \A a \in 1 .. b + n : PlaceOf(a, b, n, r) \in 1 .. r + n + b /\ PlaceOf(a, b, n, r) \notin 1 .. r
         /\ \A i \in 1 .. r + n + b : i \in 1 .. r \/ \E a \in 1 .. b + n : i = PlaceOf(a, b, n, r)
<1>1. ASSUME NEW a \in 1 .. b + n
      PROVE  PlaceOf(a, b, n, r) \in 1 .. r + n + b /\ PlaceOf(a, b, n, r) \notin 1 .. r
  BY DEF PlaceOf
<1>2. ASSUME NEW i \in 1 .. r + n + b, i \notin 1 .. r PROVE \E a \in 1 .. b + n : i = PlaceOf(a, b, n, r)
  <2>1. CASE i <= r + n
    <3>1. b + (i - r) \in 1 .. b + n /\ PlaceOf(b + (i - r), b, n, r) = i
      BY <1>2, <2>1 DEF PlaceOf
    <3> QED BY <3>1
  <2>2. CASE i > r + n
    <3>1. i - r - n \in 1 .. b + n /\ PlaceOf(i - r - n, b, n, r) = i
      BY <1>2, <2>2 DEF PlaceOf
    <3> QED BY <3>1
  <2> QED BY <2>1, <2>2
<1> QED BY <1>1, <1>2

\* A temporary file with a name has one chunk that deletes it.
AllChunks == q["read"].chunks \o q["content"].chunks \o q["wb"].chunks
Owners(all, f) == {i \in DOMAIN all : all[i].temp /\ all[i].name = f}

\* That one, when the file has a name, and none when it has not.
LEMMA OwnersAre ==
  ASSUME ChunkIInv, NEW all, all = AllChunks, NEW f \in DOMAIN files
  PROVE  Cardinality(Owners(all, f)) = IF files[f].linked THEN 1 ELSE 0
<1>1. PICK W, C, R : W = q["wb"].chunks /\ C = q["content"].chunks /\ R = q["read"].chunks
  OBVIOUS
<1>2. /\ W \in Seq(ChunkType) /\ C \in Seq(ChunkType) /\ Own(W \o C, Len(W), files)
      /\ R \in Seq(ChunkType) /\ AllMem(R) /\ Fit(R, files)
  BY <1>1, Held DEF Three, Fit
<1>3. PICK b \in Nat, n \in Nat, r \in Nat : LenIs(W, b) /\ LenIs(C, n) /\ LenIs(R, r)
  BY <1>2 DEF LenIs
<1>4. PICK A : A = W \o C
  OBVIOUS
<1>5. PICK T : T = R \o C
  OBVIOUS
<1>5a. Joins(A, W, C) /\ Joins(T, R, C) /\ Joins(all, T, W)
  BY <1>1, <1>4, <1>5 DEF Joins, AllChunks
<1>5b. Spread(A, all, R, b, n, r)
  BY <1>2, <1>3, <1>5a, Placed
<1>6. DOMAIN A = 1 .. b + n /\ DOMAIN all = 1 .. r + n + b /\ A \in Seq(ChunkType)
  BY <1>5b DEF Spread
<1>7. \A i \in 1 .. r : all[i] = R[i]
  BY <1>5b DEF Spread
<1>8. \A a \in 1 .. b + n : all[PlaceOf(a, b, n, r)] = A[a]
  BY <1>5b DEF Spread
<1>9. \A a \in 1 .. b + n : PlaceOf(a, b, n, r) \in 1 .. r + n + b
  BY PlaceIs
<1>10. \A i \in 1 .. r + n + b : i \in 1 .. r \/ \E a \in 1 .. b + n : i = PlaceOf(a, b, n, r)
  BY PlaceIs
<1>11. \A i \in 1 .. r : ~all[i].temp
  <2> SUFFICES ASSUME NEW i \in 1 .. r PROVE ~all[i].temp
    OBVIOUS
  <2>1. i \in DOMAIN R
    BY <1>2, <1>3 DEF LenIs
  <2>2. R[i].type = "mem" /\ Good(R[i], files)
    BY <1>2, <2>1 DEF AllMem, Fit
  <2> QED BY <1>7, <2>2 DEF Good, GoodMem
<1>12. \A a \in 1 .. b + n : Good(A[a], files)
  BY <1>2, <1>4, <1>6 DEF Own
<1>13. \A a \in 1 .. b + n : A[a].temp => A[a].type = "file" /\ files[A[a].name].linked
  BY <1>12 DEF Good, GoodMem, GoodFile, ChunkType
<1> DEFINE O == {i \in DOMAIN all : all[i].temp /\ all[i].name = f}
<1>14. \A i \in O : \E a \in 1 .. b + n : i = PlaceOf(a, b, n, r) /\ A[a].temp /\ A[a].name = f
  <2> SUFFICES ASSUME NEW i \in DOMAIN all, all[i].temp, all[i].name = f
               PROVE  \E a \in 1 .. b + n : i = PlaceOf(a, b, n, r) /\ A[a].temp /\ A[a].name = f
    OBVIOUS
  <2>1. i \in 1 .. r + n + b /\ i \notin 1 .. r
    BY <1>6, <1>11
  <2>2. PICK a \in 1 .. b + n : i = PlaceOf(a, b, n, r)
    BY <1>10, <2>1
  <2>3. all[i] = A[a]
    BY <1>8, <2>2
  <2> QED BY <2>2, <2>3
<1>15. CASE ~files[f].linked
  <2>1. O = {}
    BY <1>13, <1>14, <1>15
  <2>2. Cardinality(O) = 0
    <3> HIDE DEF O
    <3> QED BY <2>1, FS_EmptySet
  <2> QED BY <1>15, <2>2 DEF Owners
<1>16. CASE files[f].linked
  <2>1. PICK a \in 1 .. b + n : A[a].temp /\ A[a].name = f
    BY <1>2, <1>4, <1>6, <1>16 DEF Own, Owned
  <2>2. \A c \in 1 .. b + n : A[c].temp /\ A[c].name = f => c = a
    <3> SUFFICES ASSUME NEW c \in 1 .. b + n, A[c].temp, A[c].name = f PROVE c = a
      OBVIOUS
    <3>1. LastOwns(A) /\ a \in DOMAIN A /\ c \in DOMAIN A
      BY <1>2, <1>4, <1>6 DEF Own
    <3>2. Names(A[a], f) /\ Names(A[c], f)
      BY <1>13, <2>1 DEF Names
    <3>3. c <= a /\ a <= c
      BY <2>1, <3>1, <3>2 DEF LastOwns
    <3> QED BY <3>3
  <2>3. PICK p : p = PlaceOf(a, b, n, r)
    OBVIOUS
  <2>4. p \in O
    BY <1>6, <1>8, <1>9, <2>1, <2>3
  <2>5. \A i \in O : i = p
    BY <1>14, <2>2, <2>3
  <2>6. O = {p}
    <3> HIDE DEF O
    <3> QED BY <2>4, <2>5
  <2>7. Cardinality(O) = 1
    <3> HIDE DEF O
    <3> QED BY <2>6, FS_Singleton
  <2> QED BY <1>16, <2>7 DEF Owners
<1> QED BY <1>15, <1>16

-----------------------------------------------------------------------------
(* The theorem.                                                             *)

\* A chunk of a file finds its name.
LEMMA OpenNames ==
  ASSUME ChunkIInv, NEW all, all = AllChunks, NEW i \in DOMAIN all,
         all[i].type = "file"
  PROVE  files[all[i].name].linked
<1>1. PICK W, C, R : W = q["wb"].chunks /\ C = q["content"].chunks /\ R = q["read"].chunks
  OBVIOUS
<1>2. /\ W \in Seq(ChunkType) /\ C \in Seq(ChunkType) /\ Own(W \o C, Len(W), files)
      /\ R \in Seq(ChunkType) /\ Fit(R, files)
  BY <1>1, Held DEF Three, Fit
<1>3. PICK b \in Nat, n \in Nat, r \in Nat : LenIs(W, b) /\ LenIs(C, n) /\ LenIs(R, r)
  BY <1>2 DEF LenIs
<1>4. PICK A, T : A = W \o C /\ T = R \o C
  OBVIOUS
<1>5. Joins(A, W, C) /\ Joins(T, R, C) /\ Joins(all, T, W)
  BY <1>1, <1>4 DEF Joins, AllChunks
<1>6. Spread(A, all, R, b, n, r)
  BY <1>2, <1>3, <1>5, Placed
<1>7. i \in 1 .. r \/ \E a \in 1 .. b + n : i = PlaceOf(a, b, n, r)
  <2>1. i \in 1 .. r + n + b
    BY <1>6 DEF Spread
  <2>2. \A k \in 1 .. r + n + b : k \in 1 .. r \/ \E a \in 1 .. b + n : k = PlaceOf(a, b, n, r)
    BY PlaceIs
  <2> QED BY <2>1, <2>2
<1>8. CASE i \in 1 .. r
  <2>1. Good(R[i], files) /\ all[i] = R[i]
    <3>1. i \in DOMAIN R
      BY <1>2, <1>3, <1>8 DEF LenIs
    <3>2. all[i] = R[i]
      BY <1>6, <1>8 DEF Spread
    <3> QED BY <1>2, <3>1, <3>2 DEF Fit
  <2> QED BY <2>1 DEF Good, GoodFile
<1>9. CASE \E a \in 1 .. b + n : i = PlaceOf(a, b, n, r)
  <2>1. PICK a \in 1 .. b + n : i = PlaceOf(a, b, n, r)
    BY <1>9
  <2>2. all[i] = A[a] /\ a \in DOMAIN A
    BY <1>6, <2>1 DEF Spread
  <2>3. Good(A[a], files)
    BY <1>2, <1>4, <2>2 DEF Own
  <2> QED BY <2>2, <2>3 DEF Good, GoodFile
<1> QED BY <1>7, <1>8, <1>9

\* The invariant says that the bytes are kept.
LEMMA BytesAre == ASSUME ChunkIInv PROVE BytesKept
<1>1. Content("wb") = WbFlow /\ Content("content") = ContentFlow /\ Content("read") = ReadFlow
  BY ContentIs DEF Queues, WbFlow, ContentFlow, ReadFlow
<1>2. ASSUME pc \notin {"temp", "failed"}
      PROVE sent \o Content("wb") \o Content("content") \o Content("read") = [i \in 1 .. fed |-> i]
  BY <1>1, <1>2 DEF ChunkIInv, Order, Row, Upto
<1>3. ASSUME NEW n \in Queues PROVE q[n].in - q[n].out = Len(Content(n))
  <2>1. Content(n) = Flow(q[n].chunks, files)
    BY ContentIs
  <2>2. Count(q[n], files)
    BY DEF ChunkIInv, Counts, Queues
  <2> QED BY <2>1, <2>2 DEF Count
<1>4. InOrder
  BY <1>2, <1>3 DEF InOrder
<1>5. FilesOwned
  <2>1. ASSUME NEW f \in DOMAIN files
        PROVE  Cardinality(Owners(AllChunks, f)) = IF files[f].linked THEN 1 ELSE 0
    BY OwnersAre
  <2>2. ASSUME NEW i \in DOMAIN AllChunks, AllChunks[i].type = "file", ~AllChunks[i].open
        PROVE  files[AllChunks[i].name].linked
    BY <2>2, OpenNames
  <2> QED BY <2>1, <2>2, Zenon DEF FilesOwned, AllChunks, Owners
<1> QED BY <1>4, <1>5 DEF BytesKept

\* A step that changes nothing.
LEMMA StutterKeeps == ASSUME ChunkIInv, UNCHANGED vars PROVE ChunkIInv'
<1>1. /\ q' = q /\ files' = files /\ pc' = pc /\ job' = job /\ fed' = fed /\ sent' = sent /\ setup' = setup
  BY DEF vars
<1>2. Body' /\ Counts' /\ WbFlow' = WbFlow /\ ContentFlow' = ContentFlow /\ ReadFlow' = ReadFlow
  BY <1>1, Standing
<1>3. Use' = Use
  BY <1>1 DEF Use, Head1, Source
<1>4. Types' /\ Jobs'
  BY <1>1 DEF ChunkIInv, Types, Jobs
<1>5. Order'
  BY <1>1, <1>2, <1>3 DEF ChunkIInv, Order
<1> QED BY <1>2, <1>4, <1>5 DEF ChunkIInv

\* No action of the queues loses a byte.
LEMMA NextKeeps == ASSUME ChunkQueueAssumption, ChunkIInv, [Next]_vars PROVE ChunkIInv'
<1>1. 0 .. Total \subseteq Nat /\ 1 .. Total \subseteq Nat
  BY DEF ChunkQueueAssumption
<1>2. ASSUME NEW n \in 0 .. Total, Read(n) PROVE ChunkIInv'
  BY <1>1, <1>2, ReadKeeps
<1>3. ASSUME NEW s \in Queues, NEW d \in Queues, AppendQueue(s, d) PROVE ChunkIInv'
  BY <1>3, AppendQueueKeeps
<1>4. ASSUME NEW s \in Queues, NEW d \in Queues, NEW len \in 1 .. Total, NEW t \in BOOLEAN,
             Steal(s, d, len, t)
      PROVE  ChunkIInv'
  BY <1>1, <1>4, StealKeeps
<1>5. ASSUME NEW n \in 0 .. Total, WriteTemp(n) PROVE ChunkIInv'
  BY <1>1, <1>5, WriteTempKeeps
<1>6. ASSUME NEW full \in BOOLEAN, WriteTempFails(full) PROVE ChunkIInv'
  BY <1>6, WriteTempFailsKeeps
<1>7. ASSUME NEW wr \in 0 .. Total, SendMem(wr) PROVE ChunkIInv'
  BY <1>1, <1>7, SendMemKeeps
<1>8. ASSUME NEW wr \in 0 .. Total, SendMems(wr) PROVE ChunkIInv'
  BY <1>1, <1>8, SendMemsKeeps
<1>9. ASSUME NEW wr \in 0 .. Total, SendFile(wr) PROVE ChunkIInv'
  BY <1>1, <1>9, SendFileKeeps
<1>10. CASE StealEnds
  BY <1>10, StealEndsKeeps
<1>11. CASE StealEmpty
  BY <1>11, StealEmptyKeeps
<1>12. CASE StealWhole
  BY <1>12, StealWholeKeeps
<1>13. CASE StealPart
  BY <1>13, StealPartKeeps
<1>14. CASE StealToFile
  BY <1>14, StealToFileKeeps
<1>15. CASE TempTooLarge
  BY <1>15, TempTooLargeKeeps
<1>16. CASE GetTempfile
  BY <1>16, GetTempfileKeeps
<1>17. CASE Send
  BY <1>17, SendKeeps
<1>18. CASE SendEnds
  BY <1>18, SendEndsKeeps
<1>19. CASE Reset
  BY <1>19, ResetKeeps
<1>20. CASE UNCHANGED vars
  BY <1>20, StutterKeeps
<1> QED
  BY <1>2, <1>3, <1>4, <1>5, <1>6, <1>7, <1>8, <1>9, <1>10, <1>11, <1>12, <1>13, <1>14, <1>15, <1>16, <1>17,
     <1>18, <1>19, <1>20 DEF Next

\* However the bytes of a body are cut into chunks, moved between the queues, copied to temporary files and
\* written in part, and whichever of the calls fail, what is not given up arrives in order, none lost or
\* doubled, each queue's counters tell its length, and each temporary file has one chunk that deletes it (chunk.c:393-691).
THEOREM ChunksKept == ASSUME ChunkQueueAssumption PROVE Spec => []BytesKept
<1>1. Init => ChunkIInv
  BY InitIs
<1>2. ChunkIInv /\ [Next]_vars => ChunkIInv'
  BY NextKeeps
<1>3. ChunkIInv => BytesKept
  BY BytesAre
<1> QED BY <1>1, <1>2, <1>3, PTL DEF Spec
=============================================================================
