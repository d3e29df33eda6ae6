--------------------------- MODULE ConPoolProofs ---------------------------
(***************************************************************************)
(* What holds of the connection slots for any number of slots, workers and *)
(* descriptors.                                                            *)
(***************************************************************************)
EXTENDS ConPool, FiniteSetTheorems, TLAPS

\* Threads that have no slot, yet or any more.
Slotless == {"idle", "accepted", "counted"}

\* A thread at work has a slot.
LEMMA Working ==
  ASSUME TypeOK, NEW p \in Procs, pc[p] \notin Slotless
  PROVE  my[p] \in Conns
  <1>1. my[p] # NoCon BY DEF TypeOK, OwnSlots, Slotless
  <1>2. my[p] \in Conns \cup {NoCon} BY DEF TypeOK, VarTypes
  <1> QED BY <1>1, <1>2

\* Its step to a label at which it still has it.
LEMMA GoesOn ==
  ASSUME TypeOK, NEW p \in Procs, NEW a \in Labels, NEW b \in Labels, Goto(p, a, b),
         a \in Slotless => b \in Slotless, queue' = queue
  PROVE  OwnSlots' /\ pc' \in [Procs -> Labels] /\ my' = my
  <1>1. pc \in [Procs -> Labels] BY DEF TypeOK, VarTypes
  <1>2. pc[p] = a /\ pc' = [pc EXCEPT ![p] = b] /\ my' = my BY DEF Goto
  <1>3. pc' \in [Procs -> Labels] BY <1>1, <1>2
  <1>4. ASSUME NEW q \in Procs, pc'[q] \notin Slotless PROVE my[q] # NoCon
    <2>1. pc[q] \notin Slotless BY <1>1, <1>2, <1>4
    <2> QED BY <2>1 DEF TypeOK, OwnSlots, Slotless
  <1> QED BY <1>2, <1>3, <1>4 DEF TypeOK, OwnSlots, Slotless

\* Its last step, after which it has none; or the first, with slot c.
LEMMA Takes ==
  ASSUME TypeOK, NEW p \in Procs, NEW b \in Labels, NEW c \in Conns \cup {NoCon},
         pc' = [pc EXCEPT ![p] = b], my' = [my EXCEPT ![p] = c],
         b \notin Slotless => c # NoCon,
         p \in Threads /\ c # NoCon => ThreadOf[c] = p,
         \A t \in Threads : \A i \in 1 .. Len(queue'[t]) : ThreadOf[queue'[t][i]] = t
  PROVE  OwnSlots' /\ pc' \in [Procs -> Labels] /\ my' \in [Procs -> Conns \cup {NoCon}]
  <1>1. pc \in [Procs -> Labels] /\ my \in [Procs -> Conns \cup {NoCon}] BY DEF TypeOK, VarTypes
  <1>2. pc' \in [Procs -> Labels] /\ my' \in [Procs -> Conns \cup {NoCon}] BY <1>1
  <1>3. ASSUME NEW q \in Procs, pc'[q] \notin Slotless PROVE my'[q] # NoCon
    <2>1. CASE q = p BY <1>1, <1>3, <2>1
    <2>2. CASE q # p BY <1>1, <1>3, <2>2 DEF TypeOK, OwnSlots, Slotless
    <2> QED BY <2>1, <2>2
  <1>4. ASSUME NEW t \in Threads, my'[t] # NoCon PROVE ThreadOf[my'[t]] = t
    <2>0. t \in Procs BY DEF Procs
    <2>1. CASE t = p BY <1>1, <1>4, <2>0, <2>1
    <2>2. CASE t # p
      <3>1. my'[t] = my[t] BY <1>1, <2>0, <2>2
      <3> QED BY <1>4, <3>1 DEF TypeOK, OwnSlots
    <2> QED BY <2>1, <2>2
  <1> QED BY <1>2, <1>3, <1>4 DEF OwnSlots, Slotless

\* ... its last step, in particular.
LEMMA Leaves ==
  ASSUME TypeOK, NEW p \in Procs, NEW a \in Labels, Done(p, a),
         \A t \in Threads : \A i \in 1 .. Len(queue'[t]) : ThreadOf[queue'[t][i]] = t
  PROVE  OwnSlots' /\ pc' \in [Procs -> Labels] /\ my' \in [Procs -> Conns \cup {NoCon}]
  <1>1. pc' = [pc EXCEPT ![p] = "idle"] /\ my' = [my EXCEPT ![p] = NoCon] BY DEF Done
  <1>2. "idle" \in Labels /\ "idle" \in Slotless BY DEF Labels, Slotless
  <1> QED BY <1>1, <1>2, Takes

\* A worker's queue after one more run: its own slots only.
LEMMA QueueGrows ==
  ASSUME NEW c \in Conns, TypeOK, QueueRun(c)
  PROVE  /\ queue' \in [Threads -> Seq(Conns)]
         /\ \A t \in Threads : \A i \in 1 .. Len(queue'[t]) : ThreadOf[queue'[t][i]] = t
  <1> DEFINE u == ThreadOf[c]
             q == queue[u]
  <1>0. queue \in [Threads -> Seq(Conns)] BY DEF TypeOK, VarTypes
  <1>1. u \in Threads /\ q \in Seq(Conns) BY <1>0, ConPoolAssumption
  <1>2. queue' = [queue EXCEPT ![u] = Append(q, c)] BY <1>0, <1>1 DEF QueueRun
  <1>3. queue' \in [Threads -> Seq(Conns)] BY <1>0, <1>1, <1>2
  <1>4. ASSUME NEW t \in Threads, NEW i \in 1 .. Len(queue'[t])
        PROVE  ThreadOf[queue'[t][i]] = t
    <2>1. CASE t = u
      <3>1. queue'[t] = Append(q, c) BY <1>0, <1>1, <1>2, <2>1
      <3>2. Len(queue'[t]) = Len(q) + 1 BY <1>1, <3>1
      <3>3. CASE i = Len(q) + 1 BY <1>1, <3>1, <3>3, <2>1
      <3>4. CASE i \in 1 .. Len(q) BY <1>1, <3>1, <3>4, <2>1 DEF TypeOK, OwnSlots
      <3> QED BY <1>1, <3>2, <3>3, <3>4
    <2>2. CASE t # u
      <3>1. queue'[t] = queue[t] BY <1>0, <1>2, <2>2
      <3> QED BY <3>1 DEF TypeOK, OwnSlots
    <2> QED BY <2>1, <2>2
  <1> QED BY <1>3, <1>4

\* ... and after its first run was taken.
LEMMA QueueShrinks ==
  ASSUME NEW t \in Threads, TypeOK, TakeRun(t)
  PROVE  /\ Head(queue[t]) \in Conns /\ ThreadOf[Head(queue[t])] = t
         /\ queue' \in [Threads -> Seq(Conns)]
         /\ \A u \in Threads : \A i \in 1 .. Len(queue'[u]) : ThreadOf[queue'[u][i]] = u
  <1> DEFINE q == queue[t]
  <1>0. queue \in [Threads -> Seq(Conns)] BY DEF TypeOK, VarTypes
  <1>1. q \in Seq(Conns) /\ q # <<>> BY <1>0 DEF TakeRun
  <1>2. /\ Head(q) = q[1] /\ q[1] \in Conns /\ 1 \in 1 .. Len(q)
        /\ Tail(q) \in Seq(Conns) /\ Len(Tail(q)) = Len(q) - 1
        /\ \A i \in 1 .. Len(Tail(q)) : Tail(q)[i] = q[i + 1] /\ i + 1 \in 1 .. Len(q)
    BY <1>1
  <1>3. queue' = [queue EXCEPT ![t] = Tail(q)] BY <1>0 DEF TakeRun
  <1>4. \A i \in 1 .. Len(q) : ThreadOf[q[i]] = t BY DEF TypeOK, OwnSlots
  <1>5. queue' \in [Threads -> Seq(Conns)] BY <1>0, <1>2, <1>3
  <1>6. ASSUME NEW u \in Threads, NEW i \in 1 .. Len(queue'[u]) PROVE ThreadOf[queue'[u][i]] = u
    <2>1. CASE u = t
      <3>1. queue'[u] = Tail(q) BY <1>0, <1>3, <2>1
      <3>2. queue'[u][i] = q[i + 1] /\ i + 1 \in 1 .. Len(q) BY <1>2, <1>6, <3>1
      <3> QED BY <1>4, <2>1, <3>2
    <2>2. CASE u # t
      <3>1. queue'[u] = queue[u] BY <1>0, <1>3, <2>2
      <3> QED BY <3>1 DEF TypeOK, OwnSlots
    <2> QED BY <2>1, <2>2
  <1> QED BY <1>2, <1>4, <1>5, <1>6

\* Type correctness of the slots, the queues and the threads (ConPool!TypeOK).
THEOREM TypeCorrect == Spec => []TypeOK
  <1>1. Init => TypeOK
    <2> SUFFICES ASSUME Init PROVE TypeOK OBVIOUS
    <2>1. VarTypes BY ConPoolAssumption DEF Init, VarTypes, Procs, Labels, ConStates
    <2>2. OwnSlots BY DEF Init, OwnSlots, Procs
    <2> QED BY <2>1, <2>2 DEF TypeOK
  <1>2. TypeOK /\ [Next]_vars => TypeOK'
    <2> SUFFICES ASSUME TypeOK, [Next]_vars PROVE TypeOK' OBVIOUS
    <2> USE DEF TypeOK, slots
    <2>0. /\ Main \in Procs /\ \A l \in Closing \cup {"idle", "accepted", "counted", "got",
             "registered", "started", "timeout", "run", "rest"} : l \in Labels
          /\ \A l \in Labels : l \in Slotless <=> l \in {"idle", "accepted", "counted"}
      BY DEF Procs, Labels, Slotless
    <2>1. CASE Accept
      <3>1. OwnSlots' /\ pc' \in [Procs -> Labels] /\ my' = my
        BY <2>0, <2>1, GoesOn DEF Accept
      <3>2. PICK f \in Fds : openFds' = openFds \cup {f} /\ myfd' = [myfd EXCEPT ![Main] = f]
        BY <2>1 DEF Accept
      <3>3. VarTypes' BY <2>1, <3>1, <3>2 DEF Accept, VarTypes
      <3> QED BY <3>1, <3>3
    <2>2. CASE AcceptCount
      <3>1. OwnSlots' /\ pc' \in [Procs -> Labels] /\ my' = my
        BY <2>0, <2>2, GoesOn DEF AcceptCount
      <3>2. curFds' \in Int BY <2>2 DEF AcceptCount, VarTypes
      <3>3. VarTypes' BY <2>2, <3>1, <3>2 DEF AcceptCount, VarTypes
      <3> QED BY <3>1, <3>3
    <2>3. CASE AcceptSlot
      <3>1. PICK c \in Conns : my' = [my EXCEPT ![Main] = c] /\ used' = [used EXCEPT ![c] = TRUE]
        BY <2>3 DEF AcceptSlot
      <3>2. pc' = [pc EXCEPT ![Main] = "got"] /\ queue' = queue BY <2>3 DEF AcceptSlot
      <3>3. \A t \in Threads : \A i \in 1 .. Len(queue'[t]) : ThreadOf[queue'[t][i]] = t
        BY <3>2 DEF OwnSlots
      <3>4. c # NoCon /\ Main \notin Threads BY ConPoolAssumption
      <3>5. OwnSlots' /\ pc' \in [Procs -> Labels] /\ my' \in [Procs -> Conns \cup {NoCon}]
        BY <2>0, <3>1, <3>2, <3>3, <3>4, Takes
      <3>6. used' \in [Conns -> BOOLEAN] BY <3>1 DEF VarTypes
      <3>7. VarTypes' BY <2>3, <3>5, <3>6 DEF AcceptSlot, VarTypes
      <3> QED BY <3>5, <3>7
    <2>4. CASE AcceptRegister
      <3>1. OwnSlots' /\ pc' \in [Procs -> Labels] /\ my' = my
        BY <2>0, <2>4, GoesOn DEF AcceptRegister
      <3>2. my[Main] \in Conns /\ myfd[Main] \in Fds \cup {NoFd}
        BY <2>0, <2>4, Working DEF AcceptRegister, Goto, VarTypes
      <3>3. fd' \in [Conns -> Fds \cup {NoFd}] /\ hfd' \in [Conns -> Fds \cup {NoFd}]
        BY <2>4, <3>2 DEF AcceptRegister, VarTypes
      <3>4. want' \in [Conns -> BOOLEAN] /\ reg' \in [Fds -> Conns \cup {NoCon}]
        BY <2>4, <3>2 DEF AcceptRegister, VarTypes
      <3>5. VarTypes' BY <2>4, <3>1, <3>3, <3>4 DEF AcceptRegister, VarTypes
      <3> QED BY <3>1, <3>5
    <2>5. CASE AcceptStart
      <3>1. OwnSlots' /\ pc' \in [Procs -> Labels] /\ my' = my
        BY <2>0, <2>5, GoesOn DEF AcceptStart
      <3>2. st' \in [Conns -> ConStates] BY <2>5 DEF AcceptStart, VarTypes, ConStates
      <3>3. VarTypes' BY <2>5, <3>1, <3>2 DEF AcceptStart, VarTypes
      <3> QED BY <3>1, <3>3
    <2>6. CASE AcceptQueue
      <3>1. my[Main] \in Conns BY <2>0, <2>6, Working DEF AcceptQueue, Done
      <3>2. QueueRun(my[Main]) BY <2>6 DEF AcceptQueue
      <3>3. OwnSlots' /\ pc' \in [Procs -> Labels] /\ my' \in [Procs -> Conns \cup {NoCon}]
        BY <2>0, <2>6, <3>1, <3>2, QueueGrows, Leaves DEF AcceptQueue
      <3>4. queue' \in [Threads -> Seq(Conns)] BY <3>1, <3>2, QueueGrows
      <3>5. VarTypes' BY <2>6, <3>3, <3>4 DEF AcceptQueue, VarTypes
      <3> QED BY <3>3, <3>5
    <2>7. CASE AcceptFail
      <3>1. OwnSlots' /\ pc' \in [Procs -> Labels] /\ my' = my
        BY <2>0, <2>7, GoesOn DEF AcceptFail, EnterClose, Closing
      <3>2. my[Main] \in Conns BY <2>0, <2>7, Working DEF AcceptFail, EnterClose, Goto
      <3>3. myfd' \in [Procs -> Fds \cup {NoFd}]
        BY <2>7, <3>2 DEF AcceptFail, EnterClose, VarTypes
      <3>4. VarTypes' BY <2>7, <3>1, <3>3 DEF AcceptFail, EnterClose, VarTypes
      <3> QED BY <3>1, <3>4
    <2>8. CASE TimerEnd
      <3>1. my[Main] \in Conns BY <2>0, <2>8, Working DEF TimerEnd, Done
      <3>2. QueueRun(my[Main]) BY <2>8 DEF TimerEnd
      <3>3. OwnSlots' /\ pc' \in [Procs -> Labels] /\ my' \in [Procs -> Conns \cup {NoCon}]
        BY <2>0, <2>8, <3>1, <3>2, QueueGrows, Leaves DEF TimerEnd
      <3>4. queue' \in [Threads -> Seq(Conns)] BY <3>1, <3>2, QueueGrows
      <3>5. st' \in [Conns -> ConStates] BY <2>8 DEF TimerEnd, VarTypes, ConStates
      <3>6. VarTypes' BY <2>8, <3>3, <3>4, <3>5 DEF TimerEnd, VarTypes
      <3> QED BY <3>3, <3>6
    <2>9. ASSUME NEW c \in Conns, TimerLook(c) PROVE TypeOK'
      <3>1. /\ pc' = [pc EXCEPT ![Main] = "timeout"] /\ my' = [my EXCEPT ![Main] = c]
            /\ queue' = queue
        BY <2>9 DEF TimerLook
      <3>2. \A t \in Threads : \A i \in 1 .. Len(queue'[t]) : ThreadOf[queue'[t][i]] = t
        BY <3>1 DEF OwnSlots
      <3>3. c # NoCon /\ Main \notin Threads BY ConPoolAssumption
      <3>4. OwnSlots' /\ pc' \in [Procs -> Labels] /\ my' \in [Procs -> Conns \cup {NoCon}]
        BY <2>0, <3>1, <3>2, <3>3, Takes
      <3>5. VarTypes' BY <2>9, <3>4 DEF TimerLook, VarTypes
      <3> QED BY <3>4, <3>5
    <2>10. ASSUME NEW c \in Conns, Timer(c) PROVE TypeOK'
      <3>1. QueueRun(c) /\ pc' = pc /\ my' = my BY <2>10 DEF Timer
      <3>2. queue' \in [Threads -> Seq(Conns)] BY <3>1, QueueGrows
      <3>3. OwnSlots' BY <3>1, QueueGrows DEF OwnSlots
      <3>4. st' \in [Conns -> ConStates] BY <2>10 DEF Timer, VarTypes, ConStates
      <3>5. VarTypes' BY <2>10, <3>2, <3>4 DEF Timer, VarTypes
      <3> QED BY <3>3, <3>5
    <2>11. ASSUME NEW p \in Procs, Close(p) PROVE TypeOK'
      <3>1. CASE CloseEvents(p)
        <4>1. OwnSlots' /\ pc' \in [Procs -> Labels] /\ my' = my
          <5>1. CASE myfd[p] # NoFd BY <2>0, <3>1, <5>1, GoesOn DEF CloseEvents, Closing
          <5>2. CASE myfd[p] = NoFd BY <2>0, <3>1, <5>2, GoesOn DEF CloseEvents, Closing
          <5> QED BY <5>1, <5>2
        <4>2. reg' \in [Fds -> Conns \cup {NoCon}] BY <3>1 DEF CloseEvents, VarTypes
        <4>3. VarTypes' BY <3>1, <4>1, <4>2 DEF CloseEvents, VarTypes
        <4> QED BY <4>1, <4>3
      <3>2. CASE CloseFd(p)
        <4>1. OwnSlots' /\ pc' \in [Procs -> Labels] /\ my' = my
          <5>1. CASE fd[my[p]] \in openFds BY <2>0, <3>2, <5>1, GoesOn DEF CloseFd, Closing
          <5>2. CASE fd[my[p]] \notin openFds BY <2>0, <3>2, <5>2, GoesOn DEF CloseFd, Closing
          <5> QED BY <5>1, <5>2
        <4>2. openFds' \subseteq Fds BY <3>2 DEF CloseFd, VarTypes
        <4>3. VarTypes' BY <3>2, <4>1, <4>2 DEF CloseFd, VarTypes
        <4> QED BY <4>1, <4>3
      <3>3. CASE CloseCount(p)
        <4>1. OwnSlots' /\ pc' \in [Procs -> Labels] /\ my' = my
          BY <2>0, <3>3, GoesOn DEF CloseCount, Closing
        <4>2. curFds' \in Int BY <3>3 DEF CloseCount, VarTypes
        <4>3. VarTypes' BY <3>3, <4>1, <4>2 DEF CloseCount, VarTypes
        <4> QED BY <4>1, <4>3
      <3>4. CASE CloseUnset(p)
        <4>1. OwnSlots' /\ pc' \in [Procs -> Labels] /\ my' = my
          BY <2>0, <3>4, GoesOn DEF CloseUnset, Closing
        <4>2. fd' \in [Conns -> Fds \cup {NoFd}] BY <3>4 DEF CloseUnset, VarTypes
        <4>3. VarTypes' BY <3>4, <4>1, <4>2 DEF CloseUnset, VarTypes
        <4> QED BY <4>1, <4>3
      <3>5. CASE CloseRelease(p)
        <4>1. OwnSlots' /\ pc' \in [Procs -> Labels] /\ my' = my
          BY <2>0, <3>5, GoesOn DEF CloseRelease, Closing
        <4>2. used' \in [Conns -> BOOLEAN] BY <3>5 DEF CloseRelease, VarTypes
        <4>3. VarTypes' BY <3>5, <4>1, <4>2 DEF CloseRelease, VarTypes
        <4> QED BY <4>1, <4>3
      <3>6. CASE CloseSetState(p)
        <4>1. st' \in [Conns -> ConStates] BY <3>6 DEF CloseSetState, VarTypes, ConStates
        <4>2. queue' = queue BY <3>6 DEF CloseSetState
        <4>3. OwnSlots' /\ pc' \in [Procs -> Labels] /\ my' \in [Procs -> Conns \cup {NoCon}]
          <5>1. CASE p = Main
            <6>1. Done(p, "setst") /\ "setst" \in Labels
              BY <2>0, <3>6, <5>1 DEF CloseSetState, Closing
            <6>2. \A t \in Threads : \A i \in 1 .. Len(queue'[t]) : ThreadOf[queue'[t][i]] = t
              BY <4>2 DEF OwnSlots
            <6> QED BY <6>1, <6>2, Leaves
          <5>2. CASE p # Main
            <6>1. Goto(p, "setst", "run") /\ "setst" \in Labels /\ "setst" \notin Slotless
              BY <2>0, <3>6, <5>2 DEF CloseSetState, Closing, Slotless
            <6>2. OwnSlots' /\ pc' \in [Procs -> Labels] /\ my' = my
              BY <2>0, <4>2, <6>1, GoesOn
            <6> QED BY <6>2 DEF VarTypes
          <5> QED BY <5>1, <5>2
        <4>4. VarTypes' BY <3>6, <4>1, <4>3 DEF CloseSetState, VarTypes
        <4> QED BY <4>3, <4>4
      <3> QED BY <2>11, <3>1, <3>2, <3>3, <3>4, <3>5, <3>6 DEF Close
    <2>12. ASSUME NEW t \in Threads, WorkerStep(t) PROVE TypeOK'
      <3>0. t \in Procs BY DEF Procs
      <3>1. CASE TakeRun(t)
        <4> DEFINE c == Head(queue[t])
        <4>1. pc' = [pc EXCEPT ![t] = "run"] /\ my' = [my EXCEPT ![t] = c] BY <3>1 DEF TakeRun
        <4>2. /\ c \in Conns /\ ThreadOf[c] = t /\ queue' \in [Threads -> Seq(Conns)]
              /\ \A u \in Threads : \A i \in 1 .. Len(queue'[u]) : ThreadOf[queue'[u][i]] = u
          BY <3>1, QueueShrinks
        <4>3. c # NoCon BY <4>2, ConPoolAssumption
        <4> HIDE DEF c
        <4>4. OwnSlots' /\ pc' \in [Procs -> Labels] /\ my' \in [Procs -> Conns \cup {NoCon}]
          BY <2>0, <3>0, <4>1, <4>2, <4>3, Takes
        <4>5. VarTypes' BY <3>1, <4>2, <4>4 DEF TakeRun, VarTypes
        <4> QED BY <4>4, <4>5
      <3>2. CASE TakeEvent(t)
        <4>1. PICK f \in Fds : /\ reg[f] # NoCon /\ ThreadOf[reg[f]] = t
                               /\ my' = [my EXCEPT ![t] = reg[f]]
                               /\ \/ UNCHANGED st
                                  \/ st' = [st EXCEPT ![reg[f]] = "ERROR"]
          BY <3>2 DEF TakeEvent
        <4>2. reg[f] \in Conns BY <4>1 DEF VarTypes
        <4>3. st' \in [Conns -> ConStates]
          <5>1. CASE UNCHANGED st BY <5>1 DEF VarTypes
          <5>2. CASE st' = [st EXCEPT ![reg[f]] = "ERROR"] BY <5>2 DEF VarTypes, ConStates
          <5> QED BY <4>1, <5>1, <5>2
        <4>4. pc' = [pc EXCEPT ![t] = "run"] /\ queue' = queue BY <3>2 DEF TakeEvent
        <4>5. \A u \in Threads : \A i \in 1 .. Len(queue'[u]) : ThreadOf[queue'[u][i]] = u
          BY <4>4 DEF OwnSlots
        <4>6. OwnSlots' /\ pc' \in [Procs -> Labels] /\ my' \in [Procs -> Conns \cup {NoCon}]
          BY <2>0, <3>0, <4>1, <4>2, <4>4, <4>5, Takes
        <4>7. VarTypes' BY <3>2, <4>3, <4>6 DEF TakeEvent, VarTypes
        <4> QED BY <4>6, <4>7
      <3>3. ASSUME NEW a \in ConStates, NEW b \in ConStates, Move(t, a, b) PROVE TypeOK'
        <4>1. OwnSlots' /\ pc' \in [Procs -> Labels] /\ my' = my
          BY <2>0, <3>0, <3>3, GoesOn DEF Move
        <4>2. st' \in [Conns -> ConStates] BY <3>3 DEF Move, VarTypes
        <4>3. VarTypes' BY <3>3, <4>1, <4>2 DEF Move, VarTypes
        <4> QED BY <4>1, <4>3
      <3>4. {"READ", "REQUEST_START", "ERROR", "CLOSE"} \subseteq ConStates BY DEF ConStates
      <3>5. CASE RunRequestStart(t) BY <3>3, <3>4, <3>5 DEF RunRequestStart
      <3>6. CASE RunServe(t) BY <3>3, <3>4, <3>6 DEF RunServe
      <3>7. CASE RunShutdown(t) BY <3>3, <3>4, <3>7 DEF RunShutdown
      <3>8. CASE RunClose(t)
        <4>1. OwnSlots' /\ pc' \in [Procs -> Labels] /\ my' = my
          BY <2>0, <3>0, <3>8, GoesOn DEF RunClose, EnterClose, Closing
        <4>2. my[t] \in Conns BY <2>0, <3>0, <3>8, Working DEF RunClose
        <4>3. myfd' \in [Procs -> Fds \cup {NoFd}]
          BY <3>8, <4>2 DEF RunClose, EnterClose, VarTypes
        <4>4. VarTypes' BY <3>8, <4>1, <4>3 DEF RunClose, EnterClose, VarTypes
        <4> QED BY <4>1, <4>4
      <3>9. CASE RunRest(t)
        <4>1. OwnSlots' /\ pc' \in [Procs -> Labels] /\ my' = my
          BY <2>0, <3>0, <3>9, GoesOn DEF RunRest
        <4>2. VarTypes' BY <3>9, <4>1 DEF RunRest, VarTypes
        <4> QED BY <4>1, <4>2
      <3>10. CASE FdeventSet(t)
        <4>1. queue' = queue BY <3>10 DEF FdeventSet
        <4>2. \A u \in Threads : \A i \in 1 .. Len(queue'[u]) : ThreadOf[queue'[u][i]] = u
          BY <4>1 DEF OwnSlots
        <4>3. OwnSlots' /\ pc' \in [Procs -> Labels] /\ my' \in [Procs -> Conns \cup {NoCon}]
          BY <2>0, <3>0, <3>10, <4>2, Leaves DEF FdeventSet
        <4>4. want' \in [Conns -> BOOLEAN]
          <5> DEFINE x == st[my[t]] \in {"READ", "CLOSE"}
          <5>1. x \in BOOLEAN OBVIOUS
          <5>2. want' = want \/ want' = [want EXCEPT ![my[t]] = x] BY <3>10 DEF FdeventSet
          <5> HIDE DEF x
          <5> QED BY <5>1, <5>2 DEF VarTypes
        <4>5. VarTypes' BY <3>10, <4>3, <4>4 DEF FdeventSet, VarTypes
        <4> QED BY <4>3, <4>5
      <3> QED BY <2>12, <3>1, <3>2, <3>5, <3>6, <3>7, <3>8, <3>9, <3>10 DEF WorkerStep
    <2>13. CASE UNCHANGED vars BY <2>13 DEF vars, VarTypes, OwnSlots
    <2> QED BY <2>1, <2>2, <2>3, <2>4, <2>5, <2>6, <2>7, <2>8, <2>9, <2>10, <2>11, <2>12, <2>13
            DEF Next, MainStep
  <1> QED BY <1>1, <1>2, PTL DEF Spec

-----------------------------------------------------------------------------
(* The count of descriptors.                                                *)

\* What a thread's step to label b does to the set of those about to count.
LEMMA CountingEntered ==
  ASSUME TypeOK, NEW p \in Procs, pc' = [pc EXCEPT ![p] = "count"]
  PROVE  Counting' = Counting \cup {p}
  BY DEF Counting, TypeOK, VarTypes

\* ... and what a step away from counting does.
LEMMA CountingLeft ==
  ASSUME TypeOK, NEW p \in Procs, NEW b \in Labels \ {"count"}, pc' = [pc EXCEPT ![p] = b]
  PROVE  Counting' = Counting \ {p}
  BY DEF Counting, TypeOK, VarTypes

\* Both sides of the account are counts of finite sets.
LEMMA FiniteCounts ==
  ASSUME TypeOK
  PROVE  /\ IsFiniteSet(openFds) /\ Cardinality(openFds) \in Nat
         /\ IsFiniteSet(Counting) /\ Cardinality(Counting) \in Nat
  <1>1. IsFiniteSet(openFds) BY ConPoolAssumption, FS_Subset DEF TypeOK, VarTypes
  <1>2. IsFiniteSet({Main}) BY FS_Singleton
  <1>3. IsFiniteSet(Procs) BY <1>2, ConPoolAssumption, FS_Union DEF Procs
  <1>4. Counting \subseteq Procs BY DEF Counting
  <1>5. IsFiniteSet(Counting) BY <1>3, <1>4, FS_Subset
  <1> QED BY <1>1, <1>5, FS_CardinalityType

\* A step that opens, closes and counts nothing.
LEMMA CountsUntouched ==
  ASSUME TypeOK, Accounting, openFds' = openFds, curFds' = curFds,
         NEW p \in Procs, NEW b \in Labels \ {"count", "accepted"}, pc' = [pc EXCEPT ![p] = b],
         pc[p] # "count", p = Main => pc[p] # "accepted"
  PROVE  Accounting'
  <1>1. Counting' = Counting
    <2>1. Counting' = Counting \ {p} BY CountingLeft
    <2> QED BY <2>1 DEF Counting
  <1>2. pc'[Main] = "accepted" <=> pc[Main] = "accepted" BY DEF TypeOK, VarTypes, Procs
  <1> QED BY <1>1, <1>2 DEF Accounting

\* server_cur_fds_g never drifts (ConPool!Accounting), whatever the threads collide on:
\* EagerReuse and SplitTimer are not assumed away.
THEOREM FdsAccounted == Spec => []Accounting
  <1>1. Init => Accounting
    <2> SUFFICES ASSUME Init PROVE Accounting OBVIOUS
    <2>1. Counting = {} BY DEF Init, Counting
    <2>2. openFds = {} /\ curFds = 0 /\ pc[Main] = "idle" BY DEF Init, Procs
    <2> QED BY <2>1, <2>2, FS_EmptySet DEF Accounting
  <1>2. TypeOK /\ Accounting /\ [Next]_vars => Accounting'
    <2> SUFFICES ASSUME TypeOK, Accounting, [Next]_vars PROVE Accounting' OBVIOUS
    <2> USE DEF Goto, Done, slots, Labels, Closing
    <2>0. Main \in Procs BY DEF Procs
    <2>1. CASE Accept
      <3>1. PICK f \in Fds \ openFds : openFds' = openFds \cup {f} BY <2>1 DEF Accept
      <3>2. Cardinality(openFds') = Cardinality(openFds) + 1
        BY <3>1, FiniteCounts, FS_AddElement
      <3>3. /\ pc[Main] = "idle" /\ pc' = [pc EXCEPT ![Main] = "accepted"] /\ curFds' = curFds
        BY <2>1 DEF Accept
      <3>4. Counting' = Counting
        <4>1. "accepted" \in Labels \ {"count"} BY DEF Labels, Closing
        <4>2. Counting' = Counting \ {Main} BY <3>3, <2>0, <4>1, CountingLeft
        <4> QED BY <3>3, <4>2 DEF Counting
      <3>5. pc'[Main] = "accepted" BY <3>3, <2>0 DEF TypeOK, VarTypes
      <3>6. curFds \in Int /\ pc[Main] # "accepted" BY <3>3 DEF TypeOK, VarTypes
      <3> QED BY <3>2, <3>3, <3>4, <3>5, <3>6, FiniteCounts DEF Accounting
    <2>2. CASE AcceptCount
      <3>1. /\ pc[Main] = "accepted" /\ pc' = [pc EXCEPT ![Main] = "counted"]
            /\ curFds' = curFds + 1 /\ openFds' = openFds
        BY <2>2 DEF AcceptCount
      <3>2. Counting' = Counting
        <4>1. "counted" \in Labels \ {"count"} BY DEF Labels, Closing
        <4>2. Counting' = Counting \ {Main} BY <3>1, <2>0, <4>1, CountingLeft
        <4> QED BY <3>1, <4>2 DEF Counting
      <3>3. pc'[Main] = "counted" BY <3>1, <2>0 DEF TypeOK, VarTypes
      <3> QED BY <3>1, <3>2, <3>3, FiniteCounts DEF Accounting, TypeOK, VarTypes
    <2>3. CASE AcceptSlot BY <2>0, <2>3, CountsUntouched DEF AcceptSlot
    <2>4. CASE AcceptRegister BY <2>0, <2>4, CountsUntouched DEF AcceptRegister
    <2>5. CASE AcceptStart BY <2>0, <2>5, CountsUntouched DEF AcceptStart
    <2>6. CASE AcceptQueue BY <2>0, <2>6, CountsUntouched DEF AcceptQueue
    <2>7. CASE AcceptFail BY <2>0, <2>7, CountsUntouched DEF AcceptFail, EnterClose
    <2>8. CASE TimerEnd BY <2>0, <2>8, CountsUntouched DEF TimerEnd
    <2>9. ASSUME NEW c \in Conns, TimerLook(c) PROVE Accounting'
      BY <2>0, <2>9, CountsUntouched DEF TimerLook
    <2>10. ASSUME NEW c \in Conns, Timer(c) PROVE Accounting'
      BY <2>10 DEF Timer, Accounting, Counting
    <2>11. ASSUME NEW p \in Procs, Close(p) PROVE Accounting'
      <3>1. CASE CloseEvents(p)
        <4>1. CASE myfd[p] # NoFd BY <2>11, <3>1, <4>1, CountsUntouched DEF CloseEvents
        <4>2. CASE myfd[p] = NoFd BY <2>11, <3>1, <4>2, CountsUntouched DEF CloseEvents
        <4> QED BY <4>1, <4>2
      <3>2. CASE CloseFd(p)
        <4> DEFINE f == fd[my[p]]
        <4>1. /\ pc[p] = "close" /\ curFds' = curFds /\ openFds' = openFds \ {f}
          BY <3>2 DEF CloseFd
        <4>2. CASE f \in openFds
          <5>1. pc' = [pc EXCEPT ![p] = "count"] BY <3>2, <4>2 DEF CloseFd
          <5>2. Counting' = Counting \cup {p} BY <2>11, <5>1, CountingEntered
          <5>3. p \notin Counting BY <4>1 DEF Counting
          <5>4. Cardinality(Counting') = Cardinality(Counting) + 1
            BY <5>2, <5>3, FiniteCounts, FS_AddElement
          <5>5. Cardinality(openFds') = Cardinality(openFds) - 1
            BY <4>1, <4>2, FiniteCounts, FS_RemoveElement
          <5>6. pc'[Main] = "accepted" <=> pc[Main] = "accepted"
            BY <2>0, <2>11, <4>1, <5>1 DEF TypeOK, VarTypes
          <5> QED BY <4>1, <5>4, <5>5, <5>6, FiniteCounts DEF Accounting, TypeOK, VarTypes
        <4>3. CASE f \notin openFds
          <5>1. pc' = [pc EXCEPT ![p] = "unset"] BY <3>2, <4>3 DEF CloseFd
          <5>2. openFds' = openFds BY <4>1, <4>3
          <5> QED BY <2>11, <4>1, <5>1, <5>2, CountsUntouched
        <4> QED BY <4>2, <4>3
      <3>3. CASE CloseCount(p)
        <4>1. /\ pc[p] = "count" /\ pc' = [pc EXCEPT ![p] = "unset"]
              /\ curFds' = curFds - 1 /\ openFds' = openFds
          BY <3>3 DEF CloseCount
        <4>2. Counting' = Counting \ {p}
          <5>1. "unset" \in Labels \ {"count"} BY DEF Labels, Closing
          <5> QED BY <2>11, <4>1, <5>1, CountingLeft
        <4>3. p \in Counting BY <2>11, <4>1 DEF Counting
        <4>4. Cardinality(Counting') = Cardinality(Counting) - 1
          BY <4>2, <4>3, FiniteCounts, FS_RemoveElement
        <4>5. pc'[Main] = "accepted" <=> pc[Main] = "accepted" BY <2>0, <2>11, <4>1 DEF TypeOK, VarTypes
        <4>6. curFds \in Int BY DEF TypeOK, VarTypes
        <4> QED BY <4>1, <4>4, <4>5, <4>6, FiniteCounts DEF Accounting
      <3>4. CASE CloseUnset(p) BY <2>11, <3>4, CountsUntouched DEF CloseUnset
      <3>5. CASE CloseRelease(p) BY <2>11, <3>5, CountsUntouched DEF CloseRelease
      <3>6. CASE CloseSetState(p)
        <4>1. CASE p = Main BY <2>11, <3>6, <4>1, CountsUntouched DEF CloseSetState
        <4>2. CASE p # Main BY <2>11, <3>6, <4>2, CountsUntouched DEF CloseSetState
        <4> QED BY <4>1, <4>2
      <3> QED BY <2>11, <3>1, <3>2, <3>3, <3>4, <3>5, <3>6 DEF Close
    <2>12. ASSUME NEW t \in Threads, WorkerStep(t) PROVE Accounting'
      <3>0. t \in Procs /\ t # Main BY ConPoolAssumption DEF Procs
      <3>1. CASE TakeRun(t) BY <3>0, <3>1, CountsUntouched DEF TakeRun
      <3>2. CASE TakeEvent(t) BY <3>0, <3>2, CountsUntouched DEF TakeEvent
      <3>3. CASE RunRequestStart(t) BY <3>0, <3>3, CountsUntouched DEF RunRequestStart, Move
      <3>4. CASE RunServe(t) BY <3>0, <3>4, CountsUntouched DEF RunServe, Move
      <3>5. CASE RunShutdown(t) BY <3>0, <3>5, CountsUntouched DEF RunShutdown, Move
      <3>6. CASE RunClose(t) BY <3>0, <3>6, CountsUntouched DEF RunClose, EnterClose
      <3>7. CASE RunRest(t) BY <3>0, <3>7, CountsUntouched DEF RunRest
      <3>8. CASE FdeventSet(t) BY <3>0, <3>8, CountsUntouched DEF FdeventSet
      <3> QED BY <2>12, <3>1, <3>2, <3>3, <3>4, <3>5, <3>6, <3>7, <3>8 DEF WorkerStep
    <2>13. CASE UNCHANGED vars BY <2>13 DEF vars, Accounting, Counting
    <2> QED BY <2>1, <2>2, <2>3, <2>4, <2>5, <2>6, <2>7, <2>8, <2>9, <2>10, <2>11, <2>12, <2>13
            DEF Next, MainStep
  <1> QED BY <1>1, <1>2, TypeCorrect, PTL DEF Spec

-----------------------------------------------------------------------------
(***************************************************************************)
(* Who owns the slots and the descriptors.  ConPool!Ownership is inductive *)
(* when a slot is handed out only once nobody is on it (~EagerReuse) and   *)
(* the timer's look and verdict are one (~SplitTimer); a lemma per action  *)
(* proves its step.                                                        *)
(***************************************************************************)

\* Labels of a worker that is not closing.
Served == {"idle", "run", "rest"}

\* A step that changes neither who holds which descriptor nor what is registered.
LEMMA SameView ==
  ASSUME TypeOK, Ownership, UNCHANGED <<openFds, reg, fd, hfd>>,
         \A c \in Conns, f \in Fds : Holds(c, f)' <=> Holds(c, f),
         \A c \in Conns : Bound(c)' <=> Bound(c),
         \A f \in Fds : Pending(f)' <=> Pending(f),
         pc'[Main] \in {"accepted", "counted", "got"} => myfd'[Main] # NoFd,
         \A q \in Procs : pc'[q] = "close" => pc[q] = "close" /\ my'[q] = my[q]
  PROVE  BoundToOpen' /\ RegisteredBound' /\ PendingFree' /\ OpenHeld' /\ ClosesOwn'
  <1>1. BoundToOpen' BY DEF Ownership, BoundToOpen
  <1>2. RegisteredBound'
    <2> SUFFICES ASSUME NEW f \in Fds, reg[f] # NoCon PROVE Bound(reg[f])' /\ fd[reg[f]] = f
      BY DEF RegisteredBound
    <2>1. reg[f] \in Conns BY DEF TypeOK, VarTypes
    <2> QED BY <2>1 DEF Ownership, RegisteredBound
  <1>3. PendingFree' BY DEF Ownership, PendingFree
  <1>4. ClosesOwn'
    <2> SUFFICES ASSUME NEW p \in Procs, pc'[p] = "close" PROVE LastOf(my[p], fd[my[p]])'
      BY DEF ClosesOwn
    <2>1. pc[p] = "close" /\ my'[p] = my[p] OBVIOUS
    <2>2. LastOf(my[p], fd[my[p]]) BY <2>1 DEF Ownership, ClosesOwn
    <2>3. PICK f \in Fds : f = fd[my[p]] BY <2>2 DEF LastOf, TypeOK, VarTypes
    <2>4. fd'[my'[p]] = f BY <2>1, <2>3
    <2> QED BY <2>1, <2>2, <2>3, <2>4 DEF LastOf
  <1>5. OpenHeld' BY DEF Ownership, OpenHeld, TypeOK, VarTypes
  <1> QED BY <1>1, <1>2, <1>3, <1>4, <1>5

\* Steps of a worker that serves, but does not close.
LEMMA ServingKeeps ==
  ASSUME TypeOK, Ownership, NEW t \in Threads, NEW b \in Served, NEW d \in Conns \cup {NoCon},
         pc[t] \in Served, pc' = [pc EXCEPT ![t] = b], my' = [my EXCEPT ![t] = d],
         UNCHANGED <<openFds, reg, used, fd, hfd, myfd>>
  PROVE  Stages' /\ BoundToOpen' /\ RegisteredBound' /\ PendingFree' /\ OpenHeld' /\ ClosesOwn'
  <1>0. t \in Procs /\ t # Main /\ Main \in Procs BY ConPoolAssumption DEF Procs
  <1>1. /\ pc \in [Procs -> Labels] /\ my \in [Procs -> Conns \cup {NoCon}]
    BY DEF TypeOK, VarTypes
  <1>2. pc'[t] = b /\ \A q \in Procs : q # t => pc'[q] = pc[q] /\ my'[q] = my[q]
    BY <1>0, <1>1
  <1>3. \A q \in Procs, l \in Labels \ Served :
          pc'[q] = l <=> pc[q] = l
    BY <1>2 DEF Served
  <1>4. \A q \in Procs : pc[q] \notin Served => my'[q] = my[q] /\ pc'[q] = pc[q]
    BY <1>2
  <1>5. \A q \in Procs : pc'[q] \notin Served => my'[q] = my[q] /\ pc'[q] = pc[q]
    BY <1>2
  <1>6. \A c \in Conns, f \in Fds : Holds(c, f)' <=> Holds(c, f)
    BY <1>4, <1>5 DEF Holds, Served
  <1>7. \A c \in Conns : Bound(c)' <=> Bound(c)
    BY <1>4, <1>5 DEF Bound, Served, Closing
  <1>8. \A f \in Fds : Pending(f)' <=> Pending(f) BY <1>0, <1>2 DEF Pending
  <1>9. pc'[Main] \in {"accepted", "counted", "got"} => myfd'[Main] # NoFd
    BY <1>0, <1>2 DEF Ownership, PendingFree
  <1>10. \A q \in Procs : pc'[q] = "close" => pc[q] = "close" /\ my'[q] = my[q]
    BY <1>5 DEF Served
  <1>11. Stages' BY <1>5 DEF Ownership, Stages, Stage, Served, Closing
  <1> QED BY <1>6, <1>7, <1>8, <1>9, <1>10, <1>11, SameView

\* A thread that has a slot has it alone.
LEMMA Alone ==
  ASSUME TypeOK, Ownership, NEW p \in Procs, pc[p] \notin Slotless
  PROVE  my[p] \in Conns /\ \A q \in Procs : my[q] = my[p] => q = p
  <1>1. my[p] \in Conns BY Working
  <1>2. my[p] # NoCon BY <1>1, ConPoolAssumption
  <1> QED BY <1>1, <1>2 DEF Ownership, Exclusive

\* A worker takes a slot that nobody else has, and was called to it.
LEMMA TakenAlone ==
  ASSUME TypeOK, Ownership, NEW t \in Threads, NEW c \in Conns, ThreadOf[c] = t,
         pc[t] = "idle", my[Main] # c,
         pc' = [pc EXCEPT ![t] = "run"], my' = [my EXCEPT ![t] = c]
  PROVE  AtWork' /\ Exclusive'
  <1>0. t \in Procs /\ t # Main /\ Main \in Procs BY ConPoolAssumption DEF Procs
  <1>1. /\ pc \in [Procs -> Labels] /\ my \in [Procs -> Conns \cup {NoCon}]
    BY DEF TypeOK, VarTypes
  <1>2. /\ pc'[t] = "run" /\ my'[t] = c
        /\ \A q \in Procs : q # t => pc'[q] = pc[q] /\ my'[q] = my[q]
    BY <1>0, <1>1
  <1>3. c # NoCon BY ConPoolAssumption
  <1>4. AtWork' 
    <2>1. \A p \in Procs : pc'[p] \in {"idle", "accepted", "counted"} <=> my'[p] = NoCon
      BY <1>2, <1>3 DEF Ownership, AtWork
    <2>2. \A u \in Threads : pc'[u] \in Closing \cup {"idle", "run", "rest"}
      BY <1>2 DEF Ownership, AtWork, Procs
    <2>3. pc'[Main] \notin {"run", "rest", "timeout"} BY <1>0, <1>2 DEF Ownership, AtWork
    <2> QED BY <2>1, <2>2, <2>3 DEF AtWork
  <1>5. \A q \in Procs : my[q] # c
    <2> SUFFICES ASSUME NEW q \in Threads, my[q] = c PROVE FALSE BY DEF Procs
    <2>1. q = t BY <1>3 DEF TypeOK, OwnSlots
    <2>2. my[t] = NoCon BY <1>0 DEF Ownership, AtWork
    <2> QED BY <1>3, <2>1, <2>2
  <1>6. Exclusive' BY <1>2, <1>5 DEF Ownership, Exclusive
  <1> QED BY <1>4, <1>6

\* The worker takes the next run of its queue (state_machine_call_event).
LEMMA TakeRunOwns ==
  ASSUME TypeOK, Ownership, NEW t \in Threads, TakeRun(t)
  PROVE  Ownership'
  <1> DEFINE c == Head(queue[t])
  <1>0. t \in Procs /\ t # Main /\ Main \in Procs BY ConPoolAssumption DEF Procs
  <1>1. /\ pc[t] = "idle" /\ pc' = [pc EXCEPT ![t] = "run"] /\ my' = [my EXCEPT ![t] = c]
        /\ queue' = [queue EXCEPT ![t] = Tail(queue[t])] /\ queue[t] # <<>>
        /\ UNCHANGED <<openFds, reg, used, fd, hfd, want, st, myfd>>
    BY DEF TakeRun, slots
  <1>2. c \in Conns /\ ThreadOf[c] = t BY QueueShrinks
  <1>3. queue \in [Threads -> Seq(Conns)] BY DEF TypeOK, VarTypes
  <1>4. queue[t] \in Seq(Conns) BY <1>3
  <1>5. 1 \in 1 .. Len(queue[t]) /\ queue[t][1] = c BY <1>1, <1>4
  <1>6. my[Main] # c
    <2> SUFFICES ASSUME my[Main] = c PROVE FALSE OBVIOUS
    <2>1. c # NoCon BY <1>2, ConPoolAssumption
    <2> QED BY <1>2, <1>5, <2>1 DEF Ownership, MainUndisturbed
  <1>7. my'[Main] = my[Main] /\ pc'[Main] = pc[Main] BY <1>0, <1>1 DEF TypeOK, VarTypes
  <1>8. MainUndisturbed'
    <2> SUFFICES ASSUME my[Main] # NoCon, NEW i \in 1 .. Len(queue'[ThreadOf[my[Main]]])
                 PROVE  queue'[ThreadOf[my[Main]]][i] # my[Main]
      BY <1>1, <1>7 DEF Ownership, MainUndisturbed
    <2> DEFINE u == ThreadOf[my[Main]]
    <2>1. my[Main] \in Conns BY <1>0 DEF TypeOK, VarTypes
    <2>2. u \in Threads BY <2>1, ConPoolAssumption
    <2>3. \A j \in 1 .. Len(queue[u]) : queue[u][j] # my[Main]
      BY DEF Ownership, MainUndisturbed
    <2>4. CASE u = t
      <3>1. queue'[u] = Tail(queue[t]) BY <1>1, <1>3, <2>2, <2>4
      <3> DEFINE q == queue[t]
      <3>2. i \in 1 .. Len(Tail(q)) BY <3>1
      <3> HIDE DEF u
      <3>3. Tail(q)[i] = q[i + 1] /\ i + 1 \in 1 .. Len(q) BY <1>1, <1>4, <3>2
      <3> QED BY <2>3, <2>4, <3>1, <3>3 DEF u
    <2>5. CASE u # t
      <3>1. queue'[u] = queue[u] BY <1>1, <1>3, <2>2, <2>5
      <3> QED BY <2>3, <3>1
    <2> QED BY <2>4, <2>5
  <1> HIDE DEF c
  <1>9. AtWork' /\ Exclusive' BY <1>1, <1>2, <1>6, TakenAlone
  <1>10. Stages' /\ BoundToOpen' /\ RegisteredBound' /\ PendingFree' /\ OpenHeld' /\ ClosesOwn'
    BY <1>1, <1>2, ServingKeeps DEF Served
  <1>11. FreeEmpty'
    <2>1. \A p \in Procs : pc[p] = "setst" => pc'[p] = pc[p] /\ my'[p] = my[p]
      BY <1>0, <1>1 DEF TypeOK, VarTypes
    <2> QED BY <1>1, <2>1 DEF Ownership, FreeEmpty
  <1> QED BY <1>8, <1>9, <1>10, <1>11 DEF Ownership

\* The worker takes an event of a slot that is registered (connection_handle_fdevent).
LEMMA TakeEventOwns ==
  ASSUME TypeOK, Ownership, NEW t \in Threads, TakeEvent(t)
  PROVE  Ownership'
  <1>0. t \in Procs /\ t # Main /\ Main \in Procs BY ConPoolAssumption DEF Procs
  <1>1. PICK f \in Fds : /\ reg[f] # NoCon /\ ThreadOf[reg[f]] = t /\ want[reg[f]]
                         /\ my' = [my EXCEPT ![t] = reg[f]]
                         /\ \/ UNCHANGED st
                            \/ st' = [st EXCEPT ![reg[f]] = "ERROR"]
    BY DEF TakeEvent
  <1> DEFINE c == reg[f]
  <1>2. /\ pc[t] = "idle" /\ pc' = [pc EXCEPT ![t] = "run"]
        /\ UNCHANGED <<openFds, reg, used, fd, hfd, want, queue, myfd>>
    BY DEF TakeEvent
  <1>3. c \in Conns BY <1>1 DEF TypeOK, VarTypes
  <1>4. Bound(c) BY <1>1 DEF Ownership, RegisteredBound
  <1> HIDE DEF c
  <1>5. my[Main] # c
    <2> SUFFICES ASSUME my[Main] = c PROVE FALSE OBVIOUS
    <2>1. c # NoCon BY <1>3, ConPoolAssumption
    <2>2. pc[Main] # "got" BY <1>0, <1>4 DEF Bound
    <2> QED BY <1>1, <2>1, <2>2 DEF Ownership, MainUndisturbed, c
  <1>6. AtWork' /\ Exclusive' BY <1>1, <1>2, <1>3, <1>5, TakenAlone DEF c
  <1>7. Stages' /\ BoundToOpen' /\ RegisteredBound' /\ PendingFree' /\ OpenHeld' /\ ClosesOwn'
    BY <1>1, <1>2, <1>3, ServingKeeps DEF Served, c
  <1>8. my'[Main] = my[Main] /\ pc'[Main] = pc[Main]
    BY <1>0, <1>1, <1>2 DEF TypeOK, VarTypes
  <1>9. MainUndisturbed' BY <1>2, <1>8 DEF Ownership, MainUndisturbed
  <1>10. FreeEmpty'
    <2> SUFFICES ASSUME NEW d \in Conns, ~used[d]
                 PROVE  /\ fd[d] = NoFd
                        /\ st'[d] = "CONNECT" \/ \E p \in Procs : my'[p] = d /\ pc'[p] = "setst"
      BY <1>2 DEF FreeEmpty
    <2>1. d # c BY <1>4 DEF Bound
    <2>2. st'[d] = st[d] BY <1>1, <1>3, <2>1 DEF TypeOK, VarTypes, c
    <2>3. \A p \in Procs : pc[p] = "setst" => pc'[p] = pc[p] /\ my'[p] = my[p]
      BY <1>0, <1>1, <1>2 DEF TypeOK, VarTypes
    <2> QED BY <2>2, <2>3 DEF Ownership, FreeEmpty
  <1> QED BY <1>6, <1>7, <1>9, <1>10 DEF Ownership

\* Steps of a worker on the slot it has, other than closing it.
LEMMA GoesOnServing ==
  ASSUME TypeOK, Ownership, NEW t \in Threads, NEW b \in {"run", "rest"}, Goto(t, "run", b),
         UNCHANGED <<openFds, reg, used, fd, hfd, want, queue, myfd>>,
         \A c \in Conns : ~used[c] => st'[c] = st[c]
  PROVE  Ownership'
  <1>0. t \in Procs /\ t # Main /\ Main \in Procs BY ConPoolAssumption DEF Procs
  <1>1. /\ pc \in [Procs -> Labels] /\ my \in [Procs -> Conns \cup {NoCon}]
    BY DEF TypeOK, VarTypes
  <1>2. pc[t] = "run" /\ pc' = [pc EXCEPT ![t] = b] /\ my' = my BY DEF Goto
  <1>3. pc'[t] = b /\ \A q \in Procs : q # t => pc'[q] = pc[q] BY <1>0, <1>1, <1>2
  <1>4. Stages' /\ BoundToOpen' /\ RegisteredBound' /\ PendingFree' /\ OpenHeld' /\ ClosesOwn'
    <2>1. my' = [my EXCEPT ![t] = my[t]] BY <1>1, <1>2
    <2>2. my[t] \in Conns \cup {NoCon} BY <1>0, <1>1
    <2>3. b \in Served /\ pc[t] \in Served BY <1>2 DEF Served
    <2> QED BY <1>2, <2>1, <2>2, <2>3, ServingKeeps
  <1>5. AtWork' BY <1>0, <1>2, <1>3 DEF Ownership, AtWork, Procs
  <1>6. Exclusive' BY <1>2 DEF Ownership, Exclusive
  <1>7. MainUndisturbed' BY <1>0, <1>2, <1>3 DEF Ownership, MainUndisturbed
  <1>8. FreeEmpty' BY <1>2, <1>3 DEF Ownership, FreeEmpty
  <1> QED BY <1>4, <1>5, <1>6, <1>7, <1>8 DEF Ownership

\* A free slot of a worker that runs is in CON_STATE_CONNECT.
LEMMA RunsUsed ==
  ASSUME TypeOK, Ownership, NEW t \in Threads, pc[t] = "run", st[my[t]] # "CONNECT"
  PROVE  my[t] \in Conns /\ used[my[t]]
  <1>0. t \in Procs BY DEF Procs
  <1>1. pc[t] \notin Slotless BY DEF Slotless
  <1>2. my[t] \in Conns /\ \A q \in Procs : my[q] = my[t] => q = t BY <1>0, <1>1, Alone
  <1> QED BY <1>2 DEF Ownership, FreeEmpty

\* A handler moves the connection to another state: only a slot in use can be in one.
LEMMA MoveOwns ==
  ASSUME TypeOK, Ownership, NEW t \in Threads, NEW a \in ConStates \ {"CONNECT"},
         NEW b \in ConStates, Move(t, a, b)
  PROVE  Ownership'
  <1>1. /\ Goto(t, "run", "run") /\ st' = [st EXCEPT ![my[t]] = b] /\ st[my[t]] = a
        /\ UNCHANGED <<openFds, reg, used, fd, hfd, want, queue, myfd>>
    BY DEF Move
  <1>2. my[t] \in Conns /\ used[my[t]] BY <1>1, RunsUsed DEF Goto
  <1>3. \A c \in Conns : ~used[c] => st'[c] = st[c] BY <1>1, <1>2 DEF TypeOK, VarTypes
  <1> QED BY <1>1, <1>3, GoesOnServing

\* The state did not change, and the run ends.
LEMMA RunRestOwns ==
  ASSUME TypeOK, Ownership, NEW t \in Threads, RunRest(t)
  PROVE  Ownership'
  BY GoesOnServing DEF RunRest, slots

\* connection_handle_fdevent_set: the worker asks for events and leaves the slot.
LEMMA FdeventSetOwns ==
  ASSUME TypeOK, Ownership, NEW t \in Threads, FdeventSet(t)
  PROVE  Ownership'
  <1>0. t \in Procs /\ t # Main /\ Main \in Procs BY ConPoolAssumption DEF Procs
  <1>1. /\ pc \in [Procs -> Labels] /\ my \in [Procs -> Conns \cup {NoCon}]
    BY DEF TypeOK, VarTypes
  <1>2. /\ pc[t] = "rest" /\ pc' = [pc EXCEPT ![t] = "idle"] /\ my' = [my EXCEPT ![t] = NoCon]
        /\ UNCHANGED <<openFds, reg, used, fd, hfd, st, queue, myfd>>
    BY DEF FdeventSet, Done
  <1>3. /\ pc'[t] = "idle" /\ my'[t] = NoCon
        /\ \A q \in Procs : q # t => pc'[q] = pc[q] /\ my'[q] = my[q]
    BY <1>0, <1>1, <1>2
  <1>4. my[t] \in Conns /\ my[t] # my[Main]
    <2>1. pc[t] \notin Slotless BY <1>2 DEF Slotless
    <2> QED BY <1>0, <2>1, Alone
  <1>5. Stages' /\ BoundToOpen' /\ RegisteredBound' /\ PendingFree' /\ OpenHeld' /\ ClosesOwn'
    BY <1>2, ServingKeeps DEF Served
  <1>6. AtWork'
    <2>1. \A p \in Procs : pc'[p] \in {"idle", "accepted", "counted"} <=> my'[p] = NoCon
      BY <1>3 DEF Ownership, AtWork
    <2>2. \A u \in Threads : pc'[u] \in Closing \cup {"idle", "run", "rest"}
      BY <1>3 DEF Ownership, AtWork, Procs
    <2>3. pc'[Main] \notin {"run", "rest", "timeout"} BY <1>0, <1>3 DEF Ownership, AtWork
    <2> QED BY <2>1, <2>2, <2>3 DEF AtWork
  <1>7. Exclusive' BY <1>3 DEF Ownership, Exclusive
  <1>8. MainUndisturbed'
    <2>1. pc'[Main] = pc[Main] /\ my'[Main] = my[Main] BY <1>0, <1>3
    <2>2. want'[my[Main]] = want[my[Main]] \/ my[Main] = NoCon
      <3>1. want \in [Conns -> BOOLEAN] BY DEF TypeOK, VarTypes
      <3>2. CASE want' = want BY <3>2
      <3>3. CASE want' = [want EXCEPT ![my[t]] = (st[my[t]] \in {"READ", "CLOSE"})]
        BY <1>0, <1>1, <1>4, <3>1, <3>3
      <3> QED BY <3>2, <3>3 DEF FdeventSet
    <2> QED BY <1>2, <2>1, <2>2 DEF Ownership, MainUndisturbed
  <1>9. FreeEmpty' BY <1>2, <1>3 DEF Ownership, FreeEmpty
  <1> QED BY <1>5, <1>6, <1>7, <1>8, <1>9 DEF Ownership

-----------------------------------------------------------------------------
(* Closing.                                                                 *)

\* A step of a thread on the slot it has: who has which slot does not change.
LEMMA SlotKept ==
  ASSUME TypeOK, Ownership, NEW p \in Procs, NEW a \in Labels \ Slotless,
         NEW b \in Labels \ Slotless, Goto(p, a, b),
         IF p = Main THEN b \notin {"run", "rest", "timeout"}
                     ELSE b \in Closing \cup {"run", "rest"}
  PROVE  /\ AtWork' /\ Exclusive'
         /\ my[p] \in Conns /\ my' = my /\ pc[p] = a /\ pc'[p] = b
         /\ \A q \in Procs : q # p => pc'[q] = pc[q] /\ my[q] # my[p]
  <1>0. Main \in Procs /\ Main \notin Threads /\ Procs = Threads \cup {Main}
    BY ConPoolAssumption DEF Procs
  <1>1. pc[p] = a /\ pc' = [pc EXCEPT ![p] = b] /\ my' = my BY DEF Goto
  <1>2. pc'[p] = b /\ \A q \in Procs : q # p => pc'[q] = pc[q]
    BY <1>1 DEF TypeOK, VarTypes
  <1>3. my[p] \in Conns /\ \A q \in Procs : my[q] = my[p] => q = p BY <1>1, Alone
  <1>4. AtWork'
    <2>1. \A q \in Procs : pc'[q] \in Slotless <=> my'[q] = NoCon
      BY <1>1, <1>2 DEF Ownership, AtWork, Slotless
    <2>2. \A u \in Threads : pc'[u] \in Closing \cup {"idle", "run", "rest"}
      BY <1>0, <1>2 DEF Ownership, AtWork
    <2>3. pc'[Main] \notin {"run", "rest", "timeout"} BY <1>0, <1>2 DEF Ownership, AtWork
    <2> QED BY <2>1, <2>2, <2>3 DEF AtWork, Slotless
  <1>5. Exclusive' BY <1>1 DEF Ownership, Exclusive
  <1> QED BY <1>1, <1>2, <1>3, <1>4, <1>5

\* A slot whose thread is at none of the labels that Bound excludes is bound.
LEMMA WorkedBound ==
  ASSUME TypeOK, Ownership, NEW p \in Procs, pc[p] \in {"run", "registered", "started", "del"},
         used[my[p]]
  PROVE  /\ Bound(my[p]) /\ fd[my[p]] \in Fds /\ fd[my[p]] \in openFds
         /\ hfd[my[p]] = fd[my[p]] /\ reg[fd[my[p]]] = my[p]
  <1>1. my[p] \in Conns /\ \A q \in Procs : my[q] = my[p] => q = p
    BY Alone DEF Slotless
  <1>2. Bound(my[p]) BY <1>1 DEF Bound, Closing
  <1>3. fd[my[p]] \in Fds BY <1>1, <1>2 DEF Ownership, BoundToOpen, TypeOK, VarTypes
  <1> QED BY <1>1, <1>2, <1>3 DEF Ownership, BoundToOpen

\* connection_close begins, on a slot that is bound to its descriptor.
LEMMA EnterCloseOwns ==
  ASSUME TypeOK, Ownership, NEW p \in Procs, NEW a \in {"run", "started"}, EnterClose(p, a),
         used[my[p]], UNCHANGED <<openFds, reg, queue, used, fd, hfd, want, st>>
  PROVE  Ownership'
  <1>0. Main \in Procs BY DEF Procs
  <1>1. /\ AtWork' /\ Exclusive' /\ my[p] \in Conns /\ my' = my /\ pc[p] = a /\ pc'[p] = "del"
        /\ \A q \in Procs : q # p => pc'[q] = pc[q] /\ my[q] # my[p]
    <2>1. Goto(p, a, "del") BY DEF EnterClose
    <2>2. a \in Labels \ Slotless /\ "del" \in Labels \ Slotless /\ "del" \in Closing
      BY DEF Labels, Slotless, Closing
    <2> QED BY <2>1, <2>2, SlotKept
  <1>2. myfd'[p] = fd[my[p]] /\ \A q \in Procs : q # p => myfd'[q] = myfd[q]
    BY DEF EnterClose, TypeOK, VarTypes
  <1>3. fd[my[p]] # NoFd
    <2>1. fd[my[p]] \in Fds BY <1>1, WorkedBound
    <2> QED BY <2>1, ConPoolAssumption
  <1>4. MainUndisturbed' BY <1>0, <1>1 DEF Ownership, MainUndisturbed
  <1>5. Stages'
    <2> SUFFICES ASSUME NEW q \in Procs PROVE Stage(q)' BY DEF Stages
    <2>1. CASE q = p BY <1>1, <1>2, <1>3, <2>1 DEF Stage
    <2>2. CASE q # p BY <1>1, <1>2, <2>2 DEF Ownership, Stages, Stage
    <2> QED BY <2>1, <2>2
  <1>6. \A c \in Conns, f \in Fds : Holds(c, f)' <=> Holds(c, f) BY <1>1 DEF Holds
  <1>7. \A c \in Conns : Bound(c)' <=> Bound(c) BY <1>1 DEF Bound, Closing
  <1>8. \A f \in Fds : Pending(f)' <=> Pending(f) BY <1>0, <1>1, <1>2 DEF Pending
  <1>9. pc'[Main] \in {"accepted", "counted", "got"} => myfd'[Main] # NoFd
    BY <1>0, <1>1, <1>2 DEF Ownership, PendingFree
  <1>10. BoundToOpen' /\ RegisteredBound' /\ PendingFree' /\ OpenHeld' /\ ClosesOwn'
    BY <1>1, <1>6, <1>7, <1>8, <1>9, SameView
  <1>11. FreeEmpty' BY <1>1 DEF Ownership, FreeEmpty
  <1> QED BY <1>1, <1>4, <1>5, <1>10, <1>11 DEF Ownership

\* ... in a worker: after shutdown() has failed, or the client has closed,
LEMMA RunCloseOwns ==
  ASSUME TypeOK, Ownership, NEW t \in Threads, RunClose(t)
  PROVE  Ownership'
  <1>1. used[my[t]] BY RunsUsed DEF RunClose
  <1> QED BY <1>1, EnterCloseOwns DEF RunClose, Procs, slots

\* ... and in the main thread, for a client that is refused.
LEMMA AcceptFailOwns ==
  ASSUME TypeOK, Ownership, AcceptFail
  PROVE  Ownership'
  <1>1. Main \in Procs /\ pc[Main] = "started" BY DEF AcceptFail, EnterClose, Goto, Procs
  <1>2. used[my[Main]] BY <1>1 DEF Ownership, Stages, Stage
  <1> QED BY <1>1, <1>2, EnterCloseOwns DEF AcceptFail, slots

\* Who holds a descriptor is bound to it, or about to close it.
LEMMA HolderStage ==
  ASSUME TypeOK, Ownership, NEW c \in Conns, NEW f \in Fds, Holds(c, f)
  PROVE  \/ Bound(c) /\ f \in openFds /\ reg[f] = c
         \/ \E q \in Procs : my[q] = c /\ pc[q] = "close" /\ LastOf(c, f)
  <1>1. used[c] /\ fd[c] = f BY DEF Holds
  <1>2. CASE Bound(c) BY <1>1, <1>2 DEF Ownership, BoundToOpen
  <1>3. CASE ~Bound(c)
    <2>1. PICK q \in Procs : my[q] = c /\ pc[q] \in {"got"} \cup (Closing \ {"del"})
      BY <1>1, <1>3 DEF Bound
    <2>2. pc[q] \notin {"count", "unset"} BY <2>1 DEF Holds
    <2>3. f # NoFd BY ConPoolAssumption
    <2>4. pc[q] \notin {"got", "release", "setst"} BY <1>1, <2>1, <2>3 DEF Ownership, Stages, Stage
    <2>5. pc[q] = "close" BY <2>1, <2>2, <2>4 DEF Closing
    <2> QED BY <1>1, <2>1, <2>5 DEF Ownership, ClosesOwn
  <1> QED BY <1>2, <1>3

\* A descriptor that is registered is not being closed or accepted, and has one holder.
LEMMA RegisteredHeld ==
  ASSUME TypeOK, Ownership, NEW c \in Conns, NEW f \in Fds, reg[f] = c
  PROVE  f \in openFds /\ ~Pending(f) /\ \A d \in Conns : Holds(d, f) => d = c
  <1>1. c # NoCon BY ConPoolAssumption
  <1>2. f \in openFds BY <1>1 DEF Ownership, RegisteredBound, BoundToOpen
  <1>3. ~Pending(f) BY <1>1 DEF Ownership, PendingFree
  <1>4. ASSUME NEW d \in Conns, Holds(d, f) PROVE d = c BY <1>1, <1>4, HolderStage DEF LastOf
  <1> QED BY <1>2, <1>3, <1>4

\* connection_fdevent_event_del unregisters the descriptor of the slot and no other.
LEMMA CloseEventsOwns ==
  ASSUME TypeOK, Ownership, NEW p \in Procs, CloseEvents(p)
  PROVE  Ownership'
  <1>0. Main \in Procs BY DEF Procs
  <1>1. pc[p] = "del" BY DEF CloseEvents, Goto
  <1>2. used[my[p]] /\ fd[my[p]] = myfd[p] /\ myfd[p] # NoFd BY <1>1 DEF Ownership, Stages, Stage, Closing
  <1>3. PICK c \in Conns : c = my[p] BY <1>1, Working DEF Slotless
  <1>4. PICK f \in Fds : f = fd[c] /\ f \in openFds /\ hfd[c] = f /\ reg[f] = c /\ Bound(c)
    BY <1>1, <1>2, <1>3, WorkedBound
  <1>5. f # NoFd /\ c # NoCon BY ConPoolAssumption
  <1>6. /\ Goto(p, "del", "close") /\ reg' = [reg EXCEPT ![f] = NoCon]
        /\ UNCHANGED <<openFds, curFds, queue, myfd, used, fd, hfd, want, st>>
    BY <1>2, <1>3, <1>4, <1>5 DEF CloseEvents, slots
  <1>7. /\ AtWork' /\ Exclusive' /\ my' = my /\ pc'[p] = "close"
        /\ \A q \in Procs : q # p => pc'[q] = pc[q] /\ my[q] # c
    <2>1. "del" \in Labels \ Slotless /\ "close" \in Labels \ Slotless /\ "close" \in Closing
      BY DEF Labels, Slotless, Closing
    <2> QED BY <1>3, <1>6, <2>1, SlotKept
  <1>8. reg'[f] = NoCon /\ \A g \in Fds : g # f => reg'[g] = reg[g]
    BY <1>6 DEF TypeOK, VarTypes
  <1>9. \A d \in Conns, g \in Fds : Holds(d, g)' <=> Holds(d, g)
    BY <1>1, <1>6, <1>7 DEF Holds
  <1>10. \A d \in Conns : Bound(d)' <=> Bound(d) /\ d # c
    <2>1. ~Bound(c)' BY <1>3, <1>7 DEF Bound, Closing
    <2>2. ASSUME NEW d \in Conns, d # c PROVE Bound(d)' <=> Bound(d)
      BY <1>3, <1>6, <1>7, <2>2 DEF Bound
    <2> QED BY <2>1, <2>2
  <1>11. \A g \in Fds : Pending(g)' <=> Pending(g) BY <1>0, <1>1, <1>6, <1>7 DEF Pending
  <1>12. MainUndisturbed' BY <1>0, <1>1, <1>6, <1>7 DEF Ownership, MainUndisturbed
  <1>13. Stages' BY <1>1, <1>2, <1>6, <1>7 DEF Ownership, Stages, Stage, Closing
  <1>14. BoundToOpen'
    <2> SUFFICES ASSUME NEW d \in Conns, Bound(d)'
                 PROVE  fd[d] # NoFd /\ hfd[d] = fd[d] /\ fd[d] \in openFds /\ reg'[fd[d]] = d
      BY <1>6 DEF BoundToOpen
    <2>1. /\ fd[d] # NoFd /\ hfd[d] = fd[d] /\ fd[d] \in openFds /\ reg[fd[d]] = d /\ d # c
      BY <1>10 DEF Ownership, BoundToOpen
    <2>2. fd[d] \in Fds /\ fd[d] # f BY <1>4, <2>1 DEF TypeOK, VarTypes
    <2> QED BY <1>8, <2>1, <2>2
  <1>15. RegisteredBound'
    <2> SUFFICES ASSUME NEW g \in Fds, NEW d \in Conns, reg'[g] = d PROVE Bound(d)' /\ fd[d] = g
      BY <1>6, <1>8 DEF RegisteredBound, TypeOK, VarTypes
    <2>1. d # NoCon BY ConPoolAssumption
    <2>2. g # f /\ reg[g] = d BY <1>8, <2>1
    <2>3. Bound(d) /\ fd[d] = g BY <2>1, <2>2 DEF Ownership, RegisteredBound
    <2>4. d # c BY <1>4, <2>2, <2>3
    <2> QED BY <1>10, <2>3, <2>4
  <1>16. PendingFree'
    BY <1>0, <1>1, <1>6, <1>7, <1>8, <1>9, <1>11 DEF Ownership, PendingFree
  <1>17. ClosesOwn'
    <2> SUFFICES ASSUME NEW q \in Procs, pc'[q] = "close" PROVE LastOf(my[q], fd[my[q]])'
      BY DEF ClosesOwn
    <2>1. CASE q = p
      <3>1. my'[q] = c /\ fd'[my'[q]] = f BY <1>3, <1>4, <1>6, <1>7, <2>1
      <3>2. ~Pending(f) /\ \A d \in Conns : Holds(d, f) => d = c BY <1>4, RegisteredHeld
      <3> QED BY <1>4, <1>6, <1>8, <1>9, <1>11, <3>1, <3>2 DEF LastOf
    <2>2. CASE q # p
      <3>1. LastOf(my[q], fd[my[q]]) BY <1>7, <2>2 DEF Ownership, ClosesOwn
      <3>2. PICK g \in Fds : g = fd[my[q]] BY <3>1 DEF LastOf, TypeOK, VarTypes
      <3>3. my'[q] = my[q] /\ fd'[my'[q]] = g BY <1>6, <1>7, <3>2
      <3> QED BY <1>6, <1>8, <1>9, <1>11, <3>1, <3>2, <3>3 DEF LastOf
    <2> QED BY <2>1, <2>2
  <1>18. FreeEmpty' BY <1>1, <1>6, <1>7 DEF Ownership, FreeEmpty
  <1>19. OpenHeld' BY <1>6, <1>9, <1>11 DEF Ownership, OpenHeld, TypeOK, VarTypes
  <1> QED BY <1>7, <1>12, <1>13, <1>14, <1>15, <1>16, <1>17, <1>18, <1>19 DEF Ownership

\* close(con->fd): the number is free again, and nobody else had it.
LEMMA CloseFdOwns ==
  ASSUME TypeOK, Ownership, NEW p \in Procs, CloseFd(p)
  PROVE  Ownership'
  <1>0. Main \in Procs BY DEF Procs
  <1>1. pc[p] = "close" BY DEF CloseFd, Goto
  <1>2. LastOf(my[p], fd[my[p]]) BY <1>1 DEF Ownership, ClosesOwn
  <1>3. PICK c \in Conns : c = my[p] BY <1>1, Working DEF Slotless
  <1>4. PICK f \in Fds : f = fd[c] /\ f \in openFds /\ reg[f] = NoCon /\ LastOf(c, f)
    BY <1>2, <1>3 DEF LastOf, TypeOK, VarTypes
  <1>5. /\ Goto(p, "close", "count") /\ openFds' = openFds \ {f}
        /\ UNCHANGED <<reg, curFds, queue, myfd, used, fd, hfd, want, st>>
    BY <1>3, <1>4 DEF CloseFd, slots
  <1>6. /\ AtWork' /\ Exclusive' /\ my' = my /\ pc'[p] = "count"
        /\ \A q \in Procs : q # p => pc'[q] = pc[q] /\ my[q] # c
    <2>1. "close" \in Labels \ Slotless /\ "count" \in Labels \ Slotless /\ "count" \in Closing
      BY DEF Labels, Slotless, Closing
    <2> QED BY <1>3, <1>5, <2>1, SlotKept
  <1>7. \A d \in Conns, g \in Fds : Holds(d, g)' <=> Holds(d, g) /\ d # c
    <2>1. \A g \in Fds : ~Holds(c, g)' BY <1>3, <1>6 DEF Holds
    <2>2. ASSUME NEW d \in Conns, d # c, NEW g \in Fds PROVE Holds(d, g)' <=> Holds(d, g)
      BY <1>3, <1>5, <1>6, <2>2 DEF Holds
    <2> QED BY <2>1, <2>2
  <1>8. \A d \in Conns : Bound(d)' <=> Bound(d) BY <1>1, <1>5, <1>6 DEF Bound, Closing
  <1>9. \A g \in Fds : Pending(g)' <=> Pending(g) BY <1>0, <1>1, <1>5, <1>6 DEF Pending
  <1>10. MainUndisturbed' BY <1>0, <1>1, <1>5, <1>6 DEF Ownership, MainUndisturbed
  <1>11. Stages' BY <1>1, <1>5, <1>6 DEF Ownership, Stages, Stage, Closing
  <1>12. BoundToOpen'
    <2> SUFFICES ASSUME NEW d \in Conns, Bound(d)
                 PROVE  fd[d] # NoFd /\ hfd[d] = fd[d] /\ fd[d] \in openFds' /\ reg[fd[d]] = d
      BY <1>5, <1>8 DEF BoundToOpen
    <2>1. fd[d] # NoFd /\ hfd[d] = fd[d] /\ fd[d] \in openFds /\ reg[fd[d]] = d
      BY DEF Ownership, BoundToOpen
    <2>2. fd[d] # f BY <1>4, <2>1, ConPoolAssumption
    <2> QED BY <1>5, <2>1, <2>2
  <1>13. RegisteredBound'
    <2> SUFFICES ASSUME NEW g \in Fds, NEW d \in Conns, reg[g] = d PROVE Bound(d) /\ fd[d] = g
      BY <1>5, <1>8 DEF RegisteredBound, TypeOK, VarTypes
    <2>1. d # NoCon BY ConPoolAssumption
    <2> QED BY <2>1 DEF Ownership, RegisteredBound
  <1>14. PendingFree'
    BY <1>0, <1>4, <1>5, <1>6, <1>7, <1>9 DEF Ownership, PendingFree, LastOf
  <1>15. ClosesOwn'
    <2> SUFFICES ASSUME NEW q \in Procs, pc'[q] = "close" PROVE LastOf(my[q], fd[my[q]])'
      BY DEF ClosesOwn
    <2>1. q # p /\ pc[q] = "close" BY <1>6
    <2>2. LastOf(my[q], fd[my[q]]) BY <2>1 DEF Ownership, ClosesOwn
    <2>3. PICK d \in Conns : d = my[q] BY <2>1, Working DEF Slotless
    <2>4. PICK g \in Fds : g = fd[d] BY <2>2, <2>3 DEF LastOf, TypeOK, VarTypes
    <2>5. Holds(d, g)
      <3>1. used[d] BY <2>1, <2>3 DEF Ownership, Stages, Stage, Closing
      <3>2. \A r \in Procs : my[r] = d => r = q BY <2>1, <2>3, Alone DEF Slotless
      <3> QED BY <2>1, <2>4, <3>1, <3>2 DEF Holds
    <2>6. d # c BY <1>6, <2>1, <2>3
    <2>7. g # f BY <1>4, <2>5, <2>6 DEF LastOf
    <2>8. my'[q] = d /\ fd'[my'[q]] = g BY <1>5, <1>6, <2>3, <2>4
    <2> QED BY <1>5, <1>7, <1>9, <2>2, <2>3, <2>4, <2>7, <2>8 DEF LastOf
  <1>16. FreeEmpty' BY <1>1, <1>5, <1>6 DEF Ownership, FreeEmpty
  <1>17. OpenHeld'
    <2> SUFFICES ASSUME NEW g \in openFds, g # f
                 PROVE  Pending(g)' \/ \E d \in Conns : Holds(d, g)'
      BY <1>5 DEF OpenHeld
    <2>1. g \in Fds BY DEF TypeOK, VarTypes
    <2>2. ~Holds(c, g) BY <1>4 DEF Holds
    <2> QED BY <1>7, <1>9, <2>1, <2>2 DEF Ownership, OpenHeld
  <1> QED BY <1>6, <1>10, <1>11, <1>12, <1>13, <1>14, <1>15, <1>16, <1>17 DEF Ownership

\* server_decrement_cur_fds touches no slot.
LEMMA CloseCountOwns ==
  ASSUME TypeOK, Ownership, NEW p \in Procs, CloseCount(p)
  PROVE  Ownership'
  <1>0. Main \in Procs BY DEF Procs
  <1>1. /\ Goto(p, "count", "unset") /\ pc[p] = "count"
        /\ UNCHANGED <<openFds, reg, queue, myfd, used, fd, hfd, want, st>>
    BY DEF CloseCount, Goto, slots
  <1>2. /\ AtWork' /\ Exclusive' /\ my' = my /\ pc'[p] = "unset"
        /\ \A q \in Procs : q # p => pc'[q] = pc[q] /\ my[q] # my[p]
    <2>1. "count" \in Labels \ Slotless /\ "unset" \in Labels \ Slotless /\ "unset" \in Closing
      BY DEF Labels, Slotless, Closing
    <2> QED BY <1>1, <2>1, SlotKept
  <1>3. \A d \in Conns, g \in Fds : Holds(d, g)' <=> Holds(d, g) BY <1>1, <1>2 DEF Holds
  <1>4. \A d \in Conns : Bound(d)' <=> Bound(d) BY <1>1, <1>2 DEF Bound, Closing
  <1>5. \A g \in Fds : Pending(g)' <=> Pending(g) BY <1>0, <1>1, <1>2 DEF Pending
  <1>6. pc'[Main] \in {"accepted", "counted", "got"} => myfd'[Main] # NoFd
    BY <1>0, <1>1, <1>2 DEF Ownership, PendingFree
  <1>7. BoundToOpen' /\ RegisteredBound' /\ PendingFree' /\ OpenHeld' /\ ClosesOwn'
    BY <1>1, <1>2, <1>3, <1>4, <1>5, <1>6, SameView
  <1>8. MainUndisturbed' BY <1>0, <1>1, <1>2 DEF Ownership, MainUndisturbed
  <1>9. Stages' BY <1>1, <1>2 DEF Ownership, Stages, Stage, Closing
  <1>10. FreeEmpty' BY <1>1, <1>2 DEF Ownership, FreeEmpty
  <1> QED BY <1>2, <1>7, <1>8, <1>9, <1>10 DEF Ownership

\* con->fd = -1
LEMMA CloseUnsetOwns ==
  ASSUME TypeOK, Ownership, NEW p \in Procs, CloseUnset(p)
  PROVE  Ownership'
  <1>0. Main \in Procs BY DEF Procs
  <1>1. PICK c \in Conns : c = my[p] BY Working DEF CloseUnset, Goto, Slotless
  <1>2. /\ Goto(p, "unset", "release") /\ pc[p] = "unset" /\ fd' = [fd EXCEPT ![c] = NoFd]
        /\ UNCHANGED <<openFds, reg, queue, myfd, used, hfd, want, st>>
    BY <1>1 DEF CloseUnset, Goto
  <1>3. /\ AtWork' /\ Exclusive' /\ my' = my /\ pc'[p] = "release"
        /\ \A q \in Procs : q # p => pc'[q] = pc[q] /\ my[q] # c
    <2>1. /\ "unset" \in Labels \ Slotless /\ "release" \in Labels \ Slotless
          /\ "release" \in Closing
      BY DEF Labels, Slotless, Closing
    <2> QED BY <1>1, <1>2, <2>1, SlotKept
  <1>4. fd'[c] = NoFd /\ \A d \in Conns : d # c => fd'[d] = fd[d]
    BY <1>2 DEF TypeOK, VarTypes
  <1>5. used[c] BY <1>1, <1>2 DEF Ownership, Stages, Stage, Closing
  <1>6. \A d \in Conns, g \in Fds : Holds(d, g)' <=> Holds(d, g)
    <2>1. \A g \in Fds : ~Holds(c, g) /\ ~Holds(c, g)'
      BY <1>1, <1>2, <1>4, ConPoolAssumption DEF Holds
    <2>2. ASSUME NEW d \in Conns, d # c, NEW g \in Fds PROVE Holds(d, g)' <=> Holds(d, g)
      BY <1>1, <1>2, <1>3, <1>4, <2>2 DEF Holds
    <2> QED BY <2>1, <2>2
  <1>7. ~Bound(c) /\ \A d \in Conns : Bound(d)' <=> Bound(d)
    BY <1>1, <1>2, <1>3 DEF Bound, Closing
  <1>8. \A g \in Fds : Pending(g)' <=> Pending(g) BY <1>0, <1>2, <1>3 DEF Pending
  <1>9. MainUndisturbed' BY <1>0, <1>2, <1>3 DEF Ownership, MainUndisturbed
  <1>10. Stages'
    <2> SUFFICES ASSUME NEW q \in Procs PROVE Stage(q)' BY DEF Stages
    <2>1. CASE q = p BY <1>1, <1>3, <1>4, <1>5, <2>1, <1>2 DEF Stage
    <2>2. CASE q # p /\ my[q] \in Conns
      <3>1. fd'[my[q]] = fd[my[q]] /\ pc'[q] = pc[q] BY <1>3, <1>4, <2>2
      <3> QED BY <3>1, <1>2, <1>3 DEF Ownership, Stages, Stage
    <2>3. CASE q # p /\ my[q] \notin Conns
      <3>1. pc[q] \in Slotless BY <2>3, Working
      <3> QED BY <1>3, <2>3, <3>1 DEF Slotless, Closing, Stage
    <2> QED BY <2>1, <2>2, <2>3
  <1>11. BoundToOpen'
    <2> SUFFICES ASSUME NEW d \in Conns, Bound(d)
                 PROVE  fd'[d] # NoFd /\ hfd[d] = fd'[d] /\ fd'[d] \in openFds /\ reg[fd'[d]] = d
      BY <1>2, <1>7 DEF BoundToOpen
    <2>1. fd'[d] = fd[d] BY <1>4, <1>7
    <2> QED BY <2>1 DEF Ownership, BoundToOpen
  <1>12. RegisteredBound'
    <2> SUFFICES ASSUME NEW g \in Fds, NEW d \in Conns, reg[g] = d PROVE Bound(d) /\ fd'[d] = g
      BY <1>2, <1>7 DEF RegisteredBound, TypeOK, VarTypes
    <2>1. d # NoCon BY ConPoolAssumption
    <2>2. Bound(d) /\ fd[d] = g BY <2>1 DEF Ownership, RegisteredBound
    <2> QED BY <1>4, <1>7, <2>2
  <1>13. PendingFree' BY <1>0, <1>2, <1>3, <1>6, <1>8 DEF Ownership, PendingFree
  <1>14. ClosesOwn'
    <2> SUFFICES ASSUME NEW q \in Procs, pc'[q] = "close" PROVE LastOf(my[q], fd[my[q]])'
      BY DEF ClosesOwn
    <2>1. q # p /\ pc[q] = "close" /\ my'[q] = my[q] BY <1>3
    <2>2. LastOf(my[q], fd[my[q]]) BY <2>1 DEF Ownership, ClosesOwn
    <2>3. my[q] \in Conns /\ my[q] # c BY <1>3, <2>1, Working DEF Slotless
    <2>4. PICK g \in Fds : g = fd[my[q]] BY <2>2 DEF LastOf, TypeOK, VarTypes
    <2>5. fd'[my'[q]] = g BY <1>4, <2>1, <2>3, <2>4
    <2> QED BY <1>2, <1>6, <1>8, <2>1, <2>2, <2>4, <2>5 DEF LastOf
  <1>15. FreeEmpty' BY <1>2, <1>3, <1>4 DEF Ownership, FreeEmpty
  <1>16. OpenHeld' BY <1>2, <1>6, <1>8 DEF Ownership, OpenHeld, TypeOK, VarTypes
  <1> QED BY <1>3, <1>9, <1>10, <1>11, <1>12, <1>13, <1>14, <1>15, <1>16 DEF Ownership

\* connection_del: the slot is free, and still in the closing thread's hands.
LEMMA CloseReleaseOwns ==
  ASSUME TypeOK, Ownership, NEW p \in Procs, CloseRelease(p)
  PROVE  Ownership'
  <1>0. Main \in Procs BY DEF Procs
  <1>1. PICK c \in Conns : c = my[p] BY Working DEF CloseRelease, Goto, Slotless
  <1>2. /\ Goto(p, "release", "setst") /\ pc[p] = "release" /\ used' = [used EXCEPT ![c] = FALSE]
        /\ UNCHANGED <<openFds, reg, queue, myfd, fd, hfd, want, st>>
    BY <1>1 DEF CloseRelease, Goto
  <1>3. /\ AtWork' /\ Exclusive' /\ my' = my /\ pc'[p] = "setst"
        /\ \A q \in Procs : q # p => pc'[q] = pc[q] /\ my[q] # c
    <2>1. /\ "release" \in Labels \ Slotless /\ "setst" \in Labels \ Slotless
          /\ "setst" \in Closing
      BY DEF Labels, Slotless, Closing
    <2> QED BY <1>1, <1>2, <2>1, SlotKept
  <1>4. ~used'[c] /\ \A d \in Conns : d # c => used'[d] = used[d]
    BY <1>2 DEF TypeOK, VarTypes
  <1>5. fd[c] = NoFd BY <1>1, <1>2 DEF Ownership, Stages, Stage
  <1>6. \A d \in Conns, g \in Fds : Holds(d, g)' <=> Holds(d, g)
    <2>1. \A g \in Fds : ~Holds(c, g) /\ ~Holds(c, g)'
      BY <1>2, <1>5, ConPoolAssumption DEF Holds
    <2>2. ASSUME NEW d \in Conns, d # c, NEW g \in Fds PROVE Holds(d, g)' <=> Holds(d, g)
      BY <1>1, <1>2, <1>3, <1>4, <2>2 DEF Holds
    <2> QED BY <2>1, <2>2
  <1>7. \A d \in Conns : Bound(d)' <=> Bound(d)
    <2>1. ~Bound(c) /\ ~Bound(c)' BY <1>1, <1>2, <1>4 DEF Bound, Closing
    <2>2. ASSUME NEW d \in Conns, d # c PROVE Bound(d)' <=> Bound(d)
      BY <1>1, <1>2, <1>3, <1>4, <2>2 DEF Bound
    <2> QED BY <2>1, <2>2
  <1>8. \A g \in Fds : Pending(g)' <=> Pending(g) BY <1>0, <1>2, <1>3 DEF Pending
  <1>9. pc'[Main] \in {"accepted", "counted", "got"} => myfd'[Main] # NoFd
    BY <1>0, <1>2, <1>3 DEF Ownership, PendingFree
  <1>10. BoundToOpen' /\ RegisteredBound' /\ PendingFree' /\ OpenHeld' /\ ClosesOwn'
    BY <1>2, <1>3, <1>6, <1>7, <1>8, <1>9, SameView
  <1>11. MainUndisturbed' BY <1>0, <1>2, <1>3 DEF Ownership, MainUndisturbed
  <1>12. Stages'
    <2> SUFFICES ASSUME NEW q \in Procs PROVE Stage(q)' BY DEF Stages
    <2>1. CASE q = p BY <1>1, <1>3, <1>4, <1>5, <2>1, <1>2 DEF Stage
    <2>2. CASE q # p /\ my[q] \in Conns
      <3>1. used'[my[q]] = used[my[q]] /\ pc'[q] = pc[q] BY <1>3, <1>4, <2>2
      <3> QED BY <3>1, <1>2, <1>3 DEF Ownership, Stages, Stage
    <2>3. CASE q # p /\ my[q] \notin Conns
      <3>1. pc[q] \in Slotless BY <2>3, Working
      <3> QED BY <1>3, <2>3, <3>1 DEF Slotless, Closing, Stage
    <2> QED BY <2>1, <2>2, <2>3
  <1>13. FreeEmpty'
    <2> SUFFICES ASSUME NEW d \in Conns, ~used'[d]
                 PROVE  /\ fd[d] = NoFd
                        /\ st[d] = "CONNECT" \/ \E q \in Procs : my[q] = d /\ pc'[q] = "setst"
      BY <1>2, <1>3 DEF FreeEmpty
    <2>1. CASE d = c BY <1>1, <1>3, <1>5, <2>1
    <2>2. CASE d # c
      <3>1. ~used[d] BY <1>4, <2>2
      <3> QED BY <1>2, <1>3, <3>1 DEF Ownership, FreeEmpty
    <2> QED BY <2>1, <2>2
  <1> QED BY <1>3, <1>10, <1>11, <1>12, <1>13 DEF Ownership

\* connection_set_state(CON_STATE_CONNECT), after which a worker is still on the free slot.
LEMMA CloseSetStateOwns ==
  ASSUME TypeOK, Ownership, NEW p \in Procs, CloseSetState(p)
  PROVE  Ownership'
  <1>0. Main \in Procs BY DEF Procs
  <1>1. pc[p] = "setst" BY DEF CloseSetState, Goto, Done
  <1>2. PICK c \in Conns : c = my[p] BY <1>1, Working DEF Slotless
  <1>3. \A q \in Procs : my[q] = c => q = p BY <1>1, <1>2, Alone DEF Slotless
  <1>4. /\ st' = [st EXCEPT ![c] = "CONNECT"]
        /\ UNCHANGED <<openFds, reg, queue, myfd, used, fd, hfd, want>>
    BY <1>2 DEF CloseSetState
  <1>5. /\ \A q \in Procs : q # p => pc'[q] = pc[q] /\ my'[q] = my[q]
        /\ IF p = Main THEN pc'[p] = "idle" /\ my'[p] = NoCon ELSE pc'[p] = "run" /\ my'[p] = c
    BY <1>2 DEF CloseSetState, Goto, Done, TypeOK, VarTypes
  <1>6. ~used[c] /\ fd[c] = NoFd BY <1>1, <1>2 DEF Ownership, Stages, Stage
  <1>7. c # NoCon BY ConPoolAssumption
  <1>8. AtWork'
    <2>1. \A q \in Procs : pc'[q] \in {"idle", "accepted", "counted"} <=> my'[q] = NoCon
      BY <1>5, <1>7 DEF Ownership, AtWork
    <2>2. \A u \in Threads : pc'[u] \in Closing \cup {"idle", "run", "rest"}
      BY <1>5 DEF Ownership, AtWork, Procs
    <2>3. pc'[Main] \notin {"run", "rest", "timeout"} BY <1>0, <1>5 DEF Ownership, AtWork
    <2> QED BY <2>1, <2>2, <2>3 DEF AtWork
  <1>9. Exclusive' BY <1>3, <1>5 DEF Ownership, Exclusive
  <1>10. MainUndisturbed' BY <1>0, <1>4, <1>5 DEF Ownership, MainUndisturbed
  <1>11. Stages' BY <1>4, <1>5 DEF Ownership, Stages, Stage, Closing
  <1>12. \A d \in Conns, g \in Fds : Holds(d, g)' <=> Holds(d, g)
    <2>1. \A g \in Fds : ~Holds(c, g) /\ ~Holds(c, g)' BY <1>4, <1>6 DEF Holds
    <2>2. ASSUME NEW d \in Conns, d # c, NEW g \in Fds PROVE Holds(d, g)' <=> Holds(d, g)
      BY <1>2, <1>4, <1>5, <2>2 DEF Holds
    <2> QED BY <2>1, <2>2
  <1>13. \A d \in Conns : Bound(d)' <=> Bound(d)
    <2>1. ~Bound(c) /\ ~Bound(c)' BY <1>4, <1>6 DEF Bound
    <2>2. ASSUME NEW d \in Conns, d # c PROVE Bound(d)' <=> Bound(d)
      <3>1. my'[p] # d /\ my[p] # d BY <1>2, <1>5, <2>2, ConPoolAssumption
      <3> QED BY <1>4, <1>5, <3>1 DEF Bound
    <2> QED BY <2>1, <2>2
  <1>14. \A g \in Fds : Pending(g)' <=> Pending(g) BY <1>0, <1>1, <1>4, <1>5 DEF Pending
  <1>15. pc'[Main] \in {"accepted", "counted", "got"} => myfd'[Main] # NoFd
    BY <1>0, <1>4, <1>5 DEF Ownership, PendingFree
  <1>16. BoundToOpen' /\ RegisteredBound' /\ PendingFree' /\ OpenHeld' /\ ClosesOwn'
    BY <1>4, <1>5, <1>12, <1>13, <1>14, <1>15, SameView
  <1>17. FreeEmpty'
    <2> SUFFICES ASSUME NEW d \in Conns, ~used[d]
                 PROVE  /\ fd[d] = NoFd
                        /\ st'[d] = "CONNECT" \/ \E q \in Procs : my'[q] = d /\ pc'[q] = "setst"
      BY <1>4 DEF FreeEmpty
    <2>1. CASE d = c BY <1>4, <1>6, <2>1 DEF TypeOK, VarTypes
    <2>2. CASE d # c
      <3>1. st'[d] = st[d] BY <1>4, <2>2 DEF TypeOK, VarTypes
      <3> QED BY <1>2, <1>5, <2>2, <3>1 DEF Ownership, FreeEmpty
    <2> QED BY <2>1, <2>2
  <1> QED BY <1>8, <1>9, <1>10, <1>11, <1>16, <1>17 DEF Ownership

-----------------------------------------------------------------------------
(* Accepting, and the timer.                                                *)

\* accept() gives out a number that nobody has.
LEMMA AcceptOwns ==
  ASSUME TypeOK, Ownership, Accept
  PROVE  Ownership'
  <1>0. Main \in Procs /\ Main \notin Threads /\ Procs = Threads \cup {Main}
    BY ConPoolAssumption DEF Procs
  <1>1. PICK f \in Fds \ openFds : openFds' = openFds \cup {f} /\ myfd' = [myfd EXCEPT ![Main] = f]
    BY DEF Accept
  <1>2. /\ pc[Main] = "idle" /\ pc' = [pc EXCEPT ![Main] = "accepted"]
        /\ UNCHANGED <<reg, queue, used, fd, hfd, want, st, my>>
    BY DEF Accept, Goto, slots
  <1>3. /\ pc'[Main] = "accepted" /\ myfd'[Main] = f
        /\ \A q \in Procs : q # Main => pc'[q] = pc[q] /\ myfd'[q] = myfd[q]
    BY <1>0, <1>1, <1>2 DEF TypeOK, VarTypes
  <1>4. my[Main] = NoCon BY <1>0, <1>2 DEF Ownership, AtWork
  <1>5. reg[f] = NoCon
    <2> SUFFICES ASSUME reg[f] # NoCon PROVE FALSE OBVIOUS
    <2>1. PICK d \in Conns : d = reg[f] BY DEF TypeOK, VarTypes
    <2> QED BY <2>1, RegisteredHeld
  <1>6. \A d \in Conns : ~Holds(d, f) BY HolderStage DEF LastOf
  <1>7. AtWork' BY <1>0, <1>2, <1>3, <1>4 DEF Ownership, AtWork
  <1>8. Exclusive' BY <1>2 DEF Ownership, Exclusive
  <1>9. MainUndisturbed' BY <1>2, <1>4 DEF MainUndisturbed
  <1>10. Stages' BY <1>2, <1>3 DEF Ownership, Stages, Stage, Closing
  <1>11. \A d \in Conns, g \in Fds : Holds(d, g)' <=> Holds(d, g) BY <1>2, <1>3 DEF Holds
  <1>12. \A d \in Conns : Bound(d)' <=> Bound(d) BY <1>2, <1>3 DEF Bound, Closing
  <1>13. \A g \in Fds : ~Pending(g) /\ (Pending(g)' <=> g = f) BY <1>2, <1>3 DEF Pending
  <1>14. BoundToOpen' BY <1>1, <1>2, <1>12 DEF Ownership, BoundToOpen
  <1>15. RegisteredBound'
    <2> SUFFICES ASSUME NEW g \in Fds, NEW d \in Conns, reg[g] = d PROVE Bound(d) /\ fd[d] = g
      BY <1>2, <1>12 DEF RegisteredBound, TypeOK, VarTypes
    <2>1. d # NoCon BY ConPoolAssumption
    <2> QED BY <2>1 DEF Ownership, RegisteredBound
  <1>16. PendingFree' BY <1>1, <1>2, <1>3, <1>5, <1>6, <1>11, <1>13, ConPoolAssumption DEF PendingFree
  <1>17. ClosesOwn'
    <2> SUFFICES ASSUME NEW q \in Procs, pc'[q] = "close" PROVE LastOf(my[q], fd[my[q]])'
      BY DEF ClosesOwn
    <2>1. pc[q] = "close" BY <1>3
    <2>2. LastOf(my[q], fd[my[q]]) BY <2>1 DEF Ownership, ClosesOwn
    <2>3. PICK g \in Fds : g = fd[my[q]] BY <2>2 DEF LastOf, TypeOK, VarTypes
    <2>4. my'[q] = my[q] /\ fd'[my'[q]] = g BY <1>2, <2>3
    <2>5. g # f BY <1>1, <2>2, <2>3 DEF LastOf
    <2> QED BY <1>1, <1>2, <1>11, <1>13, <2>2, <2>3, <2>4, <2>5 DEF LastOf
  <1>18. FreeEmpty' BY <1>2, <1>3 DEF Ownership, FreeEmpty
  <1>19. OpenHeld' BY <1>1, <1>11, <1>13 DEF Ownership, OpenHeld, TypeOK, VarTypes
  <1> QED BY <1>7, <1>8, <1>9, <1>10, <1>14, <1>15, <1>16, <1>17, <1>18, <1>19 DEF Ownership

\* server_increment_cur_fds touches no slot.
LEMMA AcceptCountOwns ==
  ASSUME TypeOK, Ownership, AcceptCount
  PROVE  Ownership'
  <1>0. Main \in Procs /\ Main \notin Threads BY ConPoolAssumption DEF Procs
  <1>1. /\ pc[Main] = "accepted" /\ pc' = [pc EXCEPT ![Main] = "counted"]
        /\ UNCHANGED <<openFds, reg, queue, used, fd, hfd, want, st, my, myfd>>
    BY DEF AcceptCount, Goto, slots
  <1>2. pc'[Main] = "counted" /\ \A q \in Procs : q # Main => pc'[q] = pc[q]
    BY <1>0, <1>1 DEF TypeOK, VarTypes
  <1>3. my[Main] = NoCon BY <1>0, <1>1 DEF Ownership, AtWork
  <1>4. AtWork' BY <1>0, <1>1, <1>2, <1>3 DEF Ownership, AtWork, Procs
  <1>5. Exclusive' BY <1>1 DEF Ownership, Exclusive
  <1>6. MainUndisturbed' BY <1>1, <1>3 DEF MainUndisturbed
  <1>7. Stages' BY <1>1, <1>2 DEF Ownership, Stages, Stage, Closing
  <1>8. \A d \in Conns, g \in Fds : Holds(d, g)' <=> Holds(d, g) BY <1>1, <1>2 DEF Holds
  <1>9. \A d \in Conns : Bound(d)' <=> Bound(d) BY <1>1, <1>2 DEF Bound, Closing
  <1>10. \A g \in Fds : Pending(g)' <=> Pending(g) BY <1>1, <1>2 DEF Pending
  <1>11. myfd'[Main] # NoFd BY <1>1 DEF Ownership, PendingFree
  <1>12. \A q \in Procs : pc'[q] = "close" => pc[q] = "close" /\ my'[q] = my[q]
    BY <1>1, <1>2
  <1>13. BoundToOpen' /\ RegisteredBound' /\ PendingFree' /\ OpenHeld' /\ ClosesOwn'
    BY <1>1, <1>8, <1>9, <1>10, <1>11, <1>12, SameView
  <1>14. FreeEmpty' BY <1>1, <1>2 DEF Ownership, FreeEmpty
  <1> QED BY <1>4, <1>5, <1>6, <1>7, <1>13, <1>14 DEF Ownership

\* connections_get_new_connection: the slot is nobody's, which is where ~EagerReuse counts.
LEMMA AcceptSlotOwns ==
  ASSUME TypeOK, Ownership, ~EagerReuse, AcceptSlot
  PROVE  Ownership'
  <1>0. Main \in Procs /\ Main \notin Threads BY ConPoolAssumption DEF Procs
  <1>1. PICK c \in Conns : /\ ~used[c] /\ Quiet(c) /\ my' = [my EXCEPT ![Main] = c]
                          /\ used' = [used EXCEPT ![c] = TRUE]
    BY DEF AcceptSlot
  <1>2. /\ pc[Main] = "counted" /\ pc' = [pc EXCEPT ![Main] = "got"]
        /\ UNCHANGED <<openFds, reg, queue, fd, hfd, want, st, myfd>>
    BY DEF AcceptSlot
  <1>3. /\ pc'[Main] = "got" /\ my'[Main] = c
        /\ \A q \in Procs : q # Main => pc'[q] = pc[q] /\ my'[q] = my[q]
    BY <1>0, <1>1, <1>2 DEF TypeOK, VarTypes
  <1>4. \A q \in Procs : my[q] # c BY <1>1 DEF Quiet
  <1>5. used'[c] /\ \A d \in Conns : d # c => used'[d] = used[d]
    BY <1>1 DEF TypeOK, VarTypes
  <1>6. fd[c] = NoFd BY <1>1 DEF Ownership, FreeEmpty
  <1>7. c # NoCon BY ConPoolAssumption
  <1>8. AtWork' BY <1>0, <1>3, <1>7 DEF Ownership, AtWork, Procs
  <1>9. Exclusive' BY <1>3, <1>4 DEF Ownership, Exclusive
  <1>10. MainUndisturbed' BY <1>1, <1>2, <1>3 DEF MainUndisturbed, Quiet
  <1>11. Stages'
    <2> SUFFICES ASSUME NEW q \in Procs PROVE Stage(q)' BY DEF Stages
    <2>1. CASE q = Main BY <1>3, <1>5, <1>6, <2>1, <1>2 DEF Stage
    <2>2. CASE q # Main /\ my[q] \in Conns
      <3>1. used'[my'[q]] = used[my[q]] /\ pc'[q] = pc[q] /\ my'[q] = my[q]
        BY <1>3, <1>4, <1>5, <2>2
      <3> QED BY <3>1, <1>2 DEF Ownership, Stages, Stage
    <2>3. CASE q # Main /\ my[q] \notin Conns
      <3>1. pc[q] \in Slotless BY <2>3, Working
      <3> QED BY <1>3, <2>3, <3>1 DEF Slotless, Closing, Stage
    <2> QED BY <2>1, <2>2, <2>3
  <1>12. \A d \in Conns, g \in Fds : Holds(d, g)' <=> Holds(d, g)
    <2>1. \A g \in Fds : ~Holds(c, g) /\ ~Holds(c, g)' BY <1>2, <1>6, ConPoolAssumption DEF Holds
    <2>2. ASSUME NEW d \in Conns, d # c, NEW g \in Fds PROVE Holds(d, g)' <=> Holds(d, g)
      BY <1>2, <1>3, <1>5, <2>2 DEF Holds
    <2> QED BY <2>1, <2>2
  <1>13. \A d \in Conns : Bound(d)' <=> Bound(d)
    <2>1. ~Bound(c) /\ ~Bound(c)' BY <1>0, <1>1, <1>3 DEF Bound
    <2>2. ASSUME NEW d \in Conns, d # c PROVE Bound(d)' <=> Bound(d)
      <3>1. my'[Main] # d /\ (my[Main] = d => FALSE)
        BY <1>0, <1>2, <1>3, <2>2, ConPoolAssumption DEF Ownership, AtWork
      <3> QED BY <1>3, <1>5, <2>2, <3>1 DEF Bound
    <2> QED BY <2>1, <2>2
  <1>14. \A g \in Fds : Pending(g)' <=> Pending(g) BY <1>2, <1>3 DEF Pending
  <1>15. myfd'[Main] # NoFd BY <1>2 DEF Ownership, PendingFree
  <1>16. \A q \in Procs : pc'[q] = "close" => pc[q] = "close" /\ my'[q] = my[q]
    BY <1>3
  <1>17. BoundToOpen' /\ RegisteredBound' /\ PendingFree' /\ OpenHeld' /\ ClosesOwn'
    BY <1>2, <1>12, <1>13, <1>14, <1>15, <1>16, SameView
  <1>18. FreeEmpty'
    <2> SUFFICES ASSUME NEW d \in Conns, ~used'[d]
                 PROVE  /\ fd[d] = NoFd
                        /\ st[d] = "CONNECT" \/ \E q \in Procs : my'[q] = d /\ pc'[q] = "setst"
      BY <1>2 DEF FreeEmpty
    <2>1. ~used[d] BY <1>5
    <2>2. \A q \in Procs : pc[q] = "setst" => pc'[q] = pc[q] /\ my'[q] = my[q] BY <1>2, <1>3
    <2> QED BY <2>1, <2>2 DEF Ownership, FreeEmpty
  <1> QED BY <1>8, <1>9, <1>10, <1>11, <1>17, <1>18 DEF Ownership

\* connection_fdevent_add binds the accepted descriptor to the slot.
LEMMA AcceptRegisterOwns ==
  ASSUME TypeOK, Ownership, AcceptRegister
  PROVE  Ownership'
  <1>0. Main \in Procs BY DEF Procs
  <1>1. pc[Main] = "got" BY DEF AcceptRegister, Goto
  <1>2. PICK c \in Conns : c = my[Main] BY <1>0, <1>1, Working DEF Slotless
  <1>3. PICK f \in Fds : f = myfd[Main]
    BY <1>0, <1>1 DEF Ownership, PendingFree, TypeOK, VarTypes
  <1>4. /\ Goto(Main, "got", "registered")
        /\ fd' = [fd EXCEPT ![c] = f] /\ hfd' = [hfd EXCEPT ![c] = f]
        /\ want' = [want EXCEPT ![c] = FALSE] /\ reg' = [reg EXCEPT ![f] = c]
        /\ UNCHANGED <<openFds, used, st, queue, myfd>>
    BY <1>2, <1>3 DEF AcceptRegister
  <1>5. /\ AtWork' /\ Exclusive' /\ my' = my /\ pc'[Main] = "registered"
        /\ \A q \in Procs : q # Main => pc'[q] = pc[q] /\ my[q] # c
    <2>1. "got" \in Labels \ Slotless /\ "registered" \in Labels \ Slotless
      BY DEF Labels, Slotless
    <2> QED BY <1>0, <1>2, <1>4, <2>1, SlotKept
  <1>6. /\ fd'[c] = f /\ hfd'[c] = f /\ want'[c] = FALSE /\ reg'[f] = c
        /\ \A d \in Conns : d # c => fd'[d] = fd[d] /\ hfd'[d] = hfd[d]
        /\ \A g \in Fds : g # f => reg'[g] = reg[g]
    BY <1>4 DEF TypeOK, VarTypes
  <1>7. /\ f \in openFds /\ reg[f] = NoCon /\ Pending(f) /\ f # NoFd /\ c # NoCon
        /\ \A d \in Conns : ~Holds(d, f)
    BY <1>1, <1>3, ConPoolAssumption DEF Ownership, PendingFree, Pending
  <1>8. used[c] BY <1>0, <1>1, <1>2 DEF Ownership, Stages, Stage
  <1>9. MainUndisturbed' BY <1>2, <1>4, <1>5, <1>6 DEF Ownership, MainUndisturbed
  <1>10. Stages'
    <2> SUFFICES ASSUME NEW q \in Procs PROVE Stage(q)' BY DEF Stages
    <2>1. CASE q = Main BY <1>2, <1>5, <1>6, <1>7, <1>8, <2>1, <1>4 DEF Stage
    <2>2. CASE q # Main /\ my[q] \in Conns
      <3>1. fd'[my[q]] = fd[my[q]] /\ pc'[q] = pc[q] BY <1>5, <1>6, <2>2
      <3> QED BY <3>1, <1>4, <1>5 DEF Ownership, Stages, Stage
    <2>3. CASE q # Main /\ my[q] \notin Conns
      <3>1. pc[q] \in Slotless BY <2>3, Working
      <3> QED BY <1>5, <2>3, <3>1 DEF Slotless, Closing, Stage
    <2> QED BY <2>1, <2>2, <2>3
  <1>11. \A d \in Conns : Bound(d)' <=> Bound(d) \/ d = c
    <2>1. Bound(c)' BY <1>2, <1>4, <1>5, <1>8 DEF Bound, Closing
    <2>2. ASSUME NEW d \in Conns, d # c PROVE Bound(d)' <=> Bound(d)
      BY <1>2, <1>4, <1>5, <2>2 DEF Bound
    <2> QED BY <2>1, <2>2
  <1>12. ~Bound(c) BY <1>0, <1>1, <1>2 DEF Bound
  <1>13. BoundToOpen'
    <2> SUFFICES ASSUME NEW d \in Conns, Bound(d) \/ d = c
                 PROVE  fd'[d] # NoFd /\ hfd'[d] = fd'[d] /\ fd'[d] \in openFds /\ reg'[fd'[d]] = d
      BY <1>4, <1>11 DEF BoundToOpen
    <2>1. CASE d = c BY <1>6, <1>7, <2>1
    <2>2. CASE d # c
      <3>1. fd[d] # NoFd /\ hfd[d] = fd[d] /\ fd[d] \in openFds /\ reg[fd[d]] = d
        BY <2>2 DEF Ownership, BoundToOpen
      <3>2. fd[d] \in Fds /\ fd[d] # f BY <1>7, <3>1, ConPoolAssumption DEF TypeOK, VarTypes
      <3> QED BY <1>6, <2>2, <3>1, <3>2
    <2> QED BY <2>1, <2>2
  <1>14. RegisteredBound'
    <2> SUFFICES ASSUME NEW g \in Fds, NEW d \in Conns, reg'[g] = d PROVE Bound(d)' /\ fd'[d] = g
      BY <1>6 DEF RegisteredBound, TypeOK, VarTypes
    <2>1. CASE g = f BY <1>6, <1>11, <2>1
    <2>2. CASE g # f
      <3>1. reg[g] = d /\ d # NoCon BY <1>6, <2>2, ConPoolAssumption
      <3>2. Bound(d) /\ fd[d] = g BY <3>1 DEF Ownership, RegisteredBound
      <3> QED BY <1>6, <1>11, <1>12, <3>2
    <2> QED BY <2>1, <2>2
  <1>15. \A g \in Fds : ~Pending(g)' BY <1>5 DEF Pending
  <1>16. PendingFree' BY <1>5, <1>15 DEF PendingFree
  <1>17. ClosesOwn'
    <2> SUFFICES ASSUME NEW q \in Procs, pc'[q] = "close" PROVE LastOf(my[q], fd[my[q]])'
      BY DEF ClosesOwn
    <2>1. q # Main /\ pc[q] = "close" /\ my'[q] = my[q] BY <1>5
    <2>2. LastOf(my[q], fd[my[q]]) BY <2>1 DEF Ownership, ClosesOwn
    <2>3. PICK e \in Conns : e = my[q] /\ e # c BY <1>5, <2>1, Working DEF Slotless
    <2>4. PICK g \in Fds : g = fd[e] BY <2>2, <2>3 DEF LastOf, TypeOK, VarTypes
    <2>5. g # f BY <1>7, <2>2, <2>3, <2>4 DEF LastOf
    <2>6. my'[q] = e /\ fd'[my'[q]] = g BY <1>6, <2>1, <2>3, <2>4
    <2>7. ASSUME NEW d \in Conns, Holds(d, g)' PROVE d = e
      <3>1. d # c BY <1>6, <2>5, <2>7 DEF Holds
      <3>2. Holds(d, g) BY <1>2, <1>4, <1>5, <1>6, <2>7, <3>1 DEF Holds
      <3> QED BY <2>2, <2>3, <2>4, <3>2 DEF LastOf
    <2> QED BY <1>4, <1>6, <1>15, <2>2, <2>3, <2>4, <2>5, <2>6, <2>7 DEF LastOf
  <1>18. FreeEmpty' BY <1>1, <1>4, <1>5, <1>6, <1>8 DEF Ownership, FreeEmpty
  <1>19. OpenHeld'
    <2> SUFFICES ASSUME NEW g \in openFds PROVE \E d \in Conns : Holds(d, g)'
      BY <1>4 DEF OpenHeld
    <2>1. CASE g = f BY <1>2, <1>4, <1>5, <1>6, <1>8, <2>1 DEF Holds
    <2>2. CASE g # f
      <3>1. g \in Fds /\ g # NoFd BY ConPoolAssumption DEF TypeOK, VarTypes
      <3>2. ~Pending(g) BY <1>3, <2>2 DEF Pending
      <3>3. PICK d \in Conns : Holds(d, g) BY <3>2 DEF Ownership, OpenHeld
      <3>4. fd[c] = NoFd BY <1>0, <1>1, <1>2 DEF Ownership, Stages, Stage
      <3>5. d # c BY <3>1, <3>3, <3>4 DEF Holds
      <3> QED BY <1>2, <1>4, <1>5, <1>6, <3>3, <3>5 DEF Holds
    <2> QED BY <2>1, <2>2
  <1> QED BY <1>5, <1>9, <1>10, <1>13, <1>14, <1>16, <1>17, <1>18, <1>19 DEF Ownership

\* The accepted connection enters CON_STATE_REQUEST_START.
LEMMA AcceptStartOwns ==
  ASSUME TypeOK, Ownership, AcceptStart
  PROVE  Ownership'
  <1>0. Main \in Procs BY DEF Procs
  <1>1. PICK c \in Conns : c = my[Main] BY <1>0, Working DEF AcceptStart, Goto, Slotless
  <1>2. /\ Goto(Main, "registered", "started") /\ pc[Main] = "registered"
        /\ st' = [st EXCEPT ![c] = "REQUEST_START"]
        /\ UNCHANGED <<openFds, reg, queue, used, fd, hfd, want, myfd>>
    BY <1>1 DEF AcceptStart, Goto
  <1>3. /\ AtWork' /\ Exclusive' /\ my' = my /\ pc'[Main] = "started"
        /\ \A q \in Procs : q # Main => pc'[q] = pc[q] /\ my[q] # c
    <2>1. "registered" \in Labels \ Slotless /\ "started" \in Labels \ Slotless
      BY DEF Labels, Slotless
    <2> QED BY <1>0, <1>1, <1>2, <2>1, SlotKept
  <1>4. used[c] BY <1>0, <1>1, <1>2 DEF Ownership, Stages, Stage
  <1>5. MainUndisturbed' BY <1>2, <1>3 DEF Ownership, MainUndisturbed
  <1>6. Stages' BY <1>2, <1>3 DEF Ownership, Stages, Stage, Closing
  <1>7. \A d \in Conns, g \in Fds : Holds(d, g)' <=> Holds(d, g) BY <1>2, <1>3 DEF Holds
  <1>8. \A d \in Conns : Bound(d)' <=> Bound(d) BY <1>2, <1>3 DEF Bound, Closing
  <1>9. \A g \in Fds : Pending(g)' <=> Pending(g) BY <1>2, <1>3 DEF Pending
  <1>10. BoundToOpen' /\ RegisteredBound' /\ PendingFree' /\ OpenHeld' /\ ClosesOwn'
    BY <1>2, <1>3, <1>7, <1>8, <1>9, SameView
  <1>11. FreeEmpty'
    <2>1. \A d \in Conns : ~used[d] => st'[d] = st[d] BY <1>2, <1>4 DEF TypeOK, VarTypes
    <2> QED BY <1>2, <1>3, <2>1 DEF Ownership, FreeEmpty
  <1> QED BY <1>3, <1>5, <1>6, <1>10, <1>11 DEF Ownership

\* The main thread hands the slot to its worker.
LEMMA AcceptQueueOwns ==
  ASSUME TypeOK, Ownership, AcceptQueue
  PROVE  Ownership'
  <1>0. Main \in Procs /\ Main \notin Threads BY ConPoolAssumption DEF Procs
  <1>1. /\ pc[Main] = "started" /\ pc' = [pc EXCEPT ![Main] = "idle"]
        /\ my' = [my EXCEPT ![Main] = NoCon]
        /\ UNCHANGED <<openFds, reg, used, fd, hfd, want, st, myfd>>
    BY DEF AcceptQueue, Done, slots
  <1>2. /\ pc'[Main] = "idle" /\ my'[Main] = NoCon
        /\ \A q \in Procs : q # Main => pc'[q] = pc[q] /\ my'[q] = my[q]
    BY <1>0, <1>1 DEF TypeOK, VarTypes
  <1>3. AtWork' BY <1>0, <1>2 DEF Ownership, AtWork, Procs
  <1>4. Exclusive' BY <1>2 DEF Ownership, Exclusive
  <1>5. MainUndisturbed' BY <1>2 DEF MainUndisturbed
  <1>6. Stages' BY <1>1, <1>2 DEF Ownership, Stages, Stage, Closing
  <1>7. \A d \in Conns : d # NoCon BY ConPoolAssumption
  <1>8. \A d \in Conns, g \in Fds : Holds(d, g)' <=> Holds(d, g) BY <1>1, <1>2, <1>7 DEF Holds
  <1>9. \A d \in Conns : Bound(d)' <=> Bound(d) BY <1>1, <1>2, <1>7 DEF Bound, Closing
  <1>10. \A g \in Fds : Pending(g)' <=> Pending(g) BY <1>1, <1>2 DEF Pending
  <1>11. \A q \in Procs : pc'[q] = "close" => pc[q] = "close" /\ my'[q] = my[q] BY <1>2
  <1>12. BoundToOpen' /\ RegisteredBound' /\ PendingFree' /\ OpenHeld' /\ ClosesOwn'
    BY <1>1, <1>2, <1>8, <1>9, <1>10, <1>11, SameView
  <1>13. FreeEmpty' BY <1>1, <1>2 DEF Ownership, FreeEmpty
  <1> QED BY <1>3, <1>4, <1>5, <1>6, <1>12, <1>13 DEF Ownership

\* A step that leaves the slots' bindings and the threads as they are: used when the timer
\* ends a connection, and when nothing happens.
LEMMA ThreadsStill ==
  ASSUME TypeOK, Ownership, UNCHANGED <<openFds, reg, used, fd, hfd, want, pc, my, myfd>>,
         my[Main] # NoCon => queue' = queue,
         \A c \in Conns : ~used[c] => st'[c] = st[c]
  PROVE  Ownership'
  <1>1. AtWork' /\ Exclusive' BY DEF Ownership, AtWork, Exclusive
  <1>2. MainUndisturbed' BY DEF Ownership, MainUndisturbed
  <1>3. Stages' BY DEF Ownership, Stages, Stage
  <1>4. \A d \in Conns, g \in Fds : Holds(d, g)' <=> Holds(d, g) BY DEF Holds
  <1>5. \A d \in Conns : Bound(d)' <=> Bound(d) BY DEF Bound
  <1>6. \A g \in Fds : Pending(g)' <=> Pending(g) BY DEF Pending
  <1>7. pc'[Main] \in {"accepted", "counted", "got"} => myfd'[Main] # NoFd
    BY DEF Ownership, PendingFree
  <1>8. BoundToOpen' /\ RegisteredBound' /\ PendingFree' /\ OpenHeld' /\ ClosesOwn'
    BY <1>4, <1>5, <1>6, <1>7, SameView
  <1>9. FreeEmpty' BY DEF Ownership, FreeEmpty
  <1> QED BY <1>1, <1>2, <1>3, <1>8, <1>9 DEF Ownership

\* The timer ends a connection: its slot is in use, and the main thread on none.
LEMMA TimerOwns ==
  ASSUME TypeOK, Ownership, NEW c \in Conns, Timer(c)
  PROVE  Ownership'
  <1>1. /\ pc[Main] = "idle" /\ used[c] /\ st' = [st EXCEPT ![c] = "ERROR"]
        /\ UNCHANGED <<openFds, reg, used, fd, hfd, want, pc, my, myfd>>
    BY DEF Timer, TimedOut
  <1>2. my[Main] = NoCon BY <1>1 DEF Ownership, AtWork, Procs
  <1>3. \A d \in Conns : ~used[d] => st'[d] = st[d] BY <1>1 DEF TypeOK, VarTypes
  <1> QED BY <1>1, <1>2, <1>3, ThreadsStill

-----------------------------------------------------------------------------
\* Who owns the slots and the descriptors (ConPool!Ownership), while slots are reused quietly
\* and the timer's look and verdict are one.
THEOREM Owned == ASSUME ~EagerReuse, ~SplitTimer PROVE Spec => []Ownership
  <1>1. Init => Ownership
    <2> SUFFICES ASSUME Init PROVE Ownership OBVIOUS
    <2>0. Main \in Procs /\ \A p \in Procs : pc[p] = "idle" /\ my[p] = NoCon BY DEF Init, Procs
    <2>1. AtWork BY <2>0 DEF AtWork, Procs
    <2>2. Exclusive BY <2>0 DEF Exclusive
    <2>3. MainUndisturbed BY <2>0 DEF MainUndisturbed
    <2>4. Stages BY <2>0 DEF Stages, Stage, Closing
    <2>5. BoundToOpen BY DEF Init, BoundToOpen, Bound
    <2>6. RegisteredBound BY DEF Init, RegisteredBound
    <2>7. PendingFree BY <2>0 DEF PendingFree, Pending
    <2>8. ClosesOwn BY <2>0 DEF ClosesOwn
    <2>9. FreeEmpty BY DEF Init, FreeEmpty
    <2>10. OpenHeld BY DEF Init, OpenHeld
    <2> QED BY <2>1, <2>2, <2>3, <2>4, <2>5, <2>6, <2>7, <2>8, <2>9, <2>10 DEF Ownership
  <1>2. TypeOK /\ Ownership /\ [Next]_vars => Ownership'
    <2> SUFFICES ASSUME TypeOK, Ownership, [Next]_vars PROVE Ownership' OBVIOUS
    <2>1. CASE MainStep
      <3>1. ~TimerEnd BY DEF TimerEnd, Done, Ownership, AtWork
      <3>2. \A c \in Conns : ~TimerLook(c) BY DEF TimerLook
      <3> QED BY <2>1, <3>1, <3>2, AcceptOwns, AcceptCountOwns, AcceptSlotOwns, AcceptRegisterOwns,
                 AcceptStartOwns, AcceptQueueOwns, AcceptFailOwns, TimerOwns
              DEF MainStep
    <2>2. ASSUME NEW p \in Procs, Close(p) PROVE Ownership'
      BY <2>2, CloseEventsOwns, CloseFdOwns, CloseCountOwns, CloseUnsetOwns, CloseReleaseOwns,
         CloseSetStateOwns
      DEF Close
    <2>3. ASSUME NEW t \in Threads, WorkerStep(t) PROVE Ownership'
      <3>1. /\ RunRequestStart(t) => Ownership'
            /\ RunServe(t) => Ownership'
            /\ RunShutdown(t) => Ownership'
        BY MoveOwns DEF RunRequestStart, RunServe, RunShutdown, ConStates
      <3> QED BY <2>3, <3>1, TakeRunOwns, TakeEventOwns, RunCloseOwns, RunRestOwns, FdeventSetOwns
              DEF WorkerStep
    <2>4. CASE UNCHANGED vars BY <2>4, ThreadsStill DEF vars
    <2> QED BY <2>1, <2>2, <2>3, <2>4 DEF Next
  <1> QED BY <1>1, <1>2, TypeCorrect, PTL DEF Spec

\* Events reach the owner of their descriptor (ConPool!EventsReachOwner).
THEOREM EventsOwned == ASSUME ~EagerReuse, ~SplitTimer PROVE Spec => []EventsReachOwner
  <1>1. TypeOK /\ Ownership => EventsReachOwner
    <2> SUFFICES ASSUME TypeOK, Ownership, NEW f \in Fds, reg[f] # NoCon
                 PROVE  f \in openFds /\ Holds(reg[f], f)
      BY DEF EventsReachOwner
    <2>1. PICK c \in Conns : c = reg[f] BY DEF TypeOK, VarTypes
    <2>2. Bound(c) /\ fd[c] = f BY <2>1 DEF Ownership, RegisteredBound
    <2>3. f \in openFds BY <2>1, RegisteredHeld
    <2> QED BY <2>1, <2>2, <2>3 DEF Holds, Bound, Closing
  <1> QED BY <1>1, Owned, TypeCorrect, PTL

\* connection_close closes its slot's own descriptor, once (ConPool!ClosesOwn).
THEOREM OwnClosed == ASSUME ~EagerReuse, ~SplitTimer PROVE Spec => []ClosesOwn
  <1>1. Ownership => ClosesOwn BY DEF Ownership
  <1> QED BY <1>1, Owned, PTL

\* One thread works on a slot at a time (ConPool!Exclusive).
THEOREM SlotsExclusive == ASSUME ~EagerReuse, ~SplitTimer PROVE Spec => []Exclusive
  <1>1. Ownership => Exclusive BY DEF Ownership
  <1> QED BY <1>1, Owned, PTL

\* No descriptor is lost or has two owners (ConPool!NoLeak).
THEOREM NothingLeaks == ASSUME ~EagerReuse, ~SplitTimer PROVE Spec => []NoLeak
  <1>1. TypeOK /\ Ownership => NoLeak
    <2> SUFFICES ASSUME TypeOK, Ownership, NEW f \in openFds
                 PROVE  \/ Pending(f) /\ \A c \in Conns : ~Holds(c, f)
                        \/ /\ ~Pending(f)
                           /\ \E c \in Conns : Holds(c, f) /\ \A d \in Conns : Holds(d, f) => d = c
      BY DEF NoLeak
    <2>1. f \in Fds BY DEF TypeOK, VarTypes
    <2>2. CASE Pending(f) BY <2>1, <2>2 DEF Ownership, PendingFree
    <2>3. CASE ~Pending(f)
      <3>1. PICK c \in Conns : Holds(c, f) BY <2>3 DEF Ownership, OpenHeld
      <3>2. \A d \in Conns : Holds(d, f) => d = c
        BY <2>1, <3>1, HolderStage, RegisteredHeld DEF LastOf
      <3> QED BY <2>3, <3>1, <3>2
    <2> QED BY <2>2, <2>3
  <1> QED BY <1>1, Owned, TypeCorrect, PTL
=============================================================================
