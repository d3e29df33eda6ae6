---------------------------- MODULE PartsProofs ----------------------------
(***************************************************************************)
(* Parts that a connection calls, for any configuration, any number of     *)
(* connections, workers, descriptors or processes and any failures: the    *)
(* job list and the fd wait queue, the descriptors that are polled, the    *)
(* conditions of the configuration and their cache, the way of a request   *)
(* through the plugins, and the copies in the compression cache.           *)
(***************************************************************************)
EXTENDS JobList, SequencesExt, FiniteSetTheorems, SequenceTheorems, WellFoundedInduction, TLAPS

CONSTANTS
  Backends, LastFd, MaxOpens,                         \* of FdEvent
  LastNode, Blocks, Items, AtAccept, AtHello,         \* of ConfigCond, Blocks its Configs
  Configs, Files, Scripts, Homes, Db, RewriteLoops, LocalLoops, Serial,   \* of Hooks
  Servers, LastVersion, MaxFails, MaxCrashes          \* of CompressCache, Servers its Procs

VARIABLES
  backend, opens, sock, node, interest, index, leaving, pend, mon,   \* of FdEvent, interest its events,
  slots, unused, report, toCall, loop, cur, served,                  \* index its ndx, toCall its n, loop its pc
  config, value, valid, result, local, stuck,                      \* of ConfigCond
  which, conn, pconf, kept,                                        \* of Hooks, conn its c, kept its z
  src, copy, seen, sized, at, job, answer, fails, crashes, left    \* of CompressCache, at its pc

Fd == INSTANCE FdEvent WITH events <- interest, ndx <- index, n <- toCall, pc <- loop
Cond == INSTANCE ConfigCond WITH Configs <- Blocks
Hook == INSTANCE Hooks WITH c <- conn, z <- kept
Compress == INSTANCE CompressCache WITH Procs <- Servers, pc <- at

-----------------------------------------------------------------------------
(* The job list and the fd wait queue.                                      *)

TypeOK ==
  /\ lock \in Procs \cup {Nobody}
  /\ joblist \in Seq(Conns) /\ fdwait \in Seq(Conns) /\ runs \in [Threads -> Seq(Conns)]
  /\ used \subseteq Conns /\ have \subseteq Conns /\ without \subseteq Conns
  /\ pc \in [Procs -> {"idle", "load", "store", "append", "admit", "fdwait", "share",
                       "unlock", "poll", "jobs", "calling"}]
  /\ my \in [Procs -> Conns \cup {NoCon}]
  /\ ndx \in Nat

\* A worker's queue holds only its own connections, so that a connection is run by one thread.
RunsOwn == \A t \in Threads, c \in Conns : In(c, runs[t]) => ThreadOf[c] = t

\* Between its socket() that failed and the wait queue a worker keeps the connection, its own.
Keeps == \A t \in Threads :
  IF pc[t] = "idle" THEN my[t] = NoCon ELSE my[t] \in Conns /\ ThreadOf[my[t]] = t

ListsIInv == TypeOK /\ RunsOwn /\ Keeps /\ NoLostWaiter

\* An element at the end of a queue.
LEMMA AppendKeeps ==
  ASSUME NEW s \in Seq(Conns), NEW d \in Conns, NEW c
  PROVE  /\ Append(s, d) \in Seq(Conns) /\ In(d, Append(s, d))
         /\ In(c, s) => In(c, Append(s, d))
         /\ In(c, Append(s, d)) => In(c, s) \/ c = d
<1>1. Append(s, d) \in Seq(Conns) /\ DOMAIN s = 1 .. Len(s) /\ Len(s) \in Nat
  OBVIOUS
<1>2. DOMAIN Append(s, d) = 1 .. Len(s) + 1 /\ Append(s, d)[Len(s) + 1] = d
      /\ \A i \in 1 .. Len(s) : Append(s, d)[i] = s[i]
  OBVIOUS
<1>3. Len(s) + 1 \in 1 .. Len(s) + 1 /\ \A i \in 1 .. Len(s) + 1 : i \in 1 .. Len(s) \/ i = Len(s) + 1
  BY <1>1
<1>4. \A i \in 1 .. Len(s) : i \in 1 .. Len(s) + 1
  BY <1>1
<1> QED BY <1>1, <1>2, <1>3, <1>4, Zenon DEF In

\* A queue without its first element.
LEMMA TailKeeps ==
  ASSUME NEW s \in Seq(Conns), s # <<>>, NEW c
  PROVE  /\ Head(s) \in Conns /\ Tail(s) \in Seq(Conns) /\ In(Head(s), s)
         /\ In(c, s) => c = Head(s) \/ In(c, Tail(s))
         /\ In(c, Tail(s)) => In(c, s)
<1>1. Head(s) = s[1] /\ Len(s) \in Nat /\ Len(s) > 0 /\ Tail(s) \in Seq(Conns) /\ Head(s) \in Conns
  OBVIOUS
<1>2. DOMAIN s = 1 .. Len(s) /\ DOMAIN Tail(s) = 1 .. Len(s) - 1
  OBVIOUS
<1>3. \A i \in 1 .. Len(s) - 1 : Tail(s)[i] = s[i + 1]
  OBVIOUS
<1>4. \A i \in 1 .. Len(s) - 1 : i + 1 \in 1 .. Len(s)
  BY <1>1
<1>5. \A i \in 1 .. Len(s) : i # 1 => i - 1 \in 1 .. Len(s) - 1 /\ (i - 1) + 1 = i
  BY <1>1
<1>6. \A i \in 1 .. Len(s) : i # 1 => Tail(s)[i - 1] = s[i]
  BY <1>3, <1>5
<1>7. 1 \in 1 .. Len(s)
  BY <1>1
<1>8. In(c, s) => c = Head(s) \/ In(c, Tail(s))
  BY <1>1, <1>2, <1>5, <1>6, Zenon DEF In
<1>9. In(c, Tail(s)) => In(c, s)
  BY <1>2, <1>3, <1>4, Zenon DEF In
<1>10. In(Head(s), s)
  BY <1>1, <1>2, <1>7, Zenon DEF In
<1> QED BY <1>1, <1>8, <1>9, <1>10

\* a run more: no queue loses one, and the connection is in its worker's
LEMMA WithRunKeeps ==
  ASSUME JobListAssumption, runs \in [Threads -> Seq(Conns)], NEW d \in Conns
  PROVE  /\ WithRun(runs, d) \in [Threads -> Seq(Conns)]
         /\ \A t \in Threads : \A c : In(c, runs[t]) => In(c, WithRun(runs, d)[t])
         /\ In(d, WithRun(runs, d)[ThreadOf[d]])
         /\ \A t \in Threads : \A c : In(c, WithRun(runs, d)[t]) => In(c, runs[t]) \/ (c = d /\ t = ThreadOf[d])
<1>1. ThreadOf[d] \in Threads BY DEF JobListAssumption
<1>2. runs[ThreadOf[d]] \in Seq(Conns) BY <1>1
<1>3. Append(runs[ThreadOf[d]], d) \in Seq(Conns) BY <1>2, AppendKeeps
<1>4. WithRun(runs, d) \in [Threads -> Seq(Conns)] BY <1>1, <1>3 DEF WithRun
<1>5. WithRun(runs, d)[ThreadOf[d]] = Append(runs[ThreadOf[d]], d)
      /\ \A t \in Threads : t # ThreadOf[d] => WithRun(runs, d)[t] = runs[t]
  BY <1>1 DEF WithRun
<1>6. ASSUME NEW c
      PROVE  /\ In(d, Append(runs[ThreadOf[d]], d))
             /\ In(c, runs[ThreadOf[d]]) => In(c, Append(runs[ThreadOf[d]], d))
             /\ In(c, Append(runs[ThreadOf[d]], d)) => In(c, runs[ThreadOf[d]]) \/ c = d
  BY <1>2, AppendKeeps
<1> QED BY <1>1, <1>4, <1>5, <1>6

\* The lists and the queues in the first state.
LEMMA InitLists == ASSUME JobListAssumption, Init PROVE ListsIInv
<1>1. TypeOK
  BY DEF JobListAssumption, Init, TypeOK, Procs
<1>2. RunsOwn
  BY DEF Init, RunsOwn, In
<1>3. Keeps
  BY DEF JobListAssumption, Init, Keeps, Procs
<1>4. NoLostWaiter
  BY DEF Init, NoLostWaiter
<1> QED BY <1>1, <1>2, <1>3, <1>4 DEF ListsIInv

\* The types are kept.
LEMMA NextType == ASSUME JobListAssumption, ListsIInv, [Next]_vars PROVE TypeOK'
<1> USE DEF ListsIInv, TypeOK, clients
<1>1. Main \in Procs /\ Threads \subseteq Procs /\ \A c \in Conns : ThreadOf[c] \in Threads
  BY DEF Procs, JobListAssumption
<1>2. \A c \in Conns : WithRun(runs, c) \in [Threads -> Seq(Conns)]
  BY WithRunKeeps
<1>3. ASSUME NEW t \in Threads, Worker(t) PROVE TypeOK'
  <2>1. runs[t] \in Seq(Conns)
    OBVIOUS
  <2>2. runs[t] # <<>> => Head(runs[t]) \in Conns /\ Tail(runs[t]) \in Seq(Conns)
    BY <2>1
  <2>3. CASE RunServed(t)
    BY <2>2, <2>3 DEF RunServed
  <2>4. CASE RunShort(t)
    BY <1>1, <2>2, <2>4 DEF RunShort, Goto
  <2>5. CASE WantLoad(t)
    BY <1>1, <2>5 DEF WantLoad, Goto
  <2>6. CASE WantStore(t)
    BY <1>1, <2>6 DEF WantStore, Goto
  <2>7. CASE FdwaitAppend(t)
    <3>1. my[t] \in Conns
      BY <2>7 DEF FdwaitAppend, Goto, Keeps
    <3>2. Append(fdwait, my[t]) \in Seq(Conns)
      BY <3>1
    <3> QED BY <1>1, <2>7, <3>2 DEF FdwaitAppend, Goto
  <2> QED BY <1>3, <2>3, <2>4, <2>5, <2>6, <2>7 DEF Worker
<1>4. ASSUME NEW c \in Conns, ClientEvent(c) \/ JoblistAppend(c) \/ Accept(c) \/ Leave(c) PROVE TypeOK'
  <2>1. Append(joblist, c) \in Seq(Conns)
    OBVIOUS
  <2>2. CASE ClientEvent(c)
    BY <1>2, <2>2 DEF ClientEvent
  <2>3. CASE JoblistAppend(c)
    BY <2>1, <2>3 DEF JoblistAppend
  <2>4. CASE Accept(c)
    BY <1>2, <2>4 DEF Accept
  <2>5. CASE Leave(c)
    BY <2>5 DEF Leave
  <2> QED BY <1>4, <2>2, <2>3, <2>4, <2>5
<1>5. CASE MainLoop
  <2>1. fdwait # <<>> => Head(fdwait) \in Conns /\ Tail(fdwait) \in Seq(Conns)
    OBVIOUS
  <2>2. ASSUME NEW a, NEW b \in {"admit", "fdwait", "share", "load", "store", "unlock", "poll", "jobs", "calling"},
               Goto(Main, a, b)
        PROVE  pc' \in [Procs -> {"idle", "load", "store", "append", "admit", "fdwait", "share",
                                  "unlock", "poll", "jobs", "calling"}]
    BY <2>2 DEF Goto
  <2>3. CASE Admit
    BY <2>2, <2>3 DEF Admit
  <2>4. CASE FdwaitCall
    <3>1. pc' \in [Procs -> {"idle", "load", "store", "append", "admit", "fdwait", "share",
                                  "unlock", "poll", "jobs", "calling"}]
      BY <2>2, <2>4 DEF FdwaitCall
    <3> QED BY <1>1, <2>4, <3>1 DEF FdwaitCall
  <2>5. CASE Unshift
    <3>1. pc' \in [Procs -> {"idle", "load", "store", "append", "admit", "fdwait", "share",
                                  "unlock", "poll", "jobs", "calling"}]
      BY <2>2, <2>5 DEF Unshift
    <3>2. fdwait' \in Seq(Conns) /\ runs' \in [Threads -> Seq(Conns)]
      BY <1>2, <2>1, <2>5 DEF Unshift
    <3> QED BY <2>5, <3>1, <3>2 DEF Unshift
  <2>6. CASE ShareNoMore
    BY <2>2, <2>6 DEF ShareNoMore
  <2>7. CASE LessLoad
    BY <2>2, <2>7 DEF LessLoad
  <2>8. CASE LessStore
    BY <2>2, <2>8 DEF LessStore
  <2>9. CASE FdwaitUnlock
    BY <2>2, <2>9 DEF FdwaitUnlock
  <2>10. CASE Polled
    BY <2>2, <2>10 DEF Polled
  <2>11. CASE JoblistCall
    BY <1>1, <2>2, <2>11 DEF JoblistCall
  <2>12. CASE JoblistRun
    <3>1. joblist[ndx + 1] \in Conns
      BY <2>12 DEF JoblistRun
    <3>2. runs' \in [Threads -> Seq(Conns)]
      BY <1>2, <2>12, <3>1 DEF JoblistRun
    <3>3. ndx' \in Nat
      BY <2>12 DEF JoblistRun
    <3> QED BY <2>12, <3>2, <3>3 DEF JoblistRun
  <2>13. CASE JoblistClear
    BY <2>2, <2>13 DEF JoblistClear
  <2> QED BY <1>5, <2>3, <2>4, <2>5, <2>6, <2>7, <2>8, <2>9, <2>10, <2>11, <2>12, <2>13 DEF MainLoop
<1>6. CASE UNCHANGED vars
  BY <1>6 DEF vars
<1> QED BY <1>3, <1>4, <1>5, <1>6 DEF Next

\* Steps that give no worker anything to do and take nothing from one
LEMMA Steady ==
  ASSUME ListsIInv, UNCHANGED <<runs, my, fdwait>>, without' \subseteq without,
         \A t \in Threads : pc'[t] = pc[t]
  PROVE  RunsOwn' /\ Keeps' /\ NoLostWaiter'
BY DEF ListsIInv, RunsOwn, Keeps, NoLostWaiter

\* One more run of a connection, which the wait queue may lose for it
LEMMA OneMoreRun ==
  ASSUME JobListAssumption, ListsIInv, NEW d \in Conns, runs' = WithRun(runs, d),
         UNCHANGED <<my, without>>, \A t \in Threads : pc'[t] = pc[t],
         \A c \in Conns : In(c, fdwait) => In(c, fdwait') \/ c = d
  PROVE  RunsOwn' /\ Keeps' /\ NoLostWaiter'
<1>1. \A c \in Conns : ThreadOf[c] \in Threads
  BY DEF JobListAssumption
<1>2. /\ \A t \in Threads, c \in Conns : In(c, runs[t]) => In(c, runs'[t])
      /\ In(d, runs'[ThreadOf[d]])
      /\ \A t \in Threads, c \in Conns : In(c, runs'[t]) => In(c, runs[t]) \/ (c = d /\ t = ThreadOf[d])
  BY WithRunKeeps DEF ListsIInv, TypeOK
<1>3. RunsOwn'
  BY <1>2 DEF ListsIInv, RunsOwn
<1>4. Keeps'
  BY DEF ListsIInv, Keeps
<1>5. NoLostWaiter'
  BY <1>1, <1>2 DEF ListsIInv, TypeOK, NoLostWaiter
<1> QED BY <1>3, <1>4, <1>5

LEMMA WorkerStep ==
  ASSUME JobListAssumption, ListsIInv, NEW t \in Threads, Worker(t)
  PROVE  RunsOwn' /\ Keeps' /\ NoLostWaiter'
<1> USE DEF ListsIInv
<1>1. Main \notin Threads /\ Threads \subseteq Procs /\ NoCon \notin Conns
      /\ \A c \in Conns : ThreadOf[c] \in Threads
  BY DEF Procs, JobListAssumption
<1>2. runs[t] \in Seq(Conns) /\ fdwait \in Seq(Conns)
  BY DEF TypeOK
<1>3. ASSUME runs[t] # <<>>, runs' = [runs EXCEPT ![t] = Tail(@)]
      PROVE  /\ RunsOwn' /\ Head(runs[t]) \in Conns /\ ThreadOf[Head(runs[t])] = t
             /\ \A s \in Threads, c \in Conns : In(c, runs[s]) => In(c, runs'[s]) \/ c = Head(runs[t])
  <2>1. Head(runs[t]) \in Conns /\ In(Head(runs[t]), runs[t])
    BY <1>2, <1>3, TailKeeps
  <2>2. ASSUME NEW c
        PROVE  /\ In(c, runs[t]) => c = Head(runs[t]) \/ In(c, Tail(runs[t]))
               /\ In(c, Tail(runs[t])) => In(c, runs[t])
    BY <1>2, <1>3, TailKeeps
  <2>3. runs'[t] = Tail(runs[t]) /\ \A s \in Threads : s # t => runs'[s] = runs[s]
    BY <1>3 DEF TypeOK
  <2>4. RunsOwn'
    BY <2>2, <2>3 DEF RunsOwn
  <2> QED BY <2>1, <2>2, <2>3, <2>4 DEF RunsOwn
<1>4. CASE RunServed(t)
  <2>1. Keeps'
    BY <1>4 DEF RunServed, Keeps
  <2>2. NoLostWaiter'
    BY <1>1, <1>3, <1>4 DEF RunServed, NoLostWaiter, TypeOK
  <2> QED BY <1>3, <1>4, <2>1, <2>2 DEF RunServed
<1>5. CASE RunShort(t)
  <2> DEFINE h == Head(runs[t])
  <2>1. pc' = [pc EXCEPT ![t] = "load"] /\ my' = [my EXCEPT ![t] = h] /\ pc[t] = "idle"
    BY <1>5 DEF RunShort, Goto
  <2>2. h \in Conns /\ ThreadOf[h] = t
    BY <1>3, <1>5 DEF RunShort
  <2>3. Keeps'
    BY <1>1, <2>1, <2>2 DEF Keeps, TypeOK
  <2>4. my'[t] = h /\ \A s \in Threads : s # t => my'[s] = my[s]
    BY <1>1, <2>1 DEF TypeOK
  <2>5. my[t] = NoCon
    BY <2>1 DEF Keeps
  <2>6. without' = without \cup {h} /\ fdwait' = fdwait
    BY <1>5 DEF RunShort
  <2>7. \A s \in Threads, c \in Conns : In(c, runs[s]) => In(c, runs'[s]) \/ c = h
    BY <1>3, <1>5 DEF RunShort
  <2> HIDE DEF h
  <2>8. NoLostWaiter'
    <3>1. SUFFICES ASSUME NEW c \in without \cup {h}
                   PROVE  In(c, fdwait') \/ In(c, runs'[ThreadOf[c]]) \/ my'[ThreadOf[c]] = c
      BY <2>6 DEF NoLostWaiter
    <3>2. c \in Conns /\ ThreadOf[c] \in Threads
      BY <1>1, <2>2 DEF TypeOK
    <3>3. CASE c = h
      BY <2>2, <2>4, <3>3
    <3>4. CASE c # h /\ In(c, fdwait)
      BY <2>6, <3>4
    <3>5. CASE c # h /\ In(c, runs[ThreadOf[c]])
      BY <2>7, <3>2, <3>5
    <3>6. CASE c # h /\ my[ThreadOf[c]] = c
      BY <1>1, <2>4, <2>5, <3>2, <3>6
    <3> QED BY <3>3, <3>4, <3>5, <3>6 DEF NoLostWaiter
  <2> QED BY <1>3, <1>5, <2>3, <2>8 DEF RunShort
<1>6. ASSUME NEW a, NEW b, a # "idle", b # "idle", Goto(t, a, b), UNCHANGED <<my, runs, fdwait, without>>
      PROVE RunsOwn' /\ Keeps' /\ NoLostWaiter'
  <2>1. Keeps'
    BY <1>1, <1>6 DEF Keeps, Goto, TypeOK
  <2> QED BY <1>6, <2>1 DEF RunsOwn, NoLostWaiter
<1>7. CASE WantLoad(t)
  BY <1>6, <1>7 DEF WantLoad
<1>8. CASE WantStore(t)
  BY <1>6, <1>8 DEF WantStore
<1>9. CASE FdwaitAppend(t)
  <2>1. pc[t] = "append" /\ pc' = [pc EXCEPT ![t] = "idle"] /\ my' = [my EXCEPT ![t] = NoCon]
        /\ fdwait' = Append(fdwait, my[t]) /\ UNCHANGED <<runs, without>>
    BY <1>9 DEF FdwaitAppend, Goto
  <2>2. my[t] \in Conns /\ ThreadOf[my[t]] = t
    BY <2>1 DEF Keeps
  <2>3. Keeps'
    BY <1>1, <2>1 DEF Keeps, TypeOK
  <2>4. \A s \in Threads : s # t => my'[s] = my[s]
    BY <1>1, <2>1 DEF TypeOK
  <2>5. In(my[t], fdwait')
    BY <1>2, <2>1, <2>2, AppendKeeps
  <2>6. \A c \in Conns : In(c, fdwait) => In(c, fdwait')
    BY <1>2, <2>1, <2>2, AppendKeeps
  <2>7. NoLostWaiter'
    BY <1>1, <2>1, <2>4, <2>5, <2>6 DEF NoLostWaiter, TypeOK
  <2> QED BY <2>1, <2>3, <2>7 DEF RunsOwn
<1> QED BY <1>4, <1>5, <1>7, <1>8, <1>9 DEF Worker

LEMMA EventStep ==
  ASSUME JobListAssumption, ListsIInv, NEW c \in Conns, ClientEvent(c) \/ JoblistAppend(c) \/ Accept(c) \/ Leave(c)
  PROVE  RunsOwn' /\ Keeps' /\ NoLostWaiter'
<1>1. CASE ClientEvent(c)
  BY <1>1, OneMoreRun DEF ClientEvent
<1>2. CASE JoblistAppend(c)
  BY <1>2, Steady DEF JoblistAppend
<1>3. CASE Accept(c)
  BY <1>3, OneMoreRun DEF Accept
<1>4. CASE Leave(c)
  BY <1>4, Steady DEF Leave
<1> QED BY <1>1, <1>2, <1>3, <1>4

LEMMA MainStep ==
  ASSUME JobListAssumption, ListsIInv, MainLoop
  PROVE  RunsOwn' /\ Keeps' /\ NoLostWaiter'
<1>1. Main \notin Threads /\ pc \in [Procs -> {"idle", "load", "store", "append", "admit", "fdwait", "share",
                       "unlock", "poll", "jobs", "calling"}] /\ Threads \subseteq Procs
  BY DEF Procs, JobListAssumption, ListsIInv, TypeOK
<1>2. ASSUME NEW a, NEW b, Goto(Main, a, b) PROVE \A t \in Threads : pc'[t] = pc[t]
  BY <1>1, <1>2 DEF Goto
<1>3. CASE Admit
  BY <1>2, <1>3, Steady DEF Admit
<1>4. CASE FdwaitCall
  <2>1. \A t \in Threads : pc'[t] = pc[t]
    BY <1>2, <1>4 DEF FdwaitCall
  <2> QED BY <1>4, <2>1, Steady DEF FdwaitCall
<1>5. CASE Unshift
  <2>1. \A t \in Threads : pc'[t] = pc[t]
    BY <1>2, <1>5 DEF Unshift
  <2>2. CASE fdwait = <<>>
    BY <1>5, <2>1, <2>2, Steady DEF Unshift
  <2>3. CASE fdwait # <<>>
    <3>1. fdwait \in Seq(Conns)
      BY DEF ListsIInv, TypeOK
    <3>2. Head(fdwait) \in Conns /\ \A c : In(c, fdwait) => In(c, Tail(fdwait)) \/ c = Head(fdwait)
      BY <2>3, <3>1, TailKeeps
    <3>3. runs' = WithRun(runs, Head(fdwait)) /\ fdwait' = Tail(fdwait) /\ UNCHANGED <<my, without>>
      BY <1>5, <2>3 DEF Unshift
    <3> QED BY <2>1, <3>2, <3>3, OneMoreRun
  <2> QED BY <2>2, <2>3
<1>6. CASE ShareNoMore
  BY <1>2, <1>6, Steady DEF ShareNoMore
<1>7. CASE LessLoad
  BY <1>2, <1>7, Steady DEF LessLoad
<1>8. CASE LessStore
  BY <1>2, <1>8, Steady DEF LessStore
<1>9. CASE FdwaitUnlock
  BY <1>2, <1>9, Steady DEF FdwaitUnlock
<1>10. CASE Polled
  BY <1>2, <1>10, Steady DEF Polled
<1>11. CASE JoblistCall
  BY <1>2, <1>11, Steady DEF JoblistCall
<1>12. CASE JoblistRun
  <2>1. joblist[ndx + 1] \in Conns
    BY <1>12 DEF JoblistRun, ListsIInv, TypeOK
  <2> QED BY <1>12, <2>1, OneMoreRun DEF JoblistRun
<1>13. CASE JoblistClear
  BY <1>2, <1>13, Steady DEF JoblistClear
<1> QED BY <1>3, <1>4, <1>5, <1>6, <1>7, <1>8, <1>9, <1>10, <1>11, <1>12, <1>13 DEF MainLoop

\* Every step of the main loop and of the workers keeps it.
LEMMA NextLists == ASSUME JobListAssumption, ListsIInv, [Next]_vars PROVE ListsIInv'
<1>1. TypeOK'
  BY NextType
<1>2. ASSUME UNCHANGED vars PROVE RunsOwn' /\ Keeps' /\ NoLostWaiter'
  BY <1>2, Steady DEF vars
<1>3. ASSUME Next PROVE RunsOwn' /\ Keeps' /\ NoLostWaiter'
  BY <1>3, WorkerStep, EventStep, MainStep DEF Next
<1> QED BY <1>1, <1>2, <1>3 DEF ListsIInv

\* A worker runs only connections of its own, whichever thread put them into its queue: the
\* state machine of a connection is never run by two threads (connections.c:1611, joblist.c:39).
THEOREM OwnRuns == Spec => []RunsOwn
<1>1. Init => ListsIInv
  BY JobListAssumption, InitLists
<1>2. ListsIInv /\ [Next]_vars => ListsIInv'
  BY JobListAssumption, NextLists
<1>3. ListsIInv => RunsOwn
  BY DEF ListsIInv
<1> QED BY <1>1, <1>2, <1>3, PTL DEF Spec

\* A connection whose backend got no descriptor is waiting for one, or is about to be run again:
\* the unlocked counting of want_fds can delay it, the two lists lose none (joblist.c:74-112,
\* connections.c:960-966).
THEOREM WaitersKept == Spec => []NoLostWaiter
<1>1. Init => ListsIInv
  BY JobListAssumption, InitLists
<1>2. ListsIInv /\ [Next]_vars => ListsIInv'
  BY JobListAssumption, NextLists
<1>3. ListsIInv => NoLostWaiter
  BY DEF ListsIInv
<1> QED BY <1>1, <1>2, <1>3, PTL DEF Spec

-----------------------------------------------------------------------------
(* The descriptors that are polled.                                         *)

Nodes == {"none", "node", "closing"}
SlotType == [fd : Fd!Sockets \cup {Fd!NoFd}, events : SUBSET Fd!Ev]
EventTypes ==
  /\ backend \in {"epoll", "poll", "select", "kqueue"} /\ opens \in Nat
  /\ sock \in [Fd!Sockets -> Nat] /\ node \in [Fd!Sockets -> Nodes]
  /\ interest \in [Fd!Sockets -> SUBSET Fd!Ev] /\ index \in [Fd!Sockets -> Int]
  /\ leaving \subseteq Fd!Sockets /\ pend \subseteq Fd!Sockets
  /\ mon \in [Fd!Sockets -> SUBSET (Fd!Ev \cup Fd!Off)]
  /\ slots \in Seq(SlotType) /\ unused \in Seq(Nat)
  /\ loop \in {"poll", "call", "handler", "sched", "wild"}

\* A descriptor has an index from its first interest to fdevent_event_del.
Indexed ==
  \A f \in Fd!Sockets :
    /\ index[f] # Fd!NoFd => node[f] = "node" /\ f \notin leaving
    /\ index[f] = Fd!NoFd => interest[f] = {}
    /\ f \in leaving => node[f] = "node"
    /\ node[f] # "none" => sock[f] # 0
    /\ f \in pend => node[f] = "closing"

\* What the kernel of epoll, select and kqueue knows.
Known ==
  backend # "poll" =>
    /\ \A f \in Fd!Sockets : mon[f] \ Fd!Off = interest[f]
    /\ backend = "epoll" => \A f \in Fd!Sockets : Fd!EpollFits(f)

\* pollfds: every descriptor with an index has its entry, every index is in use or free, once.
FreeSlots == {i \in DOMAIN slots : slots[i].fd = Fd!NoFd}
Placed ==
  /\ \A f \in Fd!Sockets : index[f] # Fd!NoFd =>
       index[f] \in DOMAIN slots /\ slots[index[f]] = [fd |-> f, events |-> interest[f]]
  /\ \A i \in DOMAIN slots : slots[i].fd # Fd!NoFd => index[slots[i].fd] = i
Stacked ==
  /\ {unused[i] : i \in DOMAIN unused} = FreeSlots
  /\ \A i, j \in DOMAIN unused : unused[i] = unused[j] => i = j
  /\ Len(unused) = Cardinality(FreeSlots)
Arrayed == backend = "poll" => Placed /\ Stacked

\* In a round no number changes its socket, and no node goes.
Reported ==
  backend # "poll" /\ loop \in {"call", "handler"} =>
    /\ report # <<>> /\ report \in Seq([at : Fd!Sockets, sock : Nat])
    /\ \A i \in DOMAIN report : node[report[i].at] # "none" /\ sock[report[i].at] = report[i].sock
    /\ loop = "handler" => cur = Head(report).at
NotWild == backend # "poll" => loop # "wild"

EventsIInv == EventTypes /\ Indexed /\ Known /\ Arrayed /\ Reported /\ NotWild

\* What the module of the descriptors takes from the libraries is what this one takes.
LEMMA FdLibrary ==
  /\ \A S : Fd!Cardinality(S) = Cardinality(S)
  /\ \A s : Fd!Last(s) = Last(s) /\ Fd!Front(s) = Front(s)
<1>1. ASSUME NEW S PROVE Fd!Cardinality(S) = Cardinality(S)
  BY DEF Fd!Cardinality, Cardinality
<1>2. ASSUME NEW s PROVE Fd!Last(s) = Last(s) /\ Fd!Front(s) = Front(s)
  BY DEF Fd!Last, Fd!Front, Last, Front
<1> QED BY <1>1, <1>2

LEMMA LastFront ==
  ASSUME NEW S, NEW s \in Seq(S), s # <<>>
  PROVE  /\ Len(s) \in Nat \ {0} /\ Last(s) = s[Len(s)] /\ Last(s) \in S
         /\ Front(s) \in Seq(S) /\ Len(Front(s)) = Len(s) - 1
         /\ \A i \in 1 .. Len(s) - 1 : Front(s)[i] = s[i]
<1>1. Len(s) \in Nat \ {0}
  OBVIOUS
<1>2. Last(s) = s[Len(s)] /\ Last(s) \in S
  BY <1>1 DEF Last
<1>3. ASSUME NEW m \in Nat, m <= Len(s)
      PROVE  /\ SubSeq(s, 1, m) \in Seq(S) /\ Len(SubSeq(s, 1, m)) = m
             /\ \A i \in 1 .. m : SubSeq(s, 1, m)[i] = s[i]
  <2>1. SubSeq(s, 1, m) \in Seq(S)
    BY <1>3
  <2>2. Len(SubSeq(s, 1, m)) = m
    BY <1>3
  <2>3. \A i \in 1 .. m : SubSeq(s, 1, m)[i] = s[i]
    BY <1>3
  <2> QED BY <2>1, <2>2, <2>3
<1>4. Len(s) - 1 \in Nat /\ Len(s) - 1 <= Len(s)
  BY <1>1
<1> QED BY <1>1, <1>2, <1>3, <1>4 DEF Front

LEMMA InSeq ==
  ASSUME NEW S, NEW s \in Seq(S), NEW i \in DOMAIN s
  PROVE  s[i] \in S
OBVIOUS

LEMMA Appended ==
  ASSUME NEW S, NEW s \in Seq(S), NEW e \in S
  PROVE  /\ Append(s, e) \in Seq(S) /\ Len(Append(s, e)) = Len(s) + 1 /\ Len(s) \in Nat
         /\ DOMAIN s = 1 .. Len(s) /\ DOMAIN Append(s, e) = 1 .. (Len(s) + 1)
         /\ \A i \in 1 .. Len(s) : Append(s, e)[i] = s[i]
         /\ Append(s, e)[Len(s) + 1] = e
OBVIOUS

LEMMA Replaced ==
  ASSUME NEW S, NEW s \in Seq(S), NEW k \in DOMAIN s, NEW e \in S
  PROVE  /\ [s EXCEPT ![k] = e] \in Seq(S) /\ DOMAIN [s EXCEPT ![k] = e] = DOMAIN s
         /\ [s EXCEPT ![k] = e][k] = e
         /\ \A i \in DOMAIN s : i # k => [s EXCEPT ![k] = e][i] = s[i]
OBVIOUS

LEMMA Numbers ==
  ASSUME Fd!FdEventAssumption
  PROVE  Fd!Sockets \subseteq Nat /\ Fd!NoFd \notin Nat /\ Fd!NoFd \in Int /\ Fd!Off \cap Fd!Ev = {}
         /\ Fd!Off # {}
BY DEF Fd!FdEventAssumption, Fd!Sockets, Fd!NoFd, Fd!Off, Fd!Ev

LEMMA KernelSet ==
  ASSUME Fd!FdEventAssumption, EventTypes, Indexed, Known, NEW f \in Fd!Sockets, NEW ev \in SUBSET Fd!Ev,
         interest' = [interest EXCEPT ![f] = ev], UNCHANGED backend,
         Fd!EpollSet(f, ev) \/ Fd!SelectSet(f, ev) \/ (Fd!KqueueSet(f, ev) /\ backend # "epoll"),
           backend # "poll"
  PROVE  /\ mon' \in [Fd!Sockets -> SUBSET (Fd!Ev \cup Fd!Off)] /\ Known'
         /\ index' = [index EXCEPT ![f] = f] /\ UNCHANGED <<slots, unused>>
<1>1. f \in Nat /\ f # Fd!NoFd /\ Fd!Off \cap Fd!Ev = {} /\ Fd!Off # {}
  BY Numbers
<1>2. index' = [index EXCEPT ![f] = f] /\ UNCHANGED <<slots, unused>>
  BY DEF Fd!EpollSet, Fd!SelectSet, Fd!KqueueSet, Fd!SetIndex
<1>3. mon[f] \ Fd!Off = interest[f] /\ interest[f] \subseteq Fd!Ev
  BY DEF Known, EventTypes
<1>4. mon' = [mon EXCEPT ![f] = ev]
  <2>1. ((mon[f] \ Fd!Off) \ (interest[f] \ ev)) \cup (ev \ interest[f]) = ev
    BY <1>3
  <2> QED BY <2>1 DEF Fd!EpollSet, Fd!SelectSet, Fd!KqueueSet
<1>5. mon' \in [Fd!Sockets -> SUBSET (Fd!Ev \cup Fd!Off)]
  BY <1>4 DEF EventTypes
<1>6. \A g \in Fd!Sockets : mon'[g] \ Fd!Off = interest'[g]
  <2>1. ev \ Fd!Off = ev
    BY <1>1
  <2> QED BY <1>4, <2>1 DEF EventTypes, Known
<1>7. ASSUME backend = "epoll", NEW g \in Fd!Sockets PROVE Fd!EpollFits(g)'
  <2>1. ev # Fd!Off
    BY <1>1
  <2> QED BY <1>1, <1>2, <1>4, <1>7, <2>1 DEF EventTypes, Known, Fd!EpollFits
<1> QED BY <1>2, <1>5, <1>6, <1>7 DEF Known

LEMMA KernelDel ==
  ASSUME Fd!FdEventAssumption, EventTypes, Indexed, Known, NEW f \in Fd!Sockets,
         interest' = [interest EXCEPT ![f] = {}], UNCHANGED backend, backend # "poll",
         \/ Fd!EpollDel(f) \/ (Fd!SelectDel(f) /\ backend # "epoll") \/ (Fd!KqueueDel(f) /\ backend # "epoll")
  PROVE  /\ mon' \in [Fd!Sockets -> SUBSET (Fd!Ev \cup Fd!Off)] /\ Known'
         /\ index' = [index EXCEPT ![f] = Fd!NoFd] /\ UNCHANGED <<slots, unused>>
<1>1. Fd!Off \cap Fd!Ev = {} /\ Fd!Off # {}
  BY Numbers
<1>2. index' = [index EXCEPT ![f] = Fd!NoFd] /\ UNCHANGED <<slots, unused>>
  BY DEF Fd!EpollDel, Fd!SelectDel, Fd!KqueueDel, Fd!SetIndex
<1>3. /\ mon[f] \ Fd!Off = interest[f] /\ interest[f] \subseteq Fd!Ev
         /\ (index[f] = Fd!NoFd => interest[f] = {})
      /\ mon[f] \subseteq Fd!Ev \cup Fd!Off
  BY DEF Known, EventTypes, Indexed
<1>4. PICK m : /\ mon' = [mon EXCEPT ![f] = m] /\ m \ Fd!Off = {} /\ m \subseteq Fd!Off
               /\ backend = "epoll" => m = Fd!Off
  <2>1. ASSUME Fd!EpollDel(f) PROVE mon' = [mon EXCEPT ![f] = IF index[f] = Fd!NoFd THEN mon[f] ELSE Fd!Off]
    BY <2>1 DEF Fd!EpollDel
  <2>2. ASSUME Fd!SelectDel(f) PROVE mon' = [mon EXCEPT ![f] = IF index[f] = Fd!NoFd THEN mon[f] ELSE {}]
    BY <2>2 DEF Fd!SelectDel
  <2>3. ASSUME Fd!KqueueDel(f)
        PROVE mon' = [mon EXCEPT ![f] = IF index[f] = Fd!NoFd THEN mon[f] ELSE mon[f] \ interest[f]]
    BY <2>3 DEF Fd!KqueueDel
  <2>4. index[f] = Fd!NoFd => mon[f] \ Fd!Off = {} /\ mon[f] \subseteq Fd!Off
        /\ (backend = "epoll" => mon[f] = Fd!Off)
    BY <1>3 DEF Known, Fd!EpollFits
  <2>5. mon[f] \ interest[f] \subseteq Fd!Off
    BY <1>3
  <2> QED BY <2>1, <2>2, <2>3, <2>4, <2>5
<1>5. mon' \in [Fd!Sockets -> SUBSET (Fd!Ev \cup Fd!Off)]
  BY <1>4 DEF EventTypes
<1>6. \A g \in Fd!Sockets : mon'[g] \ Fd!Off = interest'[g]
  BY <1>4 DEF EventTypes, Known
<1>7. ASSUME backend = "epoll", NEW g \in Fd!Sockets PROVE Fd!EpollFits(g)'
  BY <1>2, <1>4, <1>7 DEF EventTypes, Known, Fd!EpollFits
<1> QED BY <1>2, <1>5, <1>6, <1>7 DEF Known

\* the indices of pollfds that are free, in the order they will be used
LEMMA FreeFinite ==
  ASSUME EventTypes
  PROVE  IsFiniteSet(FreeSlots)
<1>1. ASSUME NEW s \in Seq(SlotType) PROVE IsFiniteSet({i \in DOMAIN s : s[i].fd = Fd!NoFd})
  <2>1. DOMAIN s = 1 .. Len(s) /\ 1 \in Int /\ Len(s) \in Int
    OBVIOUS
  <2>2. IsFiniteSet(1 .. Len(s))
    BY <2>1, FS_Interval
  <2> QED BY <2>1, <2>2, FS_Subset
<1> QED BY <1>1 DEF EventTypes, FreeSlots

LEMMA PollSetKeeps ==
  ASSUME Fd!FdEventAssumption, EventTypes, Indexed, Placed, Stacked, NEW f \in Fd!Sockets,
         NEW ev \in SUBSET Fd!Ev,
         interest' = [interest EXCEPT ![f] = ev], Fd!PollSet(f, ev)
  PROVE  /\ Placed' /\ Stacked' /\ mon' = mon
         /\ slots' \in Seq(SlotType) /\ unused' \in Seq(Nat)
         /\ index' \in [Fd!Sockets -> Int] /\ index'[f] # Fd!NoFd
            /\ \A g \in Fd!Sockets : g # f => index'[g] = index[g]
<1> DEFINE slot == [fd |-> f, events |-> ev]
<1>1. /\ slot \in SlotType /\ slot.fd = f /\ slot.events = ev /\ f # Fd!NoFd /\ f \in Nat
      /\ Fd!Sockets \subseteq Nat /\ Fd!NoFd \notin Nat
  BY Numbers DEF SlotType
<1>2. /\ slots \in Seq(SlotType) /\ unused \in Seq(Nat) /\ index \in [Fd!Sockets -> Int]
      /\ interest \in [Fd!Sockets -> SUBSET Fd!Ev] /\ DOMAIN slots = 1 .. Len(slots) /\ Len(slots) \in Nat
      /\ DOMAIN unused = 1 .. Len(unused) /\ Len(unused) \in Nat
  BY DEF EventTypes
<1>3. /\ interest'[f] = ev /\ \A g \in Fd!Sockets : g # f => interest'[g] = interest[g]
  BY <1>2
<1>4. \A i \in DOMAIN slots : slots[i].fd # Fd!NoFd => slots[i].fd \in Fd!Sockets
  <2>1. \A i \in DOMAIN slots : slots[i] \in SlotType
    BY <1>2, InSeq
  <2>2. \A x \in SlotType : x.fd # Fd!NoFd => x.fd \in Fd!Sockets
    BY DEF SlotType
  <2> QED BY <2>1, <2>2
<1>5. mon' = mon
  BY DEF Fd!PollSet
<1>6. CASE index[f] # Fd!NoFd /\ slots' = [slots EXCEPT ![index[f]] = slot] /\ UNCHANGED <<unused, index>>
  <2> DEFINE k == index[f]
  <2>1. k \in DOMAIN slots /\ slots[k].fd = f
    <3>1. k \in DOMAIN slots /\ slots[k] = [fd |-> f, events |-> interest[f]]
      BY <1>6 DEF Placed
    <3>2. [fd |-> f, events |-> interest[f]].fd = f
      OBVIOUS
    <3> QED BY <3>1, <3>2
  <2> HIDE DEF slot
  <2>2. /\ slots' \in Seq(SlotType) /\ DOMAIN slots' = DOMAIN slots /\ slots'[k] = slot
        /\ \A i \in DOMAIN slots : i # k => slots'[i] = slots[i]
    BY <1>1, <1>2, <1>6, <2>1, Replaced
  <2>3. FreeSlots' = FreeSlots
    BY <1>1, <2>1, <2>2 DEF FreeSlots
  <2>4. Stacked'
    BY <1>6, <2>3 DEF Stacked
  <2>5. ASSUME NEW g \in Fd!Sockets, index'[g] # Fd!NoFd
        PROVE  index'[g] \in DOMAIN slots' /\ slots'[index'[g]] = [fd |-> g, events |-> interest'[g]]
    <3>1. CASE g = f
      BY <1>3, <1>6, <2>1, <2>2, <3>1 DEF slot
    <3>2. CASE g # f
      <4>1. index[g] \in DOMAIN slots /\ slots[index[g]] = [fd |-> g, events |-> interest[g]]
        BY <1>6, <2>5 DEF Placed
      <4>2. [fd |-> g, events |-> interest[g]].fd = g
        OBVIOUS
      <4>3. index[g] # k
        BY <2>1, <3>2, <4>1, <4>2
      <4> QED BY <1>3, <1>6, <2>2, <3>2, <4>1, <4>3
    <3> QED BY <3>1, <3>2
  <2>6. \A i \in DOMAIN slots' : slots'[i].fd # Fd!NoFd => index'[slots'[i].fd] = i
    BY <1>1, <1>6, <2>2 DEF Placed
  <2> QED BY <1>2, <1>5, <1>6, <2>2, <2>4, <2>5, <2>6 DEF Placed
<1>7. CASE /\ index[f] = Fd!NoFd /\ unused # <<>>
           /\ slots' = [slots EXCEPT ![Last(unused)] = slot]
           /\ Fd!SetIndex(f, Last(unused)) /\ unused' = Front(unused)
  <2> DEFINE k == Last(unused)
             z == Len(unused)
  <2>1. /\ z \in Nat \ {0} /\ k = unused[z] /\ k \in Nat
        /\ Front(unused) \in Seq(Nat) /\ Len(Front(unused)) = z - 1
        /\ \A i \in 1 .. z - 1 : Front(unused)[i] = unused[i]
    BY <1>2, <1>7, LastFront
  <2>2. k \in FreeSlots
    BY <1>2, <2>1 DEF Stacked
  <2>3. k \in DOMAIN slots /\ slots[k].fd = Fd!NoFd
    BY <2>2 DEF FreeSlots
  <2> HIDE DEF slot
  <2>4. /\ slots' \in Seq(SlotType) /\ DOMAIN slots' = DOMAIN slots /\ slots'[k] = slot
        /\ \A i \in DOMAIN slots : i # k => slots'[i] = slots[i]
    BY <1>1, <1>2, <1>7, <2>3, Replaced
  <2>5. FreeSlots' = FreeSlots \ {k}
    BY <1>1, <2>3, <2>4 DEF FreeSlots
  <2>6. index' = [index EXCEPT ![f] = k]
    BY <1>7 DEF Fd!SetIndex
  <2> HIDE DEF k, z
  <2>7. /\ index' \in [Fd!Sockets -> Int] /\ index'[f] = k /\ k # Fd!NoFd
        /\ \A g \in Fd!Sockets : g # f => index'[g] = index[g]
    BY <1>1, <1>2, <2>1, <2>6
  <2>8. Stacked'
    <3>1. unused' \in Seq(Nat) /\ Len(unused') = z - 1 /\ DOMAIN unused' = 1 .. z - 1
          /\ \A i \in 1 .. z - 1 : unused'[i] = unused[i]
      BY <1>7, <2>1
    <3>2. {unused'[i] : i \in DOMAIN unused'} = FreeSlots'
      <4>1. \A i \in DOMAIN unused' : unused'[i] \in FreeSlots /\ unused'[i] # k
        BY <1>2, <2>1, <3>1, SMTT(25) DEF Stacked, z
      <4>2. ASSUME NEW x \in FreeSlots, x # k PROVE \E i \in DOMAIN unused' : unused'[i] = x
        <5>1. PICK i \in 1 .. z : unused[i] = x
          BY <1>2 DEF Stacked, z
        <5>2. i # z
          BY <2>1, <4>2, <5>1
        <5>3. i \in 1 .. z - 1
          BY <2>1, <5>2
        <5> QED BY <3>1, <5>1, <5>3
      <4> QED BY <2>5, <4>1, <4>2
    <3>3. \A i, j \in DOMAIN unused' : unused'[i] = unused'[j] => i = j
      BY <1>2, <2>1, <3>1 DEF Stacked, z
    <3>4. Cardinality(FreeSlots') = Cardinality(FreeSlots) - 1
      BY <2>2, <2>5, FreeFinite, FS_RemoveElement
    <3> QED BY <3>1, <3>2, <3>3, <3>4 DEF Stacked, z
  <2>9. ASSUME NEW g \in Fd!Sockets, index'[g] # Fd!NoFd
        PROVE  index'[g] \in DOMAIN slots' /\ slots'[index'[g]] = [fd |-> g, events |-> interest'[g]]
    <3>1. CASE g = f
      BY <1>3, <2>3, <2>4, <2>7, <3>1 DEF slot
    <3>2. CASE g # f
      <4>1. index[g] \in DOMAIN slots /\ slots[index[g]] = [fd |-> g, events |-> interest[g]]
        BY <2>7, <2>9, <3>2 DEF Placed
      <4>2. [fd |-> g, events |-> interest[g]].fd = g
        OBVIOUS
      <4>3. index[g] # k
        BY <1>1, <2>3, <4>1, <4>2
      <4> QED BY <1>3, <2>4, <2>7, <3>2, <4>1, <4>3
    <3> QED BY <3>1, <3>2
  <2>10. ASSUME NEW i \in DOMAIN slots', slots'[i].fd # Fd!NoFd PROVE index'[slots'[i].fd] = i
    <3>1. CASE i = k
      BY <1>1, <2>4, <2>7, <3>1
    <3>2. CASE i # k
      <4>1. slots'[i] = slots[i] /\ slots[i].fd \in Fd!Sockets /\ index[slots[i].fd] = i
            /\ i \in 1 .. Len(slots)
        BY <1>2, <1>4, <2>4, <2>10, <3>2 DEF Placed
      <4>2. slots[i].fd # f
        BY <1>1, <1>7, <4>1
      <4> QED BY <2>7, <4>1, <4>2
    <3> QED BY <3>1, <3>2
  <2> QED BY <1>5, <1>7, <2>1, <2>4, <2>7, <2>8, <2>9, <2>10 DEF Placed
<1>8. CASE /\ index[f] = Fd!NoFd /\ unused = <<>>
           /\ slots' = Append(slots, slot) /\ Fd!SetIndex(f, Len(slots) + 1) /\ UNCHANGED unused
  <2> DEFINE k == Len(slots) + 1
  <2> HIDE DEF slot
  <2>1. /\ slots' \in Seq(SlotType) /\ DOMAIN slots' = 1 .. k
        /\ \A i \in 1 .. Len(slots) : slots'[i] = slots[i]
        /\ slots'[k] = slot
    BY <1>1, <1>2, <1>8, Appended
  <2>2. k \in 1 .. k /\ 1 .. Len(slots) \subseteq 1 .. k /\ (\A i \in 1 .. k : i # k => i \in 1 .. Len(slots))
        /\ k \in Nat
    BY <1>2
  <2>3. FreeSlots' = FreeSlots
    BY <1>1, <1>2, <2>1, <2>2 DEF FreeSlots
  <2>4. index' = [index EXCEPT ![f] = k]
    BY <1>8 DEF Fd!SetIndex
  <2> HIDE DEF k
  <2>5. /\ index' \in [Fd!Sockets -> Int] /\ index'[f] = k /\ k # Fd!NoFd
        /\ \A g \in Fd!Sockets : g # f => index'[g] = index[g]
    BY <1>1, <1>2, <2>2, <2>4
  <2>6. Stacked'
    BY <1>8, <2>3 DEF Stacked
  <2>7. ASSUME NEW g \in Fd!Sockets, index'[g] # Fd!NoFd
        PROVE  index'[g] \in DOMAIN slots' /\ slots'[index'[g]] = [fd |-> g, events |-> interest'[g]]
    <3>1. CASE g = f
      BY <1>3, <2>1, <2>2, <2>5, <3>1 DEF slot
    <3>2. CASE g # f
      <4>1. index[g] \in DOMAIN slots /\ slots[index[g]] = [fd |-> g, events |-> interest[g]]
        BY <2>5, <2>7, <3>2 DEF Placed
      <4> QED BY <1>2, <1>3, <2>1, <2>2, <2>5, <3>2, <4>1
    <3> QED BY <3>1, <3>2
  <2>8. ASSUME NEW i \in DOMAIN slots', slots'[i].fd # Fd!NoFd PROVE index'[slots'[i].fd] = i
    <3>1. CASE i = k
      BY <1>1, <2>1, <2>5, <3>1
    <3>2. CASE i # k
      <4>1. i \in DOMAIN slots
        BY <1>2, <2>1, <2>2, <3>2
      <4>2. slots'[i] = slots[i] /\ slots[i].fd \in Fd!Sockets /\ index[slots[i].fd] = i
            /\ i \in 1 .. Len(slots)
        BY <1>2, <1>4, <2>1, <2>8, <4>1 DEF Placed
      <4>3. slots[i].fd # f
        BY <1>1, <1>8, <4>2
      <4> QED BY <2>5, <4>2, <4>3
    <3> QED BY <3>1, <3>2
  <2> QED BY <1>2, <1>5, <1>8, <2>1, <2>5, <2>6, <2>7, <2>8 DEF Placed
<1> QED BY <1>6, <1>7, <1>8, FdLibrary DEF Fd!PollSet

LEMMA PollDelKeeps ==
  ASSUME Fd!FdEventAssumption, EventTypes, Indexed, Placed, Stacked, NEW f \in Fd!Sockets,
         interest' = [interest EXCEPT ![f] = {}], Fd!PollDel(f)
  PROVE  /\ Placed' /\ Stacked' /\ mon' = mon
         /\ slots' \in Seq(SlotType) /\ unused' \in Seq(Nat)
         /\ index' = [index EXCEPT ![f] = Fd!NoFd]
<1>1. f # Fd!NoFd /\ Fd!Sockets \subseteq Nat /\ Fd!NoFd \notin Nat /\ Fd!NoFd \in Int
  BY Numbers
<1>2. /\ slots \in Seq(SlotType) /\ unused \in Seq(Nat) /\ index \in [Fd!Sockets -> Int]
      /\ interest \in [Fd!Sockets -> SUBSET Fd!Ev] /\ DOMAIN slots = 1 .. Len(slots) /\ Len(slots) \in Nat
      /\ DOMAIN unused = 1 .. Len(unused) /\ Len(unused) \in Nat
  BY DEF EventTypes
<1>3. mon' = mon /\ index' = [index EXCEPT ![f] = Fd!NoFd]
  BY DEF Fd!PollDel, Fd!SetIndex
<1>4. /\ index'[f] = Fd!NoFd /\ \A g \in Fd!Sockets : g # f => index'[g] = index[g]
         /\ interest'[g] = interest[g]
  BY <1>2, <1>3
<1>5. CASE index[f] = Fd!NoFd
  <2>1. UNCHANGED <<slots, unused>>
    BY <1>5 DEF Fd!PollDel
  <2>2. index' = index
    BY <1>2, <1>3, <1>5
  <2>3. interest' = interest
    BY <1>2, <1>5 DEF Indexed
  <2>4. Placed'
    BY <2>1, <2>2, <2>3 DEF Placed
  <2>5. Stacked'
    BY <2>1 DEF Stacked, FreeSlots
  <2> QED BY <1>2, <1>3, <2>1, <2>4, <2>5
<1>6. CASE index[f] # Fd!NoFd
  <2> DEFINE k == index[f]
             slot == [slots[k] EXCEPT !.fd = Fd!NoFd]
             z == Len(unused)
  <2>1. k \in DOMAIN slots /\ slots[k].fd = f
    <3>1. k \in DOMAIN slots /\ slots[k] = [fd |-> f, events |-> interest[f]]
      BY <1>6 DEF Placed
    <3>2. [fd |-> f, events |-> interest[f]].fd = f
      OBVIOUS
    <3> QED BY <3>1, <3>2
  <2>2. slot \in SlotType /\ slot.fd = Fd!NoFd
    <3>1. slots[k] \in SlotType
      BY <1>2, <2>1, InSeq
    <3> QED BY <3>1 DEF SlotType
  <2>3. slots' = [slots EXCEPT ![k] = slot] /\ unused' = Append(unused, k)
    BY <1>6 DEF Fd!PollDel
  <2>4. k \in Nat /\ k # Fd!NoFd
    BY <1>2, <1>6, <2>1
  <2> HIDE DEF slot, k
  <2>5. /\ slots' \in Seq(SlotType) /\ DOMAIN slots' = DOMAIN slots /\ slots'[k] = slot
        /\ \A i \in DOMAIN slots : i # k => slots'[i] = slots[i]
    BY <1>2, <2>1, <2>2, <2>3, Replaced
  <2>6. FreeSlots' = FreeSlots \cup {k} /\ k \notin FreeSlots
    BY <1>1, <2>1, <2>2, <2>5 DEF FreeSlots
  <2>7. /\ unused' \in Seq(Nat) /\ Len(unused') = z + 1 /\ DOMAIN unused' = 1 .. (z + 1)
        /\ \A i \in 1 .. z : unused'[i] = unused[i]
        /\ unused'[z + 1] = k
    BY <1>2, <2>3, <2>4, Appended
  <2>8. /\ DOMAIN unused = 1 .. z /\ 1 .. z \subseteq 1 .. (z + 1) /\ z + 1 \in 1 .. (z + 1)
        /\ \A i \in 1 .. (z + 1) : i # z + 1 => i \in 1 .. z
    <3>1. \A b \in Nat : /\ 1 .. b \subseteq 1 .. (b + 1) /\ b + 1 \in 1 .. (b + 1)
                        /\ \A i \in 1 .. (b + 1) : i # b + 1 => i \in 1 .. b
      OBVIOUS
    <3> QED BY <1>2, <3>1
  <2>9. Stacked'
    <3> HIDE DEF z
    <3>1. \A i \in 1 .. z : unused[i] \in FreeSlots
      BY <2>8 DEF Stacked
    <3>2. {unused'[i] : i \in DOMAIN unused'} = FreeSlots'
      <4>1. \A i \in DOMAIN unused' : unused'[i] \in FreeSlots'
        BY <2>6, <2>7, <2>8, <3>1
      <4>2. \A x \in FreeSlots : \E i \in DOMAIN unused' : unused'[i] = x
        BY <2>7, <2>8 DEF Stacked
      <4>3. \E i \in DOMAIN unused' : unused'[i] = k
        BY <2>7, <2>8
      <4> QED BY <2>6, <4>1, <4>2, <4>3
    <3>3. ASSUME NEW i \in DOMAIN unused', NEW j \in DOMAIN unused', unused'[i] = unused'[j] PROVE i = j
      <4>1. CASE i \in 1 .. z /\ j \in 1 .. z
        BY <2>7, <2>8, <3>3, <4>1 DEF Stacked
      <4>2. CASE i \in 1 .. z /\ j = z + 1
        BY <2>6, <2>7, <3>1, <3>3, <4>2
      <4>3. CASE i = z + 1 /\ j \in 1 .. z
        BY <2>6, <2>7, <3>1, <3>3, <4>3
      <4> QED BY <2>7, <2>8, <4>1, <4>2, <4>3
    <3>4. Cardinality(FreeSlots') = Cardinality(FreeSlots) + 1
      BY <2>6, FreeFinite, FS_AddElement
    <3> QED BY <2>7, <3>2, <3>3, <3>4 DEF Stacked, z
  <2>10. ASSUME NEW g \in Fd!Sockets, index'[g] # Fd!NoFd
        PROVE  index'[g] \in DOMAIN slots' /\ slots'[index'[g]] = [fd |-> g, events |-> interest'[g]]
    <3>1. g # f
      BY <1>4, <2>10
    <3>2. index[g] \in DOMAIN slots /\ slots[index[g]] = [fd |-> g, events |-> interest[g]]
      BY <1>4, <2>10, <3>1 DEF Placed
    <3>3. [fd |-> g, events |-> interest[g]].fd = g
      OBVIOUS
    <3>4. index[g] # k
      BY <2>1, <3>1, <3>2, <3>3
    <3> QED BY <1>4, <2>5, <3>1, <3>2, <3>4
  <2>11. ASSUME NEW i \in DOMAIN slots', slots'[i].fd # Fd!NoFd PROVE index'[slots'[i].fd] = i
    <3>1. i # k
      BY <2>2, <2>5, <2>11
    <3>2. /\ slots'[i] = slots[i] /\ slots[i].fd # Fd!NoFd /\ index[slots[i].fd] = i /\ i \in DOMAIN slots
      BY <2>5, <2>11, <3>1 DEF Placed
    <3>3. slots[i].fd \in Fd!Sockets
      <4>1. slots[i] \in SlotType
        BY <1>2, <3>2, InSeq
      <4> QED BY <3>2, <4>1 DEF SlotType
    <3>4. slots[i].fd # f
      BY <3>1, <3>2 DEF k
    <3> QED BY <1>4, <3>2, <3>3, <3>4
  <2> QED BY <1>3, <2>5, <2>7, <2>9, <2>10, <2>11 DEF Placed
<1> QED BY <1>5, <1>6

\* what every event handler does to the interest in one descriptor
LEMMA BackendSets ==
  ASSUME Fd!FdEventAssumption, EventTypes, Indexed, Known, Arrayed, NEW f \in Fd!Sockets,
         NEW ev \in SUBSET Fd!Ev,
         interest' = [interest EXCEPT ![f] = ev], UNCHANGED backend, Fd!BackendSet(f, ev)
  PROVE  /\ Known' /\ Arrayed'
         /\ mon' \in [Fd!Sockets -> SUBSET (Fd!Ev \cup Fd!Off)] /\ slots' \in Seq(SlotType)
            /\ unused' \in Seq(Nat)
         /\ index' \in [Fd!Sockets -> Int] /\ index'[f] # Fd!NoFd
            /\ \A g \in Fd!Sockets : g # f => index'[g] = index[g]
<1>1. CASE backend # "poll"
  <2>1. Fd!EpollSet(f, ev) \/ Fd!SelectSet(f, ev) \/ (Fd!KqueueSet(f, ev) /\ backend # "epoll")
    BY <1>1 DEF Fd!BackendSet
  <2>2. /\ mon' \in [Fd!Sockets -> SUBSET (Fd!Ev \cup Fd!Off)] /\ Known'
        /\ index' = [index EXCEPT ![f] = f] /\ UNCHANGED <<slots, unused>>
    BY <1>1, <2>1, KernelSet
  <2>3. Arrayed'
    BY <1>1 DEF Arrayed
  <2> QED BY <2>2, <2>3, Numbers DEF EventTypes
<1>2. CASE backend = "poll"
  <2>1. Fd!PollSet(f, ev) /\ Placed /\ Stacked
    BY <1>2 DEF Fd!BackendSet, Arrayed
  <2>2. /\ Placed' /\ Stacked' /\ mon' = mon
        /\ slots' \in Seq(SlotType) /\ unused' \in Seq(Nat)
        /\ index' \in [Fd!Sockets -> Int] /\ index'[f] # Fd!NoFd
           /\ \A g \in Fd!Sockets : g # f => index'[g] = index[g]
    BY <2>1, PollSetKeeps
  <2>3. Known'
    BY <1>2 DEF Known
  <2> QED BY <2>2, <2>3 DEF EventTypes, Arrayed
<1> QED BY <1>1, <1>2

LEMMA BackendDels ==
  ASSUME Fd!FdEventAssumption, EventTypes, Indexed, Known, Arrayed, NEW f \in Fd!Sockets,
         interest' = [interest EXCEPT ![f] = {}], UNCHANGED backend, Fd!BackendDel(f)
  PROVE  /\ Known' /\ Arrayed'
         /\ mon' \in [Fd!Sockets -> SUBSET (Fd!Ev \cup Fd!Off)] /\ slots' \in Seq(SlotType)
            /\ unused' \in Seq(Nat)
         /\ index' = [index EXCEPT ![f] = Fd!NoFd]
<1>1. CASE backend # "poll"
  <2>1. Fd!EpollDel(f) \/ (Fd!SelectDel(f) /\ backend # "epoll") \/ (Fd!KqueueDel(f) /\ backend # "epoll")
    BY <1>1 DEF Fd!BackendDel
  <2>2. /\ mon' \in [Fd!Sockets -> SUBSET (Fd!Ev \cup Fd!Off)] /\ Known'
        /\ index' = [index EXCEPT ![f] = Fd!NoFd] /\ UNCHANGED <<slots, unused>>
    BY <1>1, <2>1, KernelDel
  <2>3. Arrayed'
    BY <1>1 DEF Arrayed
  <2> QED BY <2>2, <2>3 DEF EventTypes
<1>2. CASE backend = "poll"
  <2>1. Fd!PollDel(f) /\ Placed /\ Stacked
    BY <1>2 DEF Fd!BackendDel, Arrayed
  <2>2. /\ Placed' /\ Stacked' /\ mon' = mon
        /\ slots' \in Seq(SlotType) /\ unused' \in Seq(Nat) /\ index' = [index EXCEPT ![f] = Fd!NoFd]
    BY <2>1, PollDelKeeps
  <2>3. Known'
    BY <1>2 DEF Known
  <2> QED BY <2>2, <2>3 DEF EventTypes, Arrayed
<1> QED BY <1>1, <1>2

LEMMA SeqsAre ==
  ASSUME NEW S, IsFiniteSet(S), NEW q \in Fd!Seqs(S)
  PROVE  q \in Seq(S) /\ DOMAIN q = 1 .. Len(q) /\ \A i \in DOMAIN q : q[i] \in S
<1>1. Cardinality(S) \in Nat
  BY FS_CardinalityType
<1>2. Fd!Cardinality(S) = Cardinality(S)
  BY FdLibrary
<1> QED BY <1>1, <1>2 DEF Fd!Seqs

LEMMA SocketsFinite ==
  ASSUME Fd!FdEventAssumption
  PROVE  IsFiniteSet(Fd!Sockets) /\ IsFiniteSet(Fd!Ev)
<1>1. IsFiniteSet(1 .. LastFd)
  <2>1. 1 \in Int /\ LastFd \in Int
    BY DEF Fd!FdEventAssumption
  <2> QED BY <2>1, FS_Interval
<1>2. IsFiniteSet(Fd!Ev)
  <2>1. IsFiniteSet({"IN"})
    BY FS_Singleton
  <2>2. IsFiniteSet({"IN"} \cup {"OUT"})
    BY <2>1, FS_AddElement
  <2>3. {"IN"} \cup {"OUT"} = Fd!Ev
    BY DEF Fd!Ev
  <2> QED BY <2>2, <2>3
<1> QED BY <1>1, <1>2 DEF Fd!Sockets

\* Each entry of a report of epoll, select and kqueue is of a descriptor that is watched.
LEMMA ReportsWatched ==
  ASSUME Fd!FdEventAssumption, EventTypes, backend # "poll", NEW r \in Fd!Reports
  PROVE  /\ r \in Seq([at : Fd!Sockets, sock : Nat])
         /\ \A i \in DOMAIN r : r[i].at \in Fd!Monitored /\ r[i].sock = sock[r[i].at]
<1>1. \A g \in Fd!Monitored : /\ g \in Fd!Sockets /\ Fd!Entry(g) \in [at : Fd!Sockets, sock : Nat]
                           /\ Fd!Entry(g).at = g /\ Fd!Entry(g).sock = sock[g]
  BY DEF Fd!Monitored, EventTypes, Fd!Entry
<1>2. CASE backend \in {"epoll", "select"}
  <2>1. PICK s \in SUBSET Fd!Monitored : r \in Fd!Seqs({Fd!Entry(g) : g \in s})
    <3>1. CASE backend = "epoll"
      BY <3>1 DEF Fd!Reports
    <3>2. CASE backend = "select"
      BY <3>2 DEF Fd!Reports, Fd!Ordered
    <3> QED BY <1>2, <3>1, <3>2
  <2>2. IsFiniteSet({Fd!Entry(g) : g \in s})
    <3>1. IsFiniteSet(s)
      BY <1>1, SocketsFinite, FS_Subset
    <3> DEFINE En == [g \in s |-> Fd!Entry(g)]
    <3>2. En \in Surjection(s, {Fd!Entry(g) : g \in s})
      BY DEF Surjection
    <3> QED BY <3>1, <3>2, FS_Surjection
  <2>3. r \in Seq({Fd!Entry(g) : g \in s}) /\ \A i \in DOMAIN r : r[i] \in {Fd!Entry(g) : g \in s}
    BY <2>1, <2>2, SeqsAre
  <2>4. {Fd!Entry(g) : g \in s} \subseteq [at : Fd!Sockets, sock : Nat]
    BY <1>1
  <2>5. r \in Seq([at : Fd!Sockets, sock : Nat])
    <3>1. \A S, T : S \subseteq T => Seq(S) \subseteq Seq(T)
      OBVIOUS
    <3> QED BY <2>3, <2>4, <3>1, Zenon
  <2>6. \A i \in DOMAIN r : r[i].at \in Fd!Monitored /\ r[i].sock = sock[r[i].at]
    BY <1>1, <2>3
  <2> QED BY <2>5, <2>6
<1>3. CASE backend = "kqueue"
  <2> DEFINE Kevents == {x \in Fd!Monitored \X Fd!Ev : x[2] \in mon[x[1]]}
  <2>1. PICK q : (\E s \in SUBSET Kevents : q \in Fd!Seqs(s)) /\ r = [i \in DOMAIN q |-> Fd!Entry(q[i][1])]
    BY <1>3 DEF Fd!Reports
  <2>2. PICK s \in SUBSET Kevents : q \in Fd!Seqs(s)
    BY <2>1
  <2>3. IsFiniteSet(s)
    <3>1. IsFiniteSet(Fd!Monitored)
      BY <1>1, SocketsFinite, FS_Subset
    <3>2. IsFiniteSet(Fd!Monitored \X Fd!Ev)
      BY <3>1, SocketsFinite, FS_Product
    <3>3. s \subseteq Fd!Monitored \X Fd!Ev
      OBVIOUS
    <3> QED BY <3>2, <3>3, FS_Subset
  <2>4. q \in Seq(s) /\ DOMAIN q = 1 .. Len(q) /\ \A i \in DOMAIN q : q[i] \in s
    BY <2>2, <2>3, SeqsAre
  <2>5. \A i \in DOMAIN q : q[i][1] \in Fd!Monitored
    BY <2>4
  <2>6. Len(q) \in Nat
    BY <2>4
  <2>7. DOMAIN r = 1 .. Len(q) /\ \A i \in DOMAIN r : r[i] = Fd!Entry(q[i][1]) /\ q[i][1] \in Fd!Monitored
    BY <2>1, <2>4, <2>5
  <2>8. r \in Seq([at : Fd!Sockets, sock : Nat])
    <3>1. r = [i \in 1 .. Len(q) |-> Fd!Entry(q[i][1])]
      BY <2>1, <2>4
    <3>2. \A i \in 1 .. Len(q) : Fd!Entry(q[i][1]) \in [at : Fd!Sockets, sock : Nat]
      BY <1>1, <2>7
    <3> QED BY <2>6, <3>1, <3>2
  <2>9. \A i \in DOMAIN r : r[i].at \in Fd!Monitored /\ r[i].sock = sock[r[i].at]
    BY <1>1, <2>7
  <2> QED BY <2>8, <2>9
<1> QED BY <1>2, <1>3 DEF EventTypes

LEMMA InitSound ==
  ASSUME Fd!FdEventAssumption, Fd!Init
  PROVE  EventsIInv
<1>1. slots = <<>> /\ DOMAIN slots = {} /\ unused = <<>> /\ DOMAIN unused = {} /\ Len(unused) = 0
  BY DEF Fd!Init
<1>2. EventTypes
  <2>1. Fd!NoFd \in Int
    BY Numbers
  <2> QED BY <2>1 DEF Fd!Init, EventTypes, Nodes, Fd!FdEventAssumption
<1>3. Indexed
  BY DEF Fd!Init, Indexed
<1>4. Known
  <2>1. Fd!Off \ Fd!Off = {}
    OBVIOUS
  <2> QED BY <2>1 DEF Fd!Init, Known, Fd!EpollFits
<1>5. Arrayed
  <2>1. Placed
    BY <1>1 DEF Fd!Init, Placed
  <2>2. FreeSlots = {} /\ Cardinality({}) = 0
    BY <1>1, FS_EmptySet DEF FreeSlots
  <2>3. Stacked
    BY <1>1, <2>2 DEF Stacked
  <2> QED BY <2>1, <2>3 DEF Arrayed
<1>6. Reported /\ NotWild
  BY DEF Fd!Init, Reported, NotWild
<1> QED BY <1>2, <1>3, <1>4, <1>5, <1>6 DEF EventsIInv

\* steps that leave the main loop where it is, and every socket of the round
LEMMA RoundKept ==
  ASSUME Reported, NotWild, UNCHANGED <<backend, Fd!polled, loop, cur>>,
         \A g \in Fd!Sockets : node[g] # "none" => node'[g] # "none" /\ sock'[g] = sock[g]
  PROVE  Reported' /\ NotWild'
<1>1. NotWild'
  BY DEF NotWild
<1>2. UNCHANGED <<backend, report, loop, cur>>
  BY DEF Fd!polled
<1>3. ASSUME backend # "poll", loop \in {"call", "handler"}
      PROVE  /\ report # <<>> /\ report \in Seq([at : Fd!Sockets, sock : Nat])
             /\ \A i \in DOMAIN report : node'[report[i].at] # "none" /\ sock'[report[i].at] = report[i].sock
             /\ loop = "handler" => cur = Head(report).at
  <2>1. /\ report # <<>> /\ report \in Seq([at : Fd!Sockets, sock : Nat])
        /\ \A i \in DOMAIN report : node[report[i].at] # "none" /\ sock[report[i].at] = report[i].sock
        /\ loop = "handler" => cur = Head(report).at
    BY <1>3 DEF Reported
  <2>2. \A i \in DOMAIN report : report[i].at \in Fd!Sockets
    <3>1. \A i \in DOMAIN report : report[i] \in [at : Fd!Sockets, sock : Nat]
      BY <2>1, InSeq
    <3> QED BY <3>1
  <2> QED BY <2>1, <2>2
<1>4. Reported'
  BY <1>2, <1>3 DEF Reported
<1> QED BY <1>1, <1>4

\* steps that leave the interests and the array as they are
LEMMA ArrayKept ==
  ASSUME Arrayed, UNCHANGED <<backend, index, interest, slots, unused>>
  PROVE  Arrayed'
<1>1. Placed => Placed'
  BY DEF Placed
<1>2. Stacked => Stacked'
  BY DEF Stacked, FreeSlots
<1> QED BY <1>1, <1>2 DEF Arrayed

LEMMA OpenSound ==
  ASSUME Fd!FdEventAssumption, EventsIInv, NEW f \in Fd!Sockets, Fd!Open(f)
  PROVE  EventsIInv'
<1> USE DEF EventsIInv
<1>1. /\ UNCHANGED <<backend, leaving, node, interest, pend, mon, slots, unused, report, toCall, loop, cur>>
      /\ opens' = opens + 1 /\ sock' = [sock EXCEPT ![f] = opens + 1]
      /\ index' = [index EXCEPT ![f] = Fd!NoFd] /\ sock[f] = 0
  BY DEF Fd!Open, Fd!SetIndex, Fd!polled
<1>2. node[f] = "none" /\ index[f] = Fd!NoFd /\ f \notin leaving
  BY <1>1 DEF Indexed, EventTypes
<1>3. index' = index
  BY <1>1, <1>2 DEF EventTypes
<1>4. /\ opens + 1 \in Nat /\ opens + 1 # 0
  BY DEF EventTypes
<1>5. EventTypes'
  BY <1>1, <1>3, <1>4 DEF EventTypes
<1>6. \A g \in Fd!Sockets : g # f => sock'[g] = sock[g]
  BY <1>1 DEF EventTypes
<1>7. Indexed'
  <2>1. sock'[f] # 0
    BY <1>1, <1>4 DEF EventTypes
  <2> QED BY <1>1, <1>3, <1>6, <2>1 DEF Indexed
<1>8. Known' /\ Arrayed'
  BY <1>1, <1>3, ArrayKept DEF Known, Fd!EpollFits
<1>9. Reported' /\ NotWild'
  BY <1>1, <1>2, <1>6, RoundKept DEF Fd!polled
<1> QED BY <1>5, <1>7, <1>8, <1>9

LEMMA RegisterSound ==
  ASSUME Fd!FdEventAssumption, EventsIInv, NEW f \in Fd!Sockets, Fd!Register(f)
  PROVE  EventsIInv'
<1> USE DEF EventsIInv
<1>1. /\ UNCHANGED <<backend, opens, sock, leaving, index, pend, mon, slots, unused, report, toCall, loop, cur>>
      /\ node' = [node EXCEPT ![f] = "node"] /\ interest' = [interest EXCEPT ![f] = {}]
      /\ node[f] = "none" /\ sock[f] # 0
  BY DEF Fd!Register, Fd!polled, Fd!owners
<1>2. index[f] = Fd!NoFd /\ interest[f] = {} /\ f \notin leaving /\ f \notin pend
  BY <1>1 DEF Indexed
<1>3. interest' = interest
  BY <1>1, <1>2 DEF EventTypes
<1>4. /\ node'[f] = "node" /\ \A g \in Fd!Sockets : g # f => node'[g] = node[g]
  BY <1>1 DEF EventTypes
<1>5. EventTypes'
  BY <1>1, <1>3 DEF EventTypes, Nodes
<1>6. Indexed'
  BY <1>1, <1>2, <1>3, <1>4 DEF Indexed
<1>7. Known' /\ Arrayed'
  <2>1. Known'
    BY <1>1, <1>3 DEF Known, Fd!EpollFits
  <2>2. Arrayed'
    BY <1>1, <1>3, ArrayKept
  <2> QED BY <2>1, <2>2
<1>8. Reported' /\ NotWild'
  BY <1>1, <1>4, RoundKept DEF Fd!polled
<1> QED BY <1>5, <1>6, <1>7, <1>8

LEMMA EventSetSound ==
  ASSUME Fd!FdEventAssumption, EventsIInv, NEW f \in Fd!Sockets, NEW ev \in SUBSET Fd!Ev, Fd!EventSet(f, ev)
  PROVE  EventsIInv'
<1> USE DEF EventsIInv
<1>1. /\ UNCHANGED <<backend, opens, sock, leaving, node, pend, report, toCall, loop, cur>>
      /\ node[f] = "node" /\ f \notin leaving
      /\ Fd!BackendSet(f, ev) /\ interest' = [interest EXCEPT ![f] = ev]
  BY DEF Fd!EventSet, Fd!polled, Fd!owners
<1>2. /\ Known' /\ Arrayed'
      /\ mon' \in [Fd!Sockets -> SUBSET (Fd!Ev \cup Fd!Off)] /\ slots' \in Seq(SlotType)
         /\ unused' \in Seq(Nat)
      /\ index' \in [Fd!Sockets -> Int] /\ index'[f] # Fd!NoFd
         /\ \A g \in Fd!Sockets : g # f => index'[g] = index[g]
  BY <1>1, BackendSets
<1>3. EventTypes'
  BY <1>1, <1>2 DEF EventTypes
<1>4. Indexed'
  <2>1. \A g \in Fd!Sockets : g # f => interest'[g] = interest[g]
    BY <1>1 DEF EventTypes
  <2> QED BY <1>1, <1>2, <2>1 DEF Indexed
<1>5. Reported' /\ NotWild'
  BY <1>1, RoundKept DEF Fd!polled
<1> QED BY <1>2, <1>3, <1>4, <1>5

LEMMA EventDelSound ==
  ASSUME Fd!FdEventAssumption, EventsIInv, NEW f \in Fd!Sockets, Fd!EventDel(f)
  PROVE  EventsIInv'
<1> USE DEF EventsIInv
<1>1. /\ UNCHANGED <<backend, opens, sock, node, pend, report, toCall, loop, cur>>
      /\ node[f] = "node" /\ leaving' = leaving \cup {f}
      /\ Fd!BackendDel(f) /\ interest' = [interest EXCEPT ![f] = {}]
  BY DEF Fd!EventDel, Fd!polled
<1>2. /\ Known' /\ Arrayed'
      /\ mon' \in [Fd!Sockets -> SUBSET (Fd!Ev \cup Fd!Off)] /\ slots' \in Seq(SlotType)
         /\ unused' \in Seq(Nat)
      /\ index' = [index EXCEPT ![f] = Fd!NoFd]
  BY <1>1, BackendDels
<1>3. EventTypes'
  <2>1. Fd!NoFd \in Int
    BY Numbers
  <2> QED BY <1>1, <1>2, <2>1 DEF EventTypes
<1>4. Indexed'
  <2>1. /\ interest'[f] = {} /\ index'[f] = Fd!NoFd
        /\ \A g \in Fd!Sockets : g # f => interest'[g] = interest[g] /\ index'[g] = index[g]
    BY <1>1, <1>2 DEF EventTypes
  <2> QED BY <1>1, <2>1 DEF Indexed
<1>5. Reported' /\ NotWild'
  BY <1>1, RoundKept DEF Fd!polled
<1> QED BY <1>2, <1>3, <1>4, <1>5

LEMMA SchedCloseSound ==
  ASSUME Fd!FdEventAssumption, EventsIInv, NEW f \in Fd!Sockets, Fd!SchedClose(f)
  PROVE  EventsIInv'
<1> USE DEF EventsIInv
<1>1. /\ UNCHANGED <<backend, opens, sock, interest, index, mon, slots, unused, report, toCall, loop, cur>>
      /\ node' = [node EXCEPT ![f] = "closing"] /\ pend' = pend \cup {f}
      /\ f \in leaving /\ leaving' = leaving \ {f}
  BY DEF Fd!SchedClose, Fd!polled
<1>2. index[f] = Fd!NoFd /\ sock[f] # 0
  BY <1>1 DEF Indexed
<1>3. /\ node'[f] = "closing" /\ \A g \in Fd!Sockets : g # f => node'[g] = node[g]
  BY <1>1 DEF EventTypes
<1>4. EventTypes'
  BY <1>1 DEF EventTypes, Nodes
<1>5. Indexed'
  BY <1>1, <1>2, <1>3 DEF Indexed
<1>6. Known' /\ Arrayed'
  BY <1>1, ArrayKept DEF Known, Fd!EpollFits
<1>7. Reported' /\ NotWild'
  BY <1>1, <1>3, RoundKept DEF Fd!polled
<1> QED BY <1>4, <1>5, <1>6, <1>7

LEMMA PollSound ==
  ASSUME Fd!FdEventAssumption, EventsIInv, Fd!Poll
  PROVE  EventsIInv'
<1> USE DEF EventsIInv
<1>1. UNCHANGED <<backend, opens, sock, leaving, node, interest, index, pend, mon, slots, unused>>
  BY DEF Fd!Poll, Fd!owners
<1>2. PICK r \in Fd!Reports : report' = r /\ loop' = IF r = <<>> THEN "sched" ELSE "call"
  BY DEF Fd!Poll
<1>3. EventTypes' /\ Indexed' /\ Known' /\ Arrayed'
  <2>1. EventTypes'
    BY <1>1, <1>2 DEF EventTypes
  <2>2. Indexed' /\ Known'
    BY <1>1 DEF Indexed, Known, Fd!EpollFits
  <2>3. Arrayed'
    BY <1>1, ArrayKept
  <2> QED BY <2>1, <2>2, <2>3
<1>4. NotWild'
  BY <1>2 DEF NotWild
<1>5. ASSUME backend # "poll"
      PROVE  /\ r \in Seq([at : Fd!Sockets, sock : Nat])
             /\ \A i \in DOMAIN r : node[r[i].at] # "none" /\ sock[r[i].at] = r[i].sock
  <2>1. /\ r \in Seq([at : Fd!Sockets, sock : Nat])
        /\ \A i \in DOMAIN r : r[i].at \in Fd!Monitored /\ r[i].sock = sock[r[i].at]
    BY <1>5, ReportsWatched
  <2>2. \A g \in Fd!Monitored : node[g] # "none"
    <3>1. ASSUME NEW g \in Fd!Monitored PROVE node[g] # "none"
      <4>1. g \in Fd!Sockets /\ mon[g] \ Fd!Off # {}
        BY DEF Fd!Monitored
      <4>2. interest[g] # {}
        BY <1>5, <4>1 DEF Known
      <4> QED BY <4>1, <4>2 DEF Indexed
    <3> QED BY <3>1
  <2> QED BY <2>1, <2>2
<1>6. Reported'
  BY <1>1, <1>2, <1>5 DEF Reported
<1> QED BY <1>3, <1>4, <1>6

LEMMA CallSound ==
  ASSUME Fd!FdEventAssumption, EventsIInv, Fd!Call
  PROVE  EventsIInv'
<1> USE DEF EventsIInv
<1>1. UNCHANGED <<backend, opens, sock, leaving, node, interest, index, pend, mon, slots, unused, report>>
      /\ loop = "call"
  BY DEF Fd!Call, Fd!owners
<1>2. loop' \in {"call", "handler", "sched", "wild"}
  BY DEF Fd!Call, Fd!Counted
<1>3. EventTypes' /\ Indexed' /\ Known' /\ Arrayed'
  <2>1. EventTypes'
    BY <1>1, <1>2 DEF EventTypes
  <2>2. Indexed' /\ Known'
    BY <1>1 DEF Indexed, Known, Fd!EpollFits
  <2>3. Arrayed'
    BY <1>1, ArrayKept
  <2> QED BY <2>1, <2>2, <2>3
<1>4. CASE backend = "poll"
  BY <1>1, <1>3, <1>4 DEF Reported, NotWild
<1>5. CASE backend # "poll"
  <2> DEFINE f == Head(report).at
  <2>1. /\ report # <<>> /\ report \in Seq([at : Fd!Sockets, sock : Nat])
        /\ \A i \in DOMAIN report : node[report[i].at] # "none" /\ sock[report[i].at] = report[i].sock
    BY <1>1, <1>5 DEF Reported
  <2>2. 1 \in DOMAIN report /\ Head(report) = report[1]
    BY <2>1
  <2>3. f \in Fd!Sockets /\ node[f] # "none" /\ f # Fd!NoFd /\ Fd!EventFd(Head(report)) = f
    <3>1. report[1] \in [at : Fd!Sockets, sock : Nat]
      BY <2>1, <2>2, InSeq
    <3>2. f \in Fd!Sockets
      BY <2>2, <3>1
    <3>3. f # Fd!NoFd
      BY <3>2, Numbers
    <3>4. node[f] # "none"
      BY <2>1, <2>2
    <3> QED BY <1>5, <3>2, <3>3, <3>4 DEF Fd!EventFd
  <2>4. loop' # "wild" /\ (loop' = "handler" => cur' = f)
    <3> HIDE DEF f
    <3> QED BY <2>3 DEF Fd!Call, Fd!Counted
  <2>5. Reported'
    BY <1>1, <2>1, <2>4 DEF Reported
  <2> QED BY <1>3, <2>4, <2>5 DEF NotWild
<1> QED BY <1>4, <1>5

LEMMA ReturnSound ==
  ASSUME Fd!FdEventAssumption, EventsIInv, Fd!Return
  PROVE  EventsIInv'
<1> USE DEF EventsIInv
<1>1. /\ UNCHANGED <<backend, opens, sock, leaving, node, interest, index, pend, mon, slots, unused, report>>
      /\ loop = "handler" /\ loop' \in {"call", "sched"}
  BY DEF Fd!Return, Fd!Counted, Fd!owners
<1>2. EventTypes'
  BY <1>1 DEF EventTypes
<1>3. Indexed' /\ Known'
  BY <1>1 DEF Indexed, Known, Fd!EpollFits
<1>4. Arrayed'
  BY <1>1, ArrayKept
<1>5. Reported' /\ NotWild'
  BY <1>1 DEF Reported, NotWild
<1> QED BY <1>2, <1>3, <1>4, <1>5

LEMMA SchedRunSound ==
  ASSUME Fd!FdEventAssumption, EventsIInv, Fd!SchedRun
  PROVE  EventsIInv'
<1> USE DEF EventsIInv
<1>1. /\ UNCHANGED <<backend, opens, leaving, interest, index, mon, slots, unused>>
      /\ pend' = {} /\ loop' = "poll"
      /\ sock' = [f \in Fd!Sockets |-> IF f \in pend THEN 0 ELSE sock[f]]
      /\ node' = [f \in Fd!Sockets |-> IF f \in pend THEN "none" ELSE node[f]]
  BY DEF Fd!SchedRun
<1>2. EventTypes'
  BY <1>1 DEF EventTypes, Nodes
<1>3. Indexed'
  BY <1>1 DEF Indexed, EventTypes
<1>4. Known'
  BY <1>1 DEF Known, Fd!EpollFits
<1>5. Arrayed'
  BY <1>1, ArrayKept
<1>6. Reported' /\ NotWild'
  BY <1>1 DEF Reported, NotWild
<1> QED BY <1>2, <1>3, <1>4, <1>5, <1>6

LEMMA StepSound ==
  ASSUME Fd!FdEventAssumption, EventsIInv, [Fd!Next]_(Fd!vars)
  PROVE  EventsIInv'
<1>1. CASE Fd!Poll
  BY <1>1, PollSound
<1>2. CASE Fd!Call
  BY <1>2, CallSound
<1>3. CASE Fd!Return
  BY <1>3, ReturnSound
<1>4. CASE Fd!SchedRun
  BY <1>4, SchedRunSound
<1>5. ASSUME NEW f \in Fd!Sockets, Fd!Open(f) \/ Fd!Register(f) \/ Fd!EventDel(f) \/ Fd!SchedClose(f)
      PROVE  EventsIInv'
  BY <1>5, OpenSound, RegisterSound, EventDelSound, SchedCloseSound
<1>6. ASSUME NEW f \in Fd!Sockets, NEW ev \in SUBSET Fd!Ev, Fd!EventSet(f, ev)
      PROVE  EventsIInv'
  BY <1>6, EventSetSound
<1>7. CASE UNCHANGED Fd!vars
  <2>1. UNCHANGED <<backend, opens, sock, leaving, node, interest, index, pend, mon, slots, unused, report, loop, cur>>
    BY <1>7 DEF Fd!vars, Fd!owners, Fd!polled
  <2>2. EventTypes' /\ Indexed' /\ Known'
    BY <2>1 DEF EventsIInv, EventTypes, Indexed, Known, Fd!EpollFits
  <2>3. Arrayed'
    BY <2>1, ArrayKept DEF EventsIInv
  <2>4. Reported' /\ NotWild'
    BY <2>1 DEF EventsIInv, Reported, NotWild
  <2> QED BY <2>2, <2>3, <2>4 DEF EventsIInv
<1> QED BY <1>1, <1>2, <1>3, <1>4, <1>5, <1>6, <1>7 DEF Fd!Next

LEMMA InterestFollows ==
  ASSUME Fd!FdEventAssumption, EventsIInv
  PROVE  Fd!InterestKept
<1> USE DEF EventsIInv
<1>1. ASSUME NEW f \in Fd!Sockets
      PROVE  Fd!Watched(f) = IF node[f] = "none" THEN {} ELSE interest[f]
  <2>1. node[f] = "none" => interest[f] = {}
    BY DEF Indexed
  <2>2. CASE backend # "poll"
    BY <2>1, <2>2 DEF Fd!Watched, Known
  <2>3. CASE backend = "poll"
    <3> DEFINE own == {j \in DOMAIN slots : slots[j].fd = f}
    <3>1. Placed /\ f # Fd!NoFd
      BY <2>3, Numbers DEF Arrayed
    <3>2. CASE index[f] = Fd!NoFd
      <4>1. \A j \in DOMAIN slots : j # Fd!NoFd
        BY Numbers DEF EventTypes
      <4>2. own = {}
        BY <3>1, <3>2, <4>1 DEF Placed
      <4>3. UNION {slots[i].events : i \in own} = {}
        BY <4>2
      <4> QED BY <2>1, <2>3, <3>2, <4>3 DEF Fd!Watched, Indexed
    <3>3. CASE index[f] # Fd!NoFd
      <4>1. index[f] \in DOMAIN slots /\ slots[index[f]] = [fd |-> f, events |-> interest[f]]
        BY <3>1, <3>3 DEF Placed
      <4>2. [fd |-> f, events |-> interest[f]].fd = f
            /\ [fd |-> f, events |-> interest[f]].events = interest[f]
        OBVIOUS
      <4>3. \A j \in own : j = index[f]
        BY <3>1 DEF Placed
      <4>4. own = {index[f]}
        BY <4>1, <4>2, <4>3
      <4>5. UNION {slots[i].events : i \in own} = interest[f]
        BY <4>1, <4>2, <4>4
      <4> QED BY <2>1, <2>3, <4>5 DEF Fd!Watched
    <3> QED BY <3>2, <3>3
  <2> QED BY <2>2, <2>3
<1>2. backend = "epoll" => \A f \in Fd!Sockets : Fd!EpollFits(f)
  BY DEF Known
<1>3. ASSUME backend = "poll"
      PROVE  /\ \A f \in Fd!Sockets : index[f] # Fd!NoFd => slots[index[f]].fd = f
             /\ \A i \in DOMAIN slots \ FreeSlots : index[slots[i].fd] = i
             /\ {unused[i] : i \in DOMAIN unused} = FreeSlots /\ Len(unused) = Cardinality(FreeSlots)
  <2>1. Placed /\ Stacked
    BY <1>3 DEF Arrayed
  <2>2. ASSUME NEW f \in Fd!Sockets, index[f] # Fd!NoFd PROVE slots[index[f]].fd = f
    <3>1. slots[index[f]] = [fd |-> f, events |-> interest[f]]
      BY <2>1, <2>2 DEF Placed
    <3> QED BY <3>1
  <2>3. \A i \in DOMAIN slots \ FreeSlots : index[slots[i].fd] = i
    BY <2>1 DEF Placed, FreeSlots
  <2> QED BY <2>1, <2>2, <2>3 DEF Stacked
<1> QED BY <1>1, <1>2, <1>3, FdLibrary DEF Fd!InterestKept, FreeSlots

LEMMA RoundFollows ==
  ASSUME Fd!FdEventAssumption, EventsIInv
  PROVE  Fd!RoundSafe
<1> SUFFICES ASSUME backend # "poll"
             PROVE  loop # "wild" /\ (loop = "handler" => sock[cur] \in {0, Head(report).sock})
  BY DEF Fd!RoundSafe
<1>1. loop # "wild"
  BY DEF EventsIInv, NotWild
<1>2. ASSUME loop = "handler" PROVE sock[cur] = Head(report).sock
  <2>1. /\ report # <<>> /\ report \in Seq([at : Fd!Sockets, sock : Nat]) /\ cur = Head(report).at
        /\ \A i \in DOMAIN report : sock[report[i].at] = report[i].sock
    BY <1>2 DEF EventsIInv, Reported
  <2>2. 1 \in DOMAIN report /\ Head(report) = report[1]
    BY <2>1
  <2> QED BY <2>1, <2>2
<1> QED BY <1>1, <1>2

\* Whichever of the four event handlers is used, and in whatever order any number of
\* descriptors is registered, changed, deleted and closed and their numbers and indices used
\* again, what is watched of each is what fdevent.c says, every call fits what epoll knows, and
\* the array of poll and its stack of free indices agree.
THEOREM InterestIsKept ==
  ASSUME Fd!FdEventAssumption
  PROVE  Fd!Spec => []Fd!InterestKept
<1>1. Fd!Init => EventsIInv
  BY InitSound
<1>2. EventsIInv /\ [Fd!Next]_(Fd!vars) => EventsIInv'
  BY StepSound
<1>3. EventsIInv => Fd!InterestKept
  BY InterestFollows
<1> QED BY <1>1, <1>2, <1>3, PTL DEF Fd!Spec

\* fdevent_call of epoll, select and kqueue runs a handler only for an event of the socket
\* it is registered for, and finds a node for every event, because fdevent_sched_close leaves
\* both in place until the round is over.
THEOREM RoundsAreSafe ==
  ASSUME Fd!FdEventAssumption
  PROVE  Fd!Spec => []Fd!RoundSafe
<1>1. Fd!Init => EventsIInv
  BY InitSound
<1>2. EventsIInv /\ [Fd!Next]_(Fd!vars) => EventsIInv'
  BY StepSound
<1>3. EventsIInv => Fd!RoundSafe
  BY RoundFollows
<1> QED BY <1>1, <1>2, <1>3, PTL DEF Fd!Spec

-----------------------------------------------------------------------------
(* Recursion: what a function that is defined by it computes.               *)

\* A set of natural numbers has a least one.
LEMMA LeastNatural ==
  ASSUME NEW S, S \subseteq Nat, S # {}
  PROVE  \E m \in S : \A k \in S : m <= k
  <1> DEFINE F == {0 .. k : k \in S}
             R == StrictSubsetOrdering(Nat)
  <1>1. IsWellFoundedOn(R, FiniteSubsetsOf(Nat)) BY FS_StrictSubsetOrderingWellFounded
  <1>2. ASSUME NEW k \in S PROVE 0 .. k \in FiniteSubsetsOf(Nat)
    <2>1. IsFiniteSet(0 .. k) BY FS_Interval
    <2> QED BY <2>1 DEF FiniteSubsetsOf
  <1>3. F \subseteq FiniteSubsetsOf(Nat) /\ F # {} BY <1>2
  <1>4. \E x \in F : \A y \in F : ~ (<<y, x>> \in R)
    <2> HIDE DEF F, R
    <2> QED BY <1>1, <1>3, WFMin
  <1>5. PICK m \in S : \A k \in S : ~ (<<0 .. k, 0 .. m>> \in R) BY <1>4
  <1>6. ASSUME NEW k \in S, k < m PROVE FALSE
    <2>1. 0 .. k \subseteq 0 .. m /\ m \notin 0 .. k /\ m \in 0 .. m BY <1>6
    <2>2. 0 .. k # 0 .. m BY <2>1
    <2>3. <<0 .. k, 0 .. m>> \in (SUBSET Nat) \X (SUBSET Nat) OBVIOUS
    <2>4. <<0 .. k, 0 .. m>> \in R BY <2>1, <2>2, <2>3 DEF StrictSubsetOrdering
    <2> QED BY <1>5, <2>4
  <1> QED BY <1>6

\* G says what the value of a function on lo .. hi is at a number, and looks only at lower numbers.
Recursive(lo, hi, S, G) ==
  /\ lo \in Nat /\ hi \in Nat /\ S # {}
  /\ G \in [lo .. hi -> [[lo .. hi -> S] -> S]]
  /\ \A n \in lo .. hi : \A f, g \in [lo .. hi -> S] :
       (\A j \in lo .. n - 1 : f[j] = g[j]) => G[n][f] = G[n][g]

Solved(lo, hi, S, G) == \E f \in [lo .. hi -> S] : \A n \in lo .. hi : f[n] = G[n][f]

\* A function may be defined by recursion.
LEMMA Recursion ==
  ASSUME NEW lo, NEW hi, NEW S, NEW G, Recursive(lo, hi, S, G)
  PROVE  Solved(lo, hi, S, G)
  <1> DEFINE D == lo .. hi
             F == [D -> S]
             B == {m \in D : ~ \E f \in F : \A k \in lo .. m : f[k] = G[k][f]}
  <1> USE DEF Recursive, Solved
  <1>0. \A n \in D : \A f \in F : G[n][f] \in S OBVIOUS
  <1>1. PICK e : e \in S OBVIOUS
  <1>2. ASSUME NEW m \in D, \E f \in F : \A k \in lo .. m - 1 : f[k] = G[k][f]
        PROVE  \E f \in F : \A k \in lo .. m : f[k] = G[k][f]
    <2>1. PICK f \in F : \A k \in lo .. m - 1 : f[k] = G[k][f] BY <1>2
    <2>2. PICK v \in S : v = G[m][f] BY <1>0
    <2> DEFINE g == [n \in D |-> IF n = m THEN v ELSE f[n]]
    <2>3. g \in F BY <2>1, <2>2
    <2>4. g[m] = v /\ \A j \in lo .. m - 1 : g[j] = f[j] OBVIOUS
    <2> HIDE DEF g
    <2>5. ASSUME NEW k \in lo .. m PROVE g[k] = G[k][g]
      <3>1. k \in D /\ \A j \in lo .. k - 1 : f[j] = g[j] BY <2>4
      <3>2. G[k][f] = G[k][g] BY <2>3, <3>1
      <3>3. k = m \/ k \in lo .. m - 1 OBVIOUS
      <3> QED BY <2>1, <2>2, <2>4, <3>2, <3>3
    <2> QED BY <2>3, <2>5
  <1>3. B = {}
    <2> SUFFICES ASSUME B # {} PROVE FALSE OBVIOUS
    <2>1. B \subseteq Nat OBVIOUS
    <2>2. PICK m \in B : \A k \in B : m <= k
      <3> HIDE DEF B
      <3> QED BY <2>1, LeastNatural
    <2>3. m \in D OBVIOUS
    <2>4. CASE m = lo
      <3> DEFINE f == [n \in D |-> e]
      <3>1. f \in F BY <1>1
      <3>2. \A k \in lo .. m - 1 : f[k] = G[k][f]
        <4>1. \A k \in lo .. m - 1 : FALSE BY <2>4
        <4> QED BY <4>1
      <3> HIDE DEF f
      <3> QED BY <1>2, <2>2, <2>3, <3>1, <3>2
    <2>5. CASE m # lo
      <3>1. m - 1 \in D /\ m - 1 \notin B
        <4> HIDE DEF B
        <4> QED BY <2>2, <2>3, <2>5
      <3>2. \E f \in F : \A k \in lo .. m - 1 : f[k] = G[k][f] BY <3>1
      <3> QED BY <1>2, <2>2, <2>3, <3>2
    <2> QED BY <2>4, <2>5
  <1>4. CASE lo <= hi
    <2>1. hi \in D /\ hi \notin B
      <3> HIDE DEF B
      <3> QED BY <1>3, <1>4
    <2> QED BY <2>1
  <1>5. CASE ~ (lo <= hi)
    <2> DEFINE f == [n \in D |-> e]
    <2>1. f \in F BY <1>1
    <2>2. \A n \in D : FALSE BY <1>5
    <2> QED BY <2>1, <2>2
  <1> QED BY <1>4, <1>5

-----------------------------------------------------------------------------
(* The conditions of the configuration.                                     *)

\* A result follows from those of the parent and of the branch before; a local one is true of the item.
Coherent(r, n) == r[n] # "unset" => r[n] = Cond!Decided(n, Cond!Above(r, n), Cond!Before(r, n), "unset")
LocalOK(l, n) == l[n] # "unset" => config.comp[n] \in valid /\ l[n] = Cond!Test(n)

CacheIInv == Cond!TypeOK /\ \A n \in Cond!Nodes : Coherent(result, n) /\ LocalOK(local, n)

\* What a step may use of the configuration.
LEMMA BlockShape ==
  ASSUME Cond!ConfigAssumption, config \in Blocks
  PROVE  /\ LastNode \in Nat /\ Cond!Nodes = 1 .. LastNode
         /\ \A n \in Cond!Nodes :
              /\ config.parent[n] \in 0 .. n - 1 /\ config.prev[n] \in 0 .. n - 1
              /\ config.parent[n] \in {0} \cup Cond!Nodes
              /\ config.prev[n] \in {0} \cup Cond!Nodes
              /\ config.prev[n] # 0 => config.parent[config.prev[n]] = config.parent[n]
              /\ config.comp[n] \in Items
  BY DEF Cond!ConfigAssumption, Cond!ConfigShape, Cond!Nodes

\* A condition on the item itself is true or false, never open.
LEMMA TestTyped == ASSUME NEW n PROVE Cond!Test(n) \in {"true", "false"}
  BY DEF Cond!Test

\* One step of the recursion of Fresh.
FreshAt(f, n) ==
  IF n = 0 THEN "true"
  ELSE Cond!Decided(n, IF config.parent[n] = 0 THEN "true" ELSE f[config.parent[n]],
                  IF config.prev[n] = 0 THEN "false" ELSE f[config.prev[n]], "unset")

\* Fresh is the function that its definition means it to be.
LEMMA FreshIs ==
  ASSUME Cond!ConfigAssumption, config \in Blocks
  PROVE  \A n \in 0 .. LastNode : Cond!Fresh[n] = FreshAt(Cond!Fresh, n)
  <1> DEFINE D == 0 .. LastNode
             F == [D -> Cond!Results]
             G == [n \in D |-> [f \in F |-> FreshAt(f, n)]]
  <1>1. \A n \in D : \A f \in F : FreshAt(f, n) \in Cond!Results
    BY TestTyped DEF FreshAt, Cond!Decided, Cond!Results
  <1>2. ASSUME NEW n \in D, NEW f \in F, NEW g \in F, \A j \in 0 .. n - 1 : f[j] = g[j]
        PROVE  FreshAt(f, n) = FreshAt(g, n)
    <2>1. CASE n = 0 BY <2>1 DEF FreshAt
    <2>2. CASE n # 0
      <3>1. n \in Cond!Nodes BY <2>2, BlockShape
      <3>2. config.parent[n] \in 0 .. n - 1 /\ config.prev[n] \in 0 .. n - 1 BY <3>1, BlockShape
      <3>3. f[config.parent[n]] = g[config.parent[n]] /\ f[config.prev[n]] = g[config.prev[n]]
        BY <1>2, <3>2
      <3> QED BY <3>3 DEF FreshAt
    <2> QED BY <2>1, <2>2
  <1>3. G \in [D -> [F -> Cond!Results]] BY <1>1
  <1>4. \A n \in D : \A f \in F : G[n][f] = FreshAt(f, n) OBVIOUS
  <1>5. \E f \in F : \A n \in D : f[n] = G[n][f]
    <2> HIDE DEF G
    <2>1. ASSUME NEW n \in D, NEW f \in F, NEW g \in F, \A j \in 0 .. n - 1 : f[j] = g[j]
          PROVE  G[n][f] = G[n][g]
      <3>1. FreshAt(f, n) = FreshAt(g, n) BY <1>2, <2>1
      <3> HIDE DEF D, F
      <3> QED BY <1>4, <3>1
    <2>2. 0 \in Nat /\ LastNode \in Nat /\ Cond!Results # {} BY BlockShape DEF Cond!Results
    <2>3. \A n \in D : \A f, g \in F : (\A j \in 0 .. n - 1 : f[j] = g[j]) => G[n][f] = G[n][g]
      <3> HIDE DEF D, F
      <3> QED BY <2>1
    <2>4. Recursive(0, LastNode, Cond!Results, G) BY <1>3, <2>2, <2>3 DEF Recursive
    <2>5. Solved(0, LastNode, Cond!Results, G) BY <2>4, Recursion
    <2> QED BY <2>5 DEF Solved
  <1>6. PICK f \in F : \A n \in D : f[n] = FreshAt(f, n) BY <1>4, <1>5
  <1>7. f = [n \in D |-> FreshAt(f, n)] BY <1>6
  <1>8. Cond!Fresh = CHOOSE h : h = [n \in D |-> FreshAt(h, n)] BY DEF Cond!Fresh, FreshAt
  <1>9. Cond!Fresh = [n \in D |-> FreshAt(Cond!Fresh, n)]
    <2> HIDE DEF D
    <2> QED BY <1>7, <1>8
  <1> QED BY <1>9

\* A cache whose results follow from each other is what an evaluation from nothing gives.
LEMMA CoherentFresh == ASSUME Cond!ConfigAssumption, CacheIInv PROVE Cond!CacheFresh
  <1> DEFINE B == {n \in Cond!Nodes : result[n] # "unset" /\ result[n] # Cond!Fresh[n]}
  <1>0. config \in Blocks BY DEF CacheIInv, Cond!TypeOK
  <1>1. B = {}
    <2> SUFFICES ASSUME B # {} PROVE FALSE OBVIOUS
    <2>1. B \subseteq Nat BY <1>0, BlockShape
    <2>2. PICK m \in B : \A k \in B : m <= k
      <3> HIDE DEF B
      <3> QED BY <2>1, LeastNatural
    <2>3. m \in Cond!Nodes /\ result[m] # "unset" /\ result[m] # Cond!Fresh[m] OBVIOUS
    <2>4. \A k \in Cond!Nodes : k < m /\ result[k] # "unset" => result[k] = Cond!Fresh[k]
      <3>1. \A k \in Cond!Nodes : k < m => k \notin B
        <4> HIDE DEF B
        <4> QED BY <1>0, <2>2, <2>3, BlockShape
      <3> QED BY <3>1
    <2> HIDE DEF B
    <2>5. result[m] = Cond!Decided(m, Cond!Above(result, m), Cond!Before(result, m), "unset")
      BY <2>3 DEF CacheIInv, Coherent
    <2>6. Cond!Above(result, m) # "unset" /\ Cond!Before(result, m) # "unset" BY <2>3, <2>5 DEF Cond!Decided
    <2>7. /\ config.parent[m] \in {0} \cup Cond!Nodes /\ config.prev[m] \in {0} \cup Cond!Nodes
          /\ config.parent[m] < m /\ config.prev[m] < m /\ m \in 0 .. LastNode /\ m # 0
      BY <1>0, <2>3, BlockShape
    <2>8. Cond!Above(result, m) = IF config.parent[m] = 0 THEN "true" ELSE Cond!Fresh[config.parent[m]]
      BY <2>4, <2>6, <2>7 DEF Cond!Above
    <2>9. Cond!Before(result, m) = IF config.prev[m] = 0 THEN "false" ELSE Cond!Fresh[config.prev[m]]
      BY <2>4, <2>6, <2>7 DEF Cond!Before
    <2>10. Cond!Fresh[m] = FreshAt(Cond!Fresh, m) BY <1>0, <2>7, FreshIs
    <2>11. FreshAt(Cond!Fresh, m) = Cond!Decided(m, Cond!Above(result, m), Cond!Before(result, m), "unset")
      BY <2>7, <2>8, <2>9 DEF FreshAt
    <2> QED BY <2>3, <2>5, <2>10, <2>11
  <1> QED BY <1>1 DEF Cond!CacheFresh

-----------------------------------------------------------------------------
(* The evaluation of all conditions. *)

CacheStates == [result : [Cond!Nodes -> Cond!Results],
                local : [Cond!Nodes -> Cond!Results \ {"skip"}], stuck : BOOLEAN]

\* CheckCond stores the result that follows from the parent and from the branch before, if any does.
LEMMA CheckCondIs ==
  ASSUME Cond!ConfigAssumption, config \in Blocks, NEW s \in CacheStates, NEW n \in Cond!Nodes,
         Cond!CheckCond(s, n) # s
  PROVE  \/ Cond!CheckCond(s, n) = [s EXCEPT !.stuck = TRUE]
         \/ \E v \in Cond!Results :
              /\ s.result[n] = "unset"
              /\ v = Cond!Decided(n, Cond!Above(s.result, n), Cond!Before(s.result, n), s.local[n])
              /\ Cond!CheckCond(s, n) =
                   [result |-> [s.result EXCEPT ![n] = v], stuck |-> s.stuck,
                    local |-> IF v \in {"true", "false"} THEN [s.local EXCEPT ![n] = v] ELSE s.local]
  <1> DEFINE v == Cond!Decided(n, Cond!Above(s.result, n), Cond!Before(s.result, n), s.local[n])
  <1>1. v \in Cond!Results BY TestTyped DEF Cond!Decided, CacheStates, Cond!Results
  <1> QED BY <1>1 DEF Cond!CheckCond

\* It leaves a cache whose results follow from each other such a cache.
LEMMA CheckCondKeeps ==
  ASSUME Cond!ConfigAssumption, config \in Blocks, NEW s \in CacheStates, NEW n \in Cond!Nodes
  PROVE  /\ Cond!CheckCond(s, n) \in CacheStates
         /\ (\A k \in Cond!Nodes : Coherent(s.result, k) /\ LocalOK(s.local, k)) =>
              \A k \in Cond!Nodes : /\ Coherent(Cond!CheckCond(s, n).result, k)
                                    /\ LocalOK(Cond!CheckCond(s, n).local, k)
  <1> DEFINE t == Cond!CheckCond(s, n)
  <1> SUFFICES /\ t \in CacheStates
               /\ (\A k \in Cond!Nodes : Coherent(s.result, k) /\ LocalOK(s.local, k)) =>
                    \A k \in Cond!Nodes : Coherent(t.result, k) /\ LocalOK(t.local, k)
    OBVIOUS
  <1>0. /\ s.result \in [Cond!Nodes -> Cond!Results]
        /\ s.local \in [Cond!Nodes -> Cond!Results \ {"skip"}] /\ s.stuck \in BOOLEAN
        /\ \A k \in Cond!Nodes : s.local[k] \in Cond!Results \ {"skip"}
    BY DEF CacheStates
  <1>1. CASE t = s BY <1>1
  <1>2. CASE t = [s EXCEPT !.stuck = TRUE]
    <2>1. t \in CacheStates /\ t.result = s.result /\ t.local = s.local BY <1>2 DEF CacheStates
    <2> QED BY <2>1
  <1>3. ASSUME NEW v \in Cond!Results, s.result[n] = "unset",
               v = Cond!Decided(n, Cond!Above(s.result, n), Cond!Before(s.result, n), s.local[n]),
               t = [result |-> [s.result EXCEPT ![n] = v], stuck |-> s.stuck,
                    local |-> IF v \in {"true", "false"} THEN [s.local EXCEPT ![n] = v] ELSE s.local]
        PROVE  /\ t \in CacheStates
               /\ (\A k \in Cond!Nodes : Coherent(s.result, k) /\ LocalOK(s.local, k)) =>
                    \A k \in Cond!Nodes : Coherent(t.result, k) /\ LocalOK(t.local, k)
    <2> HIDE DEF t
    <2>1. /\ t.result = [s.result EXCEPT ![n] = v]
          /\ t.local = IF v \in {"true", "false"} THEN [s.local EXCEPT ![n] = v] ELSE s.local
          /\ t.stuck = s.stuck
      BY <1>3
    <2>2. t.result \in [Cond!Nodes -> Cond!Results] /\ t.local \in [Cond!Nodes -> Cond!Results \ {"skip"}]
      BY <1>0, <2>1 DEF Cond!Results
    <2>3. t \in CacheStates BY <1>0, <1>3, <2>1, <2>2 DEF CacheStates
    <2>4. ASSUME \A k \in Cond!Nodes : Coherent(s.result, k) /\ LocalOK(s.local, k), NEW k \in Cond!Nodes
          PROVE  Coherent(t.result, k) /\ LocalOK(t.local, k)
      <3>1. /\ v \in {"true", "false"} => config.comp[n] \in valid /\ v = Cond!Test(n)
            /\ v = Cond!Decided(n, Cond!Above(s.result, n), Cond!Before(s.result, n), "unset")
        BY <1>3, <2>4, TestTyped DEF LocalOK, Cond!Decided
      <3>2. LocalOK(t.local, k)
        BY <1>0, <2>1, <2>4, <3>1 DEF LocalOK
      <3>3. ASSUME t.result[k] # "unset"
            PROVE  t.result[k] = Cond!Decided(k, Cond!Above(t.result, k), Cond!Before(t.result, k), "unset")
        <4>1. config.parent[n] # n /\ config.prev[n] # n /\ n # 0 BY BlockShape
        <4>2. config.parent[k] \in {0} \cup Cond!Nodes /\ config.prev[k] \in {0} \cup Cond!Nodes BY BlockShape
        <4>3. CASE k = n
          <5>1. /\ Cond!Above(t.result, k) = Cond!Above(s.result, k)
                /\ Cond!Before(t.result, k) = Cond!Before(s.result, k)
            BY <1>0, <2>1, <4>1, <4>2, <4>3 DEF Cond!Above, Cond!Before
          <5> QED BY <1>0, <2>1, <3>1, <4>3, <5>1
        <4>4. CASE k # n
          <5>1. t.result[k] = s.result[k] BY <1>0, <2>1, <4>4
          <5>2. s.result[k] = Cond!Decided(k, Cond!Above(s.result, k), Cond!Before(s.result, k), "unset")
            BY <2>4, <3>3, <5>1 DEF Coherent
          <5>3. Cond!Above(s.result, k) # "unset" /\ Cond!Before(s.result, k) # "unset"
            BY <3>3, <5>1, <5>2 DEF Cond!Decided
          <5>4. /\ Cond!Above(t.result, k) = Cond!Above(s.result, k)
                /\ Cond!Before(t.result, k) = Cond!Before(s.result, k)
            BY <1>0, <1>3, <2>1, <4>2, <5>3 DEF Cond!Above, Cond!Before
          <5> QED BY <5>1, <5>2, <5>4
        <4> QED BY <4>3, <4>4
      <3> QED BY <3>2, <3>3 DEF Coherent
    <2> QED BY <2>3, <2>4
  <1>4. t = s \/ t = [s EXCEPT !.stuck = TRUE]
          \/ \E v \in Cond!Results :
              /\ s.result[n] = "unset"
              /\ v = Cond!Decided(n, Cond!Above(s.result, n), Cond!Before(s.result, n), s.local[n])
              /\ t = [result |-> [s.result EXCEPT ![n] = v], stuck |-> s.stuck,
                      local |-> IF v \in {"true", "false"} THEN [s.local EXCEPT ![n] = v] ELSE s.local]
    BY CheckCondIs
  <1> HIDE DEF t
  <1> QED BY <1>1, <1>2, <1>3, <1>4

\* One step of the recursion of Patched.
PatchedAt(f, n) ==
  IF n = 0 THEN [result |-> result, local |-> local, stuck |-> FALSE] ELSE Cond!CheckCond(f[n - 1], n)

\* Patched is the function that its definition means it to be.
LEMMA PatchedIs ==
  ASSUME Cond!ConfigAssumption, Cond!TypeOK
  PROVE  /\ Cond!Patched \in [0 .. LastNode -> CacheStates]
         /\ \A n \in 0 .. LastNode : Cond!Patched[n] = PatchedAt(Cond!Patched, n)
  <1> DEFINE D == 0 .. LastNode
             F == [D -> CacheStates]
             G == [n \in D |-> [f \in F |-> PatchedAt(f, n)]]
  <1>0. config \in Blocks BY DEF Cond!TypeOK
  <1>01. LastNode \in Nat /\ Cond!Nodes = 1 .. LastNode BY <1>0, BlockShape
  <1>1. ASSUME NEW n \in D, NEW f \in F PROVE PatchedAt(f, n) \in CacheStates
    <2>1. CASE n = 0 BY <2>1 DEF PatchedAt, Cond!TypeOK, CacheStates
    <2>2. CASE n # 0
      <3>1. n \in Cond!Nodes /\ n - 1 \in D BY <1>01, <2>2
      <3>2. f[n - 1] \in CacheStates BY <3>1
      <3>3. Cond!CheckCond(f[n - 1], n) \in CacheStates BY <1>0, <3>1, <3>2, CheckCondKeeps
      <3> QED BY <2>2, <3>3 DEF PatchedAt
    <2> QED BY <2>1, <2>2
  <1>2. ASSUME NEW n \in D, NEW f \in F, NEW g \in F, \A j \in 0 .. n - 1 : f[j] = g[j]
        PROVE  PatchedAt(f, n) = PatchedAt(g, n)
    <2>1. CASE n = 0 BY <2>1 DEF PatchedAt
    <2>2. CASE n # 0
      <3>1. f[n - 1] = g[n - 1] BY <1>01, <1>2, <2>2
      <3> QED BY <3>1 DEF PatchedAt
    <2> QED BY <2>1, <2>2
  <1>3. G \in [D -> [F -> CacheStates]] BY <1>1
  <1>4. \A n \in D : \A f \in F : G[n][f] = PatchedAt(f, n) OBVIOUS
  <1>5. \E f \in F : \A n \in D : f[n] = G[n][f]
    <2> HIDE DEF G
    <2>1. ASSUME NEW n \in D, NEW f \in F, NEW g \in F, \A j \in 0 .. n - 1 : f[j] = g[j]
          PROVE  G[n][f] = G[n][g]
      <3>1. PatchedAt(f, n) = PatchedAt(g, n) BY <1>2, <2>1
      <3> HIDE DEF D, F
      <3> QED BY <1>4, <3>1
    <2>2. 0 \in Nat /\ LastNode \in Nat /\ CacheStates # {}
      <3>1. [result |-> result, local |-> local, stuck |-> FALSE] \in CacheStates
        BY DEF Cond!TypeOK, CacheStates
      <3> QED BY <1>01, <3>1
    <2>3. \A n \in D : \A f, g \in F : (\A j \in 0 .. n - 1 : f[j] = g[j]) => G[n][f] = G[n][g]
      <3> HIDE DEF D, F
      <3> QED BY <2>1
    <2>4. Recursive(0, LastNode, CacheStates, G) BY <1>3, <2>2, <2>3 DEF Recursive
    <2>5. Solved(0, LastNode, CacheStates, G) BY <2>4, Recursion
    <2> QED BY <2>5 DEF Solved
  <1>6. PICK f \in F : \A n \in D : f[n] = PatchedAt(f, n) BY <1>4, <1>5
  <1>7. f = [n \in D |-> PatchedAt(f, n)] BY <1>6
  <1>8. Cond!Patched = CHOOSE h : h = [n \in D |-> PatchedAt(h, n)] BY DEF Cond!Patched, PatchedAt
  <1>9. Cond!Patched = [n \in D |-> PatchedAt(Cond!Patched, n)]
    <2> HIDE DEF D
    <2> QED BY <1>7, <1>8
  <1>10. \A n \in D : Cond!Patched[n] = PatchedAt(Cond!Patched, n)
    <2> HIDE DEF D
    <2> QED BY <1>9
  <1>11. \A n \in D : Cond!Patched[n] \in CacheStates
    <2> DEFINE B == {n \in D : Cond!Patched[n] \notin CacheStates}
    <2> SUFFICES ASSUME B # {} PROVE FALSE OBVIOUS
    <2>1. B \subseteq Nat OBVIOUS
    <2>2. PICK m \in B : \A k \in B : m <= k
      <3> HIDE DEF B
      <3> QED BY <2>1, LeastNatural
    <2>3. m \in D OBVIOUS
    <2>4. CASE m = 0
      <3>1. [result |-> result, local |-> local, stuck |-> FALSE] \in CacheStates
        BY DEF Cond!TypeOK, CacheStates
      <3>2. Cond!Patched[m] = [result |-> result, local |-> local, stuck |-> FALSE]
        BY <1>10, <2>3, <2>4 DEF PatchedAt
      <3>3. Cond!Patched[m] \in CacheStates BY <3>1, <3>2
      <3> QED BY <3>3
    <2>5. CASE m # 0
      <3>1. m \in Cond!Nodes /\ m - 1 \in D BY <1>01, <2>3, <2>5
      <3>2. m - 1 \notin B
        <4> HIDE DEF B
        <4> QED BY <2>2, <2>3, <3>1
      <3>3. Cond!Patched[m - 1] \in CacheStates BY <3>1, <3>2
      <3>4. Cond!CheckCond(Cond!Patched[m - 1], m) \in CacheStates BY <1>0, <3>1, <3>3, CheckCondKeeps
      <3>5. Cond!Patched[m] \in CacheStates BY <1>10, <2>3, <2>5, <3>4 DEF PatchedAt
      <3> QED BY <3>5
    <2> QED BY <2>4, <2>5
  <1>12. Cond!Patched = [n \in D |-> Cond!Patched[n]]
    <2> HIDE DEF D
    <2> QED BY <1>9
  <1>13. Cond!Patched \in [D -> CacheStates]
    <2> HIDE DEF D
    <2> QED BY <1>11, <1>12
  <1> QED BY <1>10, <1>13

\* The evaluation of all conditions leaves a cache whose results follow from each other.
LEMMA PatchKeeps == ASSUME Cond!ConfigAssumption, CacheIInv, Cond!Patch PROVE CacheIInv'
  <1> DEFINE Good(u) == \A k \in Cond!Nodes : Coherent(u.result, k) /\ LocalOK(u.local, k)
             D == 0 .. LastNode
             B == {m \in D : ~ Good(Cond!Patched[m])}
             c0 == [result |-> result, local |-> local, stuck |-> FALSE]
  <1>0. config \in Blocks /\ Cond!TypeOK BY DEF CacheIInv, Cond!TypeOK
  <1>1. LastNode \in D /\ 0 \in D /\ LastNode \in Nat /\ Cond!Nodes = 1 .. LastNode BY <1>0, BlockShape
  <1>2. \A n \in D : Cond!Patched[n] \in CacheStates /\ Cond!Patched[n] = PatchedAt(Cond!Patched, n)
    BY <1>0, PatchedIs
  <1>3. Good(c0) BY DEF CacheIInv
  <1>4. ASSUME NEW u \in CacheStates, NEW n \in Cond!Nodes, Good(u) PROVE Good(Cond!CheckCond(u, n))
    BY <1>0, <1>4, CheckCondKeeps
  <1> HIDE DEF Good
  <1>5. B = {}
    <2> SUFFICES ASSUME B # {} PROVE FALSE OBVIOUS
    <2>1. B \subseteq Nat OBVIOUS
    <2>2. PICK m \in B : \A k \in B : m <= k
      <3> HIDE DEF B
      <3> QED BY <2>1, LeastNatural
    <2>3. m \in D /\ ~ Good(Cond!Patched[m]) OBVIOUS
    <2>4. CASE m = 0 BY <1>2, <1>3, <2>3, <2>4 DEF PatchedAt
    <2>5. CASE m # 0
      <3>1. m \in Cond!Nodes /\ m - 1 \in D BY <1>1, <2>3, <2>5
      <3>2. m - 1 \notin B
        <4> HIDE DEF B
        <4> QED BY <2>2, <2>3, <3>1
      <3>3. Good(Cond!Patched[m - 1]) BY <3>1, <3>2
      <3>4. Good(Cond!CheckCond(Cond!Patched[m - 1], m)) BY <1>2, <1>4, <3>1, <3>3
      <3>5. Cond!Patched[m] = Cond!CheckCond(Cond!Patched[m - 1], m) BY <1>2, <2>3, <2>5 DEF PatchedAt
      <3> QED BY <2>3, <3>4, <3>5
    <2> QED BY <2>4, <2>5
  <1>6. Good(Cond!Patched[LastNode])
    <2>1. LastNode \in D /\ LastNode \notin B
      <3> HIDE DEF B, D
      <3> QED BY <1>1, <1>5
    <2> QED BY <2>1
  <1>7. PICK u \in CacheStates : u = Cond!Patched[LastNode] BY <1>1, <1>2
  <1>8. /\ result' = u.result /\ local' = u.local /\ stuck' = u.stuck
        /\ UNCHANGED <<config, value, valid>>
    BY <1>7 DEF Cond!Patch
  <1>9. Cond!TypeOK' BY <1>0, <1>8 DEF Cond!TypeOK, CacheStates, Cond!Nodes
  <1>10. \A k \in Cond!Nodes : Coherent(u.result, k) /\ LocalOK(u.local, k) BY <1>6, <1>7 DEF Good
  <1>11. \A k \in Cond!Nodes : Coherent(result, k)' /\ LocalOK(local, k)'
    BY <1>8, <1>10 DEF Coherent, LocalOK, Cond!Decided, Cond!Above, Cond!Before, Cond!Test
  <1> QED BY <1>9, <1>11 DEF CacheIInv, Cond!Nodes

-----------------------------------------------------------------------------
(* The partial reset. *)

\* The conditions that config_cond_clear_node clears, as a function.
ClearedAt(i, u, n) ==
  /\ result[n] # "unset"
  /\ \/ config.comp[n] = i
     \/ config.prev[n] # 0 /\ u[config.prev[n]]
     \/ config.prev[n] = 0 /\ config.parent[n] # 0 /\ u[config.parent[n]]

\* A condition is cleared when it tests the item and when the branch before it or, of a first
\* branch, its parent is.
LEMMA ClearedIs ==
  ASSUME Cond!ConfigAssumption, config \in Blocks, NEW i
  PROVE  /\ Cond!Cleared(i) \subseteq Cond!Nodes
         /\ \A n \in Cond!Nodes : n \in Cond!Cleared(i) <=>
              /\ result[n] # "unset"
              /\ \/ config.comp[n] = i
                 \/ config.prev[n] # 0 /\ config.prev[n] \in Cond!Cleared(i)
                 \/ config.prev[n] = 0 /\ config.parent[n] # 0 /\ config.parent[n] \in Cond!Cleared(i)
  <1> DEFINE F == [Cond!Nodes -> BOOLEAN]
             G == [n \in Cond!Nodes |-> [f \in F |-> ClearedAt(i, f, n)]]
             u == CHOOSE h : h = [n \in Cond!Nodes |-> ClearedAt(i, h, n)]
  <1>0. LastNode \in Nat /\ Cond!Nodes = 1 .. LastNode BY BlockShape
  <1>1. \A n \in Cond!Nodes : \A f \in F : ClearedAt(i, f, n) \in BOOLEAN BY DEF ClearedAt
  <1>2. ASSUME NEW n \in Cond!Nodes, NEW f \in F, NEW g \in F, \A j \in 1 .. n - 1 : f[j] = g[j]
        PROVE  ClearedAt(i, f, n) = ClearedAt(i, g, n)
    <2>1. /\ config.prev[n] # 0 => config.prev[n] \in 1 .. n - 1
          /\ config.parent[n] # 0 => config.parent[n] \in 1 .. n - 1
      BY <1>0, BlockShape
    <2>2. /\ config.prev[n] # 0 => f[config.prev[n]] = g[config.prev[n]]
          /\ config.parent[n] # 0 => f[config.parent[n]] = g[config.parent[n]]
      BY <1>2, <2>1
    <2> QED BY <2>2 DEF ClearedAt
  <1>3. G \in [Cond!Nodes -> [F -> BOOLEAN]] BY <1>1
  <1>4. \A n \in Cond!Nodes : \A f \in F : G[n][f] = ClearedAt(i, f, n) OBVIOUS
  <1>5. \E f \in F : \A n \in Cond!Nodes : f[n] = G[n][f]
    <2> HIDE DEF G
    <2>1. ASSUME NEW n \in Cond!Nodes, NEW f \in F, NEW g \in F, \A j \in 1 .. n - 1 : f[j] = g[j]
          PROVE  G[n][f] = G[n][g]
      <3>1. ClearedAt(i, f, n) = ClearedAt(i, g, n) BY <1>2, <2>1
      <3> HIDE DEF F
      <3> QED BY <1>4, <3>1
    <2>2. 1 \in Nat /\ LastNode \in Nat /\ BOOLEAN # {} BY <1>0
    <2>3. \A n \in Cond!Nodes : \A f, g \in F : (\A j \in 1 .. n - 1 : f[j] = g[j]) => G[n][f] = G[n][g]
      <3> HIDE DEF F
      <3> QED BY <2>1
    <2>4. Recursive(1, LastNode, BOOLEAN, G) BY <1>0, <1>3, <2>2, <2>3 DEF Recursive
    <2>5. Solved(1, LastNode, BOOLEAN, G) BY <2>4, Recursion
    <2> QED BY <1>0, <2>5 DEF Solved
  <1>6. PICK f \in F : \A n \in Cond!Nodes : f[n] = ClearedAt(i, f, n) BY <1>4, <1>5
  <1>7. f = [n \in Cond!Nodes |-> ClearedAt(i, f, n)] BY <1>6
  <1>8. u = [n \in Cond!Nodes |-> ClearedAt(i, u, n)] BY <1>7
  <1>9. Cond!Cleared(i) = {n \in Cond!Nodes : u[n]} BY DEF Cond!Cleared, ClearedAt
  <1> HIDE DEF u
  <1>10. \A n \in Cond!Nodes : u[n] <=> ClearedAt(i, u, n) BY <1>8
  <1>11. \A n \in Cond!Nodes : n \in Cond!Cleared(i) <=> u[n] BY <1>9
  <1>12. ASSUME NEW n \in Cond!Nodes
         PROVE  n \in Cond!Cleared(i) <=>
              /\ result[n] # "unset"
              /\ \/ config.comp[n] = i
                 \/ config.prev[n] # 0 /\ config.prev[n] \in Cond!Cleared(i)
                 \/ config.prev[n] = 0 /\ config.parent[n] # 0 /\ config.parent[n] \in Cond!Cleared(i)
    <2>1. config.prev[n] # 0 => config.prev[n] \in Cond!Nodes BY BlockShape
    <2>2. config.parent[n] # 0 => config.parent[n] \in Cond!Nodes BY BlockShape
    <2> QED BY <1>10, <1>11, <2>1, <2>2 DEF ClearedAt
  <1> QED BY <1>9, <1>12

\* A condition with a result is cleared with its parent: by way of the branches before it, which stand
\* in the same block.
LEMMA ClearedBelow ==
  ASSUME Cond!ConfigAssumption, CacheIInv, NEW i, NEW n \in Cond!Nodes,
         result[n] # "unset", config.parent[n] # 0, config.parent[n] \in Cond!Cleared(i)
  PROVE  n \in Cond!Cleared(i)
  <1> DEFINE B == {k \in Cond!Nodes : /\ result[k] # "unset" /\ config.parent[k] # 0
                                      /\ config.parent[k] \in Cond!Cleared(i) /\ k \notin Cond!Cleared(i)}
  <1>0. config \in Blocks BY DEF CacheIInv, Cond!TypeOK
  <1>1. B = {}
    <2> SUFFICES ASSUME B # {} PROVE FALSE OBVIOUS
    <2>1. B \subseteq Nat BY <1>0, BlockShape
    <2>2. PICK m \in B : \A k \in B : m <= k
      <3> HIDE DEF B
      <3> QED BY <2>1, LeastNatural
    <2>3. /\ m \in Cond!Nodes /\ result[m] # "unset" /\ config.parent[m] # 0
          /\ config.parent[m] \in Cond!Cleared(i) /\ m \notin Cond!Cleared(i)
      OBVIOUS
    <2>4. config.prev[m] # 0 BY <1>0, <2>3, ClearedIs
    <2> DEFINE k == config.prev[m]
    <2>5. k \in Cond!Nodes /\ k < m /\ ~ (m <= k) /\ config.parent[k] = config.parent[m]
      <3>1. k \in 0 .. m - 1 /\ k \in {0} \cup Cond!Nodes /\ config.parent[k] = config.parent[m]
        BY <1>0, <2>3, <2>4, BlockShape
      <3>2. m \in Nat /\ k \in Cond!Nodes BY <2>1, <2>3, <2>4, <3>1
      <3> HIDE DEF k
      <3> QED BY <3>1, <3>2
    <2>6. result[m] = Cond!Decided(m, Cond!Above(result, m), Cond!Before(result, m), "unset")
      BY <2>3 DEF CacheIInv, Coherent
    <2>7. result[k] # "unset" BY <2>3, <2>4, <2>6 DEF Cond!Decided, Cond!Before
    <2>8. k \notin Cond!Cleared(i) BY <1>0, <2>3, <2>4, ClearedIs
    <2>9. k \in B BY <2>3, <2>5, <2>7, <2>8
    <2> HIDE DEF B, k
    <2> QED BY <2>2, <2>5, <2>9
  <1> QED BY <1>1

\* The value of an item matters to the conditions on it only.
LEMMA TestSame ==
  ASSUME NEW n, config' = config, value'[config.comp[n]] = value[config.comp[n]]
  PROVE  Cond!Test(n)' = Cond!Test(n)
  BY DEF Cond!Test

\* What the reset leaves has results that follow from each other.
LEMMA ResetKeeps ==
  ASSUME Cond!ConfigAssumption, CacheIInv, NEW i \in Items, Cond!ResetItem(i)
  PROVE CacheIInv'
  <1>0. config \in Blocks /\ Cond!TypeOK BY DEF CacheIInv, Cond!TypeOK
  <1> DEFINE gone == Cond!Cleared(i)
  <1>1. PICK v \in BOOLEAN : value' = [value EXCEPT ![i] = v] BY DEF Cond!ResetItem
  <1>2. /\ local' = [n \in Cond!Nodes |-> IF config.comp[n] = i THEN "unset" ELSE local[n]]
        /\ result' = [n \in Cond!Nodes |-> IF n \in gone THEN "unset" ELSE result[n]]
        /\ UNCHANGED <<config, valid, stuck>>
    BY DEF Cond!ResetItem
  <1>3. Cond!TypeOK'
    <2>1. value' \in [Items -> BOOLEAN] BY <1>0, <1>1 DEF Cond!TypeOK
    <2>2. result' \in [Cond!Nodes -> Cond!Results]
      <3> HIDE DEF gone
      <3> QED BY <1>0, <1>2 DEF Cond!TypeOK, Cond!Results
    <2>3. local' \in [Cond!Nodes -> Cond!Results \ {"skip"}] BY <1>0, <1>2 DEF Cond!TypeOK, Cond!Results
    <2> QED BY <1>0, <1>2, <2>1, <2>2, <2>3 DEF Cond!TypeOK, Cond!Nodes
  <1>4. ASSUME NEW n \in Cond!Nodes, config.comp[n] # i PROVE Cond!Test(n)' = Cond!Test(n)
    <2>1. config.comp[n] \in Items BY <1>0, BlockShape
    <2>2. value'[config.comp[n]] = value[config.comp[n]] BY <1>0, <1>1, <1>4, <2>1 DEF Cond!TypeOK
    <2> QED BY <1>2, <2>2, TestSame
  <1>5. ASSUME NEW n \in Cond!Nodes PROVE LocalOK(local, n)'
    <2>1. LocalOK(local, n) BY DEF CacheIInv
    <2>2. CASE config.comp[n] = i BY <1>2, <2>2 DEF LocalOK
    <2>3. CASE config.comp[n] # i
      <3>1. local'[n] = local[n] BY <1>2, <2>3
      <3> QED BY <1>2, <1>4, <2>1, <2>3, <3>1 DEF LocalOK
    <2> QED BY <2>2, <2>3
  <1>6. ASSUME NEW n \in Cond!Nodes PROVE Coherent(result, n)'
    <2>1. CASE n \in gone
      <3>1. result'[n] = "unset" BY <1>2, <2>1
      <3> QED BY <3>1 DEF Coherent
    <2>2. CASE result[n] = "unset"
      <3>1. result'[n] = "unset"
        <4> HIDE DEF gone
        <4> QED BY <1>2, <2>2
      <3> QED BY <3>1 DEF Coherent
    <2>3. CASE n \notin gone /\ result[n] # "unset"
      <3>1. config.comp[n] # i BY <1>0, <2>3, ClearedIs
      <3>2. config.prev[n] # 0 => config.prev[n] \notin gone BY <1>0, <2>3, ClearedIs
      <3>3. config.parent[n] # 0 => config.parent[n] \notin gone BY <2>3, ClearedBelow
      <3> HIDE DEF gone
      <3>4. config.parent[n] \in {0} \cup Cond!Nodes /\ config.prev[n] \in {0} \cup Cond!Nodes
        BY <1>0, BlockShape
      <3>5. /\ result'[n] = result[n] /\ Cond!Above(result, n)' = Cond!Above(result, n)
            /\ Cond!Before(result, n)' = Cond!Before(result, n)
        BY <1>2, <2>3, <3>2, <3>3, <3>4 DEF Cond!Above, Cond!Before
      <3>6. result[n] = Cond!Decided(n, Cond!Above(result, n), Cond!Before(result, n), "unset")
        BY <2>3 DEF CacheIInv, Coherent
      <3>7. Cond!Test(n)' = Cond!Test(n) BY <1>4, <3>1
      <3>8. Cond!Decided(n, Cond!Above(result, n), Cond!Before(result, n), "unset")'
              = Cond!Decided(n, Cond!Above(result, n), Cond!Before(result, n), "unset")
        BY <1>2, <3>5, <3>7 DEF Cond!Decided
      <3> QED BY <3>5, <3>6, <3>8 DEF Coherent
    <2> QED BY <2>1, <2>2, <2>3
  <1> QED BY <1>2, <1>3, <1>5, <1>6 DEF CacheIInv, Cond!Nodes

\* The ClientHello tells items that no result depends on yet.
LEMMA HelloKeeps == ASSUME Cond!ConfigAssumption, CacheIInv, Cond!Hello PROVE CacheIInv'
  <1>0. config \in Blocks /\ Cond!TypeOK BY DEF CacheIInv, Cond!TypeOK
  <1>1. AtHello \subseteq Items \ AtAccept BY DEF Cond!ConfigAssumption
  <1>2. PICK v \in [AtHello -> BOOLEAN] :
          value' = [i \in Items |-> IF i \in AtHello THEN v[i] ELSE value[i]]
    BY DEF Cond!Hello
  <1>3. valid = AtAccept /\ valid' = valid \cup AtHello /\ UNCHANGED <<config, result, local, stuck>>
    BY DEF Cond!Hello
  <1>4. Cond!TypeOK' BY <1>0, <1>1, <1>2, <1>3 DEF Cond!TypeOK, Cond!Nodes
  <1>5. ASSUME NEW n \in Cond!Nodes, config.comp[n] \in valid
        PROVE  Cond!Test(n)' = Cond!Test(n) /\ config'.comp[n] \in valid'
    <2>1. config.comp[n] \in Items /\ config.comp[n] \notin AtHello BY <1>0, <1>1, <1>3, <1>5, BlockShape
    <2>2. value'[config.comp[n]] = value[config.comp[n]] BY <1>2, <2>1
    <2> QED BY <1>3, <1>5, <2>2, TestSame
  <1>6. ASSUME NEW n \in Cond!Nodes PROVE Coherent(result, n)' /\ LocalOK(local, n)'
    <2>1. Coherent(result, n) /\ LocalOK(local, n) BY DEF CacheIInv
    <2>2. LocalOK(local, n)' BY <1>3, <1>5, <2>1 DEF LocalOK
    <2>3. /\ result' = result /\ Cond!Above(result, n)' = Cond!Above(result, n)
          /\ Cond!Before(result, n)' = Cond!Before(result, n)
      BY <1>3 DEF Cond!Above, Cond!Before
    <2>4. result[n] # "unset" =>
            Cond!Decided(n, Cond!Above(result, n), Cond!Before(result, n), "unset")'
              = Cond!Decided(n, Cond!Above(result, n), Cond!Before(result, n), "unset")
      BY <1>3, <1>5, <2>1, <2>3 DEF Cond!Decided, Coherent
    <2> QED BY <2>1, <2>2, <2>3, <2>4 DEF Coherent
  <1> QED BY <1>3, <1>4, <1>6 DEF CacheIInv, Cond!Nodes

\* An empty cache has nothing that could be wrong.
LEMMA EmptyKeeps ==
  ASSUME result = Cond!Unset, local = Cond!Unset
  PROVE  \A n \in Cond!Nodes : Coherent(result, n) /\ LocalOK(local, n)
  BY DEF Cond!Unset, Coherent, LocalOK

\* A server starts with an empty cache.
LEMMA InitCache == ASSUME Cond!ConfigAssumption, Cond!Init PROVE CacheIInv
  <1>1. Cond!TypeOK BY DEF Cond!Init, Cond!TypeOK, Cond!Unset, Cond!Results
  <1> QED BY <1>1, EmptyKeeps DEF Cond!Init, CacheIInv

\* Every step keeps the cache coherent: patching adds what follows, the others empty what could be wrong.
LEMMA NextCache == ASSUME Cond!ConfigAssumption, CacheIInv, [Cond!Next]_(Cond!vars) PROVE CacheIInv'
  <1>0. Cond!TypeOK /\ AtAccept \subseteq Items BY DEF CacheIInv, Cond!ConfigAssumption
  <1>1. CASE Cond!Patch BY <1>1, PatchKeeps
  <1>2. ASSUME result' = Cond!Unset, local' = Cond!Unset, Cond!TypeOK' PROVE CacheIInv'
    <2>1. \A n \in Cond!Nodes : Coherent(result, n)' /\ LocalOK(local, n)'
      BY <1>2 DEF Cond!Unset, Coherent, LocalOK
    <2> QED BY <1>2, <2>1 DEF CacheIInv, Cond!Nodes
  <1>3. CASE Cond!Accept
    <2>1. PICK v \in [AtAccept -> BOOLEAN] :
            value' = [i \in Items |-> IF i \in AtAccept THEN v[i] ELSE value[i]]
      BY <1>3 DEF Cond!Accept
    <2>2. valid' = AtAccept /\ result' = Cond!Unset /\ local' = Cond!Unset /\ UNCHANGED <<config, stuck>>
      BY <1>3 DEF Cond!Accept
    <2>3. Cond!TypeOK' BY <1>0, <2>1, <2>2 DEF Cond!TypeOK, Cond!Unset, Cond!Nodes, Cond!Results
    <2> QED BY <1>2, <2>2, <2>3
  <1>4. CASE Cond!Hello BY <1>4, HelloKeeps
  <1>5. CASE Cond!Prepare
    <2>1. PICK v \in [Items \ AtAccept -> BOOLEAN] :
            value' = [i \in Items |-> IF i \in AtAccept THEN value[i] ELSE v[i]]
      BY <1>5 DEF Cond!Prepare
    <2>2. valid' = Items /\ result' = Cond!Unset /\ local' = Cond!Unset /\ UNCHANGED <<config, stuck>>
      BY <1>5 DEF Cond!Prepare
    <2>3. Cond!TypeOK' BY <1>0, <2>1, <2>2 DEF Cond!TypeOK, Cond!Unset, Cond!Nodes, Cond!Results
    <2> QED BY <1>2, <2>2, <2>3
  <1>6. ASSUME NEW i \in Items, Cond!ResetItem(i) PROVE CacheIInv' BY <1>6, ResetKeeps
  <1>7. CASE UNCHANGED Cond!vars
    BY <1>7 DEF Cond!vars, CacheIInv, Cond!TypeOK, Cond!Nodes, Coherent,
                 LocalOK, Cond!Decided, Cond!Above, Cond!Before, Cond!Test
  <1> QED BY <1>1, <1>3, <1>4, <1>5, <1>6, <1>7 DEF Cond!Next

\* Whatever clients, handshakes, requests and replaced items come in whatever order, and however the
\* conditions are nested: a cached result is what an evaluation from nothing would give
\* (config_check_cond, config_cond_cache_reset_item).
THEOREM ConditionsFresh == ASSUME Cond!ConfigAssumption PROVE Cond!Spec => []Cond!CacheFresh
  <1>1. Cond!Init => CacheIInv BY InitCache
  <1>2. CacheIInv /\ [Cond!Next]_(Cond!vars) => CacheIInv' BY NextCache
  <1>3. CacheIInv => Cond!CacheFresh BY CoherentFresh
  <1> QED BY <1>1, <1>2, <1>3, PTL DEF Cond!Spec

-----------------------------------------------------------------------------
(* The way of a request through the plugins.                                *)

\* What is counted of a request.
Counters == {"pc", "slot", "loops", "redirs", "saved", "rounds"}

\* The rewriting contexts that a request may have used up: local redirects that were followed, and
\* the error handler.
Contexts(k) == (IF k.redirs >= LocalLoops THEN LocalLoops ELSE k.redirs) + (IF k.saved = 0 THEN 0 ELSE 1)

\* Each context allows so many rounds, the redirect or the error handler that ends it included.
InContext == RewriteLoops + 3

Sound(k) ==
  /\ Counters \subseteq DOMAIN k
  /\ k.slot \in 1 .. 5 /\ k.loops \in -1 .. RewriteLoops + 2 /\ k.redirs \in Nat /\ k.rounds \in Nat
  /\ k.pc # "answer" => k.loops <= RewriteLoops + 1
  /\ k.rounds <= Contexts(k) * InContext + k.loops + 1

RoundsIInv == DOMAIN conn = Conns /\ \A n \in Conns : Sound(conn[n])

\* A step that leaves the counters alone.
Same(k, l) ==
  /\ Counters \subseteq DOMAIN l /\ l.slot \in 1 .. 5
  /\ l.loops = k.loops /\ l.redirs = k.redirs /\ l.saved = k.saved /\ l.rounds = k.rounds

\* What moves nothing that is counted leaves the count sound.
LEMMA SameSound ==
  ASSUME NEW k, NEW l, Sound(k), Same(k, l), k.pc # "answer"
  PROVE  Sound(l)
  BY DEF Sound, Same, Contexts

\* What a handler that rewrites nothing returns.
Kept(k, r) ==
  /\ "c" \in DOMAIN r /\ Same(k, r.c) /\ r.c.pc = k.pc /\ r.r \in {"go", "finished"}

\* A handler that only says what its hook returns counts nothing.
LEMMA GoKept == ASSUME NEW k, Sound(k), NEW y PROVE Kept(k, Hook!Go(k, y))
  BY DEF Kept, Hook!Go, Hook!Ret, Same, Sound

\* No plugin but mod_rewrite counts anything.
LEMMA UseKept ==
  ASSUME NEW p, NEW o, NEW k, Sound(k), NEW y, NEW n, p # "rewrite"
  PROVE  Kept(k, Hook!Use(p, o, k, y, n))
  <1> USE DEF Kept, Same, Sound, Hook!Go, Hook!Done, Hook!Ret, Counters
  <1>1. Kept(k, Hook!Redirect(o, k, y)) BY DEF Hook!Redirect
  <1>2. Kept(k, Hook!Setenv(o, k, y)) BY DEF Hook!Setenv
  <1>3. Kept(k, Hook!Access(o, k, y)) BY DEF Hook!Access
  <1>4. Kept(k, Hook!Auth(o, k, y)) BY DEF Hook!Auth
  <1>5. Kept(k, Hook!UploadProgress(o, k, y, n)) BY DEF Hook!UploadProgress
  <1>6. Kept(k, Hook!Evhost(o, k, y)) BY DEF Hook!Evhost
  <1>7. Kept(k, Hook!SimpleVhost(o, k, y)) BY DEF Hook!SimpleVhost
  <1>8. Kept(k, Hook!VhostDb(o, k, y)) BY DEF Hook!VhostDb, Hook!Found
  <1>9. Kept(k, Hook!Alias(o, k, y)) BY DEF Hook!Alias
  <1>10. Kept(k, Hook!Userdir(o, k, y)) BY DEF Hook!Userdir
  <1>11. Kept(k, Hook!Secdownload(o, k, y)) BY DEF Hook!Secdownload
  <1>12. Kept(k, Hook!FlvStreaming(o, k, y)) BY DEF Hook!FlvStreaming
  <1>13. Kept(k, Hook!Indexfile(o, k, y)) BY DEF Hook!Indexfile
  <1>14. Kept(k, Hook!Cgi(o, k, y)) BY DEF Hook!Cgi
  <1>15. Kept(k, Hook!Dirlisting(o, k, y)) BY DEF Hook!Dirlisting
  <1>16. Kept(k, Hook!Staticfile(o, k, y)) BY DEF Hook!Staticfile
  <1>17. Kept(k, Hook!Go(k, y)) BY GoKept
  <1> QED
    BY ONLY p # "rewrite", <1>1, <1>2, <1>3, <1>4, <1>5, <1>6, <1>7, <1>8, <1>9, <1>10, <1>11, <1>12,
       <1>13, <1>14, <1>15, <1>16, <1>17 DEF Hook!Use

\* A rewriting plugin goes on, uses its context up, or comes back with a step less in it.
LEMMA RewriteSound ==
  ASSUME Hook!HooksAssumption, NEW o, NEW k, Sound(k), k.pc = "hook", NEW y, NEW n, NEW r,
         r = Hook!Use("rewrite", o, k, y, n)
  PROVE  /\ "c" \in DOMAIN r /\ r.r \in {"go", "comeback", "error"}
         /\ Counters \subseteq DOMAIN r.c /\ r.c.slot = k.slot /\ r.c.pc = "hook"
         /\ r.c.redirs = k.redirs /\ r.c.saved = k.saved /\ r.c.rounds = k.rounds
         /\ r.c.loops \in -1 .. RewriteLoops + 2
         /\ r.r \in {"go", "comeback"} => r.c.loops <= RewriteLoops + 1
         /\ r.c.loops >= k.loops
         /\ r.r = "comeback" => r.c.loops = k.loops + 1
  <1> DEFINE Good(x) ==
         /\ DOMAIN x = {"c", "z", "r"} /\ x.r \in {"go", "comeback", "error"}
         /\ Counters \subseteq DOMAIN x.c /\ x.c.slot = k.slot /\ x.c.pc = "hook"
         /\ x.c.redirs = k.redirs /\ x.c.saved = k.saved /\ x.c.rounds = k.rounds
         /\ x.c.loops \in -1 .. RewriteLoops + 2
         /\ x.r \in {"go", "comeback"} => x.c.loops <= RewriteLoops + 1
         /\ x.c.loops >= k.loops
         /\ x.r = "comeback" => x.c.loops = k.loops + 1
  <1>0. RewriteLoops \in Nat BY DEF Hook!HooksAssumption
  <1>1. Good(Hook!Go(k, y)) BY <1>0 DEF Hook!Go, Hook!Ret, Sound, Counters
  <1>2. ASSUME NEW rules PROVE Good(Hook!RewriteRules(rules, k, y))
    <2> DEFINE k1 == [k EXCEPT !.loops = IF @ = Hook!NoCtx THEN Hook!NoCtx ELSE @ + 1]
    <2>1. Good(Hook!Ret(k1, y, "error")) \/ ~ (k.loops > RewriteLoops)
      BY <1>0 DEF Sound, Counters, Hook!Ret, Hook!NoCtx
    <2>2. Good(Hook!Go(k1, y)) \/ k.loops > RewriteLoops
      BY <1>0 DEF Sound, Counters, Hook!Ret, Hook!NoCtx, Hook!Go
    <2>3. ASSUME NEW uri, NEW once, ~ (k.loops > RewriteLoops)
          PROVE  Good(Hook!Ret([k1 EXCEPT !.uri = uri, !.once = once, !.loops = IF @ = Hook!NoCtx THEN 0 ELSE @],
                          y, "comeback"))
      <3>1. /\ k1.loops = (IF k.loops = Hook!NoCtx THEN Hook!NoCtx ELSE k.loops + 1) /\ k1.slot = k.slot
            /\ k1.pc = "hook" /\ k1.redirs = k.redirs /\ k1.saved = k.saved /\ k1.rounds = k.rounds
            /\ Counters \subseteq DOMAIN k1
        BY DEF Sound, Counters
      <3> HIDE DEF k1
      <3> DEFINE k2 == [k1 EXCEPT !.uri = uri, !.once = once, !.loops = IF @ = Hook!NoCtx THEN 0 ELSE @]
      <3>2. /\ k2.loops = (IF k1.loops = Hook!NoCtx THEN 0 ELSE k1.loops) /\ k2.slot = k1.slot
            /\ k2.pc = k1.pc /\ k2.redirs = k1.redirs /\ k2.saved = k1.saved /\ k2.rounds = k1.rounds
            /\ Counters \subseteq DOMAIN k2
        BY <3>1 DEF Counters
      <3> HIDE DEF k2
      <3>3. Good(Hook!Ret(k2, y, "comeback"))
        BY <1>0, <2>3, <3>1, <3>2 DEF Sound, Hook!Ret, Hook!NoCtx
      <3> QED BY <3>3 DEF k2
    <2> HIDE DEF Good
    <2> QED BY <2>1, <2>2, <2>3 DEF Hook!RewriteRules
  <1>3. Good(Hook!RewriteUri(o, k, y)) BY <1>1, <1>2 DEF Hook!RewriteUri
  <1>4. ASSUME NEW x, Good(x), NEW phys PROVE Good([x EXCEPT !.c.phys = phys])
    BY <1>4 DEF Counters
  <1>5. Good(Hook!RewritePhysical(o, k, y))
    <2> HIDE DEF Good
    <2> QED BY <1>1, <1>2, <1>4 DEF Hook!RewritePhysical
  <1>6. Good(r)
    <2> HIDE DEF Good
    <2> QED BY <1>3, <1>5 DEF Hook!Use
  <1> QED BY <1>6

\* Its contexts: a number, and one that the next local redirect or the error handler adds to.
LEMMA ContextsNat ==
  ASSUME Hook!HooksAssumption, NEW k, Sound(k)
  PROVE  Contexts(k) \in 0 .. LocalLoops + 1
  BY DEF Hook!HooksAssumption, Sound, Contexts

\* Arithmetic: the product with one context more, and with no fewer.
LEMMA Multiply ==
  ASSUME NEW x \in Nat, NEW m \in Nat
  PROVE  x * m \in Nat /\ (x + 1) * m = x * m + m
  OBVIOUS

\* Products of natural numbers grow with a factor.
LEMMA MultiplyMore ==
  ASSUME NEW x \in Nat, NEW y \in Nat, NEW m \in Nat, x <= y
  PROVE  x * m <= y * m
  <1>1. PICK d \in Nat : y = x + d OBVIOUS
  <1>2. y * m = x * m + d * m /\ d * m >= 0 BY <1>1
  <1>3. x * m \in Nat /\ d * m \in Nat OBVIOUS
  <1> QED BY <1>2, <1>3

\* A plugin of a hook keeps the count sound, whatever it returns.
LEMMA HandlerSound ==
  ASSUME Hook!HooksAssumption, NEW p, NEW o, NEW k, Sound(k), k.pc = "hook", NEW y, NEW n, NEW r,
         r = Hook!Use(p, o, k, y, n)
  PROVE  "c" \in DOMAIN r /\ Sound(Hook!After(r.c, r.r))
  <1>0. RewriteLoops \in Nat BY DEF Hook!HooksAssumption
  <1>1. CASE p = "rewrite"
    <2>1. /\ "c" \in DOMAIN r /\ r.r \in {"go", "comeback", "error"}
          /\ Counters \subseteq DOMAIN r.c /\ r.c.slot = k.slot /\ r.c.pc = "hook"
          /\ r.c.redirs = k.redirs /\ r.c.saved = k.saved /\ r.c.rounds = k.rounds
          /\ r.c.loops \in -1 .. RewriteLoops + 2
          /\ r.r \in {"go", "comeback"} => r.c.loops <= RewriteLoops + 1
          /\ r.c.loops >= k.loops
          /\ r.r = "comeback" => r.c.loops = k.loops + 1
      BY <1>1, RewriteSound
    <2> DEFINE d == r.c
    <2> HIDE DEF d
    <2>2. Contexts(d) = Contexts(k) BY <2>1 DEF Contexts, d
    <2>3. Contexts(k) * InContext \in Int BY <1>0, ContextsNat, Multiply DEF InContext
    <2>4. d.rounds <= Contexts(d) * InContext + k.loops + 1 BY <2>1, <2>2 DEF Sound, d
    <2>5. CASE r.r = "go"
      <3> DEFINE l == [d EXCEPT !.i = @ + 1]
      <3>1. /\ Counters \subseteq DOMAIN l /\ l.slot = d.slot /\ l.pc = "hook" /\ l.loops = d.loops
            /\ l.redirs = d.redirs /\ l.saved = d.saved /\ l.rounds = d.rounds
        BY <2>1 DEF d, Counters
      <3> HIDE DEF l
      <3>2. Contexts(l) = Contexts(d) BY <3>1 DEF Contexts
      <3>3. Sound(l) BY <1>0, <2>1, <2>2, <2>3, <2>4, <2>5, <3>1, <3>2 DEF Sound, d
      <3> QED BY <2>1, <2>5, <3>3 DEF Hook!After, l, d
    <2>6. CASE r.r = "comeback"
      <3> DEFINE l == Hook!At([d EXCEPT !.rounds = @ + 1], "prepare")
      <3>1. /\ Counters \subseteq DOMAIN l /\ l.slot = d.slot /\ l.pc = "prepare" /\ l.loops = d.loops
            /\ l.redirs = d.redirs /\ l.saved = d.saved /\ l.rounds = d.rounds + 1
        BY <2>1 DEF d, Counters, Hook!At
      <3> HIDE DEF l
      <3>2. Contexts(l) = Contexts(d) BY <3>1 DEF Contexts
      <3>3. Sound(l) BY <1>0, <2>1, <2>2, <2>3, <2>4, <2>6, <3>1, <3>2 DEF Sound, d
      <3> QED BY <2>1, <2>6, <3>3 DEF Hook!After, l, d
    <2>7. CASE r.r = "error"
      <3> DEFINE l == Hook!At([d EXCEPT !.status = -1], "answer")
      <3>1. /\ Counters \subseteq DOMAIN l /\ l.slot = d.slot /\ l.pc = "answer" /\ l.loops = d.loops
            /\ l.redirs = d.redirs /\ l.saved = d.saved /\ l.rounds = d.rounds
        BY <2>1 DEF d, Counters, Hook!At
      <3> HIDE DEF l
      <3>2. Contexts(l) = Contexts(d) BY <3>1 DEF Contexts
      <3>3. Sound(l) BY <1>0, <2>1, <2>2, <2>3, <2>4, <2>7, <3>1, <3>2 DEF Sound, d
      <3> QED BY <2>1, <2>7, <3>3 DEF Hook!After, l, d
    <2> QED BY <2>1, <2>5, <2>6, <2>7
  <1>2. CASE p # "rewrite"
    <2>1. Kept(k, r) BY <1>2, UseKept
    <2>2. "c" \in DOMAIN r /\ Same(k, r.c) /\ r.c.pc = "hook" /\ r.r \in {"go", "finished"}
      BY <2>1 DEF Kept
    <2>3. Same(k, [r.c EXCEPT !.i = @ + 1]) /\ Same(k, Hook!At(r.c, "finished"))
      BY <2>2 DEF Same, Hook!At, Counters
    <2>4. Same(k, Hook!After(r.c, r.r)) BY <2>2, <2>3 DEF Hook!After
    <2> QED BY <2>2, <2>4, SameSound
  <1> QED BY <1>1, <1>2

\* The steps of http_response_prepare between the handlers leave the counters alone.
LEMMA PrepareSame ==
  ASSUME Hook!HooksAssumption, NEW k, Sound(k)
  PROVE  /\ Same(k, Hook!Prepared(k)) /\ Same(k, Hook!SlotDone(k)) /\ Same(k, Hook!Checked(k))
         /\ \A p : Same(k, Hook!Skipped(p, k))
  <1> USE DEF Sound, Same, Counters, Hook!At, Hook!Slot
  <1>1. Same(k, Hook!Prepared(k)) BY DEF Hook!Prepared
  <1>2. Same(k, Hook!SlotDone(k))
    <2>1. Same(k, Hook!Slot(k, 2)) OBVIOUS
    <2>2. Same(k, Hook!Border(k)) BY DEF Hook!Border
    <2>3. Same(k, Hook!Assembled(k)) BY DEF Hook!Assembled
    <2>4. Same(k, Hook!At(k, "check")) OBVIOUS
    <2>5. Same(k, Hook!Unwanted(k)) BY DEF Hook!Unwanted
    <2>6. k.slot \in 1 .. 5 OBVIOUS
    <2> QED BY ONLY <2>1, <2>2, <2>3, <2>4, <2>5, <2>6 DEF Hook!SlotDone
  <1>3. Same(k, Hook!Checked(k))
    <2>1. \A status : Same(k, Hook!Refuse(k, status)) BY DEF Hook!Refuse
    <2>2. Same(k, Hook!Slot(k, 5)) OBVIOUS
    <2>3. Same(k, Hook!Slot(Hook!PathInfo(k), 5)) BY DEF Hook!PathInfo
    <2>4. Same(k, Hook!At([k EXCEPT !.status = 301, !.what = k.path \o <<"">>], "finished")) OBVIOUS
    <2>5. Hook!Stat(k.phys) \in {"noent", "notdir", "reg", "dir"} BY DEF Hook!Stat, Hook!HooksAssumption
    <2> QED BY ONLY <2>1, <2>2, <2>3, <2>4, <2>5 DEF Hook!Checked, Hook!IsDir
  <1>4. ASSUME NEW p PROVE Same(k, Hook!Skipped(p, k)) BY DEF Hook!Skipped, Hook!Found
  <1> QED BY <1>1, <1>2, <1>3, <1>4

\* A request that begins a new context, of a local redirect or of the error handler.
LEMMA ContextSound ==
  ASSUME Hook!HooksAssumption, NEW k, Sound(k), k.pc # "answer", NEW l,
         Counters \subseteq DOMAIN l, l.slot = k.slot, l.loops = Hook!NoCtx, l.redirs \in Nat,
         l.rounds = k.rounds + 1, Contexts(l) = Contexts(k) + 1
  PROVE  Sound(l)
  <1>1. RewriteLoops \in Nat /\ InContext \in Nat BY DEF Hook!HooksAssumption, InContext
  <1>2. Contexts(k) \in Nat BY ContextsNat DEF Hook!HooksAssumption
  <1>3. /\ Contexts(k) * InContext \in Int
        /\ Contexts(l) * InContext = Contexts(k) * InContext + RewriteLoops + 3
    <2>1. Contexts(k) * InContext \in Int /\ (Contexts(k) + 1) * InContext = Contexts(k) * InContext + InContext
      BY <1>1, <1>2, Multiply
    <2>2. InContext = RewriteLoops + 3 BY DEF InContext
    <2> QED BY <1>1, <2>1, <2>2
  <1>4. /\ k.rounds \in Nat /\ k.loops \in Int /\ k.loops <= RewriteLoops + 1 /\ k.slot \in 1 .. 5
        /\ k.rounds <= Contexts(k) * InContext + k.loops + 1
    BY <1>1 DEF Sound
  <1>5. l.rounds <= Contexts(l) * InContext + l.loops + 1
    BY <1>1, <1>3, <1>4 DEF Hook!NoCtx
  <1> QED BY <1>1, <1>4, <1>5 DEF Sound, Hook!NoCtx

\* http_response_process_local_redir.
LEMMA SubrequestSound ==
  ASSUME Hook!HooksAssumption, NEW k, Sound(k), k.pc = "sub", NEW y, NEW n
  PROVE  Sound(Hook!Subrequest(k, y, n).c)
  <1>0. LocalLoops \in Nat BY DEF Hook!HooksAssumption
  <1>1. ASSUME NEW loc, k.redirs >= LocalLoops PROVE Sound(Hook!LocalRedir(k, y, n, loc).c)
    <2> DEFINE l == Hook!At([k EXCEPT !.mode = "direct", !.status = 500, !.redirs = @ + 1, !.what = <<"error">>],
                       "finished")
    <2>1. /\ Counters \subseteq DOMAIN l /\ l.slot = k.slot /\ l.loops = k.loops
          /\ l.redirs = k.redirs + 1 /\ l.saved = k.saved /\ l.rounds = k.rounds
      BY DEF Sound, Counters, Hook!At
    <2> HIDE DEF l
    <2>2. Contexts(l) = Contexts(k) BY <1>0, <1>1, <2>1 DEF Contexts, Sound
    <2>3. Sound(l)
      <3>1. Contexts(k) * InContext \in Int /\ RewriteLoops \in Nat
        BY ContextsNat, Multiply DEF Hook!HooksAssumption, InContext
      <3> QED BY <2>1, <2>2, <3>1 DEF Sound
    <2> QED BY <1>1, <2>3 DEF Hook!LocalRedir, Hook!Ret, l
  <1>2. ASSUME NEW loc, ~ (k.redirs >= LocalLoops) PROVE Sound(Hook!LocalRedir(k, y, n, loc).c)
    <2> DEFINE k1 == [k EXCEPT !.uri = loc, !.method = "GET", !.redirs = @ + 1, !.loc = loc]
               k2 == Hook!PluginsReset(Hook!ResponseReset(k1), y, n).c
               l == Hook!At([k2 EXCEPT !.rounds = @ + 1], "prepare")
    <2>1. /\ Counters \subseteq DOMAIN k1 /\ k1.slot = k.slot
          /\ k1.redirs = k.redirs + 1 /\ k1.saved = k.saved /\ k1.rounds = k.rounds
      BY DEF Sound, Counters
    <2> HIDE DEF k1
    <2>2. /\ Counters \subseteq DOMAIN k2 /\ k2.slot = k1.slot /\ k2.loops = Hook!NoCtx
          /\ k2.redirs = k1.redirs /\ k2.saved = k1.saved /\ k2.rounds = k1.rounds
      BY <2>1 DEF Counters, Hook!PluginsReset, Hook!ResponseReset
    <2> HIDE DEF k2
    <2>3. /\ Counters \subseteq DOMAIN l /\ l.slot = k.slot /\ l.loops = Hook!NoCtx
          /\ l.redirs = k.redirs + 1 /\ l.saved = k.saved /\ l.rounds = k.rounds + 1
      BY <2>1, <2>2 DEF Counters, Hook!At
    <2> HIDE DEF l
    <2>4. Contexts(l) = Contexts(k) + 1 /\ l.redirs \in Nat BY <1>0, <1>2, <2>3 DEF Contexts, Sound
    <2>5. Sound(l) BY <2>3, <2>4, ContextSound
    <2> QED BY <1>2, <2>5 DEF Hook!LocalRedir, Hook!Ret, k1, k2, l
  <1>3. ASSUME NEW status, NEW what
        PROVE  Sound(Hook!At([k EXCEPT !.status = status, !.what = what], "finished"))
    <2>1. Same(k, Hook!At([k EXCEPT !.status = status, !.what = what], "finished"))
      BY DEF Same, Sound, Counters, Hook!At
    <2> QED BY <2>1, SameSound
  <1> QED BY <1>1, <1>2, <1>3 DEF Hook!Subrequest, Hook!Ret

\* connection_handle_handle_request_state, after the response was prepared.
LEMMA FinishedSound ==
  ASSUME Hook!HooksAssumption, NEW k0, Sound(k0), k0.pc = "finished", NEW y, NEW n
  PROVE  Sound(Hook!Finished(k0, y, n).c)
  <1> DEFINE k == Hook!Ending(k0)
  <1>1. Same(k0, k) /\ k.pc = "finished" BY DEF Same, Sound, Counters, Hook!Ending
  <1>2. Sound(k) BY <1>1, SameSound
  <1> HIDE DEF k
  <1>3. ASSUME k.saved = 0, k.status >= 400 PROVE Sound(Hook!ErrorHandler(k, y, n).c)
    <2> DEFINE k1 == Hook!PluginsReset(k, y, n).c
               k2 == [k1 EXCEPT !.saved = k.status, !.savedMethod = k.method, !.method = "GET"]
               l == Hook!Errdoc(k2, Hook!Setting(k.cond, "handler"))
    <2>1. /\ Counters \subseteq DOMAIN k1 /\ k1.slot = k.slot /\ k1.loops = Hook!NoCtx
          /\ k1.redirs = k.redirs /\ k1.rounds = k.rounds
      BY <1>2 DEF Sound, Counters, Hook!PluginsReset
    <2> HIDE DEF k1
    <2>2. /\ Counters \subseteq DOMAIN k2 /\ k2.slot = k1.slot /\ k2.loops = Hook!NoCtx
          /\ k2.redirs = k1.redirs /\ k2.saved = k.status /\ k2.rounds = k1.rounds
      BY <2>1 DEF Counters
    <2> HIDE DEF k2
    <2>3. /\ Counters \subseteq DOMAIN l /\ l.slot = k.slot /\ l.loops = Hook!NoCtx
          /\ l.redirs = k.redirs /\ l.saved = k.status /\ l.rounds = k.rounds + 1
      BY <2>1, <2>2 DEF Counters, Hook!Errdoc, Hook!At
    <2> HIDE DEF l
    <2>4. k.status # 0 BY <1>3
    <2>5. Contexts(l) = Contexts(k) + 1 /\ l.redirs \in Nat
      BY <1>2, <1>3, <2>3, <2>4 DEF Contexts, Sound, Hook!HooksAssumption
    <2>6. Sound(l) BY <1>1, <1>2, <2>3, <2>5, ContextSound
    <2> QED BY <2>6 DEF Hook!ErrorHandler, Hook!Ret, k1, k2, l
  <1>4. ASSUME k.saved = 0, k.status \in {403, 404} PROVE Sound(Hook!ErrorHandler404(k, y).c)
    <2> DEFINE k2 == [k EXCEPT !.saved = -k.status]
               l == Hook!Errdoc(k2, Hook!Setting(k.cond, "handler404"))
    <2>1. /\ Counters \subseteq DOMAIN k2 /\ k2.slot = k.slot /\ k2.loops = k.loops
          /\ k2.redirs = k.redirs /\ k2.saved = -k.status /\ k2.rounds = k.rounds
      BY <1>2 DEF Sound, Counters
    <2> HIDE DEF k2
    <2>2. /\ Counters \subseteq DOMAIN l /\ l.slot = k.slot /\ l.loops = k.loops
          /\ l.redirs = k.redirs /\ l.saved = -k.status /\ l.rounds = k.rounds + 1
      BY <2>1 DEF Counters, Hook!Errdoc, Hook!At
    <2> HIDE DEF l
    <2>3. Contexts(l) = Contexts(k) + 1
      BY <1>2, <1>4, <2>2 DEF Contexts, Sound, Hook!HooksAssumption
    <2>4. /\ Contexts(k) * InContext \in Int /\ RewriteLoops \in Nat
          /\ Contexts(l) * InContext = Contexts(k) * InContext + RewriteLoops + 3
      BY <1>2, <2>3, ContextsNat, Multiply DEF Hook!HooksAssumption, InContext
    <2>5. Sound(l) BY <1>1, <1>2, <2>2, <2>4 DEF Sound
    <2> QED BY <2>5 DEF Hook!ErrorHandler404, Hook!Ret, k2, l
  <1>5. Sound(Hook!At([k EXCEPT !.status = Hook!Status(k)], "answer"))
    <2>1. Same(k, Hook!At([k EXCEPT !.status = Hook!Status(k)], "answer"))
      BY <1>2 DEF Same, Sound, Counters, Hook!At
    <2> QED BY <1>1, <1>2, <2>1, SameSound
  <1> QED BY <1>3, <1>4, <1>5 DEF Hook!Finished, Hook!Ret, k

\* An idle connection counts from nothing.
LEMMA IdleSound == ASSUME Hook!HooksAssumption PROVE Sound(Hook!Idle)
  <1>1. Contexts(Hook!Idle) = 0 BY DEF Hook!Idle, Contexts, Hook!HooksAssumption
  <1>2. Contexts(Hook!Idle) * InContext = 0 BY <1>1 DEF InContext, Hook!HooksAssumption
  <1>3. /\ Hook!Idle.slot = 1 /\ Hook!Idle.loops = -1 /\ Hook!Idle.redirs = 0 /\ Hook!Idle.rounds = 0
        /\ Hook!Idle.pc = "idle" /\ Counters \subseteq DOMAIN Hook!Idle
    BY DEF Hook!Idle, Hook!NoCtx, Counters
  <1> QED BY <1>2, <1>3 DEF Sound, Hook!HooksAssumption

\* Every step of a connection keeps its count sound.
LEMMA NextRounds == ASSUME Hook!HooksAssumption, RoundsIInv, [Hook!Next]_(Hook!vars) PROVE RoundsIInv'
  <1>1. ASSUME NEW n \in Conns, NEW l, Sound(l), conn' = [conn EXCEPT ![n] = l] PROVE RoundsIInv'
    BY <1>1 DEF RoundsIInv, Sound, Contexts
  <1>2. ASSUME NEW n \in Conns, NEW r, Sound(r.c), Hook!Put(n, r) PROVE RoundsIInv'
    BY <1>1, <1>2 DEF Hook!Put
  <1>3. ASSUME NEW n \in Conns, NEW k, Sound(k), Hook!Move(n, k) PROVE RoundsIInv'
    BY <1>2, <1>3 DEF Hook!Move, Hook!Ret
  <1>4. ASSUME NEW n \in Conns,
               \/ Hook!Request(n) \/ Hook!Prepare(n) \/ Hook!SlotEnd(n) \/ Hook!Skip(n)
               \/ Hook!Patch(n) \/ Hook!Handler(n) \/ Hook!PhysicalCheck(n) \/ Hook!Backend(n)
               \/ Hook!Finish(n) \/ Hook!Answer(n) \/ Hook!Close(n)
        PROVE  RoundsIInv'
    <2> DEFINE k == conn[n]
    <2>0. Sound(k) BY DEF RoundsIInv
    <2> HIDE DEF k
    <2>1. CASE Hook!Request(n)
      <3>1. PICK rq : Hook!Move(n, Hook!Start(k, rq)) BY <2>1 DEF Hook!Request, k
      <3>2. Same(k, Hook!Start(k, rq)) BY <2>0 DEF Same, Sound, Counters, Hook!Start
      <3>3. k.pc = "idle" BY <2>1 DEF Hook!Request, k
      <3> QED BY <1>3, <2>0, <3>1, <3>2, <3>3, SameSound
    <2>2. CASE Hook!Prepare(n)
      <3>1. k.pc = "prepare" /\ Hook!Move(n, Hook!Prepared(k)) BY <2>2 DEF Hook!Prepare, k
      <3> QED BY <1>3, <2>0, <3>1, PrepareSame, SameSound
    <2>3. CASE Hook!SlotEnd(n)
      <3>1. k.pc = "hook" /\ Hook!Move(n, Hook!SlotDone(k)) BY <2>3 DEF Hook!SlotEnd, k
      <3> QED BY <1>3, <2>0, <3>1, PrepareSame, SameSound
    <2>4. CASE Hook!Skip(n)
      <3>1. k.pc = "hook" /\ Hook!Move(n, Hook!Skipped(Hook!Plugin(n), k)) BY <2>4 DEF Hook!Skip, Hook!InHook, k
      <3> QED BY <1>3, <2>0, <3>1, PrepareSame, SameSound
    <2>5. CASE Hook!Patch(n)
      <3>1. k.pc = "hook" /\ conn' = [conn EXCEPT ![n] = [k EXCEPT !.patched = TRUE]]
        BY <2>5 DEF Hook!Patch, Hook!InHook, k
      <3>2. Same(k, [k EXCEPT !.patched = TRUE]) BY <2>0 DEF Same, Sound, Counters
      <3> QED BY <1>1, <2>0, <3>1, <3>2, SameSound
    <2>6. CASE Hook!Handler(n)
      <3> DEFINE k1 == [k EXCEPT !.patched = FALSE]
                 r == Hook!Use(Hook!Plugin(n), pconf[Hook!Plugin(n)], k1, kept, n)
      <3>1. k.pc = "hook" /\ Hook!Put(n, [r EXCEPT !.c = Hook!After(r.c, r.r)])
        BY <2>6 DEF Hook!Handler, Hook!InHook, k
      <3>2. Same(k, k1) /\ k1.pc = "hook" BY <2>0, <3>1 DEF Same, Sound, Counters
      <3>3. Sound(k1) BY <2>0, <3>1, <3>2, SameSound
      <3> HIDE DEF k1
      <3>4. "c" \in DOMAIN r /\ Sound(Hook!After(r.c, r.r)) BY <3>2, <3>3, HandlerSound
      <3> HIDE DEF r
      <3>5. [r EXCEPT !.c = Hook!After(r.c, r.r)].c = Hook!After(r.c, r.r) BY <3>4
      <3> QED BY <1>2, <3>1, <3>4, <3>5
    <2>7. CASE Hook!PhysicalCheck(n)
      <3>1. k.pc = "check" /\ Hook!Move(n, Hook!Checked(k)) BY <2>7 DEF Hook!PhysicalCheck, k
      <3> QED BY <1>3, <2>0, <3>1, PrepareSame, SameSound
    <2>8. CASE Hook!Backend(n)
      <3>1. k.pc = "sub" /\ Hook!Put(n, Hook!Subrequest(k, kept, n)) BY <2>8 DEF Hook!Backend, k
      <3> QED BY <1>2, <2>0, <3>1, SubrequestSound
    <2>9. CASE Hook!Finish(n)
      <3>1. k.pc = "finished" /\ Hook!Put(n, Hook!Finished(k, kept, n)) BY <2>9 DEF Hook!Finish, k
      <3> QED BY <1>2, <2>0, <3>1, FinishedSound
    <2>10. ASSUME NEW y, Hook!Put(n, Hook!Ret(Hook!Idle, y, "go")) PROVE RoundsIInv'
      <3>1. Hook!Ret(Hook!Idle, y, "go").c = Hook!Idle BY DEF Hook!Ret
      <3> QED BY <1>2, <2>10, <3>1, IdleSound
    <2>11. CASE Hook!Answer(n) BY <2>10, <2>11 DEF Hook!Answer, Hook!Reset
    <2>12. CASE Hook!Close(n) BY <2>10, <2>12 DEF Hook!Close
    <2> QED BY <1>4, <2>1, <2>2, <2>3, <2>4, <2>5, <2>6, <2>7, <2>8, <2>9, <2>11, <2>12
  <1>5. CASE UNCHANGED Hook!vars BY <1>5 DEF Hook!vars, RoundsIInv, Sound, Contexts
  <1> QED BY <1>4, <1>5 DEF Hook!Next

\* Whatever the configuration, the files and the scripts are, and however many connections are served
\* at once: a request goes back to http_response_prepare a bounded number of times.
THEOREM RoundsAreBounded == ASSUME Hook!HooksAssumption PROVE Hook!Spec => []Hook!RoundsBounded
  <1>1. Hook!Init => RoundsIInv
    <2>1. SUFFICES ASSUME Hook!Init PROVE RoundsIInv OBVIOUS
    <2>2. conn = [n \in Conns |-> Hook!Idle] BY <2>1 DEF Hook!Init
    <2> QED BY <2>2, IdleSound DEF RoundsIInv
  <1>2. RoundsIInv /\ [Hook!Next]_(Hook!vars) => RoundsIInv' BY NextRounds
  <1>3. RoundsIInv => Hook!RoundsBounded
    <2> SUFFICES ASSUME RoundsIInv, NEW n \in Conns PROVE conn[n].rounds <= Hook!MaxRounds
      BY DEF Hook!RoundsBounded
    <2> DEFINE k == conn[n]
    <2>1. Sound(k) BY DEF RoundsIInv
    <2> HIDE DEF k
    <2>2. RewriteLoops \in Nat /\ LocalLoops \in Nat /\ InContext \in Nat BY DEF Hook!HooksAssumption, InContext
    <2>3. Contexts(k) \in Nat /\ Contexts(k) <= LocalLoops + 1 BY <2>1, <2>2, ContextsNat
    <2>4. /\ Contexts(k) * InContext <= (LocalLoops + 1) * InContext
          /\ Contexts(k) * InContext \in Int /\ (LocalLoops + 1) * InContext \in Int
          /\ (LocalLoops + 2) * InContext = (LocalLoops + 1) * InContext + InContext
      <3>1. LocalLoops + 1 \in Nat /\ (LocalLoops + 1) + 1 = LocalLoops + 2 BY <2>2
      <3>2. Contexts(k) * InContext <= (LocalLoops + 1) * InContext BY <2>2, <2>3, <3>1, MultiplyMore
      <3>3. Contexts(k) * InContext \in Nat BY <2>2, <2>3, Multiply
      <3>4. (LocalLoops + 1) * InContext \in Nat
            /\ ((LocalLoops + 1) + 1) * InContext = (LocalLoops + 1) * InContext + InContext
        BY ONLY <2>2, <3>1, Multiply
      <3> QED BY <3>1, <3>2, <3>3, <3>4
    <2>5. k.rounds <= Contexts(k) * InContext + k.loops + 1 /\ k.loops <= RewriteLoops + 2
          /\ k.loops \in Int /\ k.rounds \in Nat
      BY <2>1, <2>2 DEF Sound
    <2>6. k.rounds <= (LocalLoops + 2) * InContext BY <2>2, <2>4, <2>5 DEF InContext
    <2> QED BY <2>6 DEF Hook!MaxRounds, InContext, k
  <1> QED BY <1>1, <1>2, <1>3, PTL DEF Hook!Spec

-----------------------------------------------------------------------------
(* The compression cache.                                                   *)

\* A process that has a copy open for writing finds it there, and closes it when it is whole.
Held ==
  /\ \A p \in Servers : Compress!Making(p) => copy[job[p]] # Compress!NoFile
  /\ \A p \in Servers : at[p] = "close" => copy[job[p]] = "whole"

CopiesIInv == Compress!TypeOK /\ Compress!LeftWhole /\ Held

\* The cache directory starts empty, with nobody writing.
LEMMA InitCopies == ASSUME Compress!CompressAssumption, Compress!Init PROVE CopiesIInv
  <1>1. Compress!TypeOK
    BY DEF Compress!CompressAssumption, Compress!Init, Compress!TypeOK, Compress!Versions,
       Compress!Places, Compress!Unsized, Compress!NoFile
  <1>2. Compress!LeftWhole BY DEF Compress!Init, Compress!LeftWhole, Compress!Making, Compress!NoFile
  <1>3. Held BY DEF Compress!Init, Held, Compress!Making
  <1> QED BY <1>1, <1>2, <1>3 DEF CopiesIInv

\* Every step keeps the types of the cache and of its processes.
LEMMA NextCopiesType ==
  ASSUME Compress!CompressAssumption, Compress!TypeOK, [Compress!Next]_(Compress!vars)
  PROVE Compress!TypeOK'
  <1> USE DEF Compress!TypeOK, Compress!Versions, Compress!Contents, Compress!NoFile, Compress!Places
  <1>1. CASE Compress!Change BY <1>1 DEF Compress!Change, Compress!CompressAssumption
  <1>2. ASSUME NEW p \in Servers, Compress!Handler(p) PROVE Compress!TypeOK'
    <2>0. job[p] \in 1 .. LastVersion OBVIOUS
    <2>1. CASE Compress!Request(p)
      <3> DEFINE v == IF seen[p] # 0 THEN seen[p] ELSE src
      <3>1. v \in 1 .. LastVersion OBVIOUS
      <3> HIDE DEF v
      <3>2. seen' = [seen EXCEPT ![p] = v] /\ job' = [job EXCEPT ![p] = v] BY <2>1 DEF Compress!Request, v
      <3>3. /\ answer' = [answer EXCEPT ![p] = "none"] /\ at' = [at EXCEPT ![p] = "stat"]
            /\ UNCHANGED <<src, copy, sized, fails, crashes, left>> BY <2>1 DEF Compress!Request, Compress!Go
      <3> QED BY <3>1, <3>2, <3>3
    <2>2. Compress!Size(p, job[p]) \in Compress!Contents \cup {Compress!NoFile}
      <3>1. sized[p] \in [1 .. LastVersion -> {"empty", "part", "whole"} \cup {"none"}] OBVIOUS
      <3>2. /\ sized[p][job[p]] \in Compress!Contents \cup {Compress!NoFile}
            /\ copy[job[p]] \in Compress!Contents \cup {Compress!NoFile}
        BY <2>0, <3>1
      <3> QED BY <3>2 DEF Compress!Size
    <2>3. CASE Compress!StatCopy(p) BY <2>0, <2>2, <2>3 DEF Compress!StatCopy, Compress!Go, Compress!Sees
    <2>4. CASE Compress!Declined(p)
      BY <2>4 DEF Compress!Declined, Compress!Go, Compress!Fail, Compress!CompressAssumption
    <2>5. CASE Compress!Create(p) BY <2>0, <2>5 DEF Compress!Create, Compress!Go
    <2>6. ASSUME Compress!Fail PROVE fails' \in 0 .. MaxFails
      BY <2>6 DEF Compress!Fail, Compress!CompressAssumption
    <2>7. CASE Compress!ReadAndDeflate(p)
      <3>1. at' \in [Servers -> Compress!Places] BY <2>7 DEF Compress!ReadAndDeflate, Compress!Go
      <3>2. fails' \in 0 .. MaxFails BY <2>6, <2>7 DEF Compress!ReadAndDeflate
      <3> QED BY <2>7, <3>1, <3>2 DEF Compress!ReadAndDeflate
    <2>8. CASE Compress!Write(p)
      <3>1. at' \in [Servers -> Compress!Places] BY <2>8 DEF Compress!Write, Compress!Go
      <3>2. fails' \in 0 .. MaxFails BY <2>6, <2>8 DEF Compress!Write
      <3>3. copy' \in [Compress!Versions -> Compress!Contents \cup {Compress!NoFile}]
        BY <2>0, <2>8 DEF Compress!Write
      <3> QED BY <2>8, <3>1, <3>2, <3>3 DEF Compress!Write
    <2>9. CASE Compress!Close(p)
      <3>1. at' \in [Servers -> Compress!Places] BY <2>9 DEF Compress!Close, Compress!Go
      <3>2. fails' \in 0 .. MaxFails BY <2>6, <2>9 DEF Compress!Close
      <3> QED BY <2>9, <3>1, <3>2 DEF Compress!Close
    <2>12. CASE Compress!Unlink(p)
      <3>1. at' \in [Servers -> Compress!Places] BY <2>12 DEF Compress!Unlink, Compress!Go
      <3>2. fails' \in 0 .. MaxFails BY <2>6, <2>12 DEF Compress!Unlink
      <3>3. /\ copy' \in [Compress!Versions -> Compress!Contents \cup {Compress!NoFile}]
            /\ left' \subseteq Compress!Versions
        BY <2>0, <2>12 DEF Compress!Unlink
      <3> QED BY <2>12, <3>1, <3>2, <3>3 DEF Compress!Unlink
    <2>10. CASE Compress!Static(p) BY <2>0, <2>2, <2>10 DEF Compress!Static, Compress!Go, Compress!Sees
    <2>11. CASE Compress!Plain(p) BY <2>11 DEF Compress!Plain, Compress!Go
    <2> QED BY <1>2, <2>1, <2>3, <2>4, <2>5, <2>7, <2>8, <2>9, <2>10, <2>11, <2>12 DEF Compress!Handler
  <1>3. ASSUME NEW p \in Servers, Compress!Expire(p) PROVE Compress!TypeOK'
    BY <1>3, Compress!CompressAssumption DEF Compress!Expire, Compress!Unsized, Compress!CompressAssumption
  <1>4. ASSUME NEW p \in Servers, Compress!Crash(p) PROVE Compress!TypeOK'
    <2>1. sized' \in [Servers -> [Compress!Versions -> Compress!Contents \cup {Compress!NoFile}]]
      BY <1>4 DEF Compress!Crash, Compress!Unsized
    <2>2. crashes' \in 0 .. MaxCrashes BY <1>4 DEF Compress!Crash, Compress!CompressAssumption
    <2>3. left' \subseteq Compress!Versions BY <1>4 DEF Compress!Crash
    <2> QED BY <1>4, <2>1, <2>2, <2>3 DEF Compress!Crash, Compress!Go, Compress!CompressAssumption
  <1>5. CASE UNCHANGED Compress!vars BY <1>5 DEF Compress!vars
  <1> QED BY <1>1, <1>2, <1>3, <1>4, <1>5 DEF Compress!Next

\* A step of one process that leaves the copies alone, and after which it is not at one, or is
\* still at its own.
LEMMA CopiesStay ==
  ASSUME CopiesIInv, Compress!TypeOK', NEW p \in Servers, UNCHANGED copy, left \subseteq left',
         \A q \in Servers \ {p} : at'[q] = at[q] /\ job'[q] = job[q],
         Compress!Making(p)' => Compress!Making(p) /\ job'[p] = job[p],
         Compress!Making(p) /\ ~Compress!Making(p)' => job[p] \in left' \/ copy[job[p]] = "whole",
         at'[p] = "close" => at[p] = "close"
  PROVE  Compress!LeftWhole' /\ Held'
  <1>1. \A q \in Servers : Compress!Making(q)' => Compress!Making(q) /\ job'[q] = job[q] BY DEF Compress!Making
  <1>2. ASSUME NEW v \in Compress!Versions, copy'[v] \in {"empty", "part"}
        PROVE  v \in left' \/ \E q \in Servers : Compress!Making(q)' /\ job'[q] = v
    <2>1. v \in left \/ \E q \in Servers : Compress!Making(q) /\ job[q] = v
      BY <1>2 DEF CopiesIInv, Compress!LeftWhole
    <2>2. ASSUME NEW q \in Servers, Compress!Making(q), job[q] = v
          PROVE  v \in left' \/ \E r \in Servers : Compress!Making(r)' /\ job'[r] = v
      <3>1. CASE q = p BY <1>2, <2>2, <3>1
      <3>2. CASE q # p BY <2>2, <3>2 DEF Compress!Making
      <3> QED BY <3>1, <3>2
    <2> QED BY <2>1, <2>2
  <1>3. \A q, r \in Servers : q # r /\ Compress!Making(q)' /\ Compress!Making(r)' => job'[q] # job'[r]
    BY <1>1 DEF CopiesIInv, Compress!LeftWhole
  <1>4. Held' BY <1>1 DEF CopiesIInv, Held, Compress!Making
  <1> QED BY <1>2, <1>3, <1>4 DEF Compress!LeftWhole

\* A step of one process at its copy, which may change.
LEMMA CopyChanges ==
  ASSUME CopiesIInv, Compress!TypeOK', NEW p \in Servers, NEW w \in Compress!Contents \cup {Compress!NoFile},
         UNCHANGED <<job, left>>, \A q \in Servers \ {p} : at'[q] = at[q],
         copy' = [copy EXCEPT ![job[p]] = w],
         \A q \in Servers \ {p} : Compress!Making(q) => job[q] # job[p],
         IF w = Compress!NoFile THEN ~Compress!Making(p)' ELSE w = "whole" \/ Compress!Making(p)',
         Compress!Making(p)' => w # Compress!NoFile,
         at'[p] = "close" => w = "whole"
  PROVE  Compress!LeftWhole' /\ Held'
  <1>0. job[p] \in Compress!Versions /\ copy \in [Compress!Versions -> Compress!Contents \cup {Compress!NoFile}]
    BY DEF CopiesIInv, Compress!TypeOK
  <1>1. \A q \in Servers \ {p} : Compress!Making(q)' <=> Compress!Making(q) BY DEF Compress!Making
  <1>2. ASSUME NEW v \in Compress!Versions, copy'[v] \in {"empty", "part"}
        PROVE  v \in left' \/ \E q \in Servers : Compress!Making(q)' /\ job'[q] = v
    <2>1. CASE v = job[p]
      <3>1. copy'[v] = w BY <1>0, <2>1
      <3>2. Compress!Making(p)' BY <1>2, <3>1 DEF Compress!NoFile
      <3> QED BY <2>1, <3>2
    <2>2. CASE v # job[p]
      <3>1. copy'[v] = copy[v] BY <1>0, <2>2
      <3>2. v \in left \/ \E q \in Servers : Compress!Making(q) /\ job[q] = v
        BY <1>2, <3>1 DEF CopiesIInv, Compress!LeftWhole
      <3> QED BY <1>1, <2>2, <3>2
    <2> QED BY <2>1, <2>2
  <1>3. ASSUME NEW q \in Servers, NEW r \in Servers, q # r, Compress!Making(q)', Compress!Making(r)'
        PROVE  job'[q] # job'[r]
    <2>1. CASE q = p BY <1>1, <1>3, <2>1
    <2>2. CASE r = p BY <1>1, <1>3, <2>2
    <2>3. CASE q # p /\ r # p BY <1>1, <1>3, <2>3 DEF CopiesIInv, Compress!LeftWhole
    <2> QED BY <2>1, <2>2, <2>3
  <1>4. ASSUME NEW q \in Servers, Compress!Making(q)' PROVE copy'[job'[q]] # Compress!NoFile
    <2>1. CASE q = p BY <1>0, <1>4, <2>1
    <2>2. CASE q # p
      <3>1. Compress!Making(q) /\ job[q] # job[p] BY <1>1, <1>4, <2>2
      <3>2. job[q] \in Compress!Versions BY DEF CopiesIInv, Compress!TypeOK
      <3> QED BY <1>0, <3>1, <3>2 DEF CopiesIInv, Held
    <2> QED BY <2>1, <2>2
  <1>5. ASSUME NEW q \in Servers, at'[q] = "close" PROVE copy'[job'[q]] = "whole"
    <2>1. CASE q = p BY <1>0, <1>5, <2>1
    <2>2. CASE q # p
      <3>1. at[q] = "close" BY <1>5, <2>2
      <3>2. Compress!Making(q) /\ job[q] # job[p] BY <2>2, <3>1 DEF Compress!Making
      <3>3. job[q] \in Compress!Versions BY DEF CopiesIInv, Compress!TypeOK
      <3> QED BY <1>0, <3>1, <3>2, <3>3 DEF CopiesIInv, Held
    <2> QED BY <2>1, <2>2
  <1> QED BY <1>2, <1>3, <1>4, <1>5 DEF Compress!LeftWhole, Held

\* Every step keeps left copies whole, and what a process has open is the file it made itself.
LEMMA NextCopies ==
  ASSUME Compress!CompressAssumption, CopiesIInv, [Compress!Next]_(Compress!vars)
  PROVE CopiesIInv'
  <1>1. Compress!TypeOK' BY NextCopiesType DEF CopiesIInv
  <1>2. at \in [Servers -> Compress!Places] /\ job \in [Servers -> Compress!Versions]
    BY DEF CopiesIInv, Compress!TypeOK
  <1>3. ASSUME NEW p \in Servers, Compress!Handler(p) PROVE Compress!LeftWhole' /\ Held'
    <2>0. \A q \in Servers \ {p} : Compress!Making(p) /\ Compress!Making(q) => job[q] # job[p]
      BY DEF CopiesIInv, Compress!LeftWhole
    <2>1. CASE Compress!Request(p)
      <3>1. ~Compress!Making(p) /\ ~Compress!Making(p)' /\ at'[p] # "close"
        BY <1>2, <2>1 DEF Compress!Request, Compress!At, Compress!Go, Compress!Making
      <3>2. /\ UNCHANGED <<copy, left>>
            /\ \A q \in Servers \ {p} : at'[q] = at[q] /\ job'[q] = job[q]
        BY <1>2, <2>1 DEF Compress!Request, Compress!Go
      <3> QED BY <1>1, <3>1, <3>2, CopiesStay
    <2>2. CASE Compress!StatCopy(p) \/ Compress!Declined(p) \/ Compress!Static(p) \/ Compress!Plain(p)
      <3>1. ~Compress!Making(p) /\ ~Compress!Making(p)' /\ at'[p] # "close"
        BY <1>2, <2>2 DEF Compress!StatCopy, Compress!Declined, Compress!Static, Compress!Plain,
           Compress!At, Compress!Go, Compress!Making
      <3>2. /\ UNCHANGED <<copy, left, job>> /\ \A q \in Servers \ {p} : at'[q] = at[q]
        BY <1>2, <2>2 DEF Compress!StatCopy, Compress!Declined, Compress!Static, Compress!Plain, Compress!Go
      <3> QED BY <1>1, <3>1, <3>2, CopiesStay
    <2>3. CASE Compress!Create(p)
      <3>1. CASE copy[job[p]] = Compress!NoFile
        <4>1. /\ copy' = [copy EXCEPT ![job[p]] = "empty"] /\ UNCHANGED <<job, left>>
              /\ at'[p] = "read" /\ \A q \in Servers \ {p} : at'[q] = at[q]
          BY <1>2, <2>3, <3>1 DEF Compress!Create, Compress!Go
        <4>2. \A q \in Servers \ {p} : Compress!Making(q) => job[q] # job[p] BY <3>1 DEF CopiesIInv, Held
        <4>3. Compress!Making(p)' BY <4>1 DEF Compress!Making
        <4> QED
          <5>1. "empty" \in Compress!Contents \cup {Compress!NoFile} /\ "empty" # Compress!NoFile
            BY DEF Compress!Contents, Compress!NoFile
          <5> QED BY <1>1, <4>1, <4>2, <4>3, <5>1, CopyChanges
      <3>2. CASE copy[job[p]] # Compress!NoFile
        <4>1. /\ UNCHANGED <<copy, left, job>> /\ at'[p] = "plain" /\ at[p] = "create"
              /\ \A q \in Servers \ {p} : at'[q] = at[q]
          BY <1>2, <2>3, <3>2 DEF Compress!Create, Compress!Go, Compress!At
        <4> QED BY <1>1, <4>1, CopiesStay DEF Compress!Making
      <3> QED BY <3>1, <3>2
    <2>4. CASE Compress!ReadAndDeflate(p)
      <3>1. /\ UNCHANGED <<copy, left, job>> /\ at'[p] \in {"write", "unlink"} /\ at[p] = "read"
            /\ \A q \in Servers \ {p} : at'[q] = at[q]
        BY <1>2, <2>4 DEF Compress!ReadAndDeflate, Compress!Go, Compress!At
      <3> QED BY <1>1, <3>1, CopiesStay DEF Compress!Making
    <2>5. CASE Compress!Write(p)
      <3>1. /\ UNCHANGED <<left, job>> /\ at[p] = "write" /\ Compress!Making(p)
            /\ \A q \in Servers \ {p} : at'[q] = at[q]
        BY <1>2, <2>5 DEF Compress!Write, Compress!Go, Compress!At, Compress!Making
      <3>2. CASE at'[p] = "close"
        <4>1. copy' = [copy EXCEPT ![job[p]] = "whole"] BY <1>2, <2>5, <3>2 DEF Compress!Write, Compress!Go
        <4> QED
          BY <1>1, <2>0, <3>1, <3>2, <4>1, CopyChanges DEF Compress!Contents, Compress!NoFile, Compress!Making
      <3>3. CASE at'[p] = "unlink" /\ copy' = [copy EXCEPT ![job[p]] = "part"]
        BY <1>1, <2>0, <3>1, <3>3, CopyChanges DEF Compress!Contents, Compress!NoFile, Compress!Making
      <3>4. CASE at'[p] = "unlink" /\ UNCHANGED copy BY <1>1, <3>1, <3>4, CopiesStay DEF Compress!Making
      <3> QED BY <1>2, <2>5, <3>2, <3>3, <3>4 DEF Compress!Write, Compress!Go
    <2>6. CASE Compress!Close(p)
      <3>1. /\ UNCHANGED <<copy, left, job>> /\ at'[p] \in {"static", "unlink"} /\ at[p] = "close"
            /\ \A q \in Servers \ {p} : at'[q] = at[q]
        BY <1>2, <2>6 DEF Compress!Close, Compress!Go, Compress!At
      <3>2. copy[job[p]] = "whole" BY <3>1 DEF CopiesIInv, Held
      <3> QED BY <1>1, <3>1, <3>2, CopiesStay DEF Compress!Making
    <2>7. CASE Compress!Unlink(p)
      <3>1. /\ UNCHANGED job /\ at[p] = "unlink" /\ at'[p] = "plain"
            /\ \A q \in Servers \ {p} : at'[q] = at[q]
        BY <1>2, <2>7 DEF Compress!Unlink, Compress!Go, Compress!At
      <3>2. Compress!Making(p) /\ ~Compress!Making(p)' BY <3>1 DEF Compress!Making
      <3>3. CASE copy' = [copy EXCEPT ![job[p]] = Compress!NoFile] /\ UNCHANGED left
        BY <1>1, <2>0, <3>1, <3>2, <3>3, CopyChanges
      <3>4. CASE left' = left \cup {job[p]} /\ UNCHANGED copy
        BY <1>1, <3>1, <3>2, <3>4, CopiesStay
      <3> QED BY <2>7, <3>3, <3>4 DEF Compress!Unlink
    <2> QED BY <1>3, <2>1, <2>2, <2>3, <2>4, <2>5, <2>6, <2>7 DEF Compress!Handler
  <1>4. ASSUME NEW p \in Servers, Compress!Crash(p) PROVE Compress!LeftWhole' /\ Held'
    <2>1. /\ UNCHANGED <<copy, job>> /\ at'[p] = "idle" /\ \A q \in Servers \ {p} : at'[q] = at[q]
          /\ left' = IF Compress!Making(p) THEN left \cup {job[p]} ELSE left
      BY <1>2, <1>4 DEF Compress!Crash, Compress!Go
    <2>2. ~Compress!Making(p)' BY <2>1 DEF Compress!Making
    <2> QED BY <1>1, <2>1, <2>2, CopiesStay
  <1>5. CASE UNCHANGED Compress!vars \/ Compress!Change \/ \E p \in Servers : Compress!Expire(p)
    <2>1. copy' = copy /\ at' = at /\ job' = job /\ left' = left
      BY <1>5 DEF Compress!vars, Compress!Change, Compress!Expire
    <2>2. \A p \in Servers : Compress!Making(p)' <=> Compress!Making(p) BY <2>1 DEF Compress!Making
    <2>3. Compress!LeftWhole' BY <2>1, <2>2 DEF CopiesIInv, Compress!LeftWhole
    <2>4. Held' BY <2>1, <2>2 DEF CopiesIInv, Held
    <2> QED BY <1>1, <2>3, <2>4 DEF CopiesIInv
  <1> QED BY <1>1, <1>3, <1>4, <1>5 DEF CopiesIInv, Compress!Next

\* A copy that nobody is at is whole, unless its maker was killed or could not take it away, and no
\* two processes make the same copy (mod_compress.c, deflate_file_to_file).
THEOREM CopiesWhole == ASSUME Compress!CompressAssumption PROVE Compress!Spec => []Compress!LeftWhole
  <1>1. Compress!Init => CopiesIInv BY InitCopies
  <1>2. CopiesIInv /\ [Compress!Next]_(Compress!vars) => CopiesIInv' BY NextCopies
  <1>3. CopiesIInv => Compress!LeftWhole BY DEF CopiesIInv
  <1> QED BY <1>1, <1>2, <1>3, PTL DEF Compress!Spec
=============================================================================
