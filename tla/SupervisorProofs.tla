-------------------------- MODULE SupervisorProofs --------------------------
(***************************************************************************)
(* The parent's list of its workers, for any number of workers, process    *)
(* ids, signals, deaths and restarts.                                      *)
(***************************************************************************)
EXTENDS Supervisor, FiniteSetTheorems, WellFoundedInduction, TLAPS

\* A child belongs to this run of server_main or to an earlier one, which the workers do before
\* the run has forked any.
GenOK ==
  /\ \A p \in Pids : kids[p].gen <= gen
  /\ pc \in {"start", "setup"} => \A p \in Pids : kids[p].kind = "worker" => kids[p].gen < gen

\* What cmd_pipes takes for the logger is the logger; there is none between two runs.
LoggerOK ==
  /\ logger.pid # NoPid => kids[logger.pid].kind = "logger"
  /\ pc \in {"reap", "start", "setup", "exit"} => logger.pid = NoPid

\* The workers of the earlier runs were told to stop, and those of this one when the parent is
\* past it, unless a fork failed.
ToldOK ==
  /\ \A p \in Running("worker") : kids[p].gen < gen => kids[p].told # "nothing"
  /\ pc \in {"graceful", "close", "reap", "exit"} /\ rc = 0 =>
       \A p \in Running("worker") : kids[p].told # "nothing"
  /\ pc \notin {"close", "exit"} => rc = 0

Links == GenOK /\ LoggerOK /\ ToldOK /\ PidsExact
IInv == TypeOK /\ Links

-----------------------------------------------------------------------------
(* Numbers and sets *)

LEMMA LeastNatural ==
  ASSUME NEW S, S \subseteq Nat, S # {}
  PROVE  \E m \in S : \A k \in S : m <= k
<1> DEFINE F == {0 .. k : k \in S}
           R == StrictSubsetOrdering(Nat)
<1>1. IsWellFoundedOn(R, FiniteSubsetsOf(Nat))
  BY FS_StrictSubsetOrderingWellFounded
<1>2. ASSUME NEW k \in S PROVE 0 .. k \in FiniteSubsetsOf(Nat)
  <2>1. IsFiniteSet(0 .. k)
    BY FS_Interval
  <2> QED BY <2>1 DEF FiniteSubsetsOf
<1>3. F \subseteq FiniteSubsetsOf(Nat) /\ F # {}
  BY <1>2
<1>4. \E x \in F : \A y \in F : ~ (<<y, x>> \in R)
  <2> HIDE DEF F, R
  <2> QED BY <1>1, <1>3, WFMin
<1>5. PICK m \in S : \A k \in S : ~ (<<0 .. k, 0 .. m>> \in R)
  BY <1>4
<1>6. ASSUME NEW k \in S, k < m PROVE FALSE
  <2>1. 0 .. k \subseteq 0 .. m /\ m \notin 0 .. k /\ m \in 0 .. m
    BY <1>6
  <2>2. 0 .. k # 0 .. m
    BY <2>1
  <2>3. <<0 .. k, 0 .. m>> \in (SUBSET Nat) \X (SUBSET Nat)
    OBVIOUS
  <2>4. <<0 .. k, 0 .. m>> \in R
    BY <2>1, <2>2, <2>3 DEF StrictSubsetOrdering
  <2> QED BY <1>5, <2>4
<1> QED BY <1>6

\* the kernel's choice is the id of no child
LEMMA NewPidFree ==
  ASSUME SupervisorAssumption, NEW ks, Free(ks) # {}
  PROVE  NewPid(ks) \in Pids /\ NewPid(ks) # NoPid /\ ks[NewPid(ks)].kind = "none"
<1>1. Free(ks) \subseteq Nat /\ NoPid \notin Pids
  BY DEF Free, SupervisorAssumption, NoPid
<1>2. \E p \in Free(ks) : \A q \in Free(ks) : p <= q
  BY <1>1, LeastNatural
<1>3. NewPid(ks) \in Free(ks)
  BY <1>2 DEF NewPid
<1> QED BY <1>1, <1>3 DEF Free

\* the entries of pids[] that are free, and their number
FreeSlots == {n \in Slots : pids[n] = NoPid}

LEMMA SlotsFinite ==
  ASSUME SupervisorAssumption
  PROVE  /\ IsFiniteSet(Slots) /\ Cardinality(Slots) = MaxWorker
         /\ \A S \in SUBSET Slots : IsFiniteSet(S) /\ Cardinality(S) \in 0 .. MaxWorker
<1>1. IsFiniteSet(Slots) /\ Cardinality(Slots) = MaxWorker
  <2>1. MaxWorker \in Nat /\ MaxWorker > 0 /\ MaxWorker \in Int /\ 1 \in Int
    BY DEF SupervisorAssumption
  <2>2. IsFiniteSet(1 .. MaxWorker) /\ Cardinality(1 .. MaxWorker) = IF 1 > MaxWorker THEN 0 ELSE MaxWorker - 1 + 1
    BY <2>1, FS_Interval, Zenon
  <2> QED BY <2>1, <2>2 DEF Slots
<1>2. ASSUME NEW S \in SUBSET Slots PROVE IsFiniteSet(S) /\ Cardinality(S) \in 0 .. MaxWorker
  <2>1. IsFiniteSet(S) /\ Cardinality(S) <= MaxWorker
    BY <1>1, FS_Subset
  <2>2. Cardinality(S) \in Nat
    BY <2>1, FS_CardinalityType
  <2> QED BY <2>1, <2>2 DEF SupervisorAssumption
<1> QED BY <1>1, <1>2

\* A free entry is found if one is counted, and only one is the first.
LEMMA OneFirstFree ==
  ASSUME SupervisorAssumption, FreeSlots # {}
  PROVE  \E n \in FreeSlots : \A m \in Slots : FirstFree(m) <=> m = n
<1>1. FreeSlots \subseteq Nat
  BY DEF FreeSlots, Slots
<1>2. PICK n \in FreeSlots : \A m \in FreeSlots : n <= m
  BY <1>1, LeastNatural
<1>3. FirstFree(n)
  BY <1>2 DEF FirstFree, FreeSlots, Slots
<1>4. ASSUME NEW m \in Slots, FirstFree(m) PROVE m = n
  BY <1>2, <1>3, <1>4 DEF FirstFree, FreeSlots, Slots
<1> QED BY <1>3, <1>4

-----------------------------------------------------------------------------
(* Types *)

KidType == [kind : {"none", "worker", "logger"}, life : {"none", "runs", "zombie"},
            gen : Nat, told : {"nothing", "term", "int"}]

\* what a start of the logger leaves: a new child, or none
LEMMA SpawnType ==
  ASSUME SupervisorAssumption, TypeOK, NEW ks \in [Pids -> KidType], Spawn(ks)
  PROVE  /\ logger' \in [pid : Pids \cup {NoPid}, start : Nat] /\ deaths' \in Nat
         /\ kids' \in [Pids -> KidType]
<1>1. now \in Nat /\ deaths \in Nat /\ gen \in Nat
  BY DEF TypeOK, SupervisorAssumption
<1>2. Kid("logger", gen) \in KidType
  BY <1>1 DEF Kid, KidType
<1>3. CASE Free(ks) # {} /\ logger' = [pid |-> NewPid(ks), start |-> now]
           /\ kids' = [ks EXCEPT ![NewPid(ks)] = Kid("logger", gen)] /\ UNCHANGED deaths
  <2>1. NewPid(ks) \in Pids
    BY <1>3, NewPidFree
  <2> QED BY <1>1, <1>2, <1>3, <2>1
<1>4. CASE deaths' = deaths + 1 /\ logger' = [pid |-> NoPid, start |-> now] /\ kids' = ks
  BY <1>1, <1>4
<1> QED BY <1>3, <1>4 DEF Spawn

LEMMA ToldType ==
  ASSUME NEW ks \in [Pids -> KidType], NEW what \in {"term", "int"}
  PROVE  Told(ks, what) \in [Pids -> KidType]
BY DEF Told, KidType

LEMMA ReapedType ==
  ASSUME kids \in [Pids -> KidType], NEW p
  PROVE  Reaped(p) \in [Pids -> KidType]
BY DEF Reaped, NoKid, KidType

LEMMA InitType == ASSUME SupervisorAssumption, Init PROVE TypeOK
<1>1. kids \in [Pids -> KidType]
  BY DEF Init, NoKid, KidType
<1>2. logger \in [pid : Pids \cup {NoPid}, start : Nat]
  BY DEF Init
<1>3. /\ gen \in 1 .. MaxGen /\ missing \in 0 .. MaxWorker /\ restart \in 0 .. 2
      /\ alarmAt \in Int /\ rc \in {0, -1}
  BY DEF SupervisorAssumption, Init, NoAlarm
<1>4. pids \in [Slots -> Pids \cup {NoPid}]
  BY DEF Init
<1>5. {now, sent, deaths} \subseteq Nat
  BY DEF Init
<1>6. {shutdown, graceful, hup, alarmed, timer} \subseteq BOOLEAN
  BY Zenon DEF Init
<1>7. pc = "start"
  BY DEF Init
<1> QED BY <1>1, <1>2, <1>3, <1>4, <1>5, <1>6, <1>7 DEF TypeOK, KidType

LEMMA NextType == ASSUME SupervisorAssumption, IInv, Next PROVE TypeOK'
<1>1. kids \in [Pids -> KidType] /\ gen \in 1 .. MaxGen /\ MaxGen \in Nat /\ gen \in Nat
      /\ MaxWorker \in Nat /\ missing \in 0 .. MaxWorker /\ Gap \in Nat /\ now \in Nat
      /\ alarmAt \in Int /\ deaths \in Nat /\ sent \in Nat
  BY DEF IInv, TypeOK, KidType, SupervisorAssumption
<1> DEFINE Places == {"start", "setup", "loop", "enter", "wait", "eintr", "tell", "graceful",
             "close", "reap", "exit"}
<1>2. TypeOK <=>
        /\ pc \in Places
        /\ gen \in 1 .. MaxGen /\ missing \in 0 .. MaxWorker /\ pids \in [Slots -> Pids \cup {NoPid}]
        /\ shutdown \in BOOLEAN /\ graceful \in BOOLEAN /\ hup \in BOOLEAN /\ alarmed \in BOOLEAN
        /\ timer \in BOOLEAN /\ restart \in 0 .. 2
        /\ alarmAt \in Int /\ rc \in {0, -1}
        /\ logger \in [pid : Pids \cup {NoPid}, start : Nat] /\ kids \in [Pids -> KidType]
        /\ now \in Nat /\ sent \in Nat /\ deaths \in Nat
  BY DEF TypeOK, KidType
<1>3. TypeOK' <=>
        /\ pc' \in Places
        /\ gen' \in 1 .. MaxGen /\ missing' \in 0 .. MaxWorker /\ pids' \in [Slots -> Pids \cup {NoPid}]
        /\ shutdown' \in BOOLEAN /\ graceful' \in BOOLEAN /\ hup' \in BOOLEAN /\ alarmed' \in BOOLEAN
        /\ timer' \in BOOLEAN /\ restart' \in 0 .. 2
        /\ alarmAt' \in Int /\ rc' \in {0, -1}
        /\ logger' \in [pid : Pids \cup {NoPid}, start : Nat] /\ kids' \in [Pids -> KidType]
        /\ now' \in Nat /\ sent' \in Nat /\ deaths' \in Nat
  BY DEF TypeOK, KidType
<1>4. TypeOK
  BY DEF IInv
<1>5. CASE Signal
  <2>1. pc' \in Places /\ gen' \in 1 .. MaxGen
    BY <1>1, <1>2, <1>4, <1>5 DEF Signal, Interrupt, NextRun
  <2>2. /\ shutdown' \in BOOLEAN /\ graceful' \in BOOLEAN /\ hup' \in BOOLEAN /\ alarmed' \in BOOLEAN
        /\ restart' \in 0 .. 2
    <3>1. CASE SigTerm BY <1>2, <1>4, <3>1 DEF SigTerm
    <3>2. CASE SigUsr1 BY <1>2, <1>4, <3>2 DEF SigUsr1
    <3>3. CASE SigInt BY <1>2, <1>4, <3>3 DEF SigInt
    <3>4. CASE SigHup BY <1>2, <1>4, <3>4 DEF SigHup
    <3> QED BY <1>5, <3>1, <3>2, <3>3, <3>4 DEF Signal
  <2> QED BY <1>1, <1>2, <1>3, <1>4, <1>5, <2>1, <2>2 DEF Signal
<1>6. CASE SigAlarm
  <2>1. pc' \in Places /\ gen' \in 1 .. MaxGen
    BY <1>1, <1>2, <1>4, <1>6 DEF SigAlarm, Interrupt, NextRun
  <2> QED BY <1>1, <1>2, <1>3, <1>4, <1>6, <2>1 DEF SigAlarm, NoAlarm
<1>7. CASE Tick
  BY <1>1, <1>2, <1>3, <1>4, <1>7 DEF Tick, flags
<1>8. ASSUME NEW p \in Pids, Dies(p) \/ Stops(p) \/ LoggerEnds(p) PROVE TypeOK'
  <2>1. [kids EXCEPT ![p].life = "zombie"] \in [Pids -> KidType]
    BY <1>1 DEF KidType
  <2>2. deaths' \in Nat /\ kids' \in [Pids -> KidType]
    BY <1>1, <1>8, <2>1 DEF Dies, Stops, LoggerEnds
  <2> QED BY <1>2, <1>3, <1>4, <1>8, <2>2 DEF Dies, Stops, LoggerEnds, flags
<1>9. CASE Start
  BY <1>2, <1>3, <1>4, <1>9 DEF Start, Goto
<1>10. CASE Setup
  <2>1. NewPid(kids) \in Pids
    BY <1>10, NewPidFree DEF Setup
  <2>2. Kid("logger", gen) \in KidType
    BY <1>1 DEF Kid, KidType
  <2>3. missing' \in 0 .. MaxWorker
    BY <1>1, <1>10, SlotsFinite DEF Setup
  <2>4. kids' \in [Pids -> KidType] /\ logger' \in [pid : Pids \cup {NoPid}, start : Nat]
    BY <1>1, <1>10, <2>1, <2>2 DEF Setup
  <2>5. pids' \in [Slots -> Pids \cup {NoPid}] /\ restart' \in 0 .. 2
    BY <1>10 DEF Setup
  <2> QED BY <1>2, <1>3, <1>4, <1>10, <2>3, <2>4, <2>5 DEF Setup, Goto
<1>11. CASE Fork
  <2>1. NewPid(kids) \in Pids
    BY <1>11, NewPidFree DEF Fork
  <2>2. Kid("worker", gen) \in KidType
    BY <1>1 DEF Kid, KidType
  <2>3. missing' \in 0 .. MaxWorker
    BY <1>1, <1>11 DEF Fork
  <2>4. kids' \in [Pids -> KidType]
    BY <1>1, <1>11, <2>1, <2>2 DEF Fork
  <2>5. pids' \in [Slots -> Pids \cup {NoPid}]
    BY <1>2, <1>4, <1>11, <2>1 DEF Fork
  <2> QED BY <1>2, <1>3, <1>4, <1>11, <2>3, <2>4, <2>5 DEF Fork, flags
<1>12. CASE ForkFails
  BY <1>1, <1>2, <1>3, <1>4, <1>12 DEF ForkFails, Goto, flags
<1>13. CASE Enter \/ Wait
  BY <1>2, <1>3, <1>4, <1>13 DEF Enter, Wait, Goto, flags
<1>14. CASE Interrupted
  <2>1. logger' \in [pid : Pids \cup {NoPid}, start : Nat] /\ deaths' \in Nat /\ kids' \in [Pids -> KidType]
    BY <1>1, <1>2, <1>4, <1>14, SpawnType DEF Interrupted
  <2>2. timer' \in BOOLEAN
    BY <1>2, <1>4, <1>14 DEF Interrupted
  <2> QED BY <1>2, <1>3, <1>4, <1>14, <2>1, <2>2 DEF Interrupted, Goto
<1>15. ASSUME NEW p \in Pids, ReapLogger(p) PROVE TypeOK'
  <2>1. Reaped(p) \in [Pids -> KidType]
    BY <1>1, ReapedType
  <2>2. logger' \in [pid : Pids \cup {NoPid}, start : Nat] /\ deaths' \in Nat /\ kids' \in [Pids -> KidType]
    BY <1>1, <1>2, <1>4, <1>15, <2>1, SpawnType DEF ReapLogger
  <2>3. timer' \in BOOLEAN /\ alarmAt' \in Int
    <3>1. now + Gap \in Int /\ timer \in BOOLEAN
      BY <1>1, <1>2, <1>4
    <3>2. CASE UNCHANGED <<timer, alarmAt>>
      BY <1>1, <3>1, <3>2
    <3>3. CASE AskAlarm
      BY <1>1, <3>1, <3>3 DEF AskAlarm
    <3> QED BY <1>15, <3>2, <3>3 DEF ReapLogger
  <2> QED BY <1>2, <1>3, <1>4, <1>15, <2>2, <2>3 DEF ReapLogger, Goto, flags
<1>16. ASSUME NEW p \in Pids, ReapWorker(p) PROVE TypeOK'
  <2>1. kids' \in [Pids -> KidType] /\ pids' \in [Slots -> Pids \cup {NoPid}]
    BY <1>1, <1>2, <1>4, <1>16, ReapedType DEF ReapWorker
  <2>2. missing' \in 0 .. MaxWorker
    <3>1. ASSUME NEW n \in Slots, pids[n] = p PROVE missing + 1 \in 0 .. MaxWorker
      <4>1. missing = Cardinality(FreeSlots)
        BY <1>16 DEF IInv, Links, PidsExact, InLoop, FreeSlots, ReapWorker, Goto
      <4>2. n \notin FreeSlots /\ FreeSlots \cup {n} \subseteq Slots /\ FreeSlots \subseteq Slots
        BY <3>1 DEF FreeSlots, SupervisorAssumption, NoPid
      <4>3. IsFiniteSet(FreeSlots) /\ Cardinality(FreeSlots \cup {n}) \in 0 .. MaxWorker
        BY <4>2, SlotsFinite
      <4>4. Cardinality(FreeSlots \cup {n}) = Cardinality(FreeSlots) + 1
        BY <4>2, <4>3, FS_AddElement
      <4> QED BY <1>1, <4>1, <4>3, <4>4
    <3> QED BY <1>1, <1>16, <3>1 DEF ReapWorker
  <2> QED BY <1>2, <1>3, <1>4, <1>16, <2>1, <2>2 DEF ReapWorker, Goto, flags
<1>17. CASE Leave
  <2>1. kids' \in [Pids -> KidType]
    BY <1>1, <1>17, ToldType DEF Leave
  <2> QED BY <1>2, <1>3, <1>4, <1>17, <2>1 DEF Leave
<1>18. CASE Tell
  <2>1. kids' \in [Pids -> KidType]
    BY <1>1, <1>18, ToldType DEF Tell
  <2>2. restart' \in 0 .. 2 /\ shutdown' \in BOOLEAN /\ graceful' \in BOOLEAN /\ hup' \in BOOLEAN /\ alarmed' \in BOOLEAN
    BY <1>2, <1>4, <1>18 DEF Tell, SigInt
  <2> QED BY <1>2, <1>3, <1>4, <1>18, <2>1, <2>2 DEF Tell, Goto
<1>19. CASE GracefulState
  <2>1. restart' \in 0 .. 2
    BY <1>2, <1>4, <1>19 DEF GracefulState
  <2> QED BY <1>2, <1>3, <1>4, <1>19, <2>1 DEF GracefulState, Goto
<1>20. CASE Close
  <2>1. logger' \in [pid : Pids \cup {NoPid}, start : Nat]
    BY <1>2, <1>4, <1>20 DEF Close
  <2> QED BY <1>2, <1>3, <1>4, <1>20, <2>1 DEF Close, Goto, flags
<1>21. CASE ReapAny
  <2>1. kids' \in [Pids -> KidType]
    BY <1>1, <1>21, ReapedType DEF ReapAny
  <2> QED BY <1>2, <1>3, <1>4, <1>21, <2>1 DEF ReapAny, flags
<1>22. CASE AllReaped
  BY <1>1, <1>2, <1>3, <1>4, <1>22 DEF AllReaped, Goto, flags
<1> QED BY <1>5, <1>6, <1>7, <1>8, <1>9, <1>10, <1>11, <1>12, <1>13, <1>14, <1>15, <1>16, <1>17,
           <1>18, <1>19, <1>20, <1>21, <1>22 DEF Next, Parent

-----------------------------------------------------------------------------
(* The links between pids[], the children and the places of the parent *)

LEMMA InitLinks == ASSUME SupervisorAssumption, Init PROVE Links
<1>1. \A p \in Pids : kids[p] = NoKid
  BY DEF Init
<1>2. GenOK
  BY <1>1 DEF Init, GenOK, NoKid
<1>3. LoggerOK
  BY DEF Init, LoggerOK
<1>4. ToldOK
  BY <1>1 DEF Init, ToldOK, Running, NoKid
<1>5. PidsExact
  BY DEF Init, PidsExact, InLoop
<1> QED BY <1>2, <1>3, <1>4, <1>5 DEF Links

\* The parent goes from one place to another, and children come to their ends.
LEMMA ParentMoves ==
  ASSUME IInv, UNCHANGED <<gen, pids, missing, logger>>,
         \A p \in Pids : kids'[p].kind = kids[p].kind /\ kids'[p].gen = kids[p].gen
                         /\ (p \in Running("worker")' => p \in Running("worker") /\ kids'[p].told = kids[p].told),
         InLoop' => InLoop,
         pc' \in {"start", "setup"} => pc \in {"start", "setup"},
         pc' \in {"reap", "exit"} => pc \in {"reap", "exit"},
         pc' \in {"graceful", "close", "reap", "exit"} /\ rc' = 0 =>
            pc \in {"graceful", "close", "reap", "exit"} /\ rc = 0,
         pc' \notin {"close", "exit"} => rc' = 0
  PROVE  Links'
<1> USE DEF IInv, Links
<1>1. GenOK'
  BY DEF GenOK
<1>2. LoggerOK'
  <2>1. logger.pid \in Pids \cup {NoPid}
    BY DEF TypeOK
  <2> QED BY <2>1 DEF LoggerOK
<1>3. ToldOK'
  <2>1. Running("worker")' \subseteq Running("worker") /\ Running("worker") \subseteq Pids
    BY DEF Running
  <2> QED BY <2>1 DEF ToldOK
<1>4. PidsExact'
  <2>1. Workers' = Workers
    BY DEF Workers
  <2> QED BY <2>1 DEF PidsExact
<1> QED BY <1>1, <1>2, <1>3, <1>4

\* Another run of server_main begins.
LEMMA NextRunLinks ==
  ASSUME IInv, pc = "reap", pc' = "start", gen' = gen + 1, UNCHANGED <<kids, logger, rc>>
  PROVE  Links'
<1> USE DEF IInv, Links
<1>1. gen \in Nat /\ \A p \in Pids : kids[p].gen \in Nat /\ kids[p].gen <= gen
  BY DEF TypeOK, GenOK
<1>2. GenOK'
  BY <1>1 DEF GenOK
<1>3. LoggerOK'
  BY DEF LoggerOK
<1>4. ToldOK'
  <2>1. rc = 0 /\ Running("worker")' = Running("worker")
    BY DEF ToldOK, Running
  <2> QED BY <2>1 DEF ToldOK
<1>5. PidsExact'
  BY DEF PidsExact, InLoop
<1> QED BY <1>2, <1>3, <1>4, <1>5

\* The logger is waited for or started while the parent is in its loop.
LEMMA LoggerMoves ==
  ASSUME IInv, InLoop, InLoop', UNCHANGED <<gen, pids, missing, rc>>,
         \A p \in Pids : \/ kids'[p] = kids[p]
                         \/ kids[p].kind # "worker" /\ kids'[p].kind # "worker" /\ kids'[p].gen <= gen,
         logger'.pid # NoPid => kids'[logger'.pid].kind = "logger"
  PROVE  Links'
<1> USE DEF IInv, Links
<1>1. rc = 0 /\ pc' \notin {"start", "setup", "graceful", "close", "reap", "exit"}
  BY DEF ToldOK, InLoop
<1>2. GenOK'
  BY <1>1 DEF GenOK
<1>3. LoggerOK'
  BY <1>1 DEF LoggerOK
<1>4. ToldOK'
  <2>1. \A p \in Running("worker")' : p \in Running("worker") /\ kids'[p] = kids[p]
    BY DEF Running
  <2> QED BY <1>1, <2>1 DEF ToldOK
<1>5. PidsExact'
  <2>1. Workers' = Workers
    BY DEF Workers
  <2> QED BY <2>1 DEF PidsExact
<1> QED BY <1>2, <1>3, <1>4, <1>5

LEMMA SpawnLinks ==
  ASSUME SupervisorAssumption, IInv, InLoop, InLoop', UNCHANGED <<gen, pids, missing, rc>>,
         NEW ks, Spawn(ks), ks \in [Pids -> KidType],
         \A p \in Pids : ks[p] = kids[p] \/ (ks[p] = NoKid /\ kids[p].kind # "worker")
  PROVE  Links'
<1>1. gen \in Nat /\ \A p \in Pids : kids[p].gen <= gen
  BY DEF IInv, Links, TypeOK, GenOK
<1>2. \A p \in Pids : \/ ks[p] = kids[p]
                      \/ kids[p].kind # "worker" /\ ks[p].kind # "worker" /\ ks[p].gen <= gen
  <2>1. NoKid.kind = "none" /\ NoKid.gen = 0
    BY DEF NoKid
  <2>2. ASSUME NEW p \in Pids, ks[p] # kids[p]
        PROVE  kids[p].kind # "worker" /\ ks[p].kind # "worker" /\ ks[p].gen <= gen
    <3>1. ks[p] = NoKid /\ kids[p].kind # "worker"
      BY <2>2
    <3> QED BY <1>1, <2>1, <3>1
  <2> QED BY <2>2
<1>3. CASE Free(ks) # {} /\ logger' = [pid |-> NewPid(ks), start |-> now]
           /\ kids' = [ks EXCEPT ![NewPid(ks)] = Kid("logger", gen)]
  <2> DEFINE n == NewPid(ks)
  <2>1. n \in Pids /\ ks[n].kind = "none"
    BY <1>3, NewPidFree
  <2>2. kids'[n] = Kid("logger", gen) /\ logger'.pid = n
        /\ \A p \in Pids : p # n => kids'[p] = ks[p]
    BY <1>3, <2>1
  <2> HIDE DEF n
  <2>3. kids'[n].kind = "logger" /\ kids'[n].gen <= gen
    BY <1>1, <2>2 DEF Kid
  <2>4. kids[n].kind # "worker"
    BY <2>1
  <2>5. \A p \in Pids : \/ kids'[p] = kids[p]
                        \/ kids[p].kind # "worker" /\ kids'[p].kind # "worker" /\ kids'[p].gen <= gen
    BY <1>2, <2>2, <2>3, <2>4
  <2> QED BY <2>2, <2>3, <2>5, LoggerMoves
<1>4. CASE logger' = [pid |-> NoPid, start |-> now] /\ kids' = ks
  BY <1>2, <1>4, LoggerMoves
<1> QED BY <1>3, <1>4 DEF Spawn

-----------------------------------------------------------------------------
(* The steps that fork, wait for and tell the workers *)

LEMMA SetupLinks ==
  ASSUME SupervisorAssumption, IInv, Setup PROVE Links'
<1> USE DEF IInv, Links
<1> DEFINE l == NewPid(kids)
<1>1. l \in Pids /\ l # NoPid /\ kids[l].kind = "none"
  BY NewPidFree DEF Setup
<1>2. gen \in Nat /\ rc = 0 /\ pc = "setup" /\ pc' = "loop" /\ UNCHANGED <<gen, rc>>
  BY DEF Setup, Goto, TypeOK, ToldOK
<1>3. kids' = [kids EXCEPT ![l] = Kid("logger", gen)] /\ logger'.pid = l
  BY DEF Setup
<1>4. kids'[l].kind = "logger" /\ kids'[l].gen = gen /\ \A p \in Pids : p # l => kids'[p] = kids[p]
  BY <1>1, <1>3 DEF Kid, TypeOK
<1> HIDE DEF l
<1>5. GenOK'
  BY <1>2, <1>4 DEF GenOK
<1>6. LoggerOK'
  BY <1>2, <1>3, <1>4 DEF LoggerOK
<1>7. ToldOK'
  <2>1. \A p \in Running("worker")' : p \in Running("worker") /\ kids'[p] = kids[p]
    BY <1>4 DEF Running
  <2> QED BY <1>2, <2>1 DEF ToldOK
<1>8. PidsExact'
  <2>1. Workers' = {}
    <3>1. \A p \in Pids : kids[p].kind = "worker" => kids[p].gen # gen
      BY <1>2 DEF GenOK, TypeOK
    <3> QED BY <1>2, <1>4, <3>1 DEF Workers
  <2>2. \A n \in Slots : pids'[n] = NoPid
    BY DEF Setup
  <2>3. missing' = Cardinality(Slots) /\ {n \in Slots : pids'[n] = NoPid} = Slots
    BY <2>2 DEF Setup
  <2> QED BY <2>1, <2>2, <2>3 DEF PidsExact
<1> QED BY <1>5, <1>6, <1>7, <1>8

LEMMA ForkLinks ==
  ASSUME SupervisorAssumption, IInv, Fork PROVE Links'
<1> USE DEF IInv, Links
<1> DEFINE w == NewPid(kids)
<1>1. w \in Pids /\ w # NoPid /\ kids[w].kind = "none"
  BY NewPidFree DEF Fork
<1>2. gen \in Nat /\ rc = 0 /\ pc = "loop" /\ pc' = "loop" /\ UNCHANGED <<gen, rc, logger>>
  BY DEF Fork, flags, TypeOK, ToldOK
<1>3. kids' = [kids EXCEPT ![w] = Kid("worker", gen)]
      /\ pids' = [n \in Slots |-> IF FirstFree(n) THEN w ELSE pids[n]]
  BY DEF Fork
<1>4. kids'[w].kind = "worker" /\ kids'[w].gen = gen /\ \A p \in Pids : p # w => kids'[p] = kids[p]
  BY <1>1, <1>3 DEF Kid, TypeOK
<1>5. missing = Cardinality(FreeSlots) /\ missing > 0 /\ missing' = missing - 1
  BY <1>2 DEF Fork, PidsExact, InLoop, FreeSlots
<1>6. w \notin Workers /\ {pids[n] : n \in Slots} \ {NoPid} = Workers
      /\ \A m, n \in Slots : pids[m] = pids[n] /\ pids[m] # NoPid => m = n
  BY <1>1, <1>2 DEF PidsExact, InLoop, Workers
<1> HIDE DEF w
<1>7. GenOK'
  <2>1. ASSUME NEW p \in Pids PROVE kids'[p].gen <= gen'
    <3>1. CASE p = w
      BY <1>2, <1>4, <3>1
    <3>2. CASE p # w
      BY <1>2, <1>4, <3>2 DEF GenOK
    <3> QED BY <3>1, <3>2
  <2> QED BY <1>2, <2>1 DEF GenOK
<1>8. LoggerOK'
  <2>1. logger.pid \in Pids \cup {NoPid}
    BY DEF TypeOK
  <2>2. logger.pid # w
    BY <1>1 DEF LoggerOK
  <2> QED BY <1>2, <1>4, <2>1, <2>2 DEF LoggerOK
<1>9. ToldOK'
  <2>1. \A p \in Running("worker")' : p = w \/ (p \in Running("worker") /\ kids'[p] = kids[p])
    BY <1>4 DEF Running
  <2> QED BY <1>2, <1>4, <2>1 DEF ToldOK
<1>10. PidsExact'
  <2>1. FreeSlots \in SUBSET Slots /\ IsFiniteSet(FreeSlots)
    BY SlotsFinite DEF FreeSlots
  <2>2. FreeSlots # {}
    BY <1>5, FS_EmptySet
  <2>3. PICK n \in FreeSlots : \A m \in Slots : FirstFree(m) <=> m = n
    BY <2>2, OneFirstFree
  <2>4. n \in Slots /\ pids[n] = NoPid
    BY <2>3 DEF FreeSlots
  <2>5. pids'[n] = w /\ \A m \in Slots : m # n => pids'[m] = pids[m]
    BY <1>3, <2>3, <2>4
  <2>6. {m \in Slots : pids'[m] = NoPid} = FreeSlots \ {n}
    BY <1>1, <2>4, <2>5 DEF FreeSlots
  <2>7. Cardinality(FreeSlots \ {n}) = Cardinality(FreeSlots) - 1
    BY <2>1, <2>3, FS_RemoveElement
  <2>8. Workers' = Workers \cup {w}
    BY <1>1, <1>2, <1>4 DEF Workers
  <2>9. {pids'[m] : m \in Slots} \ {NoPid} = Workers'
    BY <1>1, <1>6, <2>4, <2>5, <2>8
  <2>10. \A m, k \in Slots : pids'[m] = pids'[k] /\ pids'[m] # NoPid => m = k
    BY <1>1, <1>6, <2>4, <2>5
  <2> QED BY <1>5, <2>6, <2>7, <2>9, <2>10 DEF PidsExact
<1> QED BY <1>7, <1>8, <1>9, <1>10

LEMMA ReapWorkerLinks ==
  ASSUME SupervisorAssumption, IInv, NEW p \in Pids, ReapWorker(p) PROVE Links'
<1> USE DEF IInv, Links
<1>1. rc = 0 /\ pc = "wait" /\ pc' = "loop" /\ UNCHANGED <<gen, rc, logger>> /\ p # logger.pid
  BY DEF ReapWorker, flags, Goto, ToldOK
<1>2. kids'[p].kind = "none" /\ kids'[p].gen = 0 /\ \A q \in Pids : q # p => kids'[q] = kids[q]
  BY DEF ReapWorker, Reaped, NoKid, TypeOK
<1>3. p # NoPid
  BY DEF SupervisorAssumption, NoPid
<1>4. /\ missing = Cardinality(FreeSlots) /\ {pids[n] : n \in Slots} \ {NoPid} = Workers
      /\ \A m, n \in Slots : pids[m] = pids[n] /\ pids[m] # NoPid => m = n
  BY <1>1 DEF PidsExact, InLoop, FreeSlots
<1>5. GenOK'
  BY <1>1, <1>2 DEF GenOK, TypeOK
<1>6. LoggerOK'
  <2>1. logger.pid \in Pids \cup {NoPid}
    BY DEF TypeOK
  <2> QED BY <1>1, <1>2, <2>1 DEF LoggerOK
<1>7. ToldOK'
  <2>1. \A q \in Running("worker")' : q \in Running("worker") /\ kids'[q] = kids[q]
    BY <1>2 DEF Running
  <2> QED BY <1>1, <2>1 DEF ToldOK
<1>8. Workers' = Workers \ {p}
  BY <1>1, <1>2 DEF Workers
<1>9. \A m \in Slots : pids'[m] = IF pids[m] = p THEN NoPid ELSE pids[m]
  BY DEF ReapWorker
<1>10. {pids'[m] : m \in Slots} \ {NoPid} = Workers'
  BY <1>3, <1>4, <1>8, <1>9
<1>11. \A m, n \in Slots : pids'[m] = pids'[n] /\ pids'[m] # NoPid => m = n
  BY <1>4, <1>9
<1>12. missing' = Cardinality({m \in Slots : pids'[m] = NoPid})
  <2>1. FreeSlots \in SUBSET Slots /\ IsFiniteSet(FreeSlots)
    BY SlotsFinite DEF FreeSlots
  <2>2. CASE \E n \in Slots : pids[n] = p
    <3>1. PICK n \in Slots : pids[n] = p
      BY <2>2
    <3>2. n \notin FreeSlots /\ {m \in Slots : pids'[m] = NoPid} = FreeSlots \cup {n}
      BY <1>3, <1>4, <1>9, <3>1 DEF FreeSlots
    <3>3. Cardinality(FreeSlots \cup {n}) = Cardinality(FreeSlots) + 1
      BY <2>1, <3>2, FS_AddElement
    <3> QED BY <1>4, <2>2, <3>2, <3>3 DEF ReapWorker
  <2>3. CASE ~ \E n \in Slots : pids[n] = p
    <3>1. {m \in Slots : pids'[m] = NoPid} = FreeSlots
      BY <1>9, <2>3 DEF FreeSlots
    <3> QED BY <1>4, <2>3, <3>1 DEF ReapWorker
  <2> QED BY <2>2, <2>3
<1>13. PidsExact'
  BY <1>10, <1>11, <1>12 DEF PidsExact
<1> QED BY <1>5, <1>6, <1>7, <1>13

\* Every worker that runs is told, which changes neither whose child it is nor its place.
LEMMA ToldLinks ==
  ASSUME IInv, NEW what \in {"term", "int"}, kids' = Told(kids, what),
         pc \in {"loop", "tell"}, pc' \in {"close", "graceful"}, UNCHANGED <<gen, logger, rc>>
  PROVE  Links'
<1> USE DEF IInv, Links
<1>1. \A p \in Pids : kids'[p] = IF p \in Running("worker") THEN [kids[p] EXCEPT !.told = what] ELSE kids[p]
  BY DEF Told, Running
<1>2. \A k \in KidType : LET j == [k EXCEPT !.told = what]
                        IN j.kind = k.kind /\ j.gen = k.gen /\ j.life = k.life /\ j.told = what
  BY DEF KidType
<1>3. \A p \in Pids : kids[p] \in KidType
  BY DEF TypeOK, KidType
<1>4. \A p \in Pids : kids'[p].kind = kids[p].kind /\ kids'[p].gen = kids[p].gen /\ kids'[p].life = kids[p].life
  BY <1>1, <1>2, <1>3
<1>5. \A p \in Running("worker") : kids'[p].told = what
  BY <1>1, <1>2, <1>3 DEF Running
<1>6. GenOK'
  BY <1>4 DEF GenOK
<1>7. LoggerOK'
  <2>1. logger.pid \in Pids \cup {NoPid}
    BY DEF TypeOK
  <2> QED BY <1>4, <2>1 DEF LoggerOK
<1>8. ToldOK'
  <2>1. Running("worker")' = Running("worker")
    BY <1>4 DEF Running
  <2> QED BY <1>5, <2>1 DEF ToldOK
<1>9. PidsExact'
  BY DEF PidsExact, InLoop
<1> QED BY <1>6, <1>7, <1>8, <1>9

-----------------------------------------------------------------------------
(* Every step *)

LEMMA NextLinks == ASSUME SupervisorAssumption, IInv, Next PROVE Links'
<1>1. kids \in [Pids -> KidType] /\ NoPid \notin Pids /\ logger.pid \in Pids \cup {NoPid}
  BY DEF IInv, TypeOK, KidType, SupervisorAssumption, NoPid
<1>2. pc \notin {"close", "exit"} => rc = 0
  BY DEF IInv, Links, ToldOK
<1>3. ASSUME UNCHANGED <<missing, pids, logger, kids, rc>>, Interrupt, NextRun PROVE Links'
  <2>1. CASE pc = "reap"
    BY <1>3, <2>1, NextRunLinks DEF Interrupt, NextRun
  <2>2. CASE pc # "reap"
    <3>1. gen' = gen /\ (pc' = pc \/ (pc = "wait" /\ pc' = "eintr"))
      BY <1>3, <2>2 DEF Interrupt, NextRun
    <3>2. \A p \in Pids : p \in Running("worker")' => p \in Running("worker")
      BY <1>3 DEF Running
    <3> QED BY <1>2, <1>3, <3>1, <3>2, ParentMoves DEF InLoop
  <2> QED BY <2>1, <2>2
<1>4. CASE Signal
  BY <1>3, <1>4 DEF Signal
<1>5. CASE SigAlarm
  BY <1>3, <1>5 DEF SigAlarm
<1>6. ASSUME UNCHANGED <<gen, missing, pids, logger, kids>> PROVE \A p \in Pids : p \in Running("worker")' => p \in Running("worker")
  BY <1>6 DEF Running
<1>7. CASE Tick \/ Start \/ ForkFails \/ Enter \/ Wait \/ GracefulState
  <2>1. UNCHANGED <<gen, missing, pids, logger, kids>>
    BY <1>7 DEF Tick, Start, ForkFails, Enter, Wait, GracefulState
  <2>2. \/ UNCHANGED <<pc, rc>>
        \/ pc = "start" /\ pc' = "setup" /\ UNCHANGED rc
        \/ pc = "loop" /\ pc' = "close" /\ rc' = -1
        \/ pc = "loop" /\ pc' = "enter" /\ UNCHANGED rc
        \/ pc = "enter" /\ pc' = "wait" /\ UNCHANGED rc
        \/ pc = "graceful" /\ pc' = "close" /\ UNCHANGED rc
    BY <1>7 DEF Tick, Start, ForkFails, Enter, Wait, GracefulState, Goto
  <2> QED BY <1>2, <1>6, <2>1, <2>2, ParentMoves DEF InLoop
<1>8. ASSUME NEW p \in Pids, Dies(p) \/ Stops(p) \/ LoggerEnds(p) PROVE Links'
  <2>1. kids' = [kids EXCEPT ![p].life = "zombie"] /\ UNCHANGED <<gen, missing, pids, logger, pc, rc>>
    BY <1>8 DEF Dies, Stops, LoggerEnds
  <2>2. kids'[p].kind = kids[p].kind /\ kids'[p].gen = kids[p].gen /\ kids'[p].life = "zombie"
        /\ \A q \in Pids : q # p => kids'[q] = kids[q]
    BY <1>1, <2>1 DEF KidType
  <2>3. \A q \in Pids : q \in Running("worker")' => q \in Running("worker") /\ kids'[q].told = kids[q].told
    BY <2>2 DEF Running
  <2> QED BY <1>2, <2>1, <2>2, <2>3, ParentMoves DEF InLoop
<1>9. CASE Interrupted
  <2>1. InLoop /\ InLoop' /\ UNCHANGED <<gen, pids, missing, rc>>
    BY <1>9 DEF Interrupted, Goto, InLoop
  <2>2. CASE Spawn(kids)
    BY <1>1, <2>1, <2>2, SpawnLinks
  <2>3. CASE UNCHANGED <<logger, kids>>
    <3>1. logger.pid # NoPid => kids[logger.pid].kind = "logger"
      BY DEF IInv, Links, LoggerOK
    <3> QED BY <2>1, <2>3, <3>1, LoggerMoves
  <2> QED BY <1>9, <2>2, <2>3 DEF Interrupted
<1>10. ASSUME NEW p \in Pids, ReapLogger(p) PROVE Links'
  <2>1. InLoop /\ InLoop' /\ UNCHANGED <<gen, pids, missing, rc>> /\ logger.pid = p
    BY <1>10 DEF ReapLogger, Goto, InLoop
  <2>2. kids[p].kind = "logger"
    BY <1>1, <2>1 DEF IInv, Links, LoggerOK
  <2>3. Reaped(p) \in [Pids -> KidType]
        /\ \A q \in Pids : Reaped(p)[q] = kids[q] \/ (Reaped(p)[q] = NoKid /\ kids[q].kind # "worker")
    BY <1>1, <2>2, ReapedType DEF Reaped
  <2>4. CASE Spawn(Reaped(p))
    BY <2>1, <2>3, <2>4, SpawnLinks
  <2>5. CASE logger' = [logger EXCEPT !.pid = NoPid] /\ kids' = Reaped(p)
    <3>1. logger'.pid = NoPid
      BY <2>5 DEF IInv, TypeOK
    <3>2. NoKid.kind = "none" /\ NoKid.gen = 0 /\ gen \in Nat
      BY DEF NoKid, IInv, TypeOK
    <3>3. \A q \in Pids : \/ kids'[q] = kids[q]
                          \/ kids[q].kind # "worker" /\ kids'[q].kind # "worker" /\ kids'[q].gen <= gen
      BY <2>3, <2>5, <3>2
    <3> QED BY <2>1, <3>1, <3>3, LoggerMoves
  <2> QED BY <1>10, <2>4, <2>5 DEF ReapLogger
<1>11. CASE Leave
  <2>1. CASE pc = "loop" /\ pc' = "tell" /\ UNCHANGED <<kids, gen, missing, pids, logger, rc>>
    BY <1>2, <1>6, <2>1, ParentMoves DEF InLoop
  <2>2. CASE pc = "loop" /\ pc' = "close" /\ kids' = Told(kids, "term") /\ UNCHANGED <<gen, logger, rc>>
    BY <2>2, ToldLinks
  <2> QED BY <1>11, <2>1, <2>2 DEF Leave
<1>12. CASE Tell
  BY <1>12, ToldLinks DEF Tell, Goto
<1>13. CASE Close
  <2>1. logger'.pid = NoPid /\ UNCHANGED <<gen, kids, rc>> /\ pc = "close"
        /\ (pc' = "exit" \/ (pc' = "reap" /\ rc = 0))
    BY <1>1, <1>13 DEF Close, Goto, flags, IInv, TypeOK
  <2>2. GenOK' /\ LoggerOK' /\ PidsExact'
    BY <2>1 DEF IInv, Links, GenOK, LoggerOK, PidsExact, InLoop
  <2>3. ToldOK'
    BY <2>1 DEF IInv, Links, ToldOK, Running
  <2> QED BY <2>2, <2>3 DEF Links
<1>14. CASE ReapAny
  <2>1. PICK p \in Zombies : kids' = Reaped(p)
    BY <1>14 DEF ReapAny
  <2>2. UNCHANGED <<gen, logger, rc, pc>> /\ pc = "reap" /\ logger.pid = NoPid /\ gen \in Nat
    BY <1>14 DEF ReapAny, IInv, TypeOK, Links, LoggerOK
  <2>3. \A q \in Pids : kids'[q] = kids[q] \/ (kids'[q].kind = "none" /\ kids'[q].gen = 0)
    BY <2>1 DEF Reaped, NoKid
  <2>4. GenOK' /\ LoggerOK' /\ PidsExact'
    BY <2>2, <2>3 DEF IInv, Links, GenOK, LoggerOK, PidsExact, InLoop
  <2>5. \A q \in Running("worker")' : q \in Running("worker") /\ kids'[q] = kids[q]
    BY <2>3 DEF Running
  <2>6. ToldOK'
    BY <2>2, <2>5 DEF IInv, Links, ToldOK
  <2> QED BY <2>4, <2>6 DEF Links
<1>15. CASE AllReaped
  BY <1>15, NextRunLinks DEF AllReaped, Goto
<1> QED BY <1>4, <1>5, <1>7, <1>8, <1>9, <1>10, <1>11, <1>12, <1>13, <1>14, <1>15,
           SetupLinks, ForkLinks, ReapWorkerLinks DEF Next, Parent

LEMMA IInvHolds == Spec => []IInv
<1>1. Init => IInv
  BY SupervisorAssumption, InitType, InitLinks DEF IInv
<1>2. IInv /\ Next => IInv'
  BY SupervisorAssumption, NextType, NextLinks DEF IInv
<1>3. IInv /\ UNCHANGED vars => IInv'
  BY DEF vars, flags, IInv, Links, TypeOK, GenOK, LoggerOK, ToldOK, PidsExact, InLoop, Workers, Running
<1> QED BY <1>1, <1>2, <1>3, PTL DEF Spec

\* pids[] and num_childs tell the workers of this run exactly, whatever order children die,
\* signals come and the logger is restarted in (server.c:1507-1569).
THEOREM PidsAreExact == Spec => []PidsExact
<1>1. IInv => PidsExact
  BY DEF IInv, Links
<1> QED BY <1>1, IInvHolds, PTL

\* The parent ends with success only when every worker of any run was told to stop: those of an
\* earlier run were told at its end (server.c:1575-1593).
THEOREM AllAreTold == Spec => []AllTold
<1>1. IInv => AllTold
  BY DEF IInv, Links, ToldOK, AllTold
<1> QED BY <1>1, IInvHolds, PTL
=============================================================================
