--------------------------- MODULE GatewayProofs ---------------------------
(***************************************************************************)
(* The loads of hosts and processes, the requests bound to them, and the   *)
(* processes and children of a host, for any number of each.               *)
(***************************************************************************)
EXTENDS Gateway, FiniteSetTheorems, WellFoundedInduction, TLAPS

\* Where a request is tells what its context holds.
Sound(r) ==
  /\ ctx[r].proc # NoProc => ctx[r].host = ctx[r].proc[1]
  /\ mode[r] = "direct" \/ con[r] = "hostget" => ctx[r].host = NoHost /\ link[r] = "none"
  /\ con[r] \in Busy \ {"hostget"} => mode[r] = "gw"
  /\ ctx[r].st = "none" => link[r] = "none"
  /\ mode[r] = "direct" \/ con[r] \in {"hostget", "pick", "connect", "reclose"} =>
       ctx[r].st \notin {"write", "read"}
Requests == \A r \in Reqs : Sound(r)

\* What SentOnce says of a step.
NotResent ==
  \A r \in Reqs : ctx[r].st \in {"write", "read"} =>
    ctx'[r] = NoCtx \/ (ctx'[r].proc = ctx[r].proc /\ ctx'[r].st \in {"write", "read"})

\* What a process structure holds, and its child.
Structures ==
  /\ \A s \in Slots :
       /\ proc[s].pid # NoPid => /\ proc[s].pid[1] = s /\ proc[s].local /\ kid[proc[s].pid] # "none"
                                 /\ proc[s].st # "died" /\ proc[s].in # "none"
       /\ proc[s].st = "running" => proc[s].in = "first"
  /\ \A p \in Pids : kid[p] # "none" => proc[p[1]].pid = p

ReqTypes ==
  /\ overlap \in Overlaps /\ balance \in Balances /\ last \in Hosts \cup {0}
  /\ load \in [Slots -> Int] /\ hload \in [Hosts -> Int] /\ {short, lost} \subseteq Nat
  /\ ctx \in [Reqs -> CtxSet] /\ link \in [Reqs -> {"none", "pending", "up", "down"}]
  /\ con \in [Reqs -> Busy \cup {"idle", "queued", "wait", "fdwait", "done"}]
  /\ mode \in [Reqs -> {"direct", "gw"}] /\ status \in [Reqs -> {0, 400, 500, 503}]
  /\ back \in [Reqs -> {"worker", "main"}]
  /\ main \in {"loop", "restart", "grow", "shrink", "unused"} /\ mh \in Hosts
PoolTypes ==
  /\ proc \in [Slots -> ProcSet] /\ num \in [Hosts -> Int] /\ active \in [Hosts -> Int] /\ fails \in Nat
  /\ kid \in [Pids -> {"none", "alive", "dead"}] /\ up \in [Hosts -> BOOLEAN]

ReqInv == ReqTypes /\ Requests /\ LoadCovers
PoolInv == PoolTypes /\ Structures /\ ActiveCounts /\ NumCovers
IInv == ReqInv /\ PoolInv

-----------------------------------------------------------------------------
(* Constants, and the choice of a host *)

LEMMA Numbers ==
  /\ \A h \in Hosts : h \in Nat /\ h # 0
  /\ NoHost \notin Hosts /\ NoProc \notin Slots /\ NoPid \notin Pids /\ NoProc[1] = 0
  /\ \A s \in Slots : s[1] \in Hosts /\ s[2] \in Ids /\ s = <<s[1], s[2]>>
  /\ \A p \in Pids : p[1] \in Slots
<1>1. /\ \A h \in Hosts : h \in Nat /\ h # 0
      /\ NoHost \notin Hosts
  BY GatewayAssumption DEF Hosts, NoHost
<1>2. NoProc \notin Slots /\ NoProc[1] = 0 /\ \A s \in Slots : s[1] \in Hosts /\ s[2] \in Ids /\ s = <<s[1], s[2]>>
  BY <1>1 DEF Slots, NoProc
<1>3. NoPid \notin Pids /\ \A p \in Pids : p[1] \in Slots
  BY <1>2 DEF Pids, NoPid
<1> QED BY <1>1, <1>2, <1>3

LEMMA Finite ==
  IsFiniteSet(Hosts) /\ IsFiniteSet(Ids) /\ IsFiniteSet(Slots) /\ IsFiniteSet(Reqs)
<1>1. 1 \in Int /\ 0 \in Int /\ LastHost \in Int /\ LastId \in Int /\ IsFiniteSet(Reqs)
  BY GatewayAssumption
<1>2. IsFiniteSet(Hosts) /\ IsFiniteSet(Ids)
  BY <1>1, FS_Interval DEF Hosts, Ids
<1> QED BY <1>1, <1>2, FS_Product DEF Slots

LEMMA LeastOf ==
  ASSUME NEW S, IsFiniteSet(S), S # {}, NEW f \in [S -> Int]
  PROVE  \E m \in S : \A g \in S : f[m] <= f[g]
<1> DEFINE Below(h) == {g \in S : f[g] < f[h]}
           F == {Below(h) : h \in S}
           R == StrictSubsetOrdering(S)
<1>1. IsWellFoundedOn(R, FiniteSubsetsOf(S))
  BY FS_StrictSubsetOrderingWellFounded
<1>2. F \subseteq FiniteSubsetsOf(S) /\ F # {}
  <2>1. \A h \in S : Below(h) \subseteq S
    OBVIOUS
  <2>2. \A h \in S : IsFiniteSet(Below(h))
    BY <2>1, FS_Subset
  <2>3. \A h \in S : Below(h) \in FiniteSubsetsOf(S)
    <3> HIDE DEF Below
    <3> QED BY <2>1, <2>2 DEF FiniteSubsetsOf
  <2> HIDE DEF Below
  <2> QED BY <2>3, Zenon
<1>3. PICK B \in F : \A C \in F : ~(<<C, B>> \in R)
  <2> HIDE DEF F, R
  <2> QED BY <1>1, <1>2, WFMin
<1>4. PICK h \in S : B = Below(h)
  OBVIOUS
<1>5. ASSUME NEW g \in S PROVE f[h] <= f[g]
  <2>1. SUFFICES ASSUME f[g] < f[h] PROVE FALSE
    OBVIOUS
  <2>2. Below(g) \subseteq Below(h) /\ g \in Below(h) /\ g \notin Below(g)
    BY <2>1
  <2>3. <<Below(g), Below(h)>> \in R
    BY <2>2 DEF StrictSubsetOrdering
  <2> QED BY <1>3, <1>4, <2>3
<1> QED BY <1>5

LEMMA FirstIs ==
  ASSUME NEW S, S \subseteq Hosts, S # {}
  PROVE  First(S) \in S
<1> DEFINE f == [h \in S |-> h]
<1>1. IsFiniteSet(S) /\ f \in [S -> Int]
  BY Finite, Numbers, FS_Subset
<1>2. \E m \in S : \A g \in S : f[m] <= f[g]
  <2> HIDE DEF f
  <2> QED BY <1>1, LeastOf
<1>3. \E m \in S : \A g \in S : m <= g
  BY <1>2
<1> QED BY <1>3 DEF First

LEMMA ChosenIs ==
  ASSUME ReqTypes
  PROVE  \A h \in Chosen : h \in Hosts
<1>1. ActiveHosts \subseteq Hosts
  BY DEF ActiveHosts
<1>2. CASE ActiveHosts = {}
  BY <1>2 DEF Chosen
<1>3. CASE ActiveHosts # {}
  <2> DEFINE S == {h \in ActiveHosts : \A g \in ActiveHosts : hload[h] <= hload[g]}
             T == IF \E h \in ActiveHosts : h > last THEN {h \in ActiveHosts : h > last} ELSE ActiveHosts
             f == [h \in ActiveHosts |-> hload[h]]
  <2>1. IsFiniteSet(ActiveHosts) /\ f \in [ActiveHosts -> Int]
    BY <1>1, Finite, FS_Subset DEF ReqTypes
  <2>2. \E m \in ActiveHosts : \A g \in ActiveHosts : f[m] <= f[g]
    <3> HIDE DEF f
    <3> QED BY <1>3, <2>1, LeastOf
  <2>3. S # {} /\ S \subseteq Hosts
    BY <1>1, <2>2
  <2>4. T # {} /\ T \subseteq Hosts
    BY <1>1, <1>3
  <2>5. Chosen \subseteq {First(S), First(T)} \cup ActiveHosts
    BY <1>3 DEF Chosen
  <2>6. First(S) \in Hosts /\ First(T) \in Hosts
    <3> HIDE DEF S, T
    <3> QED BY <2>3, <2>4, FirstIs
  <2> QED BY <1>1, <2>5, <2>6
<1> QED BY <1>2, <1>3

-----------------------------------------------------------------------------
(* The loads *)

LEMMA CardNat ==
  ASSUME NEW S \in SUBSET Reqs
  PROVE  IsFiniteSet(S) /\ Cardinality(S) \in Nat
BY Finite, FS_Subset, FS_CardinalityType

\* the context of one request changes: who is bound to what
LEMMA Rebound ==
  ASSUME ReqTypes, NEW r \in Reqs, NEW c, ctx' = [ctx EXCEPT ![r] = c], NEW x
  PROVE  /\ Bound(x)' = (IF c.proc = x THEN Bound(x) \cup {r} ELSE Bound(x) \ {r})
         /\ Guests(x)' = (IF c.host = x THEN Guests(x) \cup {r} ELSE Guests(x) \ {r})
         /\ Bound(x) \in SUBSET Reqs /\ (r \in Bound(x) <=> ctx[r].proc = x)
         /\ Guests(x) \in SUBSET Reqs /\ (r \in Guests(x) <=> ctx[r].host = x)
<1>1. ctx'[r] = c /\ \A q \in Reqs : q # r => ctx'[q] = ctx[q]
  BY DEF ReqTypes
<1>2. Bound(x)' = (IF c.proc = x THEN Bound(x) \cup {r} ELSE Bound(x) \ {r})
  BY <1>1 DEF Bound
<1>3. Guests(x)' = (IF c.host = x THEN Guests(x) \cup {r} ELSE Guests(x) \ {r})
  BY <1>1 DEF Guests
<1> QED BY <1>2, <1>3 DEF Bound, Guests

\* what joins, leaves or stays in a set of requests
LEMMA Counts ==
  ASSUME NEW S \in SUBSET Reqs, NEW r
  PROVE  /\ Cardinality(S) \in Nat
         /\ Cardinality(S \cup {r}) = IF r \in S THEN Cardinality(S) ELSE Cardinality(S) + 1
         /\ Cardinality(S \ {r}) = IF r \in S THEN Cardinality(S) - 1 ELSE Cardinality(S)
<1>1. IsFiniteSet(S) /\ Cardinality(S) \in Nat
  BY CardNat
<1> QED BY <1>1, FS_AddElement, FS_RemoveElement

LEMMA Losing ==
  ASSUME ReqTypes, NEW x \in BOOLEAN, NEW k \in Losses(x)
  PROVE  k \in {0, 1} /\ (~overlap => k = 0) /\ lost - k \in Nat
BY DEF Losses, ReqTypes

LEMMA Contexts ==
  ASSUME ReqTypes, NEW r \in Reqs
  PROVE  /\ ctx[r] \in CtxSet /\ ctx[r].host \in Hosts \cup {NoHost} /\ ctx[r].proc \in Slots \cup {NoProc}
         /\ ctx[r].left \in 0 .. Units /\ ctx[r].rec \in 0 .. MaxReconnects
         /\ ctx[r].pid \in Pids \cup {NoPid}
BY DEF ReqTypes, CtxSet

\* steps that bind no request to another host or process
LEMMA LoadsSame ==
  ASSUME ReqTypes, LoadCovers, UNCHANGED <<overlap, load, hload>>,
         \A q \in Reqs : ctx'[q].host = ctx[q].host /\ ctx'[q].proc = ctx[q].proc
  PROVE  LoadCovers'
<1>1. \A s : Bound(s)' = Bound(s) /\ Guests(s)' = Guests(s)
  BY DEF Bound, Guests
<1> QED BY <1>1 DEF LoadCovers

\* gw_host_get: the load of the host is raised for a request that had none
LEMMA LoadsTaken ==
  ASSUME ReqTypes, LoadCovers, NEW r \in Reqs, NEW c, NEW h \in Hosts, NEW k \in Int, ~overlap => k = 0,
         UNCHANGED <<overlap, load>>, hload' = [hload EXCEPT ![h] = @ + 1 - k],
         ctx' = [ctx EXCEPT ![r] = c], c.host = h, c.proc = NoProc,
         ctx[r].host = NoHost, ctx[r].proc = NoProc
  PROVE  LoadCovers' /\ hload' \in [Hosts -> Int]
<1>1. hload' \in [Hosts -> Int] /\ hload'[h] = hload[h] + 1 - k
      /\ \A g \in Hosts : g # h => hload'[g] = hload[g]
  BY DEF ReqTypes
<1>2. SUFFICES ASSUME ~overlap
               PROVE  /\ \A s \in Slots : load'[s] >= Cardinality(Bound(s)')
                      /\ \A g \in Hosts : hload'[g] = Cardinality(Guests(g)')
  BY <1>1 DEF LoadCovers
<1>3. h # NoHost /\ NoProc \notin Slots
  BY Numbers
<1>4. \A s \in Slots : Bound(s)' = Bound(s)
  <2>1. \A s \in Slots : Bound(s)' = Bound(s) \ {r} /\ r \notin Bound(s)
    BY <1>3, Rebound, ZenonT(40)
  <2> QED BY <2>1
<1>5. ASSUME NEW g \in Hosts PROVE hload'[g] = Cardinality(Guests(g)')
  <2>1. /\ Guests(g) \in SUBSET Reqs /\ (r \in Guests(g) <=> ctx[r].host = g)
        /\ Guests(g)' = IF c.host = g THEN Guests(g) \cup {r} ELSE Guests(g) \ {r}
    BY Rebound, Zenon
  <2>2. hload[g] = Cardinality(Guests(g)) /\ Cardinality(Guests(g)) \in Nat
    BY <1>2, <2>1, CardNat DEF LoadCovers
  <2>3. Cardinality(Guests(g)') = IF g = h THEN Cardinality(Guests(g)) + 1 ELSE Cardinality(Guests(g))
    <3>1. r \notin Guests(g) /\ (c.host = g <=> g = h)
      BY <2>1, Numbers
    <3>2. /\ Cardinality(Guests(g)) \in Nat
          /\ Cardinality(Guests(g) \cup {r}) = IF r \in Guests(g) THEN Cardinality(Guests(g)) ELSE Cardinality(Guests(g)) + 1
          /\ Cardinality(Guests(g) \ {r}) = IF r \in Guests(g) THEN Cardinality(Guests(g)) - 1 ELSE Cardinality(Guests(g))
      BY <2>1, Counts, Zenon
    <3>3. Guests(g)' = IF g = h THEN Guests(g) \cup {r} ELSE Guests(g)
      BY <2>1, <3>1
    <3> QED BY <3>1, <3>2, <3>3
  <2> QED BY <1>1, <1>2, <2>2, <2>3
<1> QED BY <1>2, <1>4, <1>5 DEF LoadCovers

\* the process for a request: its load is raised, or there is none
LEMMA LoadsPicked ==
  ASSUME ReqTypes, LoadCovers, NEW r \in Reqs, NEW c, UNCHANGED <<overlap, hload>>,
         ctx' = [ctx EXCEPT ![r] = c], c.host = ctx[r].host,
         load' \in [Slots -> Int], \A s \in Slots : ~overlap => load'[s] = load[s] + IF s = c.proc THEN 1 ELSE 0
  PROVE  LoadCovers'
<1> SUFFICES ASSUME ~overlap
             PROVE  /\ \A s \in Slots : load'[s] >= Cardinality(Bound(s)')
                    /\ \A g \in Hosts : hload'[g] = Cardinality(Guests(g)')
  BY DEF LoadCovers
<1>1. ASSUME NEW g \in Hosts PROVE hload'[g] = Cardinality(Guests(g)')
  <2>1. /\ r \in Guests(g) <=> ctx[r].host = g
        /\ Guests(g)' = IF c.host = g THEN Guests(g) \cup {r} ELSE Guests(g) \ {r}
    BY Rebound, Zenon
  <2>2. Guests(g)' = Guests(g)
    BY <2>1
  <2> QED BY <2>2 DEF LoadCovers
<1>2. ASSUME NEW s \in Slots PROVE load'[s] >= Cardinality(Bound(s)')
  <2>1. /\ Bound(s) \in SUBSET Reqs
        /\ Bound(s)' = IF c.proc = s THEN Bound(s) \cup {r} ELSE Bound(s) \ {r}
    BY Rebound, Zenon
  <2>2. /\ Cardinality(Bound(s)) \in Nat
        /\ Cardinality(Bound(s)') \in {Cardinality(Bound(s)), Cardinality(Bound(s)) + IF c.proc = s THEN 1 ELSE -1}
    <3>1. /\ Cardinality(Bound(s)) \in Nat
          /\ Cardinality(Bound(s) \cup {r}) = IF r \in Bound(s) THEN Cardinality(Bound(s)) ELSE Cardinality(Bound(s)) + 1
          /\ Cardinality(Bound(s) \ {r}) = IF r \in Bound(s) THEN Cardinality(Bound(s)) - 1 ELSE Cardinality(Bound(s))
      BY <2>1, Counts, Zenon
    <3> QED BY <2>1, <3>1
  <2>3. load[s] \in Int /\ load[s] >= Cardinality(Bound(s))
    BY DEF LoadCovers, ReqTypes
  <2>4. load'[s] = load[s] + IF s = c.proc THEN 1 ELSE 0
    OBVIOUS
  <2> DEFINE b == Cardinality(Bound(s))
             b2 == Cardinality(Bound(s)')
  <2>5. /\ b \in Nat /\ b2 \in {b, b + IF c.proc = s THEN 1 ELSE -1} /\ load[s] \in Int /\ load[s] >= b
    BY <2>2, <2>3
  <2> HIDE DEF b, b2
  <2>6. load'[s] >= b2
    BY <2>4, <2>5
  <2> QED BY <2>6 DEF b2
<1> QED BY <1>1, <1>2

\* gw_backend_close gives back what the request counts for
LEMMA LoadsReleased ==
  ASSUME ReqTypes, Requests, LoadCovers, NEW r \in Reqs, NEW c, UNCHANGED overlap,
         BackendClose(r), ctx' = [ctx EXCEPT ![r] = c], c.host = NoHost, c.proc = NoProc
  PROVE  /\ LoadCovers' /\ load' \in [Slots -> Int] /\ hload' \in [Hosts -> Int] /\ lost' \in Nat
         /\ link' = [link EXCEPT ![r] = "none"]
<1> DEFINE p == ctx[r].proc
           h == ctx[r].host
<1>1. /\ p \in Slots \cup {NoProc} /\ h \in Hosts \cup {NoHost} /\ (p # NoProc => h = p[1])
      /\ NoProc \notin Slots /\ NoHost \notin Hosts /\ (p # NoProc => h # NoHost)
  BY Contexts, Numbers DEF Requests, Sound
<1>2. PICK k \in {0, 1}, l \in {0, 1} :
        /\ ~overlap => k = 0 /\ l = 0
        /\ load' = IF h # NoHost /\ p # NoProc THEN [load EXCEPT ![p] = @ - 1 + k] ELSE load
        /\ hload' = IF h # NoHost THEN [hload EXCEPT ![h] = @ - 1 + l] ELSE hload
        /\ lost' = lost - k - l /\ lost' >= 0
  BY DEF BackendClose, Losses
<1>3. link' = [link EXCEPT ![r] = "none"]
  BY DEF BackendClose
<1>4. load \in [Slots -> Int] /\ hload \in [Hosts -> Int] /\ lost \in Nat
  BY DEF ReqTypes
<1> HIDE DEF p, h
<1>5. load' \in [Slots -> Int] /\ hload' \in [Hosts -> Int] /\ lost' \in Nat
  <2>1. load' \in [Slots -> Int]
    BY <1>1, <1>2, <1>4
  <2>2. hload' \in [Hosts -> Int]
    BY <1>1, <1>2, <1>4
  <2>3. lost' \in Nat
    BY <1>2, <1>4
  <2> QED BY <2>1, <2>2, <2>3
<1>6. ASSUME ~overlap, NEW s \in Slots PROVE load'[s] >= Cardinality(Bound(s)')
  <2>1. Bound(s) \in SUBSET Reqs /\ (r \in Bound(s) <=> p = s) /\ Bound(s)' = Bound(s) \ {r}
    <3>1. /\ Bound(s) \in SUBSET Reqs /\ (r \in Bound(s) <=> ctx[r].proc = s)
          /\ Bound(s)' = IF c.proc = s THEN Bound(s) \cup {r} ELSE Bound(s) \ {r}
      BY Rebound, Zenon
    <3> QED BY <1>1, <3>1 DEF p
  <2> DEFINE b == Cardinality(Bound(s))
  <2>2. b \in Nat /\ Cardinality(Bound(s)') = IF p = s THEN b - 1 ELSE b
    <3>1. /\ Cardinality(Bound(s)) \in Nat
          /\ Cardinality(Bound(s) \cup {r}) = IF r \in Bound(s) THEN Cardinality(Bound(s)) ELSE Cardinality(Bound(s)) + 1
          /\ Cardinality(Bound(s) \ {r}) = IF r \in Bound(s) THEN Cardinality(Bound(s)) - 1 ELSE Cardinality(Bound(s))
      BY <2>1, Counts, Zenon
    <3> QED BY <2>1, <3>1
  <2>3. load'[s] = IF p = s THEN load[s] - 1 ELSE load[s]
    BY <1>1, <1>2, <1>4, <1>6
  <2>4. load[s] >= b /\ load[s] \in Int
    BY <1>4, <1>6 DEF LoadCovers
  <2> HIDE DEF b
  <2> QED BY <2>2, <2>3, <2>4
<1>7. ASSUME ~overlap, NEW g \in Hosts PROVE hload'[g] = Cardinality(Guests(g)')
  <2>1. Guests(g) \in SUBSET Reqs /\ (r \in Guests(g) <=> h = g) /\ Guests(g)' = Guests(g) \ {r}
    <3>1. /\ Guests(g) \in SUBSET Reqs /\ (r \in Guests(g) <=> ctx[r].host = g)
          /\ Guests(g)' = IF c.host = g THEN Guests(g) \cup {r} ELSE Guests(g) \ {r}
      BY Rebound, Zenon
    <3> QED BY <1>1, <3>1 DEF h
  <2> DEFINE b == Cardinality(Guests(g))
  <2>2. b \in Nat /\ Cardinality(Guests(g)') = IF h = g THEN b - 1 ELSE b
    <3>1. /\ Cardinality(Guests(g)) \in Nat
          /\ Cardinality(Guests(g) \cup {r}) = IF r \in Guests(g) THEN Cardinality(Guests(g)) ELSE Cardinality(Guests(g)) + 1
          /\ Cardinality(Guests(g) \ {r}) = IF r \in Guests(g) THEN Cardinality(Guests(g)) - 1 ELSE Cardinality(Guests(g))
      BY <2>1, Counts, Zenon
    <3> QED BY <2>1, <3>1
  <2>3. hload'[g] = IF h = g THEN hload[g] - 1 ELSE hload[g]
    BY <1>1, <1>2, <1>4, <1>7
  <2>4. hload[g] = b
    BY <1>7 DEF LoadCovers
  <2> HIDE DEF b
  <2> QED BY <2>2, <2>3, <2>4
<1> QED BY <1>3, <1>5, <1>6, <1>7 DEF LoadCovers

-----------------------------------------------------------------------------
(* The requests: every step of one of them, or of none *)

\* a step that leaves the other requests alone
LEMMA RequestStep ==
  ASSUME ReqInv, NEW r \in Reqs, ReqTypes', LoadCovers', Sound(r)',
         \A q \in Reqs : q # r => /\ ctx'[q] = ctx[q] /\ con'[q] = con[q] /\ mode'[q] = mode[q]
                                 /\ link'[q] = link[q],
         ctx[r].st \in {"write", "read"} =>
           ctx'[r] = NoCtx \/ (ctx'[r].proc = ctx[r].proc /\ ctx'[r].st \in {"write", "read"})
  PROVE  ReqInv' /\ NotResent
<1>1. Requests'
  <2>1. ASSUME NEW q \in Reqs PROVE Sound(q)'
    <3>1. CASE q = r
      BY <3>1
    <3>2. CASE q # r
      BY <3>2 DEF ReqInv, Requests, Sound
    <3> QED BY <3>1, <3>2
  <2> QED BY <2>1 DEF Requests
<1>2. NotResent
  BY DEF NotResent
<1> QED BY <1>1, <1>2 DEF ReqInv

\* a step that leaves every request where it is, but for its socket
LEMMA RequestsSame ==
  ASSUME ReqInv, UNCHANGED <<overlap, balance, last, loads, ctx, con, mode, status, back, short, lost>>,
         link' \in [Reqs -> {"none", "pending", "up", "down"}], \A q \in Reqs : link[q] = "none" => link'[q] = "none",
         main' \in {"loop", "restart", "grow", "shrink", "unused"}, mh' \in Hosts
  PROVE  ReqInv' /\ NotResent
<1>1. ReqTypes'
  BY DEF ReqInv, ReqTypes, loads
<1>2. Requests'
  BY DEF ReqInv, Requests, Sound
<1>3. LoadCovers'
  BY LoadsSame DEF ReqInv, loads
<1>4. NotResent
  BY DEF NotResent
<1> QED BY <1>1, <1>2, <1>3, <1>4 DEF ReqInv

LEMMA ConStep ==
  ASSUME ReqInv, NEW r \in Reqs, Arrive(r) \/ Take(r) \/ Wake(r)
  PROVE  ReqInv' /\ NotResent
<1>1. PICK l \in Busy \cup {"idle", "queued", "wait", "fdwait", "done"} :
        /\ con' = [con EXCEPT ![r] = l]
        /\ l = "hostget" => mode[r] = "direct"
        /\ l \in {"pick", "connect", "reclose"} => ctx[r].st = "init"
        /\ l \in Busy \ {"hostget"} => mode[r] # "direct"
  <2>1. /\ Arrive(r) \/ Wake(r) => con' = [con EXCEPT ![r] = "queued"]
        /\ Take(r) => con' = [con EXCEPT ![r] = Next0(r)]
    BY DEF Arrive, Wake, Take, Goto
  <2>2. /\ Next0(r) \in Busy \cup {"idle", "queued", "wait", "fdwait", "done"}
        /\ Next0(r) = "hostget" => mode[r] = "direct"
        /\ Next0(r) \in {"pick", "connect", "reclose"} => ctx[r].st = "init"
        /\ Next0(r) \in Busy \ {"hostget"} => mode[r] # "direct"
    BY DEF Next0, Busy
  <2> QED BY <2>1, <2>2 DEF Busy
<1>2. UNCHANGED <<overlap, balance, last, load, hload, ctx, link, mode, status, back, main, mh, short, lost>>
  BY DEF Arrive, Take, Wake, Goto, conf, loads, mains, bounds
<1>3. con'[r] = l /\ con' \in [Reqs -> Busy \cup {"idle", "queued", "wait", "fdwait", "done"}]
      /\ \A q \in Reqs : q # r => con'[q] = con[q]
  BY <1>1 DEF ReqInv, ReqTypes
<1>4. ReqTypes'
  BY <1>2, <1>3 DEF ReqInv, ReqTypes
<1>5. LoadCovers'
  BY <1>2, LoadsSame DEF ReqInv
<1>6. Sound(r)'
  <2>1. mode[r] # "direct" => mode[r] = "gw"
    BY DEF ReqInv, ReqTypes
  <2> QED BY <1>1, <1>2, <1>3, <2>1 DEF ReqInv, Requests, Sound
<1> QED BY <1>2, <1>3, <1>4, <1>5, <1>6, RequestStep

LEMMA HostGetStep ==
  ASSUME ReqInv, NEW r \in Reqs, HostGet(r)
  PROVE  ReqInv' /\ NotResent
<1>1. /\ UNCHANGED <<overlap, balance, load, link, main, mh, short>>
      /\ con[r] = "hostget" /\ ctx[r].host = NoHost /\ ctx[r].proc = NoProc /\ ctx[r].st \notin {"write", "read"}
      /\ link[r] = "none"
  <2>1. UNCHANGED <<overlap, balance, load, link, main, mh, short>> /\ con[r] = "hostget"
    BY DEF HostGet, conf, mains
  <2>2. ctx[r].host = NoHost /\ ctx[r].st \notin {"write", "read"} /\ link[r] = "none" /\ (ctx[r].proc # NoProc => ctx[r].host = ctx[r].proc[1])
    BY <2>1 DEF ReqInv, Requests, Sound
  <2>3. ctx[r].proc = NoProc
    BY <2>2, Contexts, Numbers DEF ReqInv
  <2> QED BY <2>1, <2>2, <2>3
<1>2. last' \in Hosts \cup {0}
  <2>1. \A h \in Hosts : First({h}) = h
    <3>1. \A h \in Hosts : First({h}) \in {h}
      BY FirstIs
    <3> QED BY <3>1
  <2>2. \E S : (S = {} \/ \E h \in Hosts : S = {h})
           /\ last' = IF balance = "round-robin" /\ Hosts # {1} THEN (IF S = {} THEN 0 ELSE First(S)) ELSE last
    BY ChosenIs DEF HostGet, ReqInv
  <2> QED BY <2>1, <2>2 DEF ReqInv, ReqTypes
<1>3. /\ con' \in [Reqs -> Busy \cup {"idle", "queued", "wait", "fdwait", "done"}]
      /\ back' \in [Reqs -> {"worker", "main"}] /\ con'[r] \in {"queued", "pick", "done"}
      /\ \A q \in Reqs : q # r => con'[q] = con[q]
  <2>1. PICK l \in {"pick", "done"} : Return(r, l)
    BY DEF HostGet
  <2>2. con' = [con EXCEPT ![r] = IF back[r] = "main" THEN "queued" ELSE l] /\ back' = [back EXCEPT ![r] = "worker"]
    BY <2>1 DEF Return
  <2> QED BY <2>2 DEF ReqInv, ReqTypes, Busy
<1>4. ASSUME NEW h \in Hosts, NEW k \in Losses(HRacing(r, h)), hload' = [hload EXCEPT ![h] = @ + 1 - k], lost' = lost - k,
             Become(r, [ctx[r] EXCEPT !.host = h, !.proc = NoProc, !.st = "init"]),
             mode' = [mode EXCEPT ![r] = "gw"], UNCHANGED status
      PROVE  ReqInv' /\ NotResent
  <2> DEFINE c == [ctx[r] EXCEPT !.host = h, !.proc = NoProc, !.st = "init"]
  <2>1. c \in CtxSet /\ c.host = h /\ c.proc = NoProc /\ c.st = "init"
    BY Contexts DEF ReqInv, CtxSet
  <2>2. ctx' = [ctx EXCEPT ![r] = c]
    BY <1>4 DEF Become
  <2> HIDE DEF c
  <2>3. HRacing(r, h) \in BOOLEAN
    BY DEF HRacing
  <2>4. k \in {0, 1} /\ (~overlap => k = 0) /\ lost' \in Nat
    BY <1>4, <2>3, Losing DEF ReqInv
  <2>5. LoadCovers' /\ hload' \in [Hosts -> Int]
    <3>1. k \in Int /\ UNCHANGED <<overlap, load>> /\ ReqTypes /\ LoadCovers
      BY <1>1, <2>4 DEF ReqInv
    <3> QED BY <1>1, <1>4, <2>1, <2>2, <2>4, <3>1, LoadsTaken
  <2>6. ctx' \in [Reqs -> CtxSet] /\ ctx'[r] = c /\ \A q \in Reqs : q # r => ctx'[q] = ctx[q]
    BY <2>1, <2>2 DEF ReqInv, ReqTypes
  <2>7. mode' \in [Reqs -> {"direct", "gw"}] /\ mode'[r] = "gw" /\ \A q \in Reqs : q # r => mode'[q] = mode[q]
    BY <1>4 DEF ReqInv, ReqTypes
  <2>8. ReqTypes'
    BY <1>1, <1>2, <1>3, <1>4, <2>4, <2>5, <2>6, <2>7 DEF ReqInv, ReqTypes
  <2>9. Sound(r)'
    BY <1>3, <2>1, <2>6, <2>7 DEF Sound
  <2> QED BY <1>1, <1>3, <2>5, <2>6, <2>7, <2>8, <2>9, RequestStep
<1>5. ASSUME status' = [status EXCEPT ![r] = 503], mode' = [mode EXCEPT ![r] = "direct"],
             Return(r, "done"), UNCHANGED <<hload, lost, ctx>>
      PROVE  ReqInv' /\ NotResent
  <2>1. mode' \in [Reqs -> {"direct", "gw"}] /\ mode'[r] = "direct" /\ \A q \in Reqs : q # r => mode'[q] = mode[q]
    BY <1>5 DEF ReqInv, ReqTypes
  <2>2. status' \in [Reqs -> {0, 400, 500, 503}]
    BY <1>5 DEF ReqInv, ReqTypes
  <2>3. ReqTypes'
    BY <1>1, <1>2, <1>3, <1>5, <2>1, <2>2 DEF ReqInv, ReqTypes
  <2>4. LoadCovers'
    BY <1>1, <1>5, LoadsSame DEF ReqInv
  <2>5. Sound(r)'
    <3>1. con'[r] \in {"queued", "done"}
      BY <1>5 DEF Return, ReqInv, ReqTypes
    <3> QED BY <1>1, <1>5, <2>1, <3>1 DEF Sound, Busy
  <2> QED BY <1>1, <1>3, <1>5, <2>1, <2>3, <2>4, <2>5, RequestStep
<1>6. OnDemand \subseteq Hosts
  BY GatewayAssumption DEF OnDemand
<1> QED BY <1>4, <1>5, <1>6, ChosenIs DEF HostGet, ReqInv

LEMMA PickStep ==
  ASSUME ReqInv, PoolTypes, NEW r \in Reqs, Pick(r)
  PROVE  ReqInv' /\ NotResent
<1>1. /\ UNCHANGED <<overlap, balance, last, hload, link, mode, status, main, mh>>
      /\ con[r] = "pick"
  BY DEF Pick, conf, mains
<1>2. ctx[r].st \notin {"write", "read"} /\ ctx[r] \in CtxSet /\ mode[r] = "gw"
  BY <1>1, Contexts DEF ReqInv, Requests, Sound, Busy
<1>3. \A s \in RunningOf(ctx[r].host) : s \in Slots /\ s[1] = ctx[r].host /\ proc[s].pid \in Pids \cup {NoPid}
  BY DEF RunningOf, FirstOf, PoolTypes, ProcSet
<1>4. /\ con' \in [Reqs -> Busy \cup {"idle", "queued", "wait", "fdwait", "done"}]
      /\ back' \in [Reqs -> {"worker", "main"}] /\ con'[r] \in {"queued", "connect", "fdwait", "error"}
      /\ \A q \in Reqs : q # r => con'[q] = con[q]
  <2>1. PICK l \in {"queued", "connect", "fdwait", "error"} :
          con' = [con EXCEPT ![r] = l] /\ back' \in {back, [back EXCEPT ![r] = "worker"]}
    BY DEF Pick, Return, Goto
  <2> QED BY <2>1 DEF ReqInv, ReqTypes, Busy
<1>5. short' \in Nat
  <2>1. short' = short \/ (short > 0 /\ short' = short - 1)
    BY DEF Pick
  <2> QED BY <2>1 DEF ReqInv, ReqTypes
<1>6. ASSUME NEW c \in CtxSet, ctx' = [ctx EXCEPT ![r] = c], c.host = ctx[r].host, c.st = ctx[r].st,
             c.proc # NoProc => c.host = c.proc[1],
             load' \in [Slots -> Int], lost' \in Nat,
             \A s \in Slots : ~overlap => load'[s] = load[s] + IF s = c.proc THEN 1 ELSE 0
      PROVE  ReqInv' /\ NotResent
  <2>1. ctx' \in [Reqs -> CtxSet] /\ ctx'[r] = c /\ \A q \in Reqs : q # r => ctx'[q] = ctx[q]
    BY <1>6 DEF ReqInv, ReqTypes
  <2>2. ReqTypes'
    BY <1>1, <1>4, <1>5, <1>6, <2>1 DEF ReqInv, ReqTypes
  <2>3. LoadCovers'
    <3>1. ReqTypes /\ LoadCovers /\ UNCHANGED <<overlap, hload>>
      BY <1>1 DEF ReqInv
    <3> QED BY <1>6, <3>1, LoadsPicked
  <2>4. Sound(r)'
    BY <1>1, <1>2, <1>4, <1>6, <2>1 DEF ReqInv, Requests, Sound
  <2>5. ctx[r].st \notin {"write", "read"}
    BY <1>2
  <2> QED BY <1>1, <1>4, <2>1, <2>2, <2>3, <2>4, <2>5, RequestStep
<1>7. ASSUME Become(r, [ctx[r] EXCEPT !.proc = NoProc]), UNCHANGED <<load, lost>>
      PROVE  ReqInv' /\ NotResent
  <2> DEFINE c == [ctx[r] EXCEPT !.proc = NoProc]
  <2>1. c \in CtxSet /\ c.proc = NoProc /\ c.host = ctx[r].host /\ c.st = ctx[r].st
    BY <1>2 DEF CtxSet
  <2>2. ctx' = [ctx EXCEPT ![r] = c]
    BY <1>7 DEF Become
  <2> HIDE DEF c
  <2>3. load' \in [Slots -> Int] /\ lost' \in Nat
    BY <1>7 DEF ReqInv, ReqTypes
  <2>4. \A s \in Slots : load'[s] = load[s] + IF s = c.proc THEN 1 ELSE 0
    BY <1>7, <2>1, Numbers DEF ReqInv, ReqTypes
  <2> QED BY <1>6, <2>1, <2>2, <2>3, <2>4
<1>8. ASSUME NEW s \in RunningOf(ctx[r].host), NEW k \in Losses(PRacing(r, s)),
             load' = [load EXCEPT ![s] = @ + 1 - k], lost' = lost - k,
             \/ Become(r, [ctx[r] EXCEPT !.proc = s])
             \/ Become(r, [ctx[r] EXCEPT !.proc = s, !.pid = IF proc[s].local THEN proc[s].pid ELSE @])
      PROVE  ReqInv' /\ NotResent
  <2>1. s \in Slots /\ s[1] = ctx[r].host /\ proc[s].pid \in Pids \cup {NoPid}
    BY <1>3
  <2>2. PICK c \in CtxSet : /\ ctx' = [ctx EXCEPT ![r] = c] /\ c.proc = s
                            /\ c.host = ctx[r].host /\ c.st = ctx[r].st
    <3> DEFINE c1 == [ctx[r] EXCEPT !.proc = s]
               pid == IF proc[s].local THEN proc[s].pid ELSE ctx[r].pid
               c2 == [ctx[r] EXCEPT !.proc = s, !.pid = pid]
    <3>1. c1 \in CtxSet /\ c1.proc = s /\ c1.host = ctx[r].host /\ c1.st = ctx[r].st
      BY <1>2, <2>1 DEF CtxSet
    <3>2. pid \in Pids \cup {NoPid}
      BY <2>1, Contexts DEF ReqInv
    <3>3. c2 \in CtxSet /\ c2.proc = s /\ c2.host = ctx[r].host /\ c2.st = ctx[r].st
      <4> HIDE DEF pid
      <4> QED BY <1>2, <2>1, <3>2 DEF CtxSet
    <3>4. ctx' = [ctx EXCEPT ![r] = c1] \/ ctx' = [ctx EXCEPT ![r] = c2]
      BY <1>8 DEF Become
    <3> HIDE DEF c1, c2
    <3> QED BY <3>1, <3>3, <3>4
  <2>3. PRacing(r, s) \in BOOLEAN
    BY DEF PRacing
  <2>4. k \in {0, 1} /\ (~overlap => k = 0) /\ lost' \in Nat
    BY <1>8, <2>3, Losing DEF ReqInv
  <2>5. load' \in [Slots -> Int] /\ load'[s] = load[s] + 1 - k /\ (\A t \in Slots : t # s => load'[t] = load[t])
        /\ load \in [Slots -> Int]
    BY <1>8, <2>1, <2>4 DEF ReqInv, ReqTypes
  <2>6. \A t \in Slots : ~overlap => load'[t] = load[t] + IF t = c.proc THEN 1 ELSE 0
    BY <2>2, <2>4, <2>5
  <2> QED BY <1>6, <2>1, <2>2, <2>4, <2>5, <2>6
<1> QED BY <1>7, <1>8 DEF Pick

\* steps of a request that keeps its host and process
LEMMA KeepingStep ==
  ASSUME ReqInv, NEW r \in Reqs, NEW c \in CtxSet, NEW l, ctx' = [ctx EXCEPT ![r] = c],
         c.host = ctx[r].host, c.proc = ctx[r].proc,
         UNCHANGED <<overlap, balance, last, load, hload, mode, main, mh, short, lost>>,
         con' = [con EXCEPT ![r] = l], l \in {"wait", "queued", "write", "done", "error", "reclose", "close"},
         l = "reclose" => c.st \notin {"write", "read"},
         link' \in [Reqs -> {"none", "pending", "up", "down"}], status' \in [Reqs -> {0, 400, 500, 503}],
         back' \in [Reqs -> {"worker", "main"}],
         c.st = "none" \/ mode[r] = "direct" => link'[r] = "none" /\ c.st \notin {"write", "read"},
         l \in Busy => mode[r] = "gw", \A q \in Reqs : q # r => link'[q] = link[q],
         ctx[r].st \in {"write", "read"} => c.st \in {"write", "read"}
  PROVE  ReqInv' /\ NotResent
<1>1. ctx' \in [Reqs -> CtxSet] /\ ctx'[r] = c /\ \A q \in Reqs : q # r => ctx'[q] = ctx[q]
  BY DEF ReqInv, ReqTypes
<1>2. /\ con' \in [Reqs -> Busy \cup {"idle", "queued", "wait", "fdwait", "done"}] /\ con'[r] = l
      /\ \A q \in Reqs : q # r => con'[q] = con[q]
  BY DEF ReqInv, ReqTypes, Busy
<1>3. ReqTypes'
  BY <1>1, <1>2 DEF ReqInv, ReqTypes
<1>4. LoadCovers'
  <2>1. \A q \in Reqs : ctx'[q].host = ctx[q].host /\ ctx'[q].proc = ctx[q].proc
    BY <1>1
  <2> QED BY <2>1, LoadsSame DEF ReqInv
<1>5. Sound(r)'
  BY <1>1, <1>2 DEF ReqInv, Requests, Sound
<1> QED BY <1>1, <1>2, <1>3, <1>4, <1>5, RequestStep

LEMMA WriteErrorStep ==
  ASSUME ReqInv, NEW r \in Reqs, WriteError(r)
  PROVE  ReqInv' /\ NotResent
<1>1. /\ UNCHANGED <<overlap, balance, last, load, hload, link, mode, status, back, main, mh, short, lost>>
      /\ con[r] = "error"
  BY DEF WriteError, Goto, conf, loads, mains, bounds
<1>2. /\ mode[r] = "gw" /\ ctx[r] \in CtxSet /\ ctx[r].rec \in Nat
      /\ link' \in [Reqs -> {"none", "pending", "up", "down"}] /\ status' \in [Reqs -> {0, 400, 500, 503}]
      /\ back' \in [Reqs -> {"worker", "main"}] /\ (ctx[r].st = "none" => link[r] = "none")
  BY <1>1, Contexts DEF ReqInv, ReqTypes, Requests, Sound, Busy
<1>3. CASE /\ ctx[r].st \in {"init", "delayed"} /\ ctx[r].rec < MaxReconnects
           /\ Become(r, [ctx[r] EXCEPT !.rec = @ + 1]) /\ Goto(r, "reclose")
  <2> DEFINE c == [ctx[r] EXCEPT !.rec = @ + 1]
  <2>1. c \in CtxSet /\ c.host = ctx[r].host /\ c.proc = ctx[r].proc /\ c.st = ctx[r].st
    <3>1. ctx[r].rec + 1 \in 0 .. MaxReconnects
      BY <1>2, <1>3, GatewayAssumption
    <3> QED BY <1>2, <3>1 DEF CtxSet
  <2>2. ctx' = [ctx EXCEPT ![r] = c] /\ con' = [con EXCEPT ![r] = "reclose"]
    BY <1>3 DEF Become, Goto
  <2> HIDE DEF c
  <2> QED BY <1>1, <1>2, <1>3, <2>1, <2>2, KeepingStep
<1>4. CASE Goto(r, "close") /\ UNCHANGED ctx
  <2>1. ctx' = [ctx EXCEPT ![r] = ctx[r]] /\ con' = [con EXCEPT ![r] = "close"]
    BY <1>4 DEF Goto, ReqInv, ReqTypes
  <2> QED BY <1>1, <1>2, <2>1, KeepingStep, ZenonT(40)
<1> QED BY <1>3, <1>4 DEF WriteError

LEMMA WriteStep ==
  ASSUME ReqInv, NEW r \in Reqs, Write(r)
  PROVE  ReqInv' /\ NotResent
<1>1. /\ UNCHANGED <<overlap, balance, last, load, hload, link, mode, status, main, mh, short, lost>>
      /\ con[r] = "write"
  BY DEF Write, conf, loads, mains, bounds
<1>2. /\ mode[r] = "gw" /\ ctx[r] \in CtxSet
      /\ link' \in [Reqs -> {"none", "pending", "up", "down"}] /\ status' \in [Reqs -> {0, 400, 500, 503}]
      /\ (ctx[r].st = "none" => link[r] = "none")
  BY <1>1, Contexts DEF ReqInv, ReqTypes, Requests, Sound, Busy
<1>3. ASSUME NEW n \in 0 .. ctx[r].left, link[r] = "up",
             Become(r, [ctx[r] EXCEPT !.left = n, !.st = IF n = 0 THEN "read" ELSE @]), Return(r, "wait")
      PROVE  ReqInv' /\ NotResent
  <2> DEFINE c == [ctx[r] EXCEPT !.left = n, !.st = IF n = 0 THEN "read" ELSE @]
             l == IF back[r] = "main" THEN "queued" ELSE "wait"
  <2>1. c \in CtxSet /\ c.host = ctx[r].host /\ c.proc = ctx[r].proc /\ c.st \in {ctx[r].st, "read"}
    <3>1. n \in 0 .. Units
      BY <1>3, Contexts, GatewayAssumption DEF ReqInv
    <3> QED BY <1>2, <3>1 DEF CtxSet
  <2>2. ctx' = [ctx EXCEPT ![r] = c] /\ con' = [con EXCEPT ![r] = l] /\ back' = [back EXCEPT ![r] = "worker"]
    BY <1>3 DEF Become, Return
  <2>3. back' \in [Reqs -> {"worker", "main"}]
    BY <2>2 DEF ReqInv, ReqTypes
  <2>4. l \in {"wait", "queued"} /\ l \notin Busy
    BY DEF Busy
  <2> HIDE DEF c, l
  <2>5. /\ ctx[r].st \in {"write", "read"} => c.st \in {"write", "read"}
        /\ c.st = "none" \/ mode[r] = "direct" => link'[r] = "none" /\ c.st \notin {"write", "read"}
    BY <1>1, <1>2, <2>1
  <2> QED BY <1>1, <1>2, <2>1, <2>2, <2>3, <2>4, <2>5, KeepingStep
<1>4. CASE Goto(r, "error") /\ UNCHANGED ctx
  <2>1. ctx' = [ctx EXCEPT ![r] = ctx[r]] /\ con' = [con EXCEPT ![r] = "error"]
        /\ back' \in [Reqs -> {"worker", "main"}]
    BY <1>4 DEF Goto, ReqInv, ReqTypes
  <2> QED BY <1>1, <1>2, <2>1, KeepingStep, ZenonT(40)
<1> QED BY <1>3, <1>4 DEF Write

\* the two ends of a connect, for a request that is not sent yet
LEMMA ConnectedStep ==
  ASSUME ReqInv, NEW r \in Reqs, NEW c \in CtxSet, NEW who \in {"worker", "main"}, Connected(r, c, who),
         c.host = ctx[r].host, c.proc = ctx[r].proc, mode[r] = "gw", ctx[r].st \notin {"write", "read"},
         UNCHANGED <<overlap, balance, last, load, hload, mode, main, mh, short, lost>>
  PROVE  ReqInv' /\ NotResent
<1>1. link' \in [Reqs -> {"none", "pending", "up", "down"}] /\ \A q \in Reqs : q # r => link'[q] = link[q]
  BY DEF Connected, ReqInv, ReqTypes
<1>2. CASE /\ Become(r, [c EXCEPT !.st = "write", !.left = Units])
           /\ con' = [con EXCEPT ![r] = "write"] /\ back' = [back EXCEPT ![r] = who] /\ UNCHANGED status
  <2> DEFINE d == [c EXCEPT !.st = "write", !.left = Units]
  <2>1. d \in CtxSet /\ d.host = c.host /\ d.proc = c.proc /\ d.st = "write"
    <3>1. Units \in 0 .. Units
      BY GatewayAssumption
    <3> QED BY <3>1 DEF CtxSet
  <2>2. /\ ctx' = [ctx EXCEPT ![r] = d] /\ back' \in [Reqs -> {"worker", "main"}]
        /\ status' \in [Reqs -> {0, 400, 500, 503}]
    BY <1>2 DEF Become, ReqInv, ReqTypes
  <2> HIDE DEF d
  <2>3. /\ d.host = ctx[r].host /\ d.proc = ctx[r].proc
        /\ "write" \in {"wait", "queued", "write", "done", "error", "reclose", "close"}
        /\ "write" = "reclose" => d.st \notin {"write", "read"}
        /\ "write" \in Busy => mode[r] = "gw"
        /\ ctx[r].st \in {"write", "read"} => d.st \in {"write", "read"}
        /\ d.st = "none" \/ mode[r] = "direct" => link'[r] = "none" /\ d.st \notin {"write", "read"}
    BY <2>1
  <2> QED BY <1>1, <1>2, <2>1, <2>2, <2>3, KeepingStep, ZenonT(40)
<1>3. CASE /\ Become(r, [c EXCEPT !.st = "prepare"]) /\ back' = [back EXCEPT ![r] = "worker"]
           /\ con' = [con EXCEPT ![r] = IF who = "main" THEN "queued" ELSE "done"]
           /\ status' = [status EXCEPT ![r] = 400]
  <2> DEFINE d == [c EXCEPT !.st = "prepare"]
             l == IF who = "main" THEN "queued" ELSE "done"
  <2>1. d \in CtxSet /\ d.host = c.host /\ d.proc = c.proc /\ d.st = "prepare"
    BY DEF CtxSet
  <2>2. /\ ctx' = [ctx EXCEPT ![r] = d] /\ back' \in [Reqs -> {"worker", "main"}]
        /\ status' \in [Reqs -> {0, 400, 500, 503}] /\ con' = [con EXCEPT ![r] = l]
    BY <1>3 DEF Become, ReqInv, ReqTypes
  <2>3. l \in {"queued", "done"} /\ l \notin Busy
    BY DEF Busy
  <2> HIDE DEF d, l
  <2>4. /\ d.host = ctx[r].host /\ d.proc = ctx[r].proc
        /\ l \in {"wait", "queued", "write", "done", "error", "reclose", "close"}
        /\ l = "reclose" => d.st \notin {"write", "read"}
        /\ l \in Busy => mode[r] = "gw"
        /\ ctx[r].st \in {"write", "read"} => d.st \in {"write", "read"}
        /\ d.st = "none" \/ mode[r] = "direct" => link'[r] = "none" /\ d.st \notin {"write", "read"}
    BY <2>1, <2>3
  <2> QED BY <1>1, <2>1, <2>2, <2>4, KeepingStep, ZenonT(40)
<1> QED BY <1>2, <1>3 DEF Connected

LEMMA RefusedStep ==
  ASSUME ReqInv, NEW r \in Reqs, NEW who \in {"worker", "main"}, Refused(r, ctx[r], who), mode[r] = "gw",
         UNCHANGED <<overlap, balance, last, load, hload, mode, main, mh, short, lost>>
  PROVE  ReqInv' /\ NotResent
<1>1. /\ UNCHANGED <<ctx, status, link>> /\ con' = [con EXCEPT ![r] = "error"] /\ back' = [back EXCEPT ![r] = who]
  BY DEF Refused
<1>2. /\ ctx' = [ctx EXCEPT ![r] = ctx[r]] /\ ctx[r] \in CtxSet /\ back' \in [Reqs -> {"worker", "main"}]
      /\ status' \in [Reqs -> {0, 400, 500, 503}] /\ link' \in [Reqs -> {"none", "pending", "up", "down"}]
      /\ (ctx[r].st = "none" => link[r] = "none")
  BY <1>1, Contexts DEF ReqInv, ReqTypes, Requests, Sound
<1>3. /\ con' = [con EXCEPT ![r] = "error"]
      /\ ctx[r].host = ctx[r].host /\ ctx[r].proc = ctx[r].proc
      /\ ctx[r].st \in {"write", "read"} => ctx[r].st \in {"write", "read"}
      /\ "error" \in {"wait", "queued", "write", "done", "error", "reclose", "close"}
      /\ "error" = "reclose" => ctx[r].st \notin {"write", "read"}
      /\ "error" \in Busy => mode[r] = "gw"
      /\ \A q \in Reqs : q # r => link'[q] = link[q]
      /\ ctx[r].st = "none" \/ mode[r] = "direct" => link'[r] = "none" /\ ctx[r].st \notin {"write", "read"}
  BY <1>1, <1>2
<1> QED BY <1>2, <1>3, KeepingStep, ZenonT(40)

LEMMA ConnectStep ==
  ASSUME ReqInv, NEW r \in Reqs, Connect(r)
  PROVE  ReqInv' /\ NotResent
<1>1. /\ UNCHANGED <<overlap, balance, last, load, hload, mode, main, mh, short, lost>>
      /\ con[r] = "connect"
  BY DEF Connect, conf, loads, mains, bounds
<1>2. /\ mode[r] = "gw" /\ ctx[r] \in CtxSet /\ ctx[r].st \notin {"write", "read"} /\ back[r] \in {"worker", "main"}
  BY <1>1, Contexts DEF ReqInv, ReqTypes, Requests, Sound, Busy
<1>3. CASE Refused(r, ctx[r], back[r])
  BY <1>1, <1>2, <1>3, RefusedStep
<1>4. CASE Connected(r, [ctx[r] EXCEPT !.rec = 0], back[r])
  <2> DEFINE c == [ctx[r] EXCEPT !.rec = 0]
  <2>1. c \in CtxSet /\ c.host = ctx[r].host /\ c.proc = ctx[r].proc
    <3>1. 0 \in 0 .. MaxReconnects
      BY GatewayAssumption
    <3> QED BY <1>2, <3>1 DEF CtxSet
  <2>2. Connected(r, c, back[r])
    BY <1>4
  <2> HIDE DEF c
  <2> QED BY <1>1, <1>2, <2>1, <2>2, ConnectedStep
<1>5. CASE /\ Become(r, [ctx[r] EXCEPT !.st = "delayed"])
           /\ link' = [link EXCEPT ![r] = "pending"] /\ Return(r, "wait") /\ UNCHANGED <<pool, status>>
  <2> DEFINE c == [ctx[r] EXCEPT !.st = "delayed"]
             l == IF back[r] = "main" THEN "queued" ELSE "wait"
  <2>1. c \in CtxSet /\ c.host = ctx[r].host /\ c.proc = ctx[r].proc /\ c.st = "delayed"
    BY <1>2 DEF CtxSet
  <2>2. /\ ctx' = [ctx EXCEPT ![r] = c] /\ con' = [con EXCEPT ![r] = l] /\ back' \in [Reqs -> {"worker", "main"}]
        /\ status' \in [Reqs -> {0, 400, 500, 503}] /\ link' \in [Reqs -> {"none", "pending", "up", "down"}]
        /\ \A q \in Reqs : q # r => link'[q] = link[q]
    BY <1>5 DEF Become, Return, ReqInv, ReqTypes
  <2>3. l \in {"queued", "wait"} /\ l \notin Busy
    BY DEF Busy
  <2> HIDE DEF c, l
  <2>4. /\ c.host = ctx[r].host /\ c.proc = ctx[r].proc
        /\ l \in {"wait", "queued", "write", "done", "error", "reclose", "close"}
        /\ l = "reclose" => c.st \notin {"write", "read"}
        /\ l \in Busy => mode[r] = "gw"
        /\ ctx[r].st \in {"write", "read"} => c.st \in {"write", "read"}
        /\ c.st = "none" \/ mode[r] = "direct" => link'[r] = "none" /\ c.st \notin {"write", "read"}
    BY <1>2, <2>1, <2>3
  <2> QED BY <1>1, <2>1, <2>2, <2>4, KeepingStep, ZenonT(40)
<1> QED BY <1>3, <1>4, <1>5 DEF Connect

LEMMA EventOutStep ==
  ASSUME ReqInv, NEW r \in Reqs, EventOut(r)
  PROVE  ReqInv' /\ NotResent
<1>1. /\ UNCHANGED <<overlap, balance, last, load, hload, mode, main, mh, short, lost>>
      /\ link[r] # "none"
  BY DEF EventOut, conf, loads, mains, bounds
<1>2. mode[r] = "gw" /\ ctx[r] \in CtxSet
  BY <1>1, Contexts DEF ReqInv, ReqTypes, Requests, Sound
<1>3. CASE /\ ctx[r].st = "write" /\ con' = [con EXCEPT ![r] = "write"] /\ back' = [back EXCEPT ![r] = "main"]
           /\ UNCHANGED <<ctx, status, link, pool>>
  <2>1. /\ ctx' = [ctx EXCEPT ![r] = ctx[r]] /\ back' \in [Reqs -> {"worker", "main"}]
        /\ status' \in [Reqs -> {0, 400, 500, 503}] /\ link' \in [Reqs -> {"none", "pending", "up", "down"}]
    BY <1>3 DEF ReqInv, ReqTypes
  <2> QED BY <1>1, <1>2, <1>3, <2>1, KeepingStep
<1>4. CASE ctx[r].st = "delayed" /\ Refused(r, ctx[r], "main")
  BY <1>1, <1>2, <1>4, RefusedStep
<1>5. CASE ctx[r].st = "delayed" /\ Connected(r, ctx[r], "main")
  BY <1>1, <1>2, <1>5, ConnectedStep
<1> QED BY <1>3, <1>4, <1>5 DEF EventOut

\* steps that close the socket to the backend and give the loads back
LEMMA ReleasingStep ==
  ASSUME ReqInv, NEW r \in Reqs, NEW c \in CtxSet, NEW l, NEW m, BackendClose(r), ctx' = [ctx EXCEPT ![r] = c],
         c.host = NoHost, c.proc = NoProc, c.st \notin {"write", "read"},
         c = NoCtx \/ ctx[r].st \notin {"write", "read"},
         UNCHANGED <<overlap, balance, last, main, mh, short>>,
         con' = [con EXCEPT ![r] = l], l \in {"hostget", "queued", "done", "idle"},
         mode' = [mode EXCEPT ![r] = m], m \in {"direct", "gw"}, status' \in [Reqs -> {0, 400, 500, 503}],
         back' \in [Reqs -> {"worker", "main"}]
  PROVE  ReqInv' /\ NotResent
<1>1. /\ LoadCovers' /\ load' \in [Slots -> Int] /\ hload' \in [Hosts -> Int] /\ lost' \in Nat
      /\ link' = [link EXCEPT ![r] = "none"]
  BY LoadsReleased, ZenonT(40) DEF ReqInv
<1>2. ctx' \in [Reqs -> CtxSet] /\ ctx'[r] = c /\ \A q \in Reqs : q # r => ctx'[q] = ctx[q]
  BY DEF ReqInv, ReqTypes
<1>3. /\ con' \in [Reqs -> Busy \cup {"idle", "queued", "wait", "fdwait", "done"}] /\ con'[r] = l
      /\ \A q \in Reqs : q # r => con'[q] = con[q]
  BY DEF ReqInv, ReqTypes, Busy
<1>4. /\ mode' \in [Reqs -> {"direct", "gw"}] /\ mode'[r] = m /\ \A q \in Reqs : q # r => mode'[q] = mode[q]
      /\ link' \in [Reqs -> {"none", "pending", "up", "down"}] /\ link'[r] = "none"
      /\ \A q \in Reqs : q # r => link'[q] = link[q]
  BY <1>1 DEF ReqInv, ReqTypes
<1>5. ReqTypes'
  BY <1>1, <1>2, <1>3, <1>4 DEF ReqInv, ReqTypes
<1>6. Sound(r)'
  BY <1>2, <1>3, <1>4 DEF Sound, Busy
<1> QED BY <1>1, <1>2, <1>3, <1>4, <1>5, <1>6, RequestStep

LEMMA NothingHeld ==
  /\ NoCtx \in CtxSet /\ NoCtx.host = NoHost /\ NoCtx.proc = NoProc /\ NoCtx.st = "none"
<1>1. 0 \in 0 .. MaxReconnects /\ 0 \in 0 .. Units
  BY GatewayAssumption
<1> QED BY <1>1 DEF NoCtx, CtxSet

LEMMA RecloseStep ==
  ASSUME ReqInv, NEW r \in Reqs, Reclose(r)
  PROVE  ReqInv' /\ NotResent
<1> DEFINE c == [ctx[r] EXCEPT !.host = NoHost, !.proc = NoProc]
<1>1. /\ UNCHANGED <<overlap, balance, last, mode, status, main, mh, short>> /\ BackendClose(r)
      /\ con[r] = "reclose" /\ con' = [con EXCEPT ![r] = "hostget"] /\ ctx' = [ctx EXCEPT ![r] = c] /\ UNCHANGED back
  BY DEF Reclose, Goto, Become, conf, mains
<1>2. c \in CtxSet /\ c.host = NoHost /\ c.proc = NoProc /\ c.st = ctx[r].st
  BY Contexts DEF CtxSet, ReqInv
<1>3. ctx[r].st \notin {"write", "read"}
  BY <1>1 DEF ReqInv, Requests, Sound
<1>4. /\ mode' = [mode EXCEPT ![r] = mode[r]] /\ mode[r] \in {"direct", "gw"}
      /\ status' \in [Reqs -> {0, 400, 500, 503}] /\ back' \in [Reqs -> {"worker", "main"}]
  BY <1>1 DEF ReqInv, ReqTypes
<1> HIDE DEF c
<1> QED BY <1>1, <1>2, <1>3, <1>4, ReleasingStep, ZenonT(40)

LEMMA CloseStep ==
  ASSUME ReqInv, NEW r \in Reqs, Close(r) \/ EventHup(r)
  PROVE  ReqInv' /\ NotResent
<1>1. /\ UNCHANGED <<overlap, balance, last, main, mh, short>> /\ BackendClose(r)
      /\ ctx' = [ctx EXCEPT ![r] = NoCtx] /\ mode' = [mode EXCEPT ![r] = "direct"]
  BY DEF Close, EventHup, Become, conf, mains
<1>2. PICK l \in {"hostget", "queued", "done", "idle"} : con' = [con EXCEPT ![r] = l]
  <2>1. Close(r) => con' = [con EXCEPT ![r] = IF back[r] = "main" THEN "queued" ELSE "done"]
    BY DEF Close, Return
  <2>2. EventHup(r) => con' = [con EXCEPT ![r] = "queued"]
    BY DEF EventHup, Goto
  <2> QED BY <2>1, <2>2
<1>3. status' \in [Reqs -> {0, 400, 500, 503}] /\ back' \in [Reqs -> {"worker", "main"}]
  <2>1. back' = [back EXCEPT ![r] = "worker"] \/ back' = back
    BY DEF Close, EventHup, Return, Goto
  <2>2. PICK z \in {0, 400, 500, 503} : status' = [status EXCEPT ![r] = z]
    BY DEF Close, EventHup
  <2> QED BY <2>1, <2>2 DEF ReqInv, ReqTypes
<1>4. NoCtx.st \notin {"write", "read"}
  BY NothingHeld
<1> QED BY <1>1, <1>2, <1>3, <1>4, NothingHeld, ReleasingStep

LEMMA ResetStep ==
  ASSUME ReqInv, NEW r \in Reqs, Reset(r)
  PROVE  ReqInv' /\ NotResent
<1>1. /\ UNCHANGED <<overlap, balance, last, main, mh, short, back>> /\ con' = [con EXCEPT ![r] = "idle"]
      /\ ctx' = [ctx EXCEPT ![r] = NoCtx] /\ mode' = [mode EXCEPT ![r] = "direct"]
      /\ status' = [status EXCEPT ![r] = 0]
      /\ IF ctx[r] = NoCtx THEN UNCHANGED <<load, hload, link, lost>> ELSE BackendClose(r)
  BY DEF Reset, Goto, Become, conf, mains, loads
<1>2. status' \in [Reqs -> {0, 400, 500, 503}] /\ back' \in [Reqs -> {"worker", "main"}]
  BY <1>1 DEF ReqInv, ReqTypes
<1>3. NoCtx.st \notin {"write", "read"}
  BY NothingHeld
<1>4. CASE ctx[r] # NoCtx
  BY <1>1, <1>2, <1>3, <1>4, NothingHeld, ReleasingStep
<1>5. CASE ctx[r] = NoCtx
  <2>1. ctx' = ctx
    BY <1>1, <1>5 DEF ReqInv, ReqTypes
  <2>2. link[r] = "none"
    BY <1>5, NothingHeld DEF ReqInv, Requests, Sound
  <2>3. /\ con' \in [Reqs -> Busy \cup {"idle", "queued", "wait", "fdwait", "done"}] /\ con'[r] = "idle"
        /\ \A q \in Reqs : q # r => con'[q] = con[q] /\ mode'[q] = mode[q]
        /\ mode' \in [Reqs -> {"direct", "gw"}] /\ mode'[r] = "direct"
    BY <1>1 DEF ReqInv, ReqTypes
  <2>4. ReqTypes'
    BY <1>1, <1>2, <1>5, <2>1, <2>3 DEF ReqInv, ReqTypes
  <2>5. LoadCovers'
    BY <1>1, <1>5, <2>1, LoadsSame DEF ReqInv
  <2>6. Sound(r)'
    BY <1>1, <1>5, <2>1, <2>2, <2>3, NothingHeld DEF Sound, Busy
  <2> QED BY <1>1, <1>3, <1>5, <2>1, <2>3, <2>4, <2>5, <2>6, RequestStep
<1> QED BY <1>4, <1>5

LEMMA OtherStep ==
  ASSUME ReqInv,
         \/ Tick \/ Trigger \/ UNCHANGED vars
         \/ \E p \in Pids : WaitPid(p) \/ KidDies(p)
         \/ \E h \in Hosts : UpChanges(h)
         \/ \E r \in Reqs : BackendCloses(r)
  PROVE  ReqInv' /\ NotResent
<1>1. UNCHANGED <<overlap, balance, last, load, hload, ctx, con, mode, status, back, short, lost>>
  <2>1. Tick \/ Trigger => UNCHANGED <<overlap, balance, last, load, hload, ctx, con, mode, status, back, short, lost>>
    BY DEF Tick, Trigger, TriggerRestart, TriggerGrow, TriggerShrink, TriggerUnused, conf, loads, bounds
  <2>2. UNCHANGED vars => UNCHANGED <<overlap, balance, last, load, hload, ctx, con, mode, status, back, short, lost>>
    BY DEF vars
  <2>3. \A p \in Pids : WaitPid(p) \/ KidDies(p) =>
          UNCHANGED <<overlap, balance, last, load, hload, ctx, con, mode, status, back, short, lost>>
    BY DEF WaitPid, KidDies, conf, loads, bounds
  <2>4. \A h \in Hosts : UpChanges(h) =>
          UNCHANGED <<overlap, balance, last, load, hload, ctx, con, mode, status, back, short, lost>>
    BY DEF UpChanges, conf, loads, bounds
  <2>5. \A r \in Reqs : BackendCloses(r) =>
          UNCHANGED <<overlap, balance, last, load, hload, ctx, con, mode, status, back, short, lost>>
    BY DEF BackendCloses, conf, loads, bounds
  <2> QED BY <2>1, <2>2, <2>3, <2>4, <2>5
<1>2. link' = link \/ \E R : Drop(R)
  <2>1. Tick \/ Trigger => link' = link
    BY DEF Tick, Trigger, TriggerRestart, TriggerGrow, TriggerShrink, TriggerUnused
  <2>2. UNCHANGED vars => link' = link
    BY DEF vars
  <2>3. \A p \in Pids : (WaitPid(p) => link' = link) /\ (KidDies(p) => \E R : Drop(R))
    BY DEF WaitPid, KidDies
  <2>4. \A h \in Hosts : UpChanges(h) => link' = link \/ \E R : Drop(R)
    BY DEF UpChanges
  <2>5. \A r \in Reqs : BackendCloses(r) => \E R : Drop(R)
    BY DEF BackendCloses
  <2> QED BY <2>1, <2>2, <2>3, <2>4, <2>5
<1>3. link' \in [Reqs -> {"none", "pending", "up", "down"}] /\ \A q \in Reqs : link[q] = "none" => link'[q] = "none"
  BY <1>2 DEF Drop, ReqInv, ReqTypes
<1>4. main' \in {"loop", "restart", "grow", "shrink", "unused"} /\ mh' \in Hosts
  <2>1. 1 \in Hosts
    BY GatewayAssumption DEF Hosts
  <2>2. Tick \/ Trigger => main' \in {"loop", "restart", "grow", "shrink", "unused"} /\ mh' \in Hosts
    <3>1. NextHost => main' \in {"restart", "loop"} /\ mh' \in Hosts
      BY <2>1 DEF NextHost
    <3>2. mh \in Hosts
      BY DEF ReqInv, ReqTypes
    <3>3. Tick => main' = "restart" /\ mh' = 1
      BY DEF Tick
    <3>4. TriggerRestart => NextHost \/ (main' = "grow" /\ mh' = mh)
      BY DEF TriggerRestart
    <3>5. /\ TriggerGrow => main' = "shrink" /\ mh' = mh
          /\ TriggerShrink => main' = "unused" /\ mh' = mh
          /\ TriggerUnused => NextHost
      BY DEF TriggerGrow, TriggerShrink, TriggerUnused
    <3> QED BY <2>1, <3>1, <3>2, <3>3, <3>4, <3>5 DEF Trigger
  <2>3. ~(Tick \/ Trigger) => UNCHANGED <<main, mh>>
    BY DEF vars, WaitPid, KidDies, UpChanges, BackendCloses, mains
  <2> QED BY <2>2, <2>3 DEF ReqInv, ReqTypes
<1> QED BY <1>1, <1>3, <1>4, RequestsSame DEF loads

-----------------------------------------------------------------------------
(* The processes of a host, and their children *)

LEMMA SlotSets ==
  ASSUME NEW S \in SUBSET Slots
  PROVE  IsFiniteSet(S) /\ Cardinality(S) \in Nat
BY Finite, FS_Subset, FS_CardinalityType

\* one process structure joins, leaves or stays in a set of them
LEMMA SlotCounts ==
  ASSUME NEW S \in SUBSET Slots, NEW s
  PROVE  /\ Cardinality(S) \in Nat
         /\ Cardinality(S \cup {s}) = IF s \in S THEN Cardinality(S) ELSE Cardinality(S) + 1
         /\ Cardinality(S \ {s}) = IF s \in S THEN Cardinality(S) - 1 ELSE Cardinality(S)
BY SlotSets, FS_AddElement, FS_RemoveElement

\* what a new start leaves behind, for a process without a child
LEMMA SpawnedIs ==
  ASSUME PoolTypes, NEW s \in Slots, NEW pr \in ProcSet, pr.pid = NoPid, NEW o \in Spawned(s, pr)
  PROVE  /\ o.pr \in ProcSet /\ o.pr.in = pr.in /\ o.ok \in BOOLEAN
         /\ o.ok => o.pr.st = "running"
         /\ ~o.ok => o.pr.st = pr.st /\ fails > 0
         /\ \/ o.kids = {} /\ o.pr.pid = NoPid
            \/ /\ o.ok /\ o.pr.pid \in Pids /\ o.kids = {o.pr.pid} /\ o.pr.pid[1] = s
               /\ kid[o.pr.pid] = "none" /\ o.pr.local
<1>1. ASSUME NEW p \in NewPids(s),
             o = [pr |-> [pr EXCEPT !.pid = p, !.local = TRUE, !.idle = 0, !.st = "running"], kids |-> {p}, ok |-> TRUE]
      PROVE  /\ o.pr \in ProcSet /\ o.pr.in = pr.in /\ o.ok /\ o.pr.st = "running"
             /\ o.pr.pid \in Pids /\ o.kids = {o.pr.pid} /\ o.pr.pid[1] = s
             /\ kid[o.pr.pid] = "none" /\ o.pr.local
  <2>1. p \in Pids /\ p[1] = s /\ kid[p] = "none"
    BY DEF NewPids
  <2> QED BY <1>1, <2>1 DEF ProcSet
<1>2. ASSUME o = [pr |-> [pr EXCEPT !.pid = NoPid, !.local = FALSE, !.st = "running"], kids |-> {}, ok |-> TRUE]
      PROVE  o.pr \in ProcSet /\ o.pr.in = pr.in /\ o.ok /\ o.pr.st = "running" /\ o.kids = {} /\ o.pr.pid = NoPid
  BY <1>2 DEF ProcSet
<1>3. ASSUME fails > 0,
             NEW p \in {pr, [pr EXCEPT !.wait = 0], [pr EXCEPT !.wait = 0, !.local = TRUE, !.idle = 0]},
             o = [pr |-> p, kids |-> {}, ok |-> FALSE]
      PROVE  o.pr \in ProcSet /\ o.pr.in = pr.in /\ ~o.ok /\ o.pr.st = pr.st /\ o.kids = {} /\ o.pr.pid = NoPid
  <2>1. CASE p = pr
    BY <1>3, <2>1
  <2>2. CASE p = [pr EXCEPT !.wait = 0]
    <3>1. p \in ProcSet /\ p.in = pr.in /\ p.st = pr.st /\ p.pid = NoPid
      BY <2>2 DEF ProcSet
    <3> QED BY <1>3, <3>1
  <2>3. CASE p = [pr EXCEPT !.wait = 0, !.local = TRUE, !.idle = 0]
    <3>1. 0 \in Int /\ 0 \in Nat /\ TRUE \in BOOLEAN
      OBVIOUS
    <3>2. p \in ProcSet /\ p.in = pr.in /\ p.st = pr.st /\ p.pid = NoPid
      BY <2>3, <3>1 DEF ProcSet
    <3> QED BY <1>3, <3>2
  <2> QED BY <1>3, <2>1, <2>2, <2>3
<1>4. \/ \E p \in NewPids(s) :
           o = [pr |-> [pr EXCEPT !.pid = p, !.local = TRUE, !.idle = 0, !.st = "running"], kids |-> {p}, ok |-> TRUE]
      \/ o = [pr |-> [pr EXCEPT !.pid = NoPid, !.local = FALSE, !.st = "running"], kids |-> {}, ok |-> TRUE]
      \/ fails > 0 /\ \E p \in {pr, [pr EXCEPT !.wait = 0], [pr EXCEPT !.wait = 0, !.local = TRUE, !.idle = 0]} :
           o = [pr |-> p, kids |-> {}, ok |-> FALSE]
  BY DEF Spawned
<1>5. o.ok \in BOOLEAN
  <2>1. CASE \E p \in NewPids(s) :
               o = [pr |-> [pr EXCEPT !.pid = p, !.local = TRUE, !.idle = 0, !.st = "running"], kids |-> {p}, ok |-> TRUE]
    BY <2>1
  <2>2. CASE o = [pr |-> [pr EXCEPT !.pid = NoPid, !.local = FALSE, !.st = "running"], kids |-> {}, ok |-> TRUE]
    BY <2>2
  <2>3. CASE \E p : o = [pr |-> p, kids |-> {}, ok |-> FALSE]
    BY <2>3
  <2> QED BY <1>4, <2>1, <2>2, <2>3
<1> QED BY <1>1, <1>2, <1>3, <1>4, <1>5

LEMMA ReapedIs ==
  ASSUME NEW pr \in ProcSet, NEW again \in BOOLEAN
  PROVE  /\ Reaped(pr, again) \in ProcSet /\ Reaped(pr, again).in = pr.in /\ Reaped(pr, again).pid = NoPid
         /\ Reaped(pr, again).st = "died" /\ Reaped(pr, again).local = pr.local
<1> DEFINE w == IF again THEN 0 ELSE pr.wait
<1>1. w \in Int
  BY DEF ProcSet
<1>2. Reaped(pr, again) = [pr EXCEPT !.st = "died", !.pid = NoPid, !.wait = w]
  BY DEF Reaped, ProcSet
<1> HIDE DEF w
<1> QED BY <1>1, <1>2 DEF ProcSet

\* The structure s has changed from proc[s] to pr, with the children in kids new and those in
\* ended reaped.
Follows(s, pr, kids, ended) ==
  /\ pr \in ProcSet
  /\ pr.st = "running" => pr.in = "first"
  /\ \/ /\ pr.pid = proc[s].pid /\ kids = {} /\ ended = {}
        /\ pr.pid # NoPid => pr.local /\ pr.st # "died" /\ pr.in # "none"
     \/ pr.pid = NoPid /\ proc[s].pid # NoPid /\ kids = {} /\ ended = {proc[s].pid}
     \/ /\ ended = {proc[s].pid} \ {NoPid} /\ pr.pid \in Pids /\ kids = {pr.pid} /\ pr.pid[1] = s
        /\ kid[pr.pid] = "none" /\ pr.local /\ pr.st = "running"

\* structures that change so, each with its own children, are sound again
LEMMA StructuresStep ==
  ASSUME PoolTypes, Structures, proc' \in [Slots -> ProcSet],
         NEW K \in [Slots -> SUBSET Pids], NEW E \in [Slots -> SUBSET Pids],
         \A s \in Slots : Follows(s, proc'[s], K[s], E[s]),
         kid' \in [Pids -> {"none", "alive", "dead"}],
         \A p \in Pids : /\ p \in K[p[1]] => kid'[p] # "none"
                         /\ p \notin K[p[1]] /\ p \in E[p[1]] => kid'[p] = "none"
                         /\ p \notin K[p[1]] /\ p \notin E[p[1]] => (kid'[p] = "none" <=> kid[p] = "none")
  PROVE  Structures'
<1>1. ASSUME NEW s \in Slots
      PROVE  /\ proc'[s].pid # NoPid =>
                  /\ proc'[s].pid[1] = s /\ proc'[s].local /\ kid'[proc'[s].pid] # "none"
                  /\ proc'[s].st # "died" /\ proc'[s].in # "none"
             /\ proc'[s].st = "running" => proc'[s].in = "first"
  <2>1. proc'[s].st = "running" => proc'[s].in = "first"
    BY DEF Follows
  <2>2. ASSUME proc'[s].pid # NoPid
        PROVE  /\ proc'[s].pid[1] = s /\ proc'[s].local /\ kid'[proc'[s].pid] # "none"
               /\ proc'[s].st # "died" /\ proc'[s].in # "none"
    <3> DEFINE p == proc'[s].pid
    <3>1. p \in Pids
      BY <2>2 DEF ProcSet
    <3>2. CASE /\ p = proc[s].pid /\ K[s] = {} /\ E[s] = {}
               /\ proc'[s].local /\ proc'[s].st # "died" /\ proc'[s].in # "none"
      <4>1. p[1] = s /\ kid[p] # "none"
        BY <2>2, <3>2 DEF Structures
      <4>2. kid'[p] # "none"
        BY <3>1, <3>2, <4>1
      <4> QED BY <3>2, <4>1, <4>2
    <3>3. CASE K[s] = {p} /\ p[1] = s /\ proc'[s].local /\ proc'[s].st = "running"
      <4>1. kid'[p] # "none"
        BY <3>1, <3>3
      <4> QED BY <2>1, <3>3, <4>1
    <3> QED BY <2>2, <3>2, <3>3 DEF Follows
  <2> QED BY <2>1, <2>2
<1>2. ASSUME NEW p \in Pids, kid'[p] # "none" PROVE proc'[p[1]].pid = p
  <2> DEFINE s == p[1]
  <2>1. s \in Slots
    BY Numbers
  <2>2. CASE p \in K[s]
    BY <2>1, <2>2 DEF Follows
  <2>3. CASE p \notin K[s]
    <3>1. p \notin E[s] /\ kid[p] # "none"
      BY <1>2, <2>3
    <3>2. proc[s].pid = p /\ p # NoPid
      BY <3>1, Numbers DEF Structures
    <3> QED BY <2>1, <3>1, <3>2 DEF Follows
  <2> QED BY <2>2, <2>3
<1> QED BY <1>1, <1>2 DEF Structures

LEMMA Staying ==
  ASSUME PoolTypes, Structures, NEW s \in Slots
  PROVE  Follows(s, proc[s], {}, {}) /\ proc[s] \in ProcSet
BY DEF Follows, Structures, PoolTypes

\* the count of running processes of the host after s has become pr
Moved(s, pr) ==
  IF proc[s].st # "running" /\ pr.st = "running" THEN [active EXCEPT ![s[1]] = @ + 1]
  ELSE IF proc[s].st = "running" /\ pr.st # "running" THEN [active EXCEPT ![s[1]] = @ - 1]
  ELSE active

\* one process structure changes: the lists of the hosts
LEMMA ListsAfter ==
  ASSUME PoolTypes, NEW s \in Slots, NEW pr, proc' = [proc EXCEPT ![s] = pr], NEW h
  PROVE  /\ FirstOf(h)' = (IF s[1] = h /\ pr.in = "first" THEN FirstOf(h) \cup {s} ELSE FirstOf(h) \ {s})
         /\ RunningOf(h)' = (IF s[1] = h /\ pr.in = "first" /\ pr.st = "running"
                             THEN RunningOf(h) \cup {s} ELSE RunningOf(h) \ {s})
         /\ FirstOf(h) \in SUBSET Slots /\ RunningOf(h) \in SUBSET Slots
         /\ s \in FirstOf(h) <=> s[1] = h /\ proc[s].in = "first"
         /\ s \in RunningOf(h) <=> s[1] = h /\ proc[s].in = "first" /\ proc[s].st = "running"
<1>1. proc'[s] = pr /\ \A t \in Slots : t # s => proc'[t] = proc[t]
  BY DEF PoolTypes
<1>2. FirstOf(h)' = (IF s[1] = h /\ pr.in = "first" THEN FirstOf(h) \cup {s} ELSE FirstOf(h) \ {s})
  BY <1>1 DEF FirstOf
<1>3. RunningOf(h)' = (IF s[1] = h /\ pr.in = "first" /\ pr.st = "running"
                       THEN RunningOf(h) \cup {s} ELSE RunningOf(h) \ {s})
  BY <1>1 DEF FirstOf, RunningOf
<1> QED BY <1>2, <1>3 DEF FirstOf, RunningOf

\* one process structure changes and what the host counts as running with it
LEMMA OneChanges ==
  ASSUME PoolInv, NEW s \in Slots, NEW pr, NEW kids \in SUBSET Pids, NEW ended \in SUBSET Pids,
         Follows(s, pr, kids, ended), proc' = [proc EXCEPT ![s] = pr], active' = Moved(s, pr),
         kid' \in [Pids -> {"none", "alive", "dead"}],
         \A p \in Pids : /\ p \in kids => kid'[p] # "none"
                         /\ p \notin kids /\ p \in ended => kid'[p] = "none"
                         /\ p \notin kids /\ p \notin ended => (kid'[p] = "none" <=> kid[p] = "none"),
         num' \in [Hosts -> Int], fails' \in Nat, up' \in [Hosts -> BOOLEAN]
  PROVE  PoolTypes' /\ Structures' /\ ActiveCounts'
<1>0. PoolTypes /\ Structures /\ ActiveCounts /\ pr \in ProcSet
  BY DEF PoolInv, Follows
<1>1. proc' \in [Slots -> ProcSet] /\ proc'[s] = pr /\ \A t \in Slots : t # s => proc'[t] = proc[t]
  BY <1>0 DEF PoolTypes
<1>2. active' \in [Hosts -> Int]
  BY <1>0, Numbers DEF PoolTypes, Moved
<1>3. PoolTypes'
  BY <1>1, <1>2 DEF PoolTypes
<1>4. Structures'
  <2> DEFINE K == [t \in Slots |-> IF t = s THEN kids ELSE {}]
             E == [t \in Slots |-> IF t = s THEN ended ELSE {}]
  <2>1. K \in [Slots -> SUBSET Pids] /\ E \in [Slots -> SUBSET Pids]
    OBVIOUS
  <2>2. ASSUME NEW t \in Slots PROVE Follows(t, proc'[t], K[t], E[t])
    BY <1>0, <1>1, Staying
  <2>3. \A p \in Pids : (p \in kids => p[1] = s) /\ (p \in ended => p[1] = s)
    BY <1>0 DEF Follows, Structures
  <2>4. ASSUME NEW p \in Pids
        PROVE  (p \in K[p[1]] <=> p \in kids) /\ (p \in E[p[1]] <=> p \in ended)
    BY <2>3, Numbers
  <2>5. \A p \in Pids : /\ p \in K[p[1]] => kid'[p] # "none"
                        /\ p \notin K[p[1]] /\ p \in E[p[1]] => kid'[p] = "none"
                        /\ p \notin K[p[1]] /\ p \notin E[p[1]] => (kid'[p] = "none" <=> kid[p] = "none")
    <3> HIDE DEF K, E
    <3> QED BY <2>4
  <2> HIDE DEF K, E
  <2> QED BY <1>0, <1>1, <2>1, <2>2, <2>5, StructuresStep
<1>5. ASSUME NEW h \in Hosts PROVE active'[h] = Cardinality(RunningOf(h)')
  <2>1. s[1] \in Hosts /\ active[h] = Cardinality(RunningOf(h)) /\ active \in [Hosts -> Int]
    BY <1>0, Numbers DEF ActiveCounts, PoolTypes
  <2>2. /\ RunningOf(h)' = (IF s[1] = h /\ pr.in = "first" /\ pr.st = "running"
                            THEN RunningOf(h) \cup {s} ELSE RunningOf(h) \ {s})
        /\ RunningOf(h) \in SUBSET Slots
        /\ s \in RunningOf(h) <=> s[1] = h /\ proc[s].in = "first" /\ proc[s].st = "running"
    BY <1>0, ListsAfter, ZenonT(40)
  <2>3. (pr.st = "running" => pr.in = "first") /\ (proc[s].st = "running" => proc[s].in = "first")
    BY <1>0 DEF Follows, Structures
  <2>4. /\ Cardinality(RunningOf(h)) \in Nat
        /\ Cardinality(RunningOf(h) \cup {s}) =
             IF s \in RunningOf(h) THEN Cardinality(RunningOf(h)) ELSE Cardinality(RunningOf(h)) + 1
        /\ Cardinality(RunningOf(h) \ {s}) =
             IF s \in RunningOf(h) THEN Cardinality(RunningOf(h)) - 1 ELSE Cardinality(RunningOf(h))
    BY <2>2, SlotCounts, Zenon
  <2>5. active'[h] = IF s[1] = h /\ proc[s].st # "running" /\ pr.st = "running" THEN active[h] + 1
                     ELSE IF s[1] = h /\ proc[s].st = "running" /\ pr.st # "running" THEN active[h] - 1
                     ELSE active[h]
    BY <2>1 DEF Moved
  <2> QED BY <2>1, <2>2, <2>3, <2>4, <2>5
<1> QED BY <1>3, <1>4, <1>5 DEF ActiveCounts

\* the lists stay as they are
LEMMA NumSame ==
  ASSUME NumCovers, num' = num, \A s \in Slots : proc'[s].in = proc[s].in
  PROVE  NumCovers'
<1>1. \A h : FirstOf(h)' = FirstOf(h)
  BY DEF FirstOf
<1> QED BY <1>1 DEF NumCovers

\* a process structure changes its state only, keeping its list and its child
LEMMA KeepsChild ==
  ASSUME PoolInv, NEW s \in Slots, NEW pr \in ProcSet, proc' = [proc EXCEPT ![s] = pr],
         pr.in = proc[s].in, pr.pid = proc[s].pid, pr.local = proc[s].local,
         pr.st = proc[s].st \/ pr.st = "overloaded", active' = Moved(s, pr), UNCHANGED <<num, kid, fails, up>>
  PROVE  PoolInv'
<1>1. Follows(s, pr, {}, {})
  BY DEF PoolInv, Structures, Follows
<1>2. {} \in SUBSET Pids /\ \A p \in Pids : p \notin {}
  OBVIOUS
<1>3. /\ kid' \in [Pids -> {"none", "alive", "dead"}] /\ num' \in [Hosts -> Int]
      /\ fails' \in Nat /\ up' \in [Hosts -> BOOLEAN] /\ \A p \in Pids : kid'[p] = kid[p]
  BY DEF PoolInv, PoolTypes
<1>4. PoolTypes' /\ Structures' /\ ActiveCounts'
  BY <1>1, <1>2, <1>3, OneChanges
<1>5. \A t \in Slots : proc'[t].in = proc[t].in
  BY DEF PoolInv, PoolTypes
<1>6. NumCovers'
  BY <1>5, NumSame DEF PoolInv
<1> QED BY <1>4, <1>6 DEF PoolInv

LEMMA PoolSame ==
  ASSUME PoolInv, UNCHANGED <<proc, num, active, fails, up>>, kid' \in [Pids -> {"none", "alive", "dead"}],
         \A p \in Pids : kid'[p] = "none" <=> kid[p] = "none"
  PROVE  PoolInv'
<1>1. PoolTypes' /\ ActiveCounts' /\ NumCovers'
  BY DEF PoolInv, PoolTypes, ActiveCounts, NumCovers, RunningOf, FirstOf
<1>2. Structures'
  BY DEF PoolInv, PoolTypes, ProcSet, Structures
<1> QED BY <1>1, <1>2 DEF PoolInv

LEMMA ConnectErrorStep ==
  ASSUME PoolInv, NEW s \in Slots \cup {NoProc}, NEW pid, ConnectError(s, pid), UNCHANGED up
  PROVE  PoolInv'
<1>0. PoolTypes /\ DisableTime \in Int
  BY GatewayAssumption DEF PoolInv
<1>1. UNCHANGED <<num, kid, fails>>
  BY DEF ConnectError
<1>2. CASE proc' = proc /\ active' = active
  BY <1>0, <1>1, <1>2, PoolSame DEF PoolTypes
<1>3. CASE /\ proc' = [proc EXCEPT ![s].st = "overloaded", ![s].wait = DisableTime]
           /\ active' = Fewer(s[1], s)
  <2>1. CASE s \in Slots
    <3> DEFINE pr == [proc[s] EXCEPT !.st = "overloaded", !.wait = DisableTime]
    <3>0. proc[s] \in ProcSet
      BY <1>0, <2>1 DEF PoolTypes
    <3>1. pr \in ProcSet /\ pr.in = proc[s].in /\ pr.pid = proc[s].pid /\ pr.local = proc[s].local /\ pr.st = "overloaded"
      BY <1>0, <3>0 DEF ProcSet
    <3>2. proc' = [proc EXCEPT ![s] = pr]
      BY <1>0, <1>3, <2>1 DEF PoolTypes
    <3>3. active' = Moved(s, pr)
      BY <1>3, <3>1 DEF Fewer, Moved
    <3> HIDE DEF pr
    <3> QED BY <1>1, <2>1, <3>1, <3>2, <3>3, KeepsChild
  <2>2. CASE s = NoProc
    <3>1. proc' = proc
      BY <1>0, <1>3, <2>2, Numbers DEF PoolTypes
    <3>2. active' = active
      BY <1>0, <1>3, <2>2, Numbers DEF PoolTypes, Fewer, NoHost
    <3> QED BY <1>0, <1>1, <3>1, <3>2, PoolSame DEF PoolTypes
  <2> QED BY <2>1, <2>2
<1> QED BY <1>2, <1>3 DEF ConnectError

LEMMA ConnectedPool ==
  ASSUME PoolInv, NEW r, NEW c, NEW who, c.proc \in Slots \cup {NoProc}, Connected(r, c, who), UNCHANGED up
  PROVE  PoolInv'
<1> DEFINE s == c.proc
<1>0. PoolTypes /\ proc' = [proc EXCEPT ![s].idle = 0] /\ UNCHANGED <<num, active, kid, fails>>
  BY DEF PoolInv, Connected
<1>1. CASE s \in Slots
  <2> DEFINE pr == [proc[s] EXCEPT !.idle = 0]
  <2>0. proc[s] \in ProcSet
    BY <1>0, <1>1 DEF PoolTypes
  <2>1. /\ pr \in ProcSet /\ pr.in = proc[s].in /\ pr.pid = proc[s].pid /\ pr.local = proc[s].local
        /\ pr.st = proc[s].st
    BY <2>0 DEF ProcSet
  <2>2. proc' = [proc EXCEPT ![s] = pr]
    BY <1>0, <1>1 DEF PoolTypes
  <2>3. active' = Moved(s, pr)
    BY <1>0, <2>1 DEF Moved
  <2> HIDE DEF pr, s
  <2> QED BY <1>0, <1>1, <2>1, <2>2, <2>3, KeepsChild
<1>2. CASE s = NoProc
  <2>1. proc' = proc
    BY <1>0, <1>2, Numbers DEF PoolTypes
  <2> QED BY <1>0, <2>1, PoolSame DEF PoolTypes
<1> QED BY <1>1, <1>2

LEMMA ShrinkPool ==
  ASSUME PoolInv, mh \in Hosts, TriggerShrink
  PROVE  PoolInv'
<1>0. PoolTypes /\ Structures /\ NumCovers /\ UNCHANGED <<kid, fails, up>>
  BY DEF PoolInv, TriggerShrink
<1>1. CASE UNCHANGED <<proc, num, active>>
  BY <1>0, <1>1, PoolSame DEF PoolTypes
<1>2. ASSUME NEW s \in IdleOf(mh),
             proc' = [proc EXCEPT ![s].in = "unused", ![s].st = "killed", ![s].wait = -1, ![s].idle = 0],
             active' = Fewer(mh, s), num' = [num EXCEPT ![mh] = @ - 1]
      PROVE  PoolInv'
  <2> DEFINE pr == [proc[s] EXCEPT !.in = "unused", !.st = "killed", !.wait = -1, !.idle = 0]
  <2>1. s \in Slots /\ s[1] = mh /\ proc[s].in = "first" /\ proc[s].pid # NoPid /\ s \in FirstOf(mh)
    BY DEF IdleOf, FirstOf
  <2>2. proc[s] \in ProcSet
    BY <1>0, <2>1 DEF PoolTypes
  <2>3. -1 \in Int /\ 0 \in Nat
    OBVIOUS
  <2>4. /\ pr \in ProcSet /\ pr.in = "unused" /\ pr.pid = proc[s].pid /\ pr.local = proc[s].local
        /\ pr.st = "killed"
    BY <2>2, <2>3 DEF ProcSet
  <2>5. proc' = [proc EXCEPT ![s] = pr]
    BY <1>0, <1>2, <2>1 DEF PoolTypes
  <2>6. active' = Moved(s, pr)
    BY <1>2, <2>1, <2>4 DEF Fewer, Moved
  <2> HIDE DEF pr
  <2>7. Follows(s, pr, {}, {})
    BY <1>0, <2>1, <2>4 DEF Follows, Structures
  <2>8. {} \in SUBSET Pids /\ \A p \in Pids : p \notin {}
    OBVIOUS
  <2>9. /\ kid' \in [Pids -> {"none", "alive", "dead"}] /\ num' \in [Hosts -> Int]
        /\ fails' \in Nat /\ up' \in [Hosts -> BOOLEAN] /\ \A p \in Pids : kid'[p] = kid[p]
    BY <1>0, <1>2 DEF PoolTypes
  <2>10. PoolTypes' /\ Structures' /\ ActiveCounts'
    BY <2>1, <2>5, <2>6, <2>7, <2>8, <2>9, OneChanges
  <2>11. ASSUME NEW h \in Spawning PROVE Cardinality(FirstOf(h)') <= num'[h] /\ num'[h] <= MaxProcs
    <3>1. h \in Hosts /\ MaxProcs \in Nat /\ num[h] \in Int
      BY <1>0, GatewayAssumption DEF PoolTypes
    <3>2. /\ FirstOf(h)' = FirstOf(h) \ {s} /\ FirstOf(h) \in SUBSET Slots
          /\ s \in FirstOf(h) <=> h = mh
      BY <1>0, <2>1, <2>4, <2>5, ListsAfter
    <3>3. /\ Cardinality(FirstOf(h)) \in Nat
          /\ Cardinality(FirstOf(h) \ {s}) =
               IF s \in FirstOf(h) THEN Cardinality(FirstOf(h)) - 1 ELSE Cardinality(FirstOf(h))
      BY <3>2, SlotCounts, Zenon
    <3>4. num'[h] = IF h = mh THEN num[h] - 1 ELSE num[h]
      BY <1>0, <1>2, <3>1 DEF PoolTypes
    <3>5. Cardinality(FirstOf(h)) <= num[h] /\ num[h] <= MaxProcs
      BY <1>0 DEF NumCovers
    <3> QED BY <3>1, <3>2, <3>3, <3>4, <3>5
  <2> QED BY <2>10, <2>11 DEF PoolInv, NumCovers
<1> QED BY <1>1, <1>2 DEF TriggerShrink

LEMMA SpawnPool ==
  ASSUME PoolInv, NEW h \in Hosts, ProcSpawn(h), num[h] < MaxProcs, UNCHANGED up
  PROVE  PoolInv'
<1>0. PoolTypes /\ Structures /\ NumCovers
  BY DEF PoolInv
<1>1. CASE UNCHANGED pool
  BY <1>0, <1>1, PoolSame DEF PoolTypes, pool
<1>2. ASSUME NEW s \in Idle(h) \cup Fresh(h), NEW o \in Spawned(s, proc[s]),
             num' = [num EXCEPT ![h] = @ + 1],
             proc' = [proc EXCEPT ![s] = [o.pr EXCEPT !.in = IF o.ok THEN "first" ELSE "unused"]],
             kid' = [p \in Pids |-> IF p \in o.kids THEN "alive" ELSE kid[p]],
             active' = IF o.ok THEN [active EXCEPT ![h] = @ + 1] ELSE active,
             fails' = IF o.ok THEN fails ELSE fails - 1
      PROVE  PoolInv'
  <2> DEFINE l == IF o.ok THEN "first" ELSE "unused"
             pr == [o.pr EXCEPT !.in = l]
  <2>1. s \in Slots /\ s[1] = h /\ proc[s].in # "first"
    BY DEF Idle, Fresh, UnusedOf
  <2>2. proc[s] \in ProcSet /\ proc[s].pid = NoPid /\ proc[s].st # "running"
    <3>1. proc[s] \in ProcSet /\ proc[s].st # "running"
      BY <1>0, <2>1 DEF PoolTypes, Structures
    <3>2. CASE s \in Idle(h)
      BY <3>1, <3>2 DEF Idle
    <3>3. CASE s \in Fresh(h)
      BY <1>0, <2>1, <3>1, <3>3 DEF Fresh, Structures
    <3> QED BY <3>1, <3>2, <3>3
  <2>3. /\ o.pr \in ProcSet /\ o.ok \in BOOLEAN
        /\ o.ok => o.pr.st = "running"
        /\ ~o.ok => o.pr.st = proc[s].st /\ fails > 0
        /\ \/ o.kids = {} /\ o.pr.pid = NoPid
           \/ /\ o.ok /\ o.pr.pid \in Pids /\ o.kids = {o.pr.pid} /\ o.pr.pid[1] = s
              /\ kid[o.pr.pid] = "none" /\ o.pr.local
    BY <1>0, <2>1, <2>2, SpawnedIs
  <2>4. l \in {"first", "unused"}
    OBVIOUS
  <2>5. /\ pr \in ProcSet /\ pr.in = l /\ pr.st = o.pr.st /\ pr.pid = o.pr.pid /\ pr.local = o.pr.local
    <3> HIDE DEF l
    <3> QED BY <2>3, <2>4 DEF ProcSet
  <2>6. proc' = [proc EXCEPT ![s] = pr]
    BY <1>2
  <2>7. pr.st = "running" <=> o.ok
    BY <2>2, <2>3, <2>5
  <2>8. active' = Moved(s, pr)
    <3> HIDE DEF pr
    <3> QED BY <1>2, <2>1, <2>2, <2>7 DEF Moved
  <2>9. pr.in = "first" <=> o.ok
    BY <2>5
  <2> HIDE DEF pr, l
  <2>0. PICK N : N = {}
    OBVIOUS
  <2>10. o.kids \in SUBSET Pids /\ N \in SUBSET Pids /\ {proc[s].pid} \ {NoPid} = N
    BY <2>0, <2>2, <2>3
  <2>11. Follows(s, pr, o.kids, N)
    BY <2>0, <2>2, <2>3, <2>5, <2>7, <2>9, <2>10 DEF Follows
  <2>12. /\ kid' \in [Pids -> {"none", "alive", "dead"}]
         /\ \A p \in Pids : /\ p \in o.kids => kid'[p] # "none"
                            /\ p \notin o.kids /\ p \in N => kid'[p] = "none"
                            /\ p \notin o.kids /\ p \notin N => (kid'[p] = "none" <=> kid[p] = "none")
    BY <1>0, <1>2, <2>0 DEF PoolTypes
  <2>13. num' \in [Hosts -> Int] /\ fails' \in Nat /\ up' \in [Hosts -> BOOLEAN]
    <3>1. num' \in [Hosts -> Int] /\ up' \in [Hosts -> BOOLEAN]
      BY <1>0, <1>2 DEF PoolTypes
    <3>2. fails' \in Nat
      BY <1>0, <1>2, <2>3 DEF PoolTypes
    <3> QED BY <3>1, <3>2
  <2>14. PoolTypes' /\ Structures' /\ ActiveCounts'
    <3>1. PICK q, kids : q = pr /\ kids = o.kids
      OBVIOUS
    <3>2. kids \in SUBSET Pids /\ N \in SUBSET Pids
      BY <2>10, <3>1
    <3>3. Follows(s, q, kids, N)
      BY <2>11, <3>1
    <3>4. proc' = [proc EXCEPT ![s] = q]
      BY <2>6, <3>1
    <3>5. active' = Moved(s, q)
      BY <2>8, <3>1
    <3>6. \A p \in Pids : /\ p \in kids => kid'[p] # "none"
                          /\ p \notin kids /\ p \in N => kid'[p] = "none"
                          /\ p \notin kids /\ p \notin N => (kid'[p] = "none" <=> kid[p] = "none")
      BY <2>12, <3>1
    <3> QED BY <2>1, <2>12, <2>13, <3>2, <3>3, <3>4, <3>5, <3>6, OneChanges, ZenonT(40)
  <2>15. ASSUME NEW g \in Spawning PROVE Cardinality(FirstOf(g)') <= num'[g] /\ num'[g] <= MaxProcs
    <3>1. g \in Hosts /\ MaxProcs \in Nat /\ num[g] \in Int
      BY <1>0, GatewayAssumption DEF PoolTypes
    <3>2. /\ FirstOf(g)' = (IF h = g /\ o.ok THEN FirstOf(g) \cup {s} ELSE FirstOf(g) \ {s})
          /\ FirstOf(g) \in SUBSET Slots /\ s \notin FirstOf(g)
      <4>1. /\ FirstOf(g)' = (IF s[1] = g /\ pr.in = "first" THEN FirstOf(g) \cup {s} ELSE FirstOf(g) \ {s})
            /\ FirstOf(g) \in SUBSET Slots
            /\ s \in FirstOf(g) <=> s[1] = g /\ proc[s].in = "first"
        BY <1>0, <2>1, <2>6, ListsAfter
      <4> QED BY <2>1, <2>9, <4>1
    <3>3. /\ Cardinality(FirstOf(g)) \in Nat
          /\ Cardinality(FirstOf(g) \cup {s}) =
               IF s \in FirstOf(g) THEN Cardinality(FirstOf(g)) ELSE Cardinality(FirstOf(g)) + 1
          /\ Cardinality(FirstOf(g) \ {s}) =
               IF s \in FirstOf(g) THEN Cardinality(FirstOf(g)) - 1 ELSE Cardinality(FirstOf(g))
      BY <3>2, SlotCounts, Zenon
    <3>4. num'[g] = IF g = h THEN num[g] + 1 ELSE num[g]
      BY <1>0, <1>2, <3>1 DEF PoolTypes
    <3>5. Cardinality(FirstOf(g)) <= num[g] /\ num[g] <= MaxProcs
      BY <1>0 DEF NumCovers
    <3> QED BY <3>1, <3>2, <3>3, <3>4, <3>5
  <2> QED BY <2>14, <2>15 DEF PoolInv, NumCovers
<1>3. UNCHANGED pool \/ \E s \in Idle(h) \cup Fresh(h) : \E o \in Spawned(s, proc[s]) :
         /\ num' = [num EXCEPT ![h] = @ + 1]
         /\ proc' = [proc EXCEPT ![s] = [o.pr EXCEPT !.in = IF o.ok THEN "first" ELSE "unused"]]
         /\ kid' = [p \in Pids |-> IF p \in o.kids THEN "alive" ELSE kid[p]]
         /\ active' = (IF o.ok THEN [active EXCEPT ![h] = @ + 1] ELSE active)
         /\ fails' = (IF o.ok THEN fails ELSE fails - 1)
  BY DEF ProcSpawn
<1> QED BY <1>1, <1>2, <1>3

LEMMA WaitPidPool ==
  ASSUME PoolInv, NEW p \in Pids, WaitPid(p)
  PROVE  PoolInv'
<1> DEFINE s == p[1]
           pr == proc[s]
<1>0. /\ PoolTypes /\ Structures /\ s \in Slots /\ pr \in ProcSet /\ p # NoPid
      /\ kid[p] = "dead" /\ pr.local /\ pr.pid = p /\ UNCHANGED <<num, up>>
  BY Numbers DEF PoolInv, PoolTypes, WaitPid
<1>1. pr.st = "running" => pr.in = "first"
  BY <1>0 DEF Structures
<1>2. ASSUME NEW q \in ProcSet, NEW kids \in SUBSET Pids, q.in = pr.in,
             \/ kids = {} /\ q.pid = NoPid
             \/ /\ q.pid \in Pids /\ kids = {q.pid} /\ q.pid[1] = s
                /\ kid[q.pid] = "none" /\ q.local /\ q.st = "running",
             q.st = "running" => q.in = "first",
             proc' = [proc EXCEPT ![s] = q], active' = Moved(s, q), fails' \in Nat,
             kid' = [k \in Pids |-> IF k \in kids THEN "alive" ELSE IF k = p THEN "none" ELSE kid[k]]
      PROVE  PoolInv'
  <2>1. {proc[s].pid} = {p} /\ {proc[s].pid} \ {NoPid} = {p} /\ {p} \in SUBSET Pids
    BY <1>0
  <2>2. Follows(s, q, kids, {p})
    BY <1>0, <1>2, <2>1 DEF Follows
  <2>3. /\ kid' \in [Pids -> {"none", "alive", "dead"}]
        /\ \A k \in Pids : /\ k \in kids => kid'[k] # "none"
                           /\ k \notin kids /\ k \in {p} => kid'[k] = "none"
                           /\ k \notin kids /\ k \notin {p} => (kid'[k] = "none" <=> kid[k] = "none")
    BY <1>0, <1>2 DEF PoolTypes
  <2>4. num' \in [Hosts -> Int] /\ up' \in [Hosts -> BOOLEAN]
    BY <1>0 DEF PoolTypes
  <2>5. \A t \in Slots : proc'[t].in = proc[t].in
    BY <1>0, <1>2 DEF PoolTypes
  <2>6. NumCovers'
    BY <1>0, <2>5, NumSame DEF PoolInv
  <2> HIDE DEF s
  <2>7. PoolTypes' /\ Structures' /\ ActiveCounts'
    BY <1>0, <1>2, <2>1, <2>2, <2>3, <2>4, OneChanges
  <2> QED BY <2>6, <2>7 DEF PoolInv
<1>3. ASSUME NEW again \in BOOLEAN, pr.in = "unused" \/ again = FALSE,
             proc' = [proc EXCEPT ![s] = Reaped(@, again)],
             active' = IF pr.in = "unused" THEN active ELSE Fewer(s[1], s),
             kid' = [kid EXCEPT ![p] = "none"], UNCHANGED fails
      PROVE  PoolInv'
  <2> DEFINE q == Reaped(pr, again)
  <2>1. q \in ProcSet /\ q.in = pr.in /\ q.pid = NoPid /\ q.st = "died"
    BY <1>0, ReapedIs
  <2>2. proc' = [proc EXCEPT ![s] = q]
    BY <1>0, <1>3 DEF PoolTypes
  <2>3. active' = Moved(s, q)
    <3> HIDE DEF q
    <3> QED BY <1>1, <1>3, <2>1 DEF Moved, Fewer
  <2>4. kid' = [k \in Pids |-> IF k \in {} THEN "alive" ELSE IF k = p THEN "none" ELSE kid[k]]
    BY <1>0, <1>3 DEF PoolTypes
  <2>5. {} \in SUBSET Pids /\ fails' \in Nat
    BY <1>0, <1>3 DEF PoolTypes
  <2> HIDE DEF q
  <2> QED BY <2>1, <2>2, <2>3, <2>4, <2>5, <1>2
<1>4. ASSUME pr.in = "first", NEW o \in Spawned(s, Reaped(pr, TRUE)),
             proc' = [proc EXCEPT ![s] = o.pr], fails' = IF o.ok THEN fails ELSE fails - 1,
             active' = IF o.ok /\ pr.st # "running" THEN [active EXCEPT ![s[1]] = @ + 1]
                       ELSE IF ~o.ok THEN Fewer(s[1], s) ELSE active,
             kid' = [q \in Pids |-> IF q \in o.kids THEN "alive" ELSE IF q = p THEN "none" ELSE kid[q]]
      PROVE  PoolInv'
  <2> DEFINE r == Reaped(pr, TRUE)
             q == o.pr
  <2>1. r \in ProcSet /\ r.in = pr.in /\ r.pid = NoPid /\ r.st = "died"
    BY <1>0, ReapedIs
  <2>2. /\ q \in ProcSet /\ q.in = r.in /\ o.ok \in BOOLEAN
        /\ o.ok => q.st = "running"
        /\ ~o.ok => q.st = r.st /\ fails > 0
        /\ \/ o.kids = {} /\ q.pid = NoPid
           \/ /\ o.ok /\ q.pid \in Pids /\ o.kids = {q.pid} /\ q.pid[1] = s
              /\ kid[q.pid] = "none" /\ q.local
    <3>1. o \in Spawned(s, r)
      BY <1>4
    <3> HIDE DEF r, s
    <3> QED BY <1>0, <2>1, <3>1, SpawnedIs
  <2>3. fails' \in Nat
    <3>1. fails \in Nat
      BY <1>0 DEF PoolTypes
    <3>2. CASE o.ok
      BY <1>4, <3>1, <3>2
    <3>3. CASE ~o.ok
      <4>1. fails' = fails - 1
        BY <1>4, <3>3, Zenon
      <4>2. fails > 0
        BY <2>2, <3>3, Zenon
      <4> QED BY <3>1, <4>1, <4>2
    <3> QED BY <3>2, <3>3
  <2>4. active' = Moved(s, q)
    BY <1>4, <2>1, <2>2 DEF Moved, Fewer
  <2>5. o.kids \in SUBSET Pids
    BY <2>2
  <2> HIDE DEF q, r
  <2>6. proc' = [proc EXCEPT ![s] = q]
    BY <1>4 DEF q
  <2> QED BY <1>2, <1>4, <2>1, <2>2, <2>3, <2>4, <2>5, <2>6
<1>5. (pr.st # "killed") \in BOOLEAN /\ FALSE \in BOOLEAN
  OBVIOUS
<1>6. \/ /\ pr.in = "first" /\ proc' = [proc EXCEPT ![s] = Reaped(@, FALSE)] /\ active' = Fewer(s[1], s)
         /\ kid' = [kid EXCEPT ![p] = "none"] /\ UNCHANGED fails
      \/ /\ pr.in = "first"
         /\ \E o \in Spawned(s, Reaped(pr, TRUE)) :
              /\ proc' = [proc EXCEPT ![s] = o.pr] /\ fails' = (IF o.ok THEN fails ELSE fails - 1)
              /\ active' = (IF o.ok /\ pr.st # "running" THEN [active EXCEPT ![s[1]] = @ + 1]
                           ELSE IF ~o.ok THEN Fewer(s[1], s) ELSE active)
              /\ kid' = [q \in Pids |-> IF q \in o.kids THEN "alive" ELSE IF q = p THEN "none" ELSE kid[q]]
      \/ /\ pr.in = "unused" /\ proc' = [proc EXCEPT ![s] = Reaped(@, pr.st # "killed")]
         /\ kid' = [kid EXCEPT ![p] = "none"] /\ UNCHANGED <<active, fails>>
  BY DEF WaitPid
<1>7. CASE /\ pr.in = "first" /\ proc' = [proc EXCEPT ![s] = Reaped(@, FALSE)] /\ active' = Fewer(s[1], s)
           /\ kid' = [kid EXCEPT ![p] = "none"] /\ UNCHANGED fails
  BY <1>3, <1>5, <1>7
<1>8. CASE /\ pr.in = "unused" /\ proc' = [proc EXCEPT ![s] = Reaped(@, pr.st # "killed")]
           /\ kid' = [kid EXCEPT ![p] = "none"] /\ UNCHANGED <<active, fails>>
  BY <1>3, <1>5, <1>8
<1> QED BY <1>4, <1>6, <1>7, <1>8

\* many process structures change at once, none of them its list
LEMMA ManyChange ==
  ASSUME PoolInv, proc' \in [Slots -> ProcSet],
         NEW K \in [Slots -> SUBSET Pids], NEW E \in [Slots -> SUBSET Pids],
         \A s \in Slots : Follows(s, proc'[s], K[s], E[s]) /\ proc'[s].in = proc[s].in,
         kid' = [p \in Pids |-> IF \E s \in Slots : p \in K[s] THEN "alive"
                                ELSE IF \E s \in Slots : p \in E[s] THEN "none" ELSE kid[p]],
         active' \in [Hosts -> Int], \A h \in Hosts : active'[h] = Cardinality(RunningOf(h)'),
         num' = num, fails' \in Nat, up' = up
  PROVE  PoolInv'
<1>0. PoolTypes /\ Structures
  BY DEF PoolInv
<1>1. kid' \in [Pids -> {"none", "alive", "dead"}]
  BY <1>0 DEF PoolTypes
<1>2. PoolTypes'
  BY <1>0, <1>1 DEF PoolTypes
<1>3. ASSUME NEW p \in Pids
      PROVE  /\ p \in K[p[1]] <=> \E s \in Slots : p \in K[s]
             /\ p \in E[p[1]] <=> \E s \in Slots : p \in E[s]
  <2>1. \A s \in Slots : p \in K[s] \/ p \in E[s] => p[1] = s
    BY <1>0, Numbers DEF Follows, Structures
  <2> QED BY <2>1, Numbers
<1>4. \A p \in Pids : /\ p \in K[p[1]] => kid'[p] # "none"
                      /\ p \notin K[p[1]] /\ p \in E[p[1]] => kid'[p] = "none"
                      /\ p \notin K[p[1]] /\ p \notin E[p[1]] => (kid'[p] = "none" <=> kid[p] = "none")
  BY <1>3
<1>5. Structures'
  BY <1>0, <1>1, <1>4, StructuresStep
<1>6. NumCovers'
  BY NumSame DEF PoolInv
<1> QED BY <1>2, <1>5, <1>6 DEF PoolInv, ActiveCounts

\* a second passes for each process
LEMMA TickPool ==
  ASSUME PoolInv, Tick
  PROVE  PoolInv'
<1>0. PoolTypes /\ Structures /\ ActiveCounts /\ UNCHANGED <<num, active, kid, fails, up>>
  BY DEF PoolInv, Tick
<1> DEFINE K == [s \in Slots |-> {}]
<1>1. ASSUME NEW s \in Slots
      PROVE  /\ proc'[s] \in ProcSet /\ proc'[s].in = proc[s].in /\ proc'[s].st = proc[s].st
             /\ proc'[s].pid = proc[s].pid /\ proc'[s].local = proc[s].local
  <2> DEFINE w == IF proc[s].wait < 0 THEN proc[s].wait ELSE proc[s].wait - 1
             i == IF proc[s].idle > IdleTimeout \/ proc[s].in # "first" THEN proc[s].idle ELSE proc[s].idle + 1
  <2>1. proc[s] \in ProcSet
    BY <1>0 DEF PoolTypes
  <2>2. w \in Int /\ i \in Nat
    BY <2>1 DEF ProcSet
  <2>3. proc'[s] = [proc[s] EXCEPT !.wait = w, !.idle = i]
    BY <2>1 DEF Tick, ProcSet
  <2> HIDE DEF w, i
  <2> QED BY <2>1, <2>2, <2>3 DEF ProcSet
<1>2. proc' \in [Slots -> ProcSet]
  <2>1. proc' = [s \in Slots |-> proc'[s]]
    BY DEF Tick
  <2> QED BY <1>1, <2>1
<1>3. \A s \in Slots : Follows(s, proc'[s], K[s], K[s]) /\ proc'[s].in = proc[s].in
  BY <1>0, <1>1 DEF Follows, Structures
<1>4. \A h \in Hosts : active'[h] = Cardinality(RunningOf(h)')
  <2>1. \A h \in Hosts : RunningOf(h)' = RunningOf(h)
    BY <1>1 DEF RunningOf, FirstOf
  <2> QED BY <1>0, <2>1 DEF ActiveCounts
<1>5. kid' = [p \in Pids |-> IF \E s \in Slots : p \in K[s] THEN "alive"
                             ELSE IF \E s \in Slots : p \in K[s] THEN "none" ELSE kid[p]]
  BY <1>0 DEF PoolTypes
<1>6. active' \in [Hosts -> Int] /\ fails' \in Nat /\ K \in [Slots -> SUBSET Pids]
  BY <1>0 DEF PoolTypes
<1> HIDE DEF K
<1> QED BY <1>0, <1>2, <1>3, <1>4, <1>5, <1>6, ManyChange

LEMMA UnusedPool ==
  ASSUME PoolInv, TriggerUnused
  PROVE  PoolInv'
<1> DEFINE gone == Zombies(mh, "unused")
<1>0. /\ PoolTypes /\ Structures /\ ActiveCounts /\ UNCHANGED <<num, active, fails, up>>
      /\ proc' = [s \in Slots |-> IF s \in gone THEN Reaped(proc[s], proc[s].st # "killed") ELSE proc[s]]
      /\ kid' = [p \in Pids |-> IF \E s \in gone : p = proc[s].pid THEN "none" ELSE kid[p]]
  BY DEF PoolInv, TriggerUnused
<1> DEFINE K == [s \in Slots |-> {}]
           E == [s \in Slots |-> IF s \in gone THEN {proc[s].pid} ELSE {}]
<1>1. \A s \in gone : s \in Slots /\ proc[s].in = "unused" /\ proc[s].pid \in Pids
  BY <1>0 DEF Zombies, PoolTypes, ProcSet
<1>2. ASSUME NEW s \in Slots
      PROVE  /\ proc'[s] \in ProcSet /\ Follows(s, proc'[s], {}, E[s]) /\ proc'[s].in = proc[s].in
             /\ proc'[s].in = "first" => proc'[s].st = proc[s].st
  <2>1. proc[s] \in ProcSet
    BY <1>0 DEF PoolTypes
  <2>2. CASE s \in gone
    <3> DEFINE q == Reaped(proc[s], proc[s].st # "killed")
    <3>1. (proc[s].st # "killed") \in BOOLEAN
      OBVIOUS
    <3>2. q \in ProcSet /\ q.in = proc[s].in /\ q.pid = NoPid /\ q.st = "died"
      BY <2>1, <3>1, ReapedIs
    <3>3. proc'[s] = q /\ E[s] = {proc[s].pid} /\ proc[s].pid # NoPid /\ proc[s].in = "unused"
      BY <1>0, <1>1, <2>2, Numbers
    <3> HIDE DEF q, E
    <3> QED BY <3>2, <3>3 DEF Follows
  <2>3. CASE s \notin gone
    <3>1. proc'[s] = proc[s] /\ E[s] = {}
      BY <1>0, <2>3
    <3> QED BY <1>0, <2>1, <3>1, Staying
  <2> QED BY <2>2, <2>3
<1>3. proc' \in [Slots -> ProcSet]
  <2>1. proc' = [s \in Slots |-> proc'[s]]
    BY <1>0
  <2> QED BY <1>2, <2>1
<1>4. \A h \in Hosts : active'[h] = Cardinality(RunningOf(h)')
  <2>1. \A h \in Hosts : RunningOf(h)' = RunningOf(h)
    BY <1>2 DEF RunningOf, FirstOf
  <2> QED BY <1>0, <2>1 DEF ActiveCounts
<1>5. K \in [Slots -> SUBSET Pids] /\ E \in [Slots -> SUBSET Pids] /\ \A s \in Slots : K[s] = {}
  BY <1>1
<1>6. kid' = [p \in Pids |-> IF \E s \in Slots : p \in K[s] THEN "alive"
                             ELSE IF \E s \in Slots : p \in E[s] THEN "none" ELSE kid[p]]
  <2>1. \A p : (\E s \in Slots : p \in E[s]) <=> \E s \in gone : p = proc[s].pid
    <3> HIDE DEF gone
    <3> QED BY <1>1
  <2>2. \A p : ~\E s \in Slots : p \in K[s]
    OBVIOUS
  <2> HIDE DEF gone, K, E
  <2> QED BY <1>0, <2>1, <2>2
<1>7. active' \in [Hosts -> Int] /\ fails' \in Nat
  BY <1>0 DEF PoolTypes
<1>8. \A s \in Slots : Follows(s, proc'[s], K[s], E[s]) /\ proc'[s].in = proc[s].in
  <2> HIDE DEF K, E
  <2> QED BY <1>2, <1>5
<1> HIDE DEF K, E
<1> QED BY <1>0, <1>3, <1>4, <1>5, <1>6, <1>7, <1>8, ManyChange

LEMMA RevivedIs ==
  ASSUME PoolTypes, Structures, NEW s \in Slots, proc[s].in = "first", NEW o \in Revived(s)
  PROVE  /\ Follows(s, o.pr, o.kids, {}) /\ o.pr \in ProcSet /\ o.pr.in = "first"
         /\ o.kids \in SUBSET Pids
<1>0. proc[s] \in ProcSet
  BY DEF PoolTypes
<1>1. CASE o = [pr |-> proc[s], kids |-> {}, ok |-> TRUE]
  <2>1. o.pr = proc[s] /\ o.kids = {}
    BY <1>1
  <2> QED BY <1>0, <2>1, Staying
<1>2. CASE proc[s].st = "overloaded" /\ o = [pr |-> [proc[s] EXCEPT !.st = "running"], kids |-> {}, ok |-> TRUE]
  <2> DEFINE q == [proc[s] EXCEPT !.st = "running"]
  <2>1. /\ q \in ProcSet /\ q.in = "first" /\ q.st = "running" /\ q.pid = proc[s].pid
        /\ q.local = proc[s].local
    BY <1>0 DEF ProcSet
  <2>2. o.pr = q /\ o.kids = {}
    BY <1>2
  <2> HIDE DEF q
  <2> QED BY <2>1, <2>2 DEF Follows, Structures
<1>3. CASE proc[s].st = "died" /\ o \in Spawned(s, proc[s])
  <2>1. proc[s].pid = NoPid
    BY <1>3 DEF Structures
  <2>2. /\ o.pr \in ProcSet /\ o.pr.in = proc[s].in /\ o.ok \in BOOLEAN
        /\ o.ok => o.pr.st = "running"
        /\ \/ o.kids = {} /\ o.pr.pid = NoPid
           \/ /\ o.ok /\ o.pr.pid \in Pids /\ o.kids = {o.pr.pid} /\ o.pr.pid[1] = s
              /\ kid[o.pr.pid] = "none" /\ o.pr.local
    BY <1>0, <1>3, <2>1, SpawnedIs
  <2>3. PICK N : N = {}
    OBVIOUS
  <2>4. {proc[s].pid} \ {NoPid} = N
    BY <2>1, <2>3
  <2>5. Follows(s, o.pr, o.kids, N)
    BY <2>1, <2>2, <2>3, <2>4 DEF Follows
  <2>6. o.kids \in SUBSET Pids
    BY <2>2
  <2> QED BY <2>2, <2>3, <2>5, <2>6
<1> QED BY <1>1, <1>2, <1>3 DEF Revived

\* gw_restart_dead_procs after the children in gone were reaped
LEMMA RestartPool ==
  ASSUME PoolInv, NEW h, NEW gone, RestartDead(h, gone), UNCHANGED up,
         \A s \in gone : s \in FirstOf(h) /\ proc[s].pid # NoPid
  PROVE  PoolInv'
<1>0. PoolTypes /\ Structures /\ ActiveCounts
  BY DEF PoolInv
<1>1. PICK f :
        LET failed == Cardinality({s \in FirstOf(h) : ~f[s].ok})
            ups == {s \in FirstOf(h) : proc[s].st # "running" /\ f[s].pr.st = "running"}
            downs == {s \in FirstOf(h) : proc[s].st = "running" /\ f[s].pr.st # "running"} IN
        /\ \A s \in FirstOf(h) : IF s \in gone THEN f[s].pr = Reaped(proc[s], TRUE) /\ f[s].kids = {} /\ f[s].ok
                                 ELSE f[s] \in Revived(s)
        /\ failed <= fails /\ fails' = fails - failed
        /\ proc' = [s \in Slots |-> IF s \in FirstOf(h) THEN f[s].pr ELSE proc[s]]
        /\ kid' = [p \in Pids |-> IF \E s \in FirstOf(h) : p \in f[s].kids THEN "alive"
                                  ELSE IF \E s \in gone : p = proc[s].pid THEN "none" ELSE kid[p]]
        /\ active' = [active EXCEPT ![h] = @ + Cardinality(ups) - Cardinality(downs)]
        /\ num' = num
  BY DEF RestartDead
<1> DEFINE K == [s \in Slots |-> IF s \in FirstOf(h) THEN f[s].kids ELSE {}]
           E == [s \in Slots |-> IF s \in gone THEN {proc[s].pid} ELSE {}]
           bad == {s \in FirstOf(h) : ~f[s].ok}
           ups == {s \in FirstOf(h) : proc[s].st # "running" /\ f[s].pr.st = "running"}
           downs == {s \in FirstOf(h) : proc[s].st = "running" /\ f[s].pr.st # "running"}
<1>2. /\ FirstOf(h) \subseteq Slots /\ gone \subseteq Slots
      /\ \A s \in FirstOf(h) : s[1] = h /\ proc[s].in = "first"
      /\ \A s \in gone : proc[s].pid \in Pids
  BY <1>0 DEF FirstOf, PoolTypes, ProcSet
<1>3. ASSUME NEW s \in FirstOf(h)
      PROVE  f[s].kids \in SUBSET Pids /\ f[s].pr \in ProcSet /\ f[s].pr.in = "first"
             /\ Follows(s, f[s].pr, f[s].kids, E[s])
  <2>0. s \in Slots /\ proc[s] \in ProcSet /\ proc[s].in = "first"
    BY <1>0, <1>2 DEF PoolTypes
  <2>1. CASE s \in gone
    <3> DEFINE q == Reaped(proc[s], TRUE)
    <3>1. q \in ProcSet /\ q.in = proc[s].in /\ q.pid = NoPid /\ q.st = "died"
      BY <2>0, ReapedIs
    <3>2. f[s].pr = q /\ f[s].kids = {} /\ E[s] = {proc[s].pid} /\ proc[s].pid # NoPid
      BY <1>1, <2>0, <2>1
    <3> HIDE DEF q, E
    <3> QED BY <2>0, <3>1, <3>2 DEF Follows
  <2>2. CASE s \notin gone
    <3>1. f[s] \in Revived(s)
      BY <1>1, <2>2
    <3>2. E[s] = {}
      BY <2>0, <2>2
    <3> HIDE DEF E
    <3> QED BY <1>0, <2>0, <3>1, <3>2, RevivedIs
  <2> QED BY <2>1, <2>2
<1>4. K \in [Slots -> SUBSET Pids] /\ E \in [Slots -> SUBSET Pids]
  <2> HIDE DEF E
  <2>1. K \in [Slots -> SUBSET Pids]
    BY <1>3
  <2>2. E \in [Slots -> SUBSET Pids]
    BY <1>2 DEF E
  <2> QED BY <2>1, <2>2
<1>5. ASSUME NEW s \in Slots
      PROVE  /\ proc'[s] \in ProcSet /\ proc'[s].in = proc[s].in /\ Follows(s, proc'[s], K[s], E[s])
  <2>1. CASE s \in FirstOf(h)
    <3>1. proc'[s] = f[s].pr /\ K[s] = f[s].kids
      BY <1>1, <2>1
    <3> HIDE DEF K, E
    <3> QED BY <1>2, <1>3, <2>1, <3>1
  <2>2. CASE s \notin FirstOf(h)
    <3>1. proc'[s] = proc[s] /\ K[s] = {} /\ E[s] = {}
      BY <1>1, <2>2
    <3> HIDE DEF K, E
    <3> QED BY <1>0, <3>1, Staying
  <2> QED BY <2>1, <2>2
<1>6. proc' \in [Slots -> ProcSet]
  <2>1. proc' = [s \in Slots |-> proc'[s]]
    BY <1>1
  <2> QED BY <1>5, <2>1
<1>7. kid' = [p \in Pids |-> IF \E s \in Slots : p \in K[s] THEN "alive"
                             ELSE IF \E s \in Slots : p \in E[s] THEN "none" ELSE kid[p]]
  <2>1. \A p : /\ (\E s \in Slots : p \in K[s]) <=> \E s \in FirstOf(h) : p \in f[s].kids
               /\ (\E s \in Slots : p \in E[s]) <=> \E s \in gone : p = proc[s].pid
    BY <1>2
  <2> HIDE DEF K, E
  <2> QED BY <1>1, <2>1
<1>8. fails' \in Nat
  <2>1. bad \in SUBSET Slots
    BY <1>2
  <2>2. Cardinality(bad) \in Nat
    <3> HIDE DEF bad
    <3> QED BY <2>1, SlotSets
  <2>3. Cardinality(bad) <= fails /\ fails' = fails - Cardinality(bad)
    BY <1>1, Zenon
  <2> HIDE DEF bad
  <2> QED BY <1>0, <2>2, <2>3 DEF PoolTypes
<1>9. ups \in SUBSET Slots /\ downs \in SUBSET Slots /\ active' = [active EXCEPT ![h] = @ + Cardinality(ups) - Cardinality(downs)]
  <2>1. active' = [active EXCEPT ![h] = @ + Cardinality(ups) - Cardinality(downs)]
    BY <1>1, Zenon
  <2> QED BY <1>2, <2>1
<1>10. IsFiniteSet(ups) /\ IsFiniteSet(downs) /\ Cardinality(ups) \in Nat /\ Cardinality(downs) \in Nat
  <2> HIDE DEF ups, downs
  <2> QED BY <1>9, SlotSets
<1>11. active' \in [Hosts -> Int]
  <2> HIDE DEF ups, downs
  <2>1. active \in [Hosts -> Int]
    BY <1>0 DEF PoolTypes
  <2>2. CASE h \in Hosts
    <3>1. active[h] + Cardinality(ups) - Cardinality(downs) \in Int
      BY <1>10, <2>1, <2>2
    <3> QED BY <1>9, <2>1, <3>1
  <2>3. CASE h \notin Hosts
    BY <1>9, <2>1, <2>3
  <2> QED BY <2>2, <2>3
<1>12. ASSUME NEW g \in Hosts PROVE active'[g] = Cardinality(RunningOf(g)')
  <2>1. active[g] = Cardinality(RunningOf(g)) /\ RunningOf(g) \in SUBSET Slots /\ active \in [Hosts -> Int]
    BY <1>0 DEF ActiveCounts, RunningOf, FirstOf, PoolTypes
  <2>2. CASE g # h
    <3>1. \A s \in Slots : s[1] = g => proc'[s] = proc[s]
      BY <1>1, <1>2, <2>2
    <3>2. RunningOf(g)' = RunningOf(g)
      BY <3>1 DEF RunningOf, FirstOf
    <3>3. active'[g] = active[g]
      <4> HIDE DEF ups, downs
      <4> QED BY <1>9, <2>1, <2>2
    <3> QED BY <2>1, <3>2, <3>3
  <2>3. CASE g = h
    <3> DEFINE run == RunningOf(h)
    <3>1. \A s \in FirstOf(h) : proc'[s] = f[s].pr /\ f[s].pr.in = "first"
      BY <1>1, <1>2, <1>3
    <3>2. RunningOf(h)' = (run \cup ups) \ downs
      <4>1. \A s \in Slots : s \notin FirstOf(h) => proc'[s] = proc[s]
        BY <1>1
      <4> QED BY <1>2, <3>1, <4>1 DEF RunningOf, FirstOf
    <3>3. run \cap ups = {} /\ (run \cup ups) \cap downs = downs /\ run \cup ups \in SUBSET Slots
      BY <1>2 DEF RunningOf
    <3>4. IsFiniteSet(run) /\ Cardinality(run) \in Nat /\ IsFiniteSet(run \cup ups)
      <4> HIDE DEF run, ups
      <4> QED BY <2>1, <2>3, <3>3, SlotSets DEF run
    <3>5. Cardinality(run \cup ups) = Cardinality(run) + Cardinality(ups)
      <4>1. Cardinality(run \cup ups) = Cardinality(run) + Cardinality(ups) - Cardinality(run \cap ups)
        <5> HIDE DEF run, ups
        <5> QED BY <1>10, <3>4, FS_Union
      <4>2. Cardinality(run \cap ups) = 0
        BY <3>3, FS_EmptySet
      <4> HIDE DEF run, ups
      <4> QED BY <1>10, <3>4, <4>1, <4>2
    <3>6. Cardinality((run \cup ups) \ downs) = Cardinality(run \cup ups) - Cardinality(downs)
      <4> HIDE DEF run, ups, downs
      <4> QED BY <3>3, <3>4, FS_Difference
    <3>7. active'[g] = Cardinality(run) + Cardinality(ups) - Cardinality(downs)
      <4> HIDE DEF ups, downs
      <4> QED BY <1>9, <2>1, <2>3
    <3> HIDE DEF run, ups, downs
    <3> QED BY <1>10, <2>3, <3>2, <3>4, <3>5, <3>6, <3>7
  <2> QED BY <2>2, <2>3
<1>13. num' = num
  BY <1>1
<1> HIDE DEF K, E
<1> QED BY <1>4, <1>5, <1>6, <1>7, <1>8, <1>11, <1>12, <1>13, ManyChange

-----------------------------------------------------------------------------
(* The invariant *)

LEMMA RequestPool ==
  ASSUME ReqInv, PoolInv, NEW r \in Reqs,
         Arrive(r) \/ Take(r) \/ Handler(r) \/ Reset(r) \/ Wake(r) \/ Events(r) \/ BackendCloses(r)
  PROVE  PoolInv'
<1>0. PoolTypes /\ ReqTypes /\ ctx[r].proc \in Slots \cup {NoProc} /\ MaxProcs > 0
  BY Contexts, GatewayAssumption DEF ReqInv, PoolInv
<1>1. ASSUME UNCHANGED pool, UNCHANGED up PROVE PoolInv'
  BY <1>0, <1>1, PoolSame DEF pool, PoolTypes
<1>2. CASE Arrive(r) \/ Take(r) \/ Pick(r) \/ Write(r) \/ Reclose(r) \/ Close(r) \/ Reset(r)
           \/ Wake(r) \/ EventHup(r) \/ BackendCloses(r)
  <2>1. UNCHANGED pool /\ UNCHANGED up
    BY <1>2 DEF Arrive, Take, Pick, Write, Reclose, Close, Reset, Wake, EventHup, BackendCloses
  <2> QED BY <1>1, <2>1
<1>3. CASE HostGet(r)
  <2>1. UNCHANGED up /\ (UNCHANGED pool \/ \E h \in OnDemand : ProcSpawn(h))
    BY <1>3 DEF HostGet
  <2>2. ASSUME NEW h \in OnDemand, ProcSpawn(h) PROVE PoolInv'
    <3>1. h \in Hosts /\ num[h] < MaxProcs
      BY <1>0, GatewayAssumption DEF OnDemand
    <3> QED BY <2>1, <2>2, <3>1, SpawnPool
  <2> QED BY <1>1, <2>1, <2>2
<1>4. CASE Connect(r)
  <2>1. /\ UNCHANGED up
        /\ \/ Refused(r, ctx[r], back[r]) \/ Connected(r, [ctx[r] EXCEPT !.rec = 0], back[r]) \/ UNCHANGED pool
    BY <1>4 DEF Connect
  <2>2. CASE Refused(r, ctx[r], back[r])
    BY <1>0, <2>1, <2>2, ConnectErrorStep DEF Refused
  <2>3. CASE Connected(r, [ctx[r] EXCEPT !.rec = 0], back[r])
    <3>1. PICK c : c = [ctx[r] EXCEPT !.rec = 0]
      OBVIOUS
    <3>2. c.proc = ctx[r].proc
      BY <1>0, <3>1 DEF ReqTypes, CtxSet
    <3>3. Connected(r, c, back[r])
      BY <2>3, <3>1
    <3> QED BY <1>0, <2>1, <3>2, <3>3, ConnectedPool
  <2> QED BY <1>1, <2>1, <2>2, <2>3
<1>5. CASE WriteError(r)
  <2>1. UNCHANGED up /\ (RestartDead(ctx[r].host, {}) \/ UNCHANGED pool)
    BY <1>5 DEF WriteError
  <2>2. CASE RestartDead(ctx[r].host, {})
    <3>1. PICK N : N = {}
      OBVIOUS
    <3>2. RestartDead(ctx[r].host, N) /\ \A s \in N : s \in FirstOf(ctx[r].host) /\ proc[s].pid # NoPid
      BY <2>2, <3>1
    <3> QED BY <2>1, <3>2, RestartPool
  <2> QED BY <1>1, <2>1, <2>2
<1>6. CASE EventOut(r)
  <2>1. /\ UNCHANGED up
        /\ Refused(r, ctx[r], "main") \/ Connected(r, ctx[r], "main") \/ UNCHANGED pool
    BY <1>6 DEF EventOut
  <2>2. CASE Refused(r, ctx[r], "main")
    BY <1>0, <2>1, <2>2, ConnectErrorStep DEF Refused
  <2>3. CASE Connected(r, ctx[r], "main")
    BY <1>0, <2>1, <2>3, ConnectedPool
  <2> QED BY <1>1, <2>1, <2>2, <2>3
<1> QED BY <1>2, <1>3, <1>4, <1>5, <1>6 DEF Handler, Events

LEMMA OtherPool ==
  ASSUME ReqInv, PoolInv,
         \/ Tick \/ Trigger \/ UNCHANGED vars
         \/ \E p \in Pids : WaitPid(p) \/ KidDies(p)
         \/ \E h \in Hosts : UpChanges(h)
  PROVE  PoolInv'
<1>0. PoolTypes /\ Structures /\ mh \in Hosts
  BY DEF ReqInv, ReqTypes, PoolInv
<1>1. CASE UNCHANGED vars
  BY <1>0, <1>1, PoolSame DEF vars, PoolTypes
<1>2. CASE TriggerRestart
  <2>1. \A s \in Zombies(mh, "first") : s \in FirstOf(mh) /\ proc[s].pid # NoPid
    BY DEF Zombies, FirstOf
  <2>2. RestartDead(mh, Zombies(mh, "first")) /\ UNCHANGED up
    BY <1>2 DEF TriggerRestart
  <2> QED BY <2>1, <2>2, RestartPool
<1>3. CASE TriggerGrow
  <2>1. UNCHANGED up /\ ((ProcSpawn(mh) /\ num[mh] < MaxProcs) \/ UNCHANGED pool)
    BY <1>3 DEF TriggerGrow
  <2>2. CASE ProcSpawn(mh) /\ num[mh] < MaxProcs
    BY <1>0, <2>1, <2>2, SpawnPool
  <2>3. CASE UNCHANGED pool
    BY <1>0, <2>1, <2>3, PoolSame DEF pool, PoolTypes
  <2> QED BY <2>1, <2>2, <2>3
<1>4. CASE TriggerShrink
  BY <1>0, <1>4, ShrinkPool
<1>5. ASSUME NEW p \in Pids, KidDies(p) PROVE PoolInv'
  <2>1. UNCHANGED <<proc, num, active, fails, up>> /\ kid[p] = "alive" /\ kid' = [kid EXCEPT ![p] = "dead"]
    BY <1>5 DEF KidDies
  <2>2. kid' \in [Pids -> {"none", "alive", "dead"}] /\ \A q \in Pids : kid'[q] = "none" <=> kid[q] = "none"
    BY <1>0, <2>1 DEF PoolTypes
  <2> QED BY <2>1, <2>2, PoolSame
<1>6. ASSUME NEW h \in Hosts, UpChanges(h) PROVE PoolInv'
  <2>1. UNCHANGED <<proc, num, active, kid, fails>> /\ up' = [up EXCEPT ![h] = ~@]
    BY <1>6 DEF UpChanges, pool
  <2>2. up' \in [Hosts -> BOOLEAN]
    BY <1>0, <2>1 DEF PoolTypes
  <2>3. PoolTypes'
    BY <1>0, <2>1, <2>2 DEF PoolTypes
  <2>4. Structures' /\ ActiveCounts' /\ NumCovers'
    BY <2>1 DEF PoolInv, Structures, ActiveCounts, NumCovers, RunningOf, FirstOf
  <2> QED BY <2>3, <2>4 DEF PoolInv
<1> QED BY <1>1, <1>2, <1>3, <1>4, <1>5, <1>6, TickPool, UnusedPool, WaitPidPool DEF Trigger

LEMMA RequestsInit ==
  ASSUME Init
  PROVE  ReqInv
<1>1. 1 \in Hosts /\ MaxReconnects \in Nat /\ Units \in Nat /\ MaxShort \in Nat /\ MaxLost \in Nat
  BY GatewayAssumption DEF Hosts
<1>2. NoCtx \in CtxSet
  BY <1>1 DEF NoCtx, CtxSet
<1>3. ReqTypes
  <2>1. ctx \in [Reqs -> CtxSet]
    BY <1>2 DEF Init
  <2>2. overlap \in Overlaps /\ balance \in Balances /\ last \in Hosts \cup {0} /\ {short, lost} \subseteq Nat
    BY <1>1 DEF Init
  <2>3. load \in [Slots -> Int] /\ hload \in [Hosts -> Int]
    <3>1. load = [s \in Slots |-> 0] /\ hload = [h \in Hosts |-> 0]
      BY DEF Init
    <3> QED BY <3>1
  <2>4. /\ link \in [Reqs -> {"none", "pending", "up", "down"}]
        /\ con \in [Reqs -> Busy \cup {"idle", "queued", "wait", "fdwait", "done"}]
        /\ mode \in [Reqs -> {"direct", "gw"}] /\ status \in [Reqs -> {0, 400, 500, 503}]
        /\ back \in [Reqs -> {"worker", "main"}]
    BY DEF Init
  <2>5. main \in {"loop", "restart", "grow", "shrink", "unused"} /\ mh \in Hosts
    BY <1>1 DEF Init
  <2> QED BY <2>1, <2>2, <2>3, <2>4, <2>5 DEF ReqTypes
<1>4. Requests
  BY DEF Init, Requests, Sound, NoCtx, Busy
<1>5. LoadCovers
  <2>1. \A s \in Slots : Bound(s) = {}
    BY Numbers DEF Init, Bound, NoCtx
  <2>2. \A h \in Hosts : Guests(h) = {}
    BY Numbers DEF Init, Guests, NoCtx
  <2>3. Cardinality({}) = 0
    BY FS_EmptySet
  <2>4. (\A s \in Slots : load[s] = 0) /\ (\A h \in Hosts : hload[h] = 0)
    BY DEF Init
  <2> QED BY <2>1, <2>2, <2>3, <2>4 DEF LoadCovers
<1> QED BY <1>3, <1>4, <1>5 DEF ReqInv

LEMMA PoolInit ==
  ASSUME Init
  PROVE  PoolInv
<1> DEFINE S(h) == {i \in Ids : AtStart(<<h, i>>)}
           q(s) == [Unborn EXCEPT !.in = "first", !.st = "running", !.local = s[1] \in Spawning,
                                  !.pid = IF s[1] \in Spawning THEN <<s, 1>> ELSE NoPid]
<1>1. /\ proc = [s \in Slots |-> IF ~AtStart(s) THEN Unborn ELSE q(s)]
      /\ num = [h \in Hosts |-> Cardinality(S(h))] /\ active = num
      /\ kid = [p \in Pids |-> IF AtStart(p[1]) /\ p[1][1] \in Spawning /\ p[2] = 1 THEN "alive" ELSE "none"]
      /\ up \in [Hosts -> BOOLEAN] /\ fails = MaxFails /\ MaxFails \in Nat
  BY GatewayAssumption DEF Init
<1>2. Unborn \in ProcSet /\ Unborn.in = "none" /\ Unborn.st = "died" /\ Unborn.pid = NoPid
  <2>1. -1 \in Int /\ 0 \in Nat
    OBVIOUS
  <2> QED BY <2>1 DEF Unborn, ProcSet
<1>3. ASSUME NEW s \in Slots
      PROVE  /\ q(s) \in ProcSet /\ q(s).in = "first" /\ q(s).st = "running"
             /\ s[1] \in Spawning => q(s).pid = <<s, 1>> /\ q(s).local
             /\ s[1] \notin Spawning => q(s).pid = NoPid
             /\ <<s, 1>> \in Pids
  <2> DEFINE p == IF s[1] \in Spawning THEN <<s, 1>> ELSE NoPid
             b == s[1] \in Spawning
  <2>1. <<s, 1>> \in Pids
    BY DEF Pids
  <2>2. p \in Pids \cup {NoPid} /\ b \in BOOLEAN
    BY <2>1
  <2>3. q(s) = [Unborn EXCEPT !.in = "first", !.st = "running", !.local = b, !.pid = p]
    OBVIOUS
  <2>4. /\ q(s) \in ProcSet /\ q(s).in = "first" /\ q(s).st = "running"
        /\ q(s).pid = p /\ q(s).local = b
    <3> HIDE DEF q, p, b
    <3> QED BY <1>2, <2>2, <2>3 DEF ProcSet
  <2> HIDE DEF q
  <2> QED BY <2>1, <2>4
<1>4. ASSUME NEW h \in Hosts
      PROVE  IsFiniteSet(S(h)) /\ Cardinality(S(h)) \in Nat
  <2>1. S(h) \in SUBSET Ids
    OBVIOUS
  <2> HIDE DEF S
  <2> QED BY <2>1, Finite, FS_Subset, FS_CardinalityType
<1> HIDE DEF q
<1>5. ASSUME NEW s \in Slots
      PROVE  proc[s] = IF ~AtStart(s) THEN Unborn ELSE q(s)
  BY <1>1
<1>6. PoolTypes
  <2>1. proc \in [Slots -> ProcSet]
    BY <1>1, <1>2, <1>3
  <2>2. num \in [Hosts -> Int] /\ active \in [Hosts -> Int]
    <3> HIDE DEF S
    <3> QED BY <1>1, <1>4
  <2>3. kid \in [Pids -> {"none", "alive", "dead"}]
    BY <1>1
  <2> QED BY <1>1, <2>1, <2>2, <2>3 DEF PoolTypes
<1>7. Structures
  <2>1. ASSUME NEW s \in Slots
        PROVE  /\ proc[s].pid # NoPid => /\ proc[s].pid[1] = s /\ proc[s].local /\ kid[proc[s].pid] # "none"
                                         /\ proc[s].st # "died" /\ proc[s].in # "none"
               /\ proc[s].st = "running" => proc[s].in = "first"
    <3>1. CASE ~AtStart(s)
      BY <1>2, <1>5, <3>1
    <3>2. CASE AtStart(s)
      <4>1. proc[s] = q(s)
        BY <1>5, <3>2
      <4>2. CASE s[1] \in Spawning
        <5>1. <<s, 1>>[1] = s /\ <<s, 1>>[2] = 1
          OBVIOUS
        <5>2. kid[<<s, 1>>] = "alive"
          BY <1>1, <1>3, <3>2, <4>2, <5>1
        <5> QED BY <1>3, <4>1, <4>2, <5>1, <5>2
      <4>3. CASE s[1] \notin Spawning
        BY <1>3, <4>1, <4>3
      <4> QED BY <4>2, <4>3
    <3> QED BY <3>1, <3>2
  <2>2. ASSUME NEW p \in Pids, kid[p] # "none" PROVE proc[p[1]].pid = p
    <3>1. p[1] \in Slots /\ AtStart(p[1]) /\ p[1][1] \in Spawning /\ p[2] = 1
      BY <1>1, <2>2, Numbers
    <3>2. p = <<p[1], 1>>
      BY <3>1 DEF Pids
    <3> QED BY <1>3, <1>5, <3>1, <3>2
  <2> QED BY <2>1, <2>2 DEF Structures
<1>8. ASSUME NEW h \in Hosts
      PROVE  /\ RunningOf(h) = FirstOf(h) /\ Cardinality(FirstOf(h)) = Cardinality(S(h))
  <2>1. FirstOf(h) = {s \in Slots : s[1] = h /\ AtStart(s)} /\ RunningOf(h) = FirstOf(h)
    BY <1>2, <1>3, <1>5 DEF FirstOf, RunningOf
  <2> DEFINE f == [i \in S(h) |-> <<h, i>>]
  <2>2. f \in Bijection(S(h), FirstOf(h))
    <3>1. f \in [S(h) -> FirstOf(h)]
      BY <2>1 DEF Slots
    <3>2. ASSUME NEW i \in S(h), NEW j \in S(h), f[i] = f[j] PROVE i = j
      BY <3>2
    <3>3. ASSUME NEW s \in FirstOf(h) PROVE \E i \in S(h) : f[i] = s
      <4>1. s[2] \in Ids /\ s = <<h, s[2]>> /\ AtStart(s)
        BY <2>1, Numbers
      <4>2. s[2] \in S(h)
        BY <4>1
      <4> QED BY <4>1, <4>2
    <3> HIDE DEF f, S
    <3> QED BY <3>1, <3>2, <3>3 DEF Bijection, Injection, Surjection, IsInjective
  <2>3. ExistsBijection(S(h), FirstOf(h))
    <3> HIDE DEF f, S
    <3> QED BY <2>2 DEF ExistsBijection
  <2> HIDE DEF f, S
  <2> QED BY <1>4, <2>1, <2>3, FS_Bijection
<1>9. ActiveCounts
  <2> HIDE DEF S
  <2> QED BY <1>1, <1>8 DEF ActiveCounts
<1>10. NumCovers
  <2>1. ASSUME NEW h \in Spawning
        PROVE  Cardinality(S(h)) <= MaxProcs
    <3>1. h \in Hosts /\ MinProcs \in Nat /\ MaxProcs \in Nat /\ MinProcs <= MaxProcs /\ LastId \in Nat
      BY GatewayAssumption
    <3>2. S(h) \in SUBSET (0 .. (MinProcs - 1))
      BY <3>1, <2>1 DEF AtStart, Ids
    <3>3. IsFiniteSet(0 .. (MinProcs - 1)) /\ Cardinality(0 .. (MinProcs - 1)) = MinProcs
      <4>1. 0 \in Int /\ MinProcs - 1 \in Int
        BY <3>1
      <4>2. IsFiniteSet(0 .. (MinProcs - 1))
            /\ Cardinality(0 .. (MinProcs - 1)) = IF 0 > MinProcs - 1 THEN 0 ELSE (MinProcs - 1) - 0 + 1
        BY <4>1, FS_Interval
      <4> QED BY <3>1, <4>2
    <3>4. Cardinality(S(h)) <= MinProcs
      <4> HIDE DEF S
      <4> QED BY <3>2, <3>3, FS_Subset, ZenonT(40)
    <3>5. Cardinality(S(h)) \in Nat
      BY <1>4, <3>1
    <3> HIDE DEF S
    <3> QED BY <3>1, <3>4, <3>5
  <2>2. \A h \in Spawning : h \in Hosts
    BY GatewayAssumption
  <2> HIDE DEF S
  <2> QED BY <1>1, <1>4, <1>8, <2>1, <2>2 DEF NumCovers
<1> QED BY <1>6, <1>7, <1>9, <1>10 DEF PoolInv

LEMMA Inductive ==
  ASSUME IInv, [Next]_vars
  PROVE  IInv' /\ NotResent
<1>0. ReqInv /\ PoolInv /\ PoolTypes
  BY DEF IInv, PoolInv
<1>1. ASSUME NEW r \in Reqs,
             Arrive(r) \/ Take(r) \/ Handler(r) \/ Reset(r) \/ Wake(r) \/ Events(r) \/ BackendCloses(r)
      PROVE  IInv' /\ NotResent
  <2>1. ReqInv' /\ NotResent
    <3>1. CASE Arrive(r) \/ Take(r) \/ Wake(r)
      BY <1>0, <3>1, ConStep
    <3>2. CASE Handler(r)
      BY <1>0, <3>2, HostGetStep, PickStep, ConnectStep, WriteStep, WriteErrorStep, RecloseStep, CloseStep
         DEF Handler
    <3>3. CASE Reset(r) \/ Events(r)
      BY <1>0, <3>3, ResetStep, EventOutStep, CloseStep DEF Events
    <3>4. CASE BackendCloses(r)
      BY <1>0, <3>4, OtherStep
    <3> QED BY <1>1, <3>1, <3>2, <3>3, <3>4
  <2>2. PoolInv'
    BY <1>0, <1>1, RequestPool
  <2> QED BY <2>1, <2>2 DEF IInv
<1>2. ASSUME \/ Tick \/ Trigger \/ UNCHANGED vars
             \/ \E p \in Pids : WaitPid(p) \/ KidDies(p)
             \/ \E h \in Hosts : UpChanges(h)
      PROVE  IInv' /\ NotResent
  <2>1. ReqInv' /\ NotResent
    BY <1>0, <1>2, OtherStep
  <2>2. PoolInv'
    BY <1>0, <1>2, OtherPool
  <2> QED BY <2>1, <2>2 DEF IInv
<1> QED BY <1>1, <1>2 DEF Next

-----------------------------------------------------------------------------
(* The theorems *)

\* While handlers do not overlap, the load of a process is never below the requests bound to
\* it and the load of a host is their number (gw_host_assign, gw_proc_load_inc,
\* gw_backend_close, gw_reconnect).
THEOREM LoadsCover ==
  ASSUME GatewayAssumption
  PROVE  Spec => []LoadCovers
<1>1. Init => IInv
  BY RequestsInit, PoolInit DEF IInv
<1>2. IInv /\ [Next]_vars => IInv'
  BY Inductive
<1>3. IInv => LoadCovers
  BY DEF IInv, ReqInv
<1> QED BY <1>1, <1>2, <1>3, PTL DEF Spec

\* A request of which a backend may have seen something is never sent to another one: not by
\* gw_write_error and gw_reconnect, whichever thread runs them (GW_STATE_WRITE, GW_STATE_READ).
THEOREM NeverResent ==
  ASSUME GatewayAssumption
  PROVE  Spec => SentOnce
<1>1. Init => IInv
  BY RequestsInit, PoolInit DEF IInv
<1>2. IInv /\ [Next]_vars => IInv'
  BY Inductive
<1>3. IInv /\ [Next]_vars =>
        [\A r \in Reqs : ctx[r].st \in {"write", "read"} =>
           ctx'[r] = NoCtx \/ (ctx'[r].proc = ctx[r].proc /\ ctx'[r].st \in {"write", "read"})]_vars
  BY Inductive DEF NotResent
<1> QED BY <1>1, <1>2, <1>3, PTL DEF Spec, SentOnce

\* What a host counts of its processes, and what the structures say of the children, is what
\* there is, for any number of hosts, processes and requests (gw_proc_set_state, gw_proc_spawn,
\* gw_restart_dead_procs, gw_proc_connect_error, gw_handle_waitpid_cb, gw_proc_kill).
THEOREM PoolIsKnown ==
  ASSUME GatewayAssumption
  PROVE  Spec => []PoolKnown
<1>1. Init => IInv
  BY RequestsInit, PoolInit DEF IInv
<1>2. IInv /\ [Next]_vars => IInv'
  BY Inductive
<1>3. IInv => PoolKnown
  <2>1. IInv => ActiveCounts /\ NumCovers
    BY DEF IInv, PoolInv
  <2>2. IInv => KidsKnown
    BY Numbers DEF IInv, PoolInv, Structures, KidsKnown
  <2> QED BY <2>1, <2>2 DEF PoolKnown
<1> QED BY <1>1, <1>2, <1>3, PTL DEF Spec

\* The types of the variables.
THEOREM GatewayTypes ==
  ASSUME GatewayAssumption
  PROVE  Spec => []TypeOK
<1>1. Init => IInv
  BY RequestsInit, PoolInit DEF IInv
<1>2. IInv /\ [Next]_vars => IInv'
  BY Inductive
<1>3. IInv => TypeOK
  BY DEF IInv, ReqInv, PoolInv, ReqTypes, PoolTypes, TypeOK
<1> QED BY <1>1, <1>2, <1>3, PTL DEF Spec
=============================================================================
