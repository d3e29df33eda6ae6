------------------------------ MODULE FdEvent ------------------------------
(***************************************************************************)
(* The descriptors that the main loop polls: fdevent.c, four of the event  *)
(* handlers behind it, and the round of the main loop (server.c) that      *)
(* polls, calls the handlers of what was reported and closes what was put  *)
(* off.  The workers register descriptors of backends, change their        *)
(* interest and close them at any moment; each call of fdevent.c is one    *)
(* section of event_lock.  A descriptor is used by one thread at a time.   *)
(***************************************************************************)
EXTENDS Integers, Sequences, FiniteSets, SequencesExt

CONSTANTS
  Backends,   \* the event handlers considered
  LastFd,     \* descriptors are 1 .. LastFd
  MaxOpens    \* bound: descriptors opened

Sockets == 1 .. LastFd
Ev == {"IN", "OUT"}
NoFd == -1   \* also an index that is not set
Off == {"off"}

FdEventAssumption ==
  LastFd \in Nat \ {0} /\ MaxOpens \in Nat /\ Backends \subseteq {"epoll", "poll", "select", "kqueue"}

VARIABLES
  backend,  \* srv->event_handler
  opens,    \* how many descriptors were opened
  sock,     \* what a descriptor is open for: the number of its socket, 0 when closed
  node,     \* fdarray: "none" (NULL), "node", or "closing" (the tagged pointer)
  events,   \* fdnode.events
  ndx,      \* fde_ndx, kept by the owner of the descriptor
  leaving,  \* the descriptors between fdevent_event_del and fdevent_sched_close
  pend,     \* pendclose
  mon,      \* what the kernel was asked to report of a descriptor (epoll, select, kqueue)
  slots,    \* pollfds: [fd, events]
  unused,   \* the free indices of pollfds, the next one last
  report,   \* what the poll reported: [at, sock], in the order of next_fdndx
  n,        \* how many of them are still to be handled
  pc,       \* where the main loop is
  cur,      \* the descriptor whose handler runs
  served    \* the sockets whose handler ran in this round

owners == <<opens, sock, leaving>>
polled == <<report, n>>
vars == <<backend, owners, node, events, ndx, pend, mon, slots, unused, polled, pc, cur, served>>

Init ==
  /\ backend \in Backends /\ opens = 0 /\ sock = [f \in Sockets |-> 0]
  /\ node = [f \in Sockets |-> "none"] /\ events = [f \in Sockets |-> {}] /\ ndx = [f \in Sockets |-> NoFd]
  /\ leaving = {} /\ pend = {} /\ mon = [f \in Sockets |-> Off] /\ slots = <<>> /\ unused = <<>>
  /\ report = <<>> /\ n = 0 /\ pc = "poll" /\ cur = NoFd /\ served = {}

-----------------------------------------------------------------------------
(* The event handlers: each sets its own structures and the owner's index.  *)

SetIndex(f, i) == ndx' = [ndx EXCEPT ![f] = i]

\* EPOLL_CTL_ADD without an index, EPOLL_CTL_MOD with one; the kernel refuses what does not fit
EpollFits(f) == (ndx[f] = NoFd) = (mon[f] = Off)
EpollSet(f, ev) == mon' = [mon EXCEPT ![f] = ev] /\ SetIndex(f, f) /\ UNCHANGED <<slots, unused>>
EpollDel(f) ==
  /\ mon' = [mon EXCEPT ![f] = IF ndx[f] = NoFd THEN @ ELSE Off]
  /\ SetIndex(f, NoFd) /\ UNCHANGED <<slots, unused>>

\* the sets of select() keep a descriptor that has no interest
SelectSet(f, ev) == mon' = [mon EXCEPT ![f] = ev] /\ SetIndex(f, f) /\ UNCHANGED <<slots, unused>>
SelectDel(f) ==
  /\ mon' = [mon EXCEPT ![f] = IF ndx[f] = NoFd THEN @ ELSE {}]
  /\ SetIndex(f, NoFd) /\ UNCHANGED <<slots, unused>>

\* only the differences to fdnode.events are told to the kernel
KqueueSet(f, ev) ==
  /\ mon' = [mon EXCEPT ![f] = ((@ \ Off) \ (events[f] \ ev)) \cup (ev \ events[f])]
  /\ SetIndex(f, f) /\ UNCHANGED <<slots, unused>>
KqueueDel(f) ==
  /\ mon' = [mon EXCEPT ![f] = IF ndx[f] = NoFd THEN @ ELSE @ \ events[f]]
  /\ SetIndex(f, NoFd) /\ UNCHANGED <<slots, unused>>

PollSet(f, ev) ==
  LET slot == [fd |-> f, events |-> ev] IN
  /\ UNCHANGED mon
  /\ \/ ndx[f] # NoFd /\ slots' = [slots EXCEPT ![ndx[f]] = slot] /\ UNCHANGED <<unused, ndx>>
     \/ /\ ndx[f] = NoFd /\ unused # <<>>
        /\ slots' = [slots EXCEPT ![Last(unused)] = slot]
        /\ SetIndex(f, Last(unused)) /\ unused' = Front(unused)
     \/ /\ ndx[f] = NoFd /\ unused = <<>>
        /\ slots' = Append(slots, slot) /\ SetIndex(f, Len(slots) + 1) /\ UNCHANGED unused
\* a freed index is forgotten
PollDelLoses(f) ==
  /\ UNCHANGED <<mon, unused>> /\ SetIndex(f, NoFd)
  /\ slots' = IF ndx[f] = NoFd THEN slots ELSE [slots EXCEPT ![ndx[f]].fd = NoFd]
\* a freed index is kept for the next descriptor
PollDel(f) ==
  /\ UNCHANGED mon /\ SetIndex(f, NoFd)
  /\ IF ndx[f] = NoFd THEN UNCHANGED <<slots, unused>>
     ELSE /\ slots' = [slots EXCEPT ![ndx[f]].fd = NoFd]
          /\ unused' = Append(unused, ndx[f])

BackendSet(f, ev) ==
  \/ backend = "epoll" /\ EpollSet(f, ev)
  \/ backend = "select" /\ SelectSet(f, ev)
  \/ backend = "kqueue" /\ KqueueSet(f, ev)
  \/ backend = "poll" /\ PollSet(f, ev)
BackendDel(f) ==
  \/ backend = "epoll" /\ EpollDel(f)
  \/ backend = "select" /\ SelectDel(f)
  \/ backend = "kqueue" /\ KqueueDel(f)
  \/ backend = "poll" /\ PollDel(f)

-----------------------------------------------------------------------------
(* fdevent.c, called by whoever owns the descriptor.                        *)

\* socket(), and the context of its owner: fde_ndx is -1
Open(f) ==
  /\ sock[f] = 0 /\ opens < MaxOpens
  /\ opens' = opens + 1 /\ sock' = [sock EXCEPT ![f] = opens + 1] /\ SetIndex(f, NoFd)
  /\ UNCHANGED <<backend, leaving, node, events, pend, mon, slots, unused, polled, pc, cur, served>>

Register(f) ==
  /\ sock[f] # 0 /\ node[f] = "none"
  /\ node' = [node EXCEPT ![f] = "node"] /\ events' = [events EXCEPT ![f] = {}]
  /\ UNCHANGED <<backend, owners, ndx, pend, mon, slots, unused, polled, pc, cur, served>>

\* fdevent_event_set, fdevent_event_add and fdevent_event_clr: nothing is done without a change
EventSet(f, ev) ==
  /\ node[f] = "node" /\ f \notin leaving /\ ev # events[f]
  /\ BackendSet(f, ev) /\ events' = [events EXCEPT ![f] = ev]
  /\ UNCHANGED <<backend, owners, node, pend, polled, pc, cur, served>>

\* fdevent_event_del, which its owner lets fdevent_sched_close follow
EventDel(f) ==
  /\ node[f] = "node" /\ f \notin leaving /\ leaving' = leaving \cup {f}
  /\ BackendDel(f) /\ events' = [events EXCEPT ![f] = {}]
  /\ UNCHANGED <<backend, opens, sock, node, pend, polled, pc, cur, served>>

\* the descriptor is closed at once
SchedCloseNow(f) ==
  /\ f \in leaving /\ leaving' = leaving \ {f}
  /\ node' = [node EXCEPT ![f] = "none"] /\ sock' = [sock EXCEPT ![f] = 0]
  /\ UNCHANGED <<backend, opens, events, ndx, pend, mon, slots, unused, polled, pc, cur, served>>
SchedClose(f) ==
  /\ f \in leaving /\ leaving' = leaving \ {f}
  /\ node' = [node EXCEPT ![f] = "closing"] /\ pend' = pend \cup {f}
  /\ UNCHANGED <<backend, opens, sock, events, ndx, mon, slots, unused, polled, pc, cur, served>>

-----------------------------------------------------------------------------
(* The main loop.                                                           *)

\* What can be done without blocking is up to the peers: any part of what is watched.
Seqs(s) == {q \in [1 .. Cardinality(s) -> s] : \A i, j \in DOMAIN q : i # j => q[i] # q[j]}
Ordered(qs) == {q \in qs : \A i, j \in DOMAIN q : i < j => q[i].at < q[j].at}
Entry(f) == [at |-> f, sock |-> sock[f]]
SlotEntry(k) == [at |-> k, sock |-> sock[slots[k].fd]]
Monitored == {f \in Sockets : sock[f] # 0 /\ mon[f] \ Off # {}}
Polled == {i \in DOMAIN slots : slots[i].fd # NoFd /\ slots[i].events # {}}

\* poll and select look at their arrays in order; epoll and kqueue return events in any order,
\* kqueue one for each filter
Reports ==
  CASE backend = "epoll" -> UNION {Seqs({Entry(f) : f \in s}) : s \in SUBSET Monitored}
    [] backend = "select" -> UNION {Ordered(Seqs({Entry(f) : f \in s})) : s \in SUBSET Monitored}
    [] backend = "kqueue" -> {[i \in DOMAIN q |-> Entry(q[i][1])] :
         q \in UNION {Seqs(s) : s \in SUBSET {x \in Monitored \X Ev : x[2] \in mon[x[1]]}}}
    [] backend = "poll" -> UNION {Ordered(Seqs({SlotEntry(k) : k \in s})) : s \in SUBSET Polled}

Poll ==
  /\ pc = "poll"
  /\ \E r \in Reports : report' = r /\ n' = Len(r) /\ pc' = IF r = <<>> THEN "sched" ELSE "call"
  /\ served' = {}
  /\ UNCHANGED <<backend, owners, node, events, ndx, pend, mon, slots, unused, cur>>

EventFd(e) == IF backend = "poll" THEN slots[e.at].fd ELSE e.at

\* --n > 0
Counted == n' = n - 1 /\ pc' = IF n > 1 THEN "call" ELSE "sched"

\* fdevent_call looks for the first event each time it is called: fd_ndx starts at -1.
\* It does not read beyond what it finds, an index or a node that is not there.
Call ==
  /\ pc = "call"
  /\ LET f == EventFd(Head(report)) IN
     \/ f # NoFd /\ node[f] = "closing" /\ Counted /\ UNCHANGED <<cur, served>>
     \/ /\ f # NoFd /\ node[f] = "node" /\ pc' = "handler" /\ cur' = f
        /\ served' = served \cup {sock[f]} /\ UNCHANGED n
     \/ /\ f # NoFd => node[f] = "none"
        /\ pc' = "wild" /\ UNCHANGED <<n, cur, served>>
  /\ UNCHANGED <<backend, owners, node, events, ndx, pend, mon, slots, unused, report>>

\* The handler returns; what it did to descriptors are the steps above.
Return ==
  /\ pc = "handler" /\ Counted /\ cur' = NoFd
  /\ UNCHANGED <<backend, owners, node, events, ndx, pend, mon, slots, unused, report, served>>

\* fdevent_sched_run
SchedRun ==
  /\ pc = "sched" /\ pc' = "poll" /\ pend' = {} /\ report' = <<>>
  /\ sock' = [f \in Sockets |-> IF f \in pend THEN 0 ELSE sock[f]]
  /\ node' = [f \in Sockets |-> IF f \in pend THEN "none" ELSE node[f]]
  /\ UNCHANGED <<backend, opens, leaving, events, ndx, mon, slots, unused, n, cur, served>>

Next ==
  \/ Poll \/ Call \/ Return \/ SchedRun
  \/ \E f \in Sockets : \/ Open(f) \/ Register(f) \/ EventDel(f) \/ SchedClose(f)
                    \/ \E ev \in SUBSET Ev : EventSet(f, ev)

Spec == Init /\ [][Next]_vars

-----------------------------------------------------------------------------
(* What holds.                                                              *)

\* What the kernel, or the arrays of poll and select, watch of a descriptor.
Watched(f) ==
  IF backend # "poll" THEN mon[f] \ Off
  ELSE UNION {slots[i].events : i \in {j \in DOMAIN slots : slots[j].fd = f}}

\* Whatever order descriptors are registered, changed, closed and their numbers and indices
\* used again in, the event handler watches of each exactly what fdevent.c says it does, its
\* own call fits what the kernel knows, and each index of poll's array is in use or free, once.
InterestKept ==
  /\ \A f \in Sockets : Watched(f) = IF node[f] = "none" THEN {} ELSE events[f]
  /\ backend = "epoll" => \A f \in Sockets : EpollFits(f)
  /\ backend = "poll" =>
       LET free == {i \in DOMAIN slots : slots[i].fd = NoFd} IN
       /\ \A f \in Sockets : ndx[f] # NoFd => slots[ndx[f]].fd = f
       /\ \A i \in DOMAIN slots \ free : ndx[slots[i].fd] = i
       /\ {unused[i] : i \in DOMAIN unused} = free /\ Len(unused) = Cardinality(free)

\* A closed descriptor keeps its number until the round is over: fdevent_call calls a handler
\* only for an event of the very socket it is registered for, however many were closed by
\* other threads since the poll, and it looks at no entry that is gone.  (With poll, an index
\* may have been freed, or taken by another descriptor, since.)
RoundSafe ==
  backend # "poll" =>
    pc # "wild" /\ (pc = "handler" => sock[cur] \in {0, Head(report).sock})

\* server.c, in the loop around fdevent_call: "n is the number of events".  When the round is
\* over, every event that was reported has been handled or its descriptor is being closed.
EachHandled ==
  pc = "sched" => \A i \in DOMAIN report :
    report[i].sock \in served \/ EventFd(report[i]) \notin Sockets \/ node[EventFd(report[i])] # "node"
=============================================================================
