------------------------------ MODULE JobList ------------------------------
(***************************************************************************)
(* A pass of the main loop of server.c: the listening sockets are disabled *)
(* and enabled (admission), then joblist.c: the list of connections the    *)
(* main loop has to run and the queue of connections that found no         *)
(* descriptor for their backend.  Both are protected by one mutex,         *)
(* joblist_lock; want_fds, the count of the waiting connections, by none.  *)
(* A critical section that touches nothing but the two lists is one step.  *)
(***************************************************************************)
EXTENDS Integers, Sequences, FiniteSets

CONSTANTS
  Conns,      \* connections with a gateway backend
  Threads,    \* the workers
  ThreadOf,   \* the worker of a connection
  MaxFds, MaxConns,  \* srv->max_fds, srv->max_conns
  BaseFds,    \* descriptors of the server itself
  Reserve,    \* descriptors fdwaitqueue_call leaves alone: 16 in the code
  MaxShort,   \* bound: how often socket() fails for want of a descriptor
  MaxEvents,  \* bound: events of clients and backends
  Relock      \* a second lock by the holder: "blocks", or "nests" in a recursive mutex

Main == "main"
Procs == Threads \cup {Main}
Nobody == "nobody"
NoCon == "no connection"

ASSUME JobListAssumption ==
  /\ ThreadOf \in [Conns -> Threads] /\ NoCon \notin Conns
  /\ Main \notin Threads /\ Nobody \notin Procs
  /\ {MaxFds, MaxConns, BaseFds, Reserve, MaxShort, MaxEvents} \subseteq Nat /\ Relock \in {"blocks", "nests"}

VARIABLES
  lock,      \* who holds joblist_lock
  joblist,   \* srv->joblist
  fdwait,    \* srv->fdwaitqueue
  wantFds,   \* srv->want_fds
  disabled,  \* srv->sockets_disabled
  used,      \* the connections that have a client
  have,      \* the connections that have a socket to their backend
  runs,      \* the queue of each worker: runs of the state machine
  without,   \* the connections whose last socket() failed
  pc, my,    \* where a thread is, and with which connection
  tmp,       \* a thread's copy of want_fds between its load and its store
  free,      \* free_fds of fdwaitqueue_call
  ndx,       \* how far joblist_call is in the list
  short, events   \* what is left of the bounds

clients == <<disabled, used, have>>
vars == <<lock, joblist, fdwait, wantFds, clients, runs, without, pc, my, tmp, free, ndx, short, events>>

Init ==
  /\ lock = Nobody /\ joblist = <<>> /\ fdwait = <<>> /\ wantFds = 0
  /\ runs = [t \in Threads |-> <<>>] /\ without = {}
  /\ disabled = FALSE /\ used = {} /\ have = {}
  /\ pc = [p \in Procs |-> IF p = Main THEN "admit" ELSE "idle"]
  /\ my = [p \in Procs |-> NoCon] /\ tmp = [p \in Procs |-> 0]
  /\ free = 0 /\ ndx = 0 /\ short = MaxShort /\ events = MaxEvents

In(c, s) == \E i \in DOMAIN s : s[i] = c
Goto(p, a, b) == pc[p] = a /\ pc' = [pc EXCEPT ![p] = b]
\* connection_state_machine: a run for the connection's worker
WithRun(r, c) == [r EXCEPT ![ThreadOf[c]] = Append(@, c)]
CanLock(p) == lock = Nobody \/ (lock = p /\ Relock = "nests")

-----------------------------------------------------------------------------
(* The workers.                                                             *)

\* A run of the state machine reaches the backend's handler, which has its socket or gets
\* one (gw_write_request), or returns HANDLER_WAIT_FOR_FD.
RunServed(t) ==
  /\ pc[t] = "idle" /\ runs[t] # <<>>
  /\ without' = without \ {Head(runs[t])} /\ runs' = [runs EXCEPT ![t] = Tail(@)]
  /\ have' = have \cup (used \cap {Head(runs[t])})
  /\ UNCHANGED <<disabled, used, lock, joblist, fdwait, wantFds, pc, my, tmp, free, short, events, ndx>>
RunShort(t) ==
  /\ Goto(t, "idle", "load") /\ runs[t] # <<>> /\ short > 0 /\ short' = short - 1
  /\ Head(runs[t]) \in used \ have
  /\ my' = [my EXCEPT ![t] = Head(runs[t])] /\ runs' = [runs EXCEPT ![t] = Tail(@)]
  /\ without' = without \cup {Head(runs[t])}
  /\ UNCHANGED <<clients, lock, joblist, fdwait, wantFds, tmp, free, events, ndx>>

\* srv->want_fds++, a load and a store
WantLoad(t) == /\ Goto(t, "load", "store") /\ tmp' = [tmp EXCEPT ![t] = wantFds]
               /\ UNCHANGED <<clients, lock, joblist, fdwait, wantFds, runs, without, my, free, short, events, ndx>>
WantStore(t) == /\ Goto(t, "store", "append") /\ wantFds' = tmp[t] + 1
                /\ UNCHANGED <<clients, lock, joblist, fdwait, runs, without, my, tmp, free, short, events, ndx>>

\* fdwaitqueue_append
FdwaitAppend(t) ==
  /\ Goto(t, "append", "idle") /\ CanLock(t) /\ fdwait' = Append(fdwait, my[t])
  /\ my' = [my EXCEPT ![t] = NoCon]
  /\ UNCHANGED <<clients, lock, joblist, wantFds, runs, without, tmp, free, short, events, ndx>>

\* An event of the client's socket, or the timer: its worker runs the connection.
ClientEvent(c) ==
  /\ c \in used /\ events > 0 /\ events' = events - 1 /\ runs' = WithRun(runs, c)
  /\ UNCHANGED <<clients, lock, joblist, fdwait, wantFds, without, pc, my, tmp, free, short, ndx>>

\* The connection is closed, by its worker; fdwaitqueue keeps it.
Leave(c) ==
  /\ c \in used /\ pc[ThreadOf[c]] = "idle"
  /\ used' = used \ {c} /\ have' = have \ {c} /\ without' = without \ {c}
  /\ UNCHANGED <<lock, joblist, fdwait, wantFds, disabled, runs, pc, my, tmp, free, short, events, ndx>>

Worker(t) == RunServed(t) \/ RunShort(t) \/ WantLoad(t) \/ WantStore(t) \/ FdwaitAppend(t)

-----------------------------------------------------------------------------
(* The main loop: admission, fdwaitqueue_call, the poll and joblist_call.   *)

\* server_get_cur_fds()
CurFds == BaseFds + Cardinality(used) + Cardinality(have)
Crowded == Cardinality(used) >= MaxConns \/ CurFds + wantFds > (MaxFds * 9) \div 10
Roomy == Cardinality(used) <= (MaxConns * 9) \div 10 /\ CurFds + wantFds < (MaxFds * 8) \div 10

\* Mutant of Admit: nothing enables the sockets again.
AdmitOnce ==
  /\ Goto(Main, "admit", "fdwait") /\ disabled' = (disabled \/ Crowded)
  /\ UNCHANGED <<lock, joblist, fdwait, wantFds, used, have, runs, without, my, tmp, free, short, events, ndx>>

\* The listening sockets are disabled and enabled at two different levels.
Admit ==
  /\ Goto(Main, "admit", "fdwait")
  /\ disabled' = IF disabled THEN ~Roomy ELSE Crowded
  /\ UNCHANGED <<lock, joblist, fdwait, wantFds, used, have, runs, without, my, tmp, free, short, events, ndx>>

FdwaitCall ==
  /\ CanLock(Main) /\ lock' = Main
  /\ IF wantFds # 0
     THEN Goto(Main, "fdwait", "share") /\ free' = MaxFds - CurFds - Reserve
     ELSE Goto(Main, "fdwait", "unlock") /\ UNCHANGED free
  /\ UNCHANGED <<clients, joblist, fdwait, wantFds, runs, without, my, tmp, short, events, ndx>>

\* Mutant of Unshift: the connection leaves the queue and is not run.
UnshiftDrops ==
  /\ free > 0 /\ CanLock(Main)
  /\ IF fdwait = <<>> THEN Goto(Main, "share", "unlock") /\ UNCHANGED fdwait
     ELSE Goto(Main, "share", "load") /\ fdwait' = Tail(fdwait)
  /\ UNCHANGED <<clients, lock, joblist, wantFds, without, my, tmp, free, short, events, runs, ndx>>

\* fdwaitqueue_unshift, which locks again, and the run of the connection it returned
Unshift ==
  /\ free > 0 /\ CanLock(Main)
  /\ IF fdwait = <<>> THEN Goto(Main, "share", "unlock") /\ UNCHANGED <<fdwait, runs>>
     ELSE /\ Goto(Main, "share", "load") /\ fdwait' = Tail(fdwait)
          /\ runs' = WithRun(runs, Head(fdwait))
  /\ UNCHANGED <<clients, lock, joblist, wantFds, without, my, tmp, free, short, events, ndx>>
ShareNoMore ==
  /\ Goto(Main, "share", "unlock") /\ free <= 0
  /\ UNCHANGED <<clients, lock, joblist, fdwait, wantFds, runs, without, my, tmp, free, short, events, ndx>>

\* srv->want_fds--, a load and a store
LessLoad == /\ Goto(Main, "load", "store") /\ tmp' = [tmp EXCEPT ![Main] = wantFds]
            /\ UNCHANGED <<clients, lock, joblist, fdwait, wantFds, runs, without, my, free, short, events, ndx>>
LessStore == /\ Goto(Main, "store", "share") /\ wantFds' = tmp[Main] - 1 /\ free' = free - 1
             /\ UNCHANGED <<clients, lock, joblist, fdwait, runs, without, my, tmp, short, events, ndx>>

FdwaitUnlock ==
  /\ Goto(Main, "unlock", "poll") /\ lock' = Nobody
  /\ UNCHANGED <<clients, joblist, fdwait, wantFds, runs, without, my, tmp, free, short, events, ndx>>

\* gw_handle_fdevent, or a plugin's trigger: joblist_append
JoblistAppend(c) ==
  /\ pc[Main] = "poll" /\ events > 0 /\ events' = events - 1
  /\ CanLock(Main) /\ joblist' = Append(joblist, c)
  /\ UNCHANGED <<clients, lock, fdwait, wantFds, runs, without, pc, my, tmp, free, short, ndx>>
\* network_server_handle_fdevent: connection_accept refuses more than max-connections.
Accept(c) ==
  /\ pc[Main] = "poll" /\ ~disabled /\ c \notin used /\ Cardinality(used) < MaxConns
  /\ events > 0 /\ events' = events - 1
  /\ used' = used \cup {c} /\ runs' = WithRun(runs, c)
  /\ UNCHANGED <<lock, joblist, fdwait, wantFds, disabled, have, without, pc, my, tmp, free, short, ndx>>
Polled ==
  /\ Goto(Main, "poll", "jobs")
  /\ UNCHANGED <<clients, lock, joblist, fdwait, wantFds, runs, without, my, tmp, free, short, events, ndx>>

\* joblist_call: the lock is held while each connection of the list is run in turn, and
\* the workers go on running them meanwhile; the list is cleared at the end.
JoblistCall ==
  /\ Goto(Main, "jobs", "calling") /\ CanLock(Main) /\ lock' = Main /\ ndx' = 0
  /\ UNCHANGED <<clients, joblist, fdwait, wantFds, runs, without, my, tmp, free, short, events>>

\* Mutant of JoblistRun: it passes over every other connection of the list.
JoblistRunSkips ==
  /\ pc[Main] = "calling" /\ ndx < Len(joblist) /\ ndx' = ndx + 2
  /\ runs' = WithRun(runs, joblist[ndx + 1])
  /\ UNCHANGED <<clients, lock, joblist, fdwait, wantFds, without, pc, my, tmp, free, short, events>>

JoblistRun ==
  /\ pc[Main] = "calling" /\ ndx < Len(joblist) /\ ndx' = ndx + 1
  /\ runs' = WithRun(runs, joblist[ndx + 1])
  /\ UNCHANGED <<clients, lock, joblist, fdwait, wantFds, without, pc, my, tmp, free, short, events>>
JoblistClear ==
  /\ Goto(Main, "calling", "admit") /\ ndx >= Len(joblist)
  /\ joblist' = <<>> /\ lock' = Nobody
  /\ UNCHANGED <<clients, fdwait, wantFds, runs, without, my, tmp, free, ndx, short, events>>

MainLoop == \/ Admit \/ FdwaitCall \/ Unshift \/ ShareNoMore \/ LessLoad \/ LessStore \/ FdwaitUnlock
            \/ Polled \/ JoblistCall \/ JoblistRun \/ JoblistClear

Next == \/ MainLoop \/ (\E t \in Threads : Worker(t))
        \/ \E c \in Conns : ClientEvent(c) \/ JoblistAppend(c) \/ Accept(c) \/ Leave(c)

Spec == Init /\ [][Next]_vars

\* The main loop goes round and the workers drain their queues; clients need not leave.
FairSpec == Spec /\ WF_vars(MainLoop) /\ \A t \in Threads : WF_vars(Worker(t))

-----------------------------------------------------------------------------
(* Properties.                                                              *)

\* A connection that got no descriptor is in fdwaitqueue, on its way there, or about to be
\* run again: neither the workers' appends nor the main loop's sharing loses one.
NoLostWaiter ==
  \A c \in without : \/ In(c, fdwait) \/ In(c, runs[ThreadOf[c]])
                     \/ my[ThreadOf[c]] = c

\* A connection put on the joblist and not yet run by joblist_call is run by its worker:
\* neither the calls made one by one nor the clearing of the list loses one.
Listed(c) == \E i \in DOMAIN joblist : joblist[i] = c /\ (pc[Main] = "calling" => i > ndx)
JobsRun == \A c \in Conns : Listed(c) ~> In(c, runs[ThreadOf[c]])

\* The sockets are enabled again at a lower level than they were disabled at: once the
\* clients are gone the main loop does enable them, whatever the drift of want_fds.
AcceptsAgain == disabled /\ used = {} ~> ~disabled \/ used # {}

\* server.c, above fdwaitqueue_call: "we still have some fds to share": when a connection
\* waits for one of them, it is taken from the queue.
FdsShared == pc[Main] = "share" /\ free > 0 /\ fdwait # <<>> ~> pc[Main] = "load"
=============================================================================
