------------------------------ MODULE ConPool ------------------------------
(***************************************************************************)
(* The connection slots of srv->connspool, shared without a lock by the    *)
(* main thread, which accepts clients into them and times them out, and    *)
(* the workers, which run the connections and close them.  A slot belongs  *)
(* to one worker.  The steps of connection_accepted and connection_close   *)
(* are kept apart where the other threads, or the kernel reusing a number  *)
(* of a closed descriptor, can come in between; the states a connection    *)
(* passes through while it is served are one, READ (ConState has them      *)
(* all).                                                                   *)
(***************************************************************************)
EXTENDS Integers, Sequences, FiniteSets

CONSTANTS
  Conns,        \* the slots, srv->max_conns of them
  Threads,      \* the workers
  ThreadOf,     \* the worker of a slot: con->state_machine->thread_num
  Fds,          \* descriptor numbers the kernel can give to clients
  MaxQueue,     \* bound on the queue of a worker
  EagerReuse,   \* may mpool_get hand out a slot that somebody is not done with?
  SplitTimer    \* may a worker run between the timer's look at a slot and its verdict?

Main == "main"
Procs == Threads \cup {Main}
NoCon == "no connection"
NoFd == "no descriptor"

ASSUME ConPoolAssumption ==
  /\ IsFiniteSet(Conns) /\ IsFiniteSet(Threads) /\ IsFiniteSet(Fds)
  /\ ThreadOf \in [Conns -> Threads]
  /\ Main \notin Threads /\ NoCon \notin Conns /\ NoFd \notin Fds
  /\ MaxQueue \in Nat /\ EagerReuse \in BOOLEAN /\ SplitTimer \in BOOLEAN

VARIABLES
  openFds,   \* client sockets open in the kernel
  reg,       \* the event pool: which slot the events of a descriptor go to
  curFds,    \* server_cur_fds_g, less what it was when the workers started
  used,      \* mpool: is the slot handed out?
  fd,        \* con->fd
  hfd,       \* con->client_handler->subscriber->fd
  want,      \* does con->client_handler ask for events?
  st,        \* con->state
  queue,     \* runs of the state machine queued for a worker
  pc,        \* where a thread is
  my,        \* the slot it works on
  myfd       \* its local copy of a descriptor

slots == <<used, fd, hfd, want, st>>
vars == <<openFds, reg, curFds, used, fd, hfd, want, st, queue, pc, my, myfd>>

ConStates == {"CONNECT", "REQUEST_START", "READ", "ERROR", "CLOSE"}
Closing == {"del", "close", "count", "unset", "release", "setst"}
Labels == Closing \cup {"idle", "accepted", "counted", "got", "registered", "started",
                        "timeout", "run", "rest"}

Init ==
  /\ openFds = {} /\ reg = [f \in Fds |-> NoCon] /\ curFds = 0
  /\ used = [c \in Conns |-> FALSE] /\ fd = [c \in Conns |-> NoFd]
  /\ hfd = [c \in Conns |-> NoFd] /\ want = [c \in Conns |-> FALSE]
  /\ st = [c \in Conns |-> "CONNECT"]
  /\ queue = [t \in Threads |-> <<>>]
  /\ pc = [p \in Procs |-> "idle"] /\ my = [p \in Procs |-> NoCon]
  /\ myfd = [p \in Procs |-> NoFd]

\* Thread p, at label a, goes on to label b with the slot it has.
Goto(p, a, b) == pc[p] = a /\ pc' = [pc EXCEPT ![p] = b] /\ UNCHANGED my
\* ... or is done with its slot.
Done(p, a) == /\ pc[p] = a /\ pc' = [pc EXCEPT ![p] = "idle"]
              /\ my' = [my EXCEPT ![p] = NoCon]

QueueRun(c) ==
  LET t == ThreadOf[c] IN
  Len(queue[t]) < MaxQueue /\ queue' = [queue EXCEPT ![t] = Append(@, c)]

\* Nobody works on the slot, or is going to.
Quiet(c) == /\ \A p \in Procs : my[p] # c
            /\ \A i \in 1 .. Len(queue[ThreadOf[c]]) : queue[ThreadOf[c]][i] # c

-----------------------------------------------------------------------------
(* connection_close, in a worker, or in the main thread when a client that *)
(* was just accepted cannot be served.                                     *)

EnterClose(p, a) == Goto(p, a, "del") /\ myfd' = [myfd EXCEPT ![p] = fd[my[p]]]

\* Mutant of CloseEvents: the descriptor stays registered.
CloseEventsNot(p) ==
  /\ Goto(p, "del", IF myfd[p] # NoFd THEN "close" ELSE "unset")
  /\ UNCHANGED <<openFds, curFds, queue, myfd, reg>> /\ UNCHANGED slots

\* connection_fdevent_event_del
CloseEvents(p) ==
  /\ Goto(p, "del", IF myfd[p] # NoFd THEN "close" ELSE "unset")
  /\ reg' = IF myfd[p] # NoFd /\ hfd[my[p]] # NoFd THEN [reg EXCEPT ![hfd[my[p]]] = NoCon] ELSE reg
  /\ UNCHANGED <<openFds, curFds, queue, myfd>> /\ UNCHANGED slots

\* Mutant of CloseFd: the descriptor is forgotten, not closed.
CloseFdNot(p) ==
  /\ Goto(p, "close", "unset") /\ UNCHANGED <<openFds, reg, curFds, queue, myfd>> /\ UNCHANGED slots
\* Mutant of CloseFd: the descriptor is closed, and not counted.
CloseFdUncounted(p) ==
  /\ Goto(p, "close", "unset") /\ openFds' = openFds \ {fd[my[p]]}
  /\ UNCHANGED <<reg, curFds, queue, myfd>> /\ UNCHANGED slots

\* close(con->fd): fails if the descriptor is not open
CloseFd(p) ==
  /\ Goto(p, "close", IF fd[my[p]] \in openFds THEN "count" ELSE "unset")
  /\ openFds' = openFds \ {fd[my[p]]}
  /\ UNCHANGED <<reg, curFds, queue, myfd>> /\ UNCHANGED slots

\* server_decrement_cur_fds
CloseCount(p) ==
  /\ Goto(p, "count", "unset") /\ curFds' = curFds - 1
  /\ UNCHANGED <<openFds, reg, queue, myfd>> /\ UNCHANGED slots

\* con->fd = -1
CloseUnset(p) ==
  /\ Goto(p, "unset", "release") /\ fd' = [fd EXCEPT ![my[p]] = NoFd]
  /\ UNCHANGED <<openFds, reg, curFds, used, hfd, want, st, queue, myfd>>

\* connection_del
CloseRelease(p) ==
  /\ Goto(p, "release", "setst") /\ used' = [used EXCEPT ![my[p]] = FALSE]
  /\ UNCHANGED <<openFds, reg, curFds, fd, hfd, want, st, queue, myfd>>

\* connection_set_state(CON_STATE_CONNECT); a worker runs that state, too
CloseSetState(p) ==
  /\ IF p = Main THEN Done(p, "setst") ELSE Goto(p, "setst", "run")
  /\ st' = [st EXCEPT ![my[p]] = "CONNECT"]
  /\ UNCHANGED <<openFds, reg, curFds, used, fd, hfd, want, queue, myfd>>

Close(p) == \/ CloseEvents(p) \/ CloseFd(p) \/ CloseCount(p) \/ CloseUnset(p)
            \/ CloseRelease(p) \/ CloseSetState(p)

-----------------------------------------------------------------------------
(* The main thread.                                                         *)

\* accept(), if there is a slot to spare
Accept ==
  /\ \E c \in Conns : ~used[c]
  /\ Goto(Main, "idle", "accepted")
  /\ \E f \in Fds \ openFds : openFds' = openFds \cup {f} /\ myfd' = [myfd EXCEPT ![Main] = f]
  /\ UNCHANGED <<reg, curFds, queue>> /\ UNCHANGED slots

\* server_increment_cur_fds
AcceptCount ==
  /\ Goto(Main, "accepted", "counted") /\ curFds' = curFds + 1
  /\ UNCHANGED <<openFds, reg, queue, myfd>> /\ UNCHANGED slots

\* connections_get_new_connection
AcceptSlot ==
  /\ pc[Main] = "counted" /\ pc' = [pc EXCEPT ![Main] = "got"]
  /\ \E c \in Conns : /\ ~used[c] /\ (EagerReuse \/ Quiet(c))
                      /\ my' = [my EXCEPT ![Main] = c]
                      /\ used' = [used EXCEPT ![c] = TRUE]
  /\ UNCHANGED <<openFds, reg, curFds, fd, hfd, want, st, queue, myfd>>

\* Mutant of AcceptRegister: events are asked for from the start.
AcceptRegisterArmed ==
  /\ Goto(Main, "got", "registered")
  /\ fd' = [fd EXCEPT ![my[Main]] = myfd[Main]] /\ hfd' = [hfd EXCEPT ![my[Main]] = myfd[Main]]
  /\ want' = [want EXCEPT ![my[Main]] = TRUE]
  /\ reg' = [reg EXCEPT ![myfd[Main]] = my[Main]]
  /\ UNCHANGED <<openFds, curFds, used, st, queue, myfd>>

\* con->fd = cnt and connection_fdevent_add, with no interest yet
AcceptRegister ==
  /\ Goto(Main, "got", "registered")
  /\ fd' = [fd EXCEPT ![my[Main]] = myfd[Main]] /\ hfd' = [hfd EXCEPT ![my[Main]] = myfd[Main]]
  /\ want' = [want EXCEPT ![my[Main]] = FALSE]
  /\ reg' = [reg EXCEPT ![myfd[Main]] = my[Main]]
  /\ UNCHANGED <<openFds, curFds, used, st, queue, myfd>>

AcceptStart ==
  /\ Goto(Main, "registered", "started") /\ st' = [st EXCEPT ![my[Main]] = "REQUEST_START"]
  /\ UNCHANGED <<openFds, reg, curFds, used, fd, hfd, want, queue, myfd>>

\* Mutant of AcceptQueue: no run is queued for the new connection.
AcceptForget == /\ Done(Main, "started") /\ UNCHANGED queue
                /\ UNCHANGED <<openFds, reg, curFds, myfd>> /\ UNCHANGED slots

\* network_server_handle_fdevent runs the state machine: queued for the slot's worker
AcceptQueue == /\ Done(Main, "started") /\ QueueRun(my[Main])
               /\ UNCHANGED <<openFds, reg, curFds, myfd>> /\ UNCHANGED slots

\* Mutant of AcceptFail: the run is queued for a refused client, too.
AcceptFailRuns == /\ EnterClose(Main, "started") /\ QueueRun(my[Main])
                  /\ UNCHANGED <<openFds, reg, curFds>> /\ UNCHANGED slots

\* fcntl or a plugin refuses the client
AcceptFail == /\ EnterClose(Main, "started")
              /\ UNCHANGED <<openFds, reg, curFds, queue>> /\ UNCHANGED slots

TimedOut(c) == used[c] /\ st[c] = "READ" /\ want[c]

\* The once-a-second check finds a connection that waited too long ...
TimerLook(c) ==
  /\ SplitTimer /\ pc[Main] = "idle" /\ TimedOut(c)
  /\ pc' = [pc EXCEPT ![Main] = "timeout"] /\ my' = [my EXCEPT ![Main] = c]
  /\ UNCHANGED <<openFds, reg, curFds, queue, myfd>> /\ UNCHANGED slots
\* ... and ends it.
TimerEnd ==
  /\ Done(Main, "timeout") /\ st' = [st EXCEPT ![my[Main]] = "ERROR"] /\ QueueRun(my[Main])
  /\ UNCHANGED <<openFds, reg, curFds, used, fd, hfd, want, myfd>>
\* Both at once, when no worker comes in between.
Timer(c) ==
  /\ pc[Main] = "idle" /\ TimedOut(c)
  /\ st' = [st EXCEPT ![c] = "ERROR"] /\ QueueRun(c)
  /\ UNCHANGED <<openFds, reg, curFds, used, fd, hfd, want, pc, my, myfd>>

MainStep == \/ Accept \/ AcceptCount \/ AcceptSlot \/ AcceptRegister \/ AcceptStart
            \/ AcceptQueue \/ AcceptFail \/ TimerEnd
            \/ \E c \in Conns : TimerLook(c) \/ Timer(c)

-----------------------------------------------------------------------------
(* The workers.                                                             *)

TakeRun(t) ==
  /\ pc[t] = "idle" /\ queue[t] # <<>>
  /\ my' = [my EXCEPT ![t] = Head(queue[t])] /\ queue' = [queue EXCEPT ![t] = Tail(@)]
  /\ pc' = [pc EXCEPT ![t] = "run"]
  /\ UNCHANGED <<openFds, reg, curFds, myfd>> /\ UNCHANGED slots

\* connection_handle_fdevent: the event may end the connection before the state machine runs
TakeEvent(t) ==
  /\ pc[t] = "idle" /\ pc' = [pc EXCEPT ![t] = "run"]
  /\ \E f \in Fds :
       /\ reg[f] # NoCon /\ ThreadOf[reg[f]] = t /\ want[reg[f]]
       /\ my' = [my EXCEPT ![t] = reg[f]]
       /\ \/ UNCHANGED st
          \/ st[reg[f]] = "READ" /\ st' = [st EXCEPT ![reg[f]] = "ERROR"]
  /\ UNCHANGED <<openFds, reg, curFds, used, fd, hfd, want, queue, myfd>>

\* A handler that moves the connection to another state is followed by that state's.
Move(t, a, b) ==
  /\ Goto(t, "run", "run") /\ st[my[t]] = a /\ st' = [st EXCEPT ![my[t]] = b]
  /\ UNCHANGED <<openFds, reg, curFds, used, fd, hfd, want, queue, myfd>>

RunRequestStart(t) == Move(t, "REQUEST_START", "READ")
\* connection_handle_read_state and, when the request is complete, all up to its response:
\* the connection is kept for another request, or ends.
RunServe(t) == Move(t, "READ", "REQUEST_START") \/ Move(t, "READ", "ERROR")
\* connection_handle_response_end_state and connection_handle_shutdown
RunShutdown(t) == Move(t, "ERROR", "CLOSE") /\ fd[my[t]] # NoFd

\* shutdown() failed, or the client has closed, too
RunClose(t) == /\ pc[t] = "run" /\ st[my[t]] \in {"ERROR", "CLOSE"} /\ EnterClose(t, "run")
               /\ UNCHANGED <<openFds, reg, curFds, queue>> /\ UNCHANGED slots

\* The state did not change: the run ends.
RunRest(t) == /\ pc[t] = "run" /\ st[my[t]] \in {"CONNECT", "READ", "CLOSE"} /\ Goto(t, "run", "rest")
              /\ UNCHANGED <<openFds, reg, curFds, queue, myfd>> /\ UNCHANGED slots

\* connection_handle_fdevent_set
FdeventSet(t) ==
  /\ Done(t, "rest")
  /\ want' = IF fd[my[t]] = NoFd THEN want
             ELSE [want EXCEPT ![my[t]] = (st[my[t]] \in {"READ", "CLOSE"})]
  /\ UNCHANGED <<openFds, reg, curFds, used, fd, hfd, st, queue, myfd>>

WorkerStep(t) == \/ TakeRun(t) \/ TakeEvent(t) \/ RunRequestStart(t) \/ RunServe(t)
                 \/ RunShutdown(t) \/ RunClose(t) \/ RunRest(t) \/ FdeventSet(t)

Next == MainStep \/ (\E p \in Procs : Close(p)) \/ (\E t \in Threads : WorkerStep(t))

Spec == Init /\ [][Next]_vars

-----------------------------------------------------------------------------
(* Properties.                                                              *)

\* Every variable keeps its type;
VarTypes ==
  /\ openFds \subseteq Fds /\ reg \in [Fds -> Conns \cup {NoCon}] /\ curFds \in Int
  /\ used \in [Conns -> BOOLEAN] /\ want \in [Conns -> BOOLEAN]
  /\ fd \in [Conns -> Fds \cup {NoFd}] /\ hfd \in [Conns -> Fds \cup {NoFd}]
  /\ st \in [Conns -> ConStates]
  /\ queue \in [Threads -> Seq(Conns)]
  /\ pc \in [Procs -> Labels] /\ my \in [Procs -> Conns \cup {NoCon}]
  /\ myfd \in [Procs -> Fds \cup {NoFd}]

\* a thread at work has a slot, and a worker is given, and works on, only its own slots.
OwnSlots ==
  /\ \A p \in Procs : pc[p] \notin {"idle", "accepted", "counted"} => my[p] # NoCon
  /\ \A t \in Threads : my[t] # NoCon => ThreadOf[my[t]] = t
  /\ \A t \in Threads : \A i \in 1 .. Len(queue[t]) : ThreadOf[queue[t][i]] = t

TypeOK == VarTypes /\ OwnSlots

Counting == {p \in Procs : pc[p] = "count"}

\* server_cur_fds_g is the number of client descriptors that are open, up to the accept and
\* the closes whose counting is still to come: no order of accepts, failed accepts, closes
\* and reuses of a descriptor makes it drift, whatever slots the threads collide on.
Accounting ==
  Cardinality(openFds) + Cardinality(Counting)
    = curFds + (IF pc[Main] = "accepted" THEN 1 ELSE 0)

\* The slot's descriptor is open and nobody has closed it yet.
Holds(c, f) == /\ used[c] /\ fd[c] = f
               /\ \A p \in Procs : my[p] = c => pc[p] \notin {"count", "unset"}

Pending(f) == pc[Main] \in {"accepted", "counted", "got"} /\ myfd[Main] = f

\* Events of a descriptor go to the one slot that has it, for as long as it has it: a
\* number the kernel gives out again never delivers to the slot that had it before.
EventsReachOwner ==
  \A f \in Fds : reg[f] # NoCon => f \in openFds /\ Holds(reg[f], f)

\* The open descriptor f is slot c's and nobody else's, and delivers no events any more.
LastOf(c, f) == /\ f \in openFds /\ reg[f] = NoCon /\ ~Pending(f)
                /\ \A d \in Conns : Holds(d, f) => d = c

\* connection_close closes the slot's own descriptor, once: nobody else's, and none that is
\* closed already.
ClosesOwn == \A p \in Procs : pc[p] = "close" => LastOf(my[p], fd[my[p]])

\* No descriptor is lost: an open one belongs to one slot, or to the accept in progress.
NoLeak == \A f \in openFds :
            \/ Pending(f) /\ \A c \in Conns : ~Holds(c, f)
            \/ ~Pending(f) /\ \E c \in Conns : Holds(c, f) /\ \A d \in Conns : Holds(d, f) => d = c

\* One thread works on a slot at a time, although none locks it.
Exclusive == \A p, q \in Procs : my[p] = my[q] /\ my[p] # NoCon => p = q

\* What makes these invariant when slots are reused quietly (~EagerReuse) and the timer is
\* not interrupted (~SplitTimer).  A thread has a slot exactly while it is at work;
AtWork == /\ \A p \in Procs : pc[p] \in {"idle", "accepted", "counted"} <=> my[p] = NoCon
          /\ \A t \in Threads : pc[t] \in Closing \cup {"idle", "run", "rest"}
          /\ pc[Main] \notin {"run", "rest", "timeout"}
\* nothing calls a worker to the slot the main thread is filling or giving up;
MainUndisturbed ==
  my[Main] # NoCon =>
    LET c == my[Main] IN
    /\ \A i \in 1 .. Len(queue[ThreadOf[c]]) : queue[ThreadOf[c]][i] # c
    /\ pc[Main] # "got" => ~want[c]
\* what a slot is like at each label of its thread;
Stage(p) ==
  /\ pc[p] \in {"got", "registered", "started"} \cup (Closing \ {"setst"}) => used[my[p]]
  /\ pc[p] = "setst" => ~used[my[p]]
  /\ pc[p] \in {"got", "release", "setst"} => fd[my[p]] = NoFd
  /\ pc[p] \in {"del", "close"} => fd[my[p]] = myfd[p]
  /\ pc[p] \in {"registered", "started", "del", "close"} => fd[my[p]] # NoFd
Stages == \A p \in Procs : Stage(p)
\* a slot between its registration and the end of it is bound to one open descriptor;
Bound(c) == /\ used[c]
            /\ \A p \in Procs : my[p] = c => pc[p] \notin {"got"} \cup (Closing \ {"del"})
BoundToOpen ==
  \A c \in Conns : Bound(c) => /\ fd[c] # NoFd /\ hfd[c] = fd[c]
                               /\ fd[c] \in openFds /\ reg[fd[c]] = c
RegisteredBound == \A f \in Fds : reg[f] # NoCon => Bound(reg[f]) /\ fd[reg[f]] = f
\* the descriptor being accepted is nobody's;
PendingFree ==
  /\ pc[Main] \in {"accepted", "counted", "got"} => myfd[Main] # NoFd
  /\ \A f \in Fds : Pending(f) => f \in openFds /\ reg[f] = NoCon /\ \A c \in Conns : ~Holds(c, f)
\* an open one is somebody's, or being accepted;
OpenHeld == \A f \in openFds : Pending(f) \/ \E c \in Conns : Holds(c, f)
\* and a free slot has none.
FreeEmpty ==
  \A c \in Conns : ~used[c] =>
    /\ fd[c] = NoFd
    /\ st[c] = "CONNECT" \/ \E p \in Procs : my[p] = c /\ pc[p] = "setst"

Ownership == /\ AtWork /\ Exclusive /\ MainUndisturbed /\ Stages /\ BoundToOpen
             /\ RegisteredBound /\ PendingFree /\ OpenHeld /\ ClosesOwn /\ FreeEmpty

\* A worker finishes what it began and sees to its queue although events keep coming; a
\* client's pipelined requests run out; the main thread finishes an accept it has begun.
Fairness == /\ \A t \in Threads : /\ WF_vars(WorkerStep(t) \/ Close(t))
                                   /\ SF_vars(TakeRun(t)) /\ SF_vars(RunRest(t))
            /\ WF_vars(MainStep \/ Close(Main))

FairSpec == Spec /\ Fairness

\* A client that was accepted is waited for or closed: it is not forgotten.
ClientAttended ==
  \A c \in Conns : used[c] /\ st[c] = "REQUEST_START" ~> ~used[c] \/ (want[c] /\ st[c] # "REQUEST_START")
=============================================================================
