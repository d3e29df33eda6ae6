------------------------------ MODULE Gateway ------------------------------
(***************************************************************************)
(* gw_backend.c: the hosts and processes behind mod_fastcgi, mod_scgi and  *)
(* mod_proxy, and the requests handed to them.  The handlers of a request  *)
(* run in the connection's worker, or in the main thread when an event of  *)
(* the backend's descriptor calls them; the main thread also looks after   *)
(* the processes once a second and when a child has ended.  No lock is     *)
(* held: with overlap the steps of several handlers interleave and a       *)
(* counter may lose an update, without it one handler runs at a time.      *)
(* One request is handled by one thread.  The lists of processes are sets. *)
(***************************************************************************)
EXTENDS Integers, FiniteSets

CONSTANTS
  Balances,       \* the configurations of xxx.balance considered
  Overlaps,       \* whether handlers interleave: TRUE, FALSE or either
  LastHost,       \* hosts are 1 .. LastHost, in the order of the configuration
  Changing,       \* the hosts whose addresses may be served by somebody else
  Spawning,       \* the hosts with a bin-path, whose processes lighttpd starts
  LastId,         \* bound: the process structures of a host are 0 .. LastId
  Reqs,           \* connections with a request for a backend
  MinProcs, MaxProcs, MaxLoad, IdleTimeout, DisableTime,
  MaxReconnects,  \* attempts of one request, 5 in the code
  Units,          \* length of the request sent to a backend
  MaxShort,       \* bound: how often socket() fails for want of a descriptor
  MaxLost,        \* bound: how often a counter loses an update
  MaxFails        \* bound: how often a process cannot be started

Hosts == 1 .. LastHost
Ids == 0 .. LastId
NoHost == 0
NoProc == <<0, 0>>
NoPid == <<NoProc, 0>>
Slots == Hosts \X Ids
Pids == Slots \X {1, 2}

ASSUME GatewayAssumption ==
  /\ LastHost \in Nat \ {0} /\ LastId \in Nat /\ MaxProcs <= LastId + 1
  /\ Balances \subseteq {"fair", "round-robin", "hash"} /\ Overlaps \subseteq BOOLEAN
  /\ Spawning \subseteq Hosts /\ Changing \subseteq Hosts /\ IsFiniteSet(Reqs)
  /\ {MinProcs, MaxProcs, MaxLoad, IdleTimeout, DisableTime, MaxReconnects, Units,
      MaxShort, MaxLost, MaxFails} \subseteq Nat
  /\ MinProcs <= MaxProcs /\ MaxProcs > 0 /\ Units > 0

VARIABLES
  overlap,   \* whether handlers of different threads interleave
  balance,   \* xxx.balance: "fair", "round-robin" or "hash" (which includes sticky)
  last,      \* last_used_ndx of the extension
  proc,      \* gw_proc: the list it is in, state, pid, is_local, disabled_until - now, age of last_used
  load,      \* proc->load
  hload,     \* host->load
  num,       \* host->num_procs
  active,    \* host->active_procs
  kid,       \* the child processes
  up,        \* whether somebody else serves the addresses of a host
  ctx,       \* gw_handler_ctx of a connection
  link,      \* its socket to the backend
  con,       \* where the connection or the handler at work for it is
  mode,      \* con->mode
  status,    \* con->http_status
  back,      \* who runs the handler of the connection: "worker" or "main"
  main, mh,  \* where the main thread is, and with which host
  short, lost, fails   \* what is left of the bounds

pool == <<proc, num, active, kid, fails>>
loads == <<load, hload>>
mains == <<main, mh>>
conf == <<overlap, balance>>
bounds == <<short, lost>>
vars == <<overlap, balance, last, proc, load, hload, num, active, kid, up, ctx, link, con, mode,
          status, back, main, mh, short, lost, fails>>

NoCtx == [st |-> "none", host |-> NoHost, proc |-> NoProc, pid |-> NoPid, rec |-> 0, left |-> 0]
Unborn == [in |-> "none", st |-> "died", pid |-> NoPid, local |-> FALSE, wait |-> -1, idle |-> 0]

\* gw_set_defaults_backend: min-procs processes are started for a bin-path, or the server
\* does not start; any other host has the one process that is not ours.
AtStart(s) == IF s[1] \in Spawning THEN s[2] < MinProcs ELSE s[2] = 0
Init ==
  /\ overlap \in Overlaps /\ balance \in Balances /\ last = 0
  /\ proc = [s \in Slots |->
       IF ~AtStart(s) THEN Unborn
       ELSE [Unborn EXCEPT !.in = "first", !.st = "running", !.local = s[1] \in Spawning,
                           !.pid = IF s[1] \in Spawning THEN <<s, 1>> ELSE NoPid]]
  /\ num = [h \in Hosts |-> Cardinality({i \in Ids : AtStart(<<h, i>>)})] /\ active = num
  /\ kid = [p \in Pids |-> IF AtStart(p[1]) /\ p[1][1] \in Spawning /\ p[2] = 1 THEN "alive" ELSE "none"]
  /\ load = [s \in Slots |-> 0] /\ hload = [h \in Hosts |-> 0]
  /\ up \in {u \in [Hosts -> BOOLEAN] : \A h \in Hosts \ Changing : ~u[h]}
  /\ ctx = [r \in Reqs |-> NoCtx] /\ link = [r \in Reqs |-> "none"]
  /\ con = [r \in Reqs |-> "idle"] /\ mode = [r \in Reqs |-> "direct"]
  /\ status = [r \in Reqs |-> 0] /\ back = [r \in Reqs |-> "worker"]
  /\ main = "loop" /\ mh = 1 /\ short = MaxShort /\ lost = MaxLost /\ fails = MaxFails

-----------------------------------------------------------------------------
(* Processes.                                                               *)

FirstOf(h) == {s \in Slots : s[1] = h /\ proc[s].in = "first"}
UnusedOf(h) == {s \in Slots : s[1] = h /\ proc[s].in = "unused"}
RunningOf(h) == {s \in FirstOf(h) : proc[s].st = "running"}

\* A new child has a pid that no request remembers, unless all do.
NewPids(s) ==
  LET free == {p \in Pids : p[1] = s /\ kid[p] = "none"}
      fresh == {p \in free : \A r \in Reqs : ctx[r].pid # p} IN
  {p \in free : fresh # {} => p \in fresh /\ \A q \in fresh : p[2] <= q[2]}
\* gw_spawn_connection with its results: a child, a server that is there already, or a
\* failure (fork fails or the child ends at once; socket, bind or listen fail)
Spawned(s, pr) ==
  {[pr |-> [pr EXCEPT !.pid = p, !.local = TRUE, !.idle = 0, !.st = "running"],
    kids |-> {p}, ok |-> TRUE] : p \in NewPids(s)}
  \cup (IF up[s[1]] THEN {[pr |-> [pr EXCEPT !.pid = NoPid, !.local = FALSE, !.st = "running"],
                           kids |-> {}, ok |-> TRUE]} ELSE {})
  \cup (IF fails > 0
        THEN {[pr |-> p, kids |-> {}, ok |-> FALSE] :
                p \in {pr, [pr EXCEPT !.wait = 0], [pr EXCEPT !.wait = 0, !.local = TRUE, !.idle = 0]}}
        ELSE {})

\* Mutant of Reaped: the pid of the child that is gone stays.
ReapedKeepsPid(pr, again) == [pr EXCEPT !.st = "died", !.wait = IF again THEN 0 ELSE @]
\* gw_proc_waitpid and the callback: the child of a process is gone
Reaped(pr, again) == [pr EXCEPT !.st = "died", !.pid = NoPid, !.wait = IF again THEN 0 ELSE @]
Zombies(h, list) == {s \in Slots : s[1] = h /\ proc[s].in = list /\ proc[s].local
                                    /\ proc[s].pid # NoPid /\ kid[proc[s].pid] = "dead"}

\* Mutant of Revived: gw_proc_check_enable enables nothing.
RevivedStays(s) ==
  LET pr == proc[s] IN
  IF pr.st = "died" /\ s[1] \in Spawning /\ load[s] = 0 /\ pr.wait < 0 THEN Spawned(s, pr)
  ELSE {[pr |-> pr, kids |-> {}, ok |-> TRUE]}
\* what gw_restart_dead_procs makes of a process: gw_proc_check_enable, or a new start once
\* no request is bound to it and it did not end in this very second
Revived(s) ==
  LET pr == proc[s] as(p) == {[pr |-> p, kids |-> {}, ok |-> TRUE]} IN
  CASE pr.st = "overloaded" /\ pr.wait < 0 -> as([pr EXCEPT !.st = "running"])
    [] pr.st = "died" /\ s[1] \in Spawning /\ load[s] = 0 /\ pr.wait < 0 -> Spawned(s, pr)
    [] OTHER -> as(pr)

\* gw_restart_dead_procs(h), for main after gw_proc_waitpid found the children in gone
RestartDead(h, gone) ==
  \E f \in [FirstOf(h) -> UNION {Revived(s) : s \in FirstOf(h)}
                          \cup {[pr |-> Reaped(proc[s], TRUE), kids |-> {}, ok |-> TRUE] : s \in gone}] :
    LET failed == Cardinality({s \in FirstOf(h) : ~f[s].ok})
        ups == {s \in FirstOf(h) : proc[s].st # "running" /\ f[s].pr.st = "running"}
        downs == {s \in FirstOf(h) : proc[s].st = "running" /\ f[s].pr.st # "running"} IN
    /\ \A s \in FirstOf(h) : IF s \in gone THEN f[s].pr = Reaped(proc[s], TRUE) /\ f[s].kids = {} /\ f[s].ok
                             ELSE f[s] \in Revived(s)
    /\ failed <= fails /\ fails' = fails - failed
    /\ proc' = [s \in Slots |-> IF s \in FirstOf(h) THEN f[s].pr ELSE proc[s]]
    /\ kid' = [p \in Pids |-> IF \E s \in FirstOf(h) : p \in f[s].kids THEN "alive"
                              ELSE IF \E s \in gone : p = proc[s].pid THEN "none" ELSE kid[p]]
    /\ active' = [active EXCEPT ![h] = @ + Cardinality(ups) - Cardinality(downs)]
    /\ num' = num

\* gw_proc_spawn: an unused structure without a child, or a new one; num_procs counts it
\* whether it starts or not.  Nothing happens while an unused process ended just now, nor
\* at the bound LastId.
Idle(h) == {s \in UnusedOf(h) : proc[s].pid = NoPid}
Fresh(h) == {s \in Slots : s[1] = h /\ proc[s].in = "none"}
Blocked(h) == (\E s \in Idle(h) : proc[s].wait >= 0) \/ Idle(h) \cup Fresh(h) = {}
ProcSpawn(h) ==
  \/ Blocked(h) /\ UNCHANGED pool
  \/ \E s \in IF Idle(h) # {} THEN Idle(h) ELSE {t \in Fresh(h) : \A u \in Fresh(h) : t[2] <= u[2]} :
     \E o \in Spawned(s, proc[s]) :
       /\ proc[s].wait < 0
       /\ num' = [num EXCEPT ![h] = @ + 1]
       /\ proc' = [proc EXCEPT ![s] = [o.pr EXCEPT !.in = IF o.ok THEN "first" ELSE "unused"]]
       /\ kid' = [p \in Pids |-> IF p \in o.kids THEN "alive" ELSE kid[p]]
       /\ active' = IF o.ok THEN [active EXCEPT ![h] = @ + 1] ELSE active
       /\ fails' = IF o.ok THEN fails ELSE fails - 1

\* gw_proc_set_state of a process that is running no more
Fewer(h, s) == IF proc[s].st = "running" THEN [active EXCEPT ![h] = @ - 1] ELSE active

\* gw_proc_connect_error: only the request that saw the process as it is now marks it
ConnectError(s, pid) ==
  LET marks == ~proc[s].local \/ (proc[s].pid = pid /\ proc[s].st = "running") IN
  /\ proc' = IF marks THEN [proc EXCEPT ![s].st = "overloaded", ![s].wait = DisableTime] ELSE proc
  /\ active' = IF marks THEN Fewer(s[1], s) ELSE active
  /\ UNCHANGED <<num, kid, fails>>

-----------------------------------------------------------------------------
(* The handlers of a request.                                               *)

Busy == {"hostget", "pick", "connect", "write", "error", "reclose", "close"}
Turn(r) == overlap \/ (main = "loop" /\ \A q \in Reqs \ {r} : con[q] \notin Busy)
MainTurn == /\ main = "loop" /\ \A q \in Reqs : ~(back[q] = "main" /\ con[q] \in Busy)
            /\ overlap \/ \A q \in Reqs : con[q] \notin Busy

\* The handler ends: main has put the connection on the job list before it began.
Return(r, res) == /\ con' = [con EXCEPT ![r] = IF back[r] = "main" THEN "queued" ELSE res]
                  /\ back' = [back EXCEPT ![r] = "worker"]
Goto(r, l) == con' = [con EXCEPT ![r] = l] /\ UNCHANGED back
Become(r, f) == ctx' = [ctx EXCEPT ![r] = f]

\* ++ and -- of a counter: a load and a store, which lose the update when another thread
\* is about to change the same counter
Losses(racing) == IF overlap /\ racing /\ lost > 0 THEN {0, 1} ELSE {0}
HRacing(r, h) == \E q \in Reqs \ {r} : con[q] = "hostget"
                                       \/ (con[q] \in {"reclose", "close"} /\ ctx[q].host = h)
PRacing(r, s) == \E q \in Reqs \ {r} : (con[q] = "pick" /\ ctx[q].host = s[1])
                                       \/ (con[q] \in {"reclose", "close"} /\ ctx[q].proc = s)

\* A request for a backend arrives; a worker takes the connection from its queue.
Arrive(r) ==
  /\ con[r] = "idle" /\ Goto(r, "queued")
  /\ UNCHANGED <<conf, last, pool, loads, up, ctx, link, mode, status, mains, bounds>>

\* handle_subrequest: gw_check_extension, gw_handle_subrequest, or the answer
Next0(r) ==
  IF status[r] # 0 THEN "done"
  ELSE IF mode[r] = "direct" THEN "hostget"
  ELSE CASE ctx[r].st = "init" -> "pick"
         [] ctx[r].st = "write" -> "write"
         [] OTHER -> "wait"
Take(r) ==
  /\ con[r] = "queued" /\ (Next0(r) \in Busy => Turn(r))
  /\ Goto(r, Next0(r))
  /\ UNCHANGED <<conf, last, pool, loads, up, ctx, link, mode, status, mains, bounds>>

\* gw_host_get: the host for a request
ActiveHosts == {h \in Hosts : active[h] # 0}
First(S) == CHOOSE h \in S : \A g \in S : h <= g
Chosen ==
  IF ActiveHosts = {} THEN {}
  ELSE IF balance = "fair" THEN {First({h \in ActiveHosts : \A g \in ActiveHosts : hload[h] <= hload[g]})}
  ELSE IF balance = "round-robin" THEN
    {First(IF \E h \in ActiveHosts : h > last THEN {h \in ActiveHosts : h > last} ELSE ActiveHosts)}
  ELSE ActiveHosts
\* the hosts that gw_host_get may start a first process for
OnDemand == {h \in Spawning : MinProcs = 0 /\ num[h] = 0}

\* gw_host_get, then gw_check_extension for a new request and gw_reconnect for another try
HostGet(r) ==
  LET found(h) ==
        /\ \E k \in Losses(HRacing(r, h)) : hload' = [hload EXCEPT ![h] = @ + 1 - k] /\ lost' = lost - k
        /\ Become(r, [ctx[r] EXCEPT !.host = h, !.proc = NoProc, !.st = "init"])
        /\ mode' = [mode EXCEPT ![r] = "gw"] /\ Return(r, "pick") /\ UNCHANGED status
      rr(S) == last' = IF balance = "round-robin" /\ Hosts # {1} THEN (IF S = {} THEN 0 ELSE First(S)) ELSE last
  IN
  /\ con[r] = "hostget" /\ Turn(r)
  /\ \/ \E h \in Chosen : found(h) /\ rr({h}) /\ UNCHANGED pool
     \/ /\ Chosen = {} /\ rr({})
        /\ \E h \in OnDemand : /\ \A g \in OnDemand : g < h => Blocked(g)
                               /\ ProcSpawn(h) /\ num'[h] > 0 /\ found(h)
     \/ /\ Chosen = {} /\ rr({}) /\ \A h \in OnDemand : Blocked(h)
        /\ status' = [status EXCEPT ![r] = 503] /\ mode' = [mode EXCEPT ![r] = "direct"]
        /\ Return(r, "done") /\ UNCHANGED <<pool, hload, lost, ctx>>
  /\ UNCHANGED <<conf, load, up, link, mains, short>>

\* gw_write_request at GW_STATE_INIT: the running process with the least load, then a socket
Pick(r) ==
  LET c == ctx[r] run == RunningOf(c.host) IN
  /\ con[r] = "pick" /\ Turn(r)
  /\ \/ /\ run = {} /\ Become(r, [c EXCEPT !.proc = NoProc]) /\ Goto(r, "error")
        /\ UNCHANGED <<load, short, lost>>
     \/ \E s \in run :
          /\ \A t \in run : load[s] <= load[t]
          /\ \E k \in Losses(PRacing(r, s)) : load' = [load EXCEPT ![s] = @ + 1 - k] /\ lost' = lost - k
          /\ \/ /\ short > 0 /\ short' = short - 1 /\ Return(r, "fdwait")
                /\ Become(r, [c EXCEPT !.proc = s])
             \/ /\ Goto(r, "connect") /\ UNCHANGED short
                /\ Become(r, [c EXCEPT !.proc = s, !.pid = IF proc[s].local THEN proc[s].pid ELSE @])
             \/ Goto(r, "error") /\ Become(r, [c EXCEPT !.proc = s]) /\ UNCHANGED short
  /\ UNCHANGED <<conf, last, pool, hload, up, link, mode, status, mains>>

Reachable(s) == IF proc[s].local THEN proc[s].pid # NoPid /\ kid[proc[s].pid] = "alive" ELSE up[s[1]]

\* gw_write_request from gw_proc_connect_success on: create_env builds the request, or finds
\* it cannot be sent (status 400)
Connected(r, c, who) ==
  /\ proc' = [proc EXCEPT ![c.proc].idle = 0] /\ link' = [link EXCEPT ![r] = "up"]
  /\ \/ /\ Become(r, [c EXCEPT !.st = "write", !.left = Units])
        /\ con' = [con EXCEPT ![r] = "write"] /\ back' = [back EXCEPT ![r] = who] /\ UNCHANGED status
     \/ /\ Become(r, [c EXCEPT !.st = "prepare"]) /\ back' = [back EXCEPT ![r] = "worker"]
        /\ con' = [con EXCEPT ![r] = IF who = "main" THEN "queued" ELSE "done"]
        /\ status' = [status EXCEPT ![r] = 400]
  /\ UNCHANGED <<num, active, kid, fails>>
Refused(r, c, who) ==
  /\ ConnectError(c.proc, c.pid) /\ con' = [con EXCEPT ![r] = "error"] /\ back' = [back EXCEPT ![r] = who]
  /\ UNCHANGED <<ctx, status, link>>

\* gw_establish_connection and what follows it
Connect(r) ==
  LET c == ctx[r] IN
  /\ con[r] = "connect" /\ Turn(r)
  /\ \/ Refused(r, c, back[r])
     \/ Reachable(c.proc) /\ Connected(r, [c EXCEPT !.rec = 0], back[r])
     \/ /\ Reachable(c.proc) /\ Become(r, [c EXCEPT !.st = "delayed"])
        /\ link' = [link EXCEPT ![r] = "pending"] /\ Return(r, "wait") /\ UNCHANGED <<pool, status>>
  /\ UNCHANGED <<conf, last, loads, up, mode, back, mains, bounds>>

\* GW_STATE_WRITE: some of the request goes out, or the connection is found closed
Write(r) ==
  /\ con[r] = "write" /\ Turn(r)
  /\ \/ /\ link[r] = "up"
        /\ \E n \in 0 .. ctx[r].left :
             Become(r, [ctx[r] EXCEPT !.left = n, !.st = IF n = 0 THEN "read" ELSE @])
        /\ Return(r, "wait")
     \/ link[r] = "down" /\ Goto(r, "error") /\ UNCHANGED ctx
  /\ UNCHANGED <<conf, last, pool, loads, up, link, mode, status, mains, bounds>>

\* Mutants of WriteError: a request already sent is tried again; the reconnects are not
\* counted.
WriteErrorBut(r, early, more, step) ==
  LET c == ctx[r] IN
  /\ con[r] = "error" /\ Turn(r)
  /\ IF early THEN RestartDead(c.host, {}) ELSE UNCHANGED pool
  /\ IF early /\ more THEN Become(r, [c EXCEPT !.rec = @ + step]) /\ Goto(r, "reclose")
                       ELSE Goto(r, "close") /\ UNCHANGED ctx
  /\ UNCHANGED <<conf, last, loads, up, link, mode, status, mains, bounds>>
WriteErrorRetries(r) == WriteErrorBut(r, TRUE, ctx[r].rec < MaxReconnects, 1)
\* gw_write_error: another try while nothing was sent, at most MaxReconnects of them
WriteError(r) ==
  LET c == ctx[r] early == c.st \in {"init", "delayed"} IN
  /\ con[r] = "error" /\ Turn(r)
  /\ IF early THEN RestartDead(c.host, {}) ELSE UNCHANGED pool
  /\ IF early /\ c.rec < MaxReconnects THEN Become(r, [c EXCEPT !.rec = @ + 1]) /\ Goto(r, "reclose")
                                       ELSE Goto(r, "close") /\ UNCHANGED ctx
  /\ UNCHANGED <<conf, last, loads, up, link, mode, status, mains, bounds>>

\* gw_backend_close
BackendClose(r) ==
  LET c == ctx[r] held == c.host # NoHost /\ c.proc # NoProc IN
  /\ \E k \in Losses(held /\ PRacing(r, c.proc)), l \in Losses(c.host # NoHost /\ HRacing(r, c.host)) :
       /\ load' = IF held THEN [load EXCEPT ![c.proc] = @ - 1 + k] ELSE load
       /\ hload' = IF c.host # NoHost THEN [hload EXCEPT ![c.host] = @ - 1 + l] ELSE hload
       /\ lost' = lost - k - l /\ lost' >= 0
  /\ link' = [link EXCEPT ![r] = "none"]

\* Mutant of Reclose: hctx->proc is not forgotten.
RecloseKeeps(r) ==
  /\ con[r] = "reclose" /\ Turn(r) /\ Goto(r, "hostget") /\ BackendClose(r)
  /\ Become(r, [ctx[r] EXCEPT !.host = NoHost])
  /\ UNCHANGED <<conf, last, pool, up, mode, status, mains, short>>
\* gw_reconnect, up to its gw_host_get
Reclose(r) ==
  /\ con[r] = "reclose" /\ Turn(r) /\ Goto(r, "hostget") /\ BackendClose(r)
  /\ Become(r, [ctx[r] EXCEPT !.host = NoHost, !.proc = NoProc])
  /\ UNCHANGED <<conf, last, pool, up, mode, status, mains, short>>

\* gw_connection_close at the end of gw_write_error
Close(r) ==
  /\ con[r] = "close" /\ Turn(r) /\ BackendClose(r) /\ Become(r, NoCtx)
  /\ mode' = [mode EXCEPT ![r] = "direct"]
  /\ status' = [status EXCEPT ![r] = IF @ = 400 THEN 400 ELSE 503] /\ Return(r, "done")
  /\ UNCHANGED <<conf, last, pool, up, mains, short>>

\* The request is over, or its client is gone: connection_reset calls gw_connection_reset.
Reset(r) ==
  /\ con[r] \in {"done", "wait", "queued", "fdwait"} /\ Goto(r, "idle")
  /\ overlap \/ (main = "loop" /\ \A q \in Reqs : con[q] \notin Busy)
  /\ IF ctx[r] = NoCtx THEN UNCHANGED <<loads, link, lost>> ELSE BackendClose(r)
  /\ Become(r, NoCtx) /\ mode' = [mode EXCEPT ![r] = "direct"] /\ status' = [status EXCEPT ![r] = 0]
  /\ UNCHANGED <<conf, last, pool, up, mains, short>>

\* fdwaitqueue_call, or an event of the client
Wake(r) == /\ con[r] \in {"fdwait", "wait"} /\ Goto(r, "queued")
           /\ UNCHANGED <<conf, last, pool, loads, up, ctx, link, mode, status, mains, bounds>>

-----------------------------------------------------------------------------
(* gw_handle_fdevent, in the main thread.                                   *)

\* FDEVENT_OUT: the end of a delayed connect, or room to go on writing
EventOut(r) ==
  /\ con[r] \in {"wait", "queued"} /\ link[r] # "none" /\ MainTurn
  /\ \/ /\ ctx[r].st = "write" /\ con' = [con EXCEPT ![r] = "write"] /\ back' = [back EXCEPT ![r] = "main"]
        /\ UNCHANGED <<ctx, status, link, pool>>
     \/ ctx[r].st = "delayed" /\ Refused(r, ctx[r], "main")
     \/ /\ ctx[r].st = "delayed" /\ link[r] = "pending" /\ Reachable(ctx[r].proc)
        /\ Connected(r, ctx[r], "main")
  /\ UNCHANGED <<conf, last, loads, up, mode, mains, bounds>>

\* Mutant of EventHup: a backend that is being waited for may close unseen.
EventHupWriting(r) ==
  /\ con[r] \in {"wait", "queued"} /\ MainTurn /\ ctx[r].st = "write" /\ link[r] = "down"
  /\ BackendClose(r) /\ Become(r, NoCtx) /\ Goto(r, "queued")
  /\ mode' = [mode EXCEPT ![r] = "direct"] /\ status' = [status EXCEPT ![r] = 500]
  /\ UNCHANGED <<conf, last, pool, up, mains, short>>
\* FDEVENT_HUP or FDEVENT_ERR before anything was answered, and
\* http_response_backend_done: 500
EventHup(r) ==
  /\ con[r] \in {"wait", "queued"} /\ MainTurn /\ ctx[r].st \in {"prepare", "write", "read"} /\ link[r] = "down"
  /\ BackendClose(r) /\ Become(r, NoCtx) /\ Goto(r, "queued")
  /\ mode' = [mode EXCEPT ![r] = "direct"] /\ status' = [status EXCEPT ![r] = 500]
  /\ UNCHANGED <<conf, last, pool, up, mains, short>>

-----------------------------------------------------------------------------
(* gw_handle_trigger, once a second, and the end of a child.                *)

\* A second passes: nothing is still to be waited for once wait is below 0, and
\* idle stays at the first value past the timeout.
Tick ==
  /\ MainTurn /\ main' = "restart" /\ mh' = 1
  /\ proc' = [s \in Slots |->
       [proc[s] EXCEPT !.wait = IF @ < 0 THEN @ ELSE @ - 1,
                       !.idle = IF @ > IdleTimeout \/ proc[s].in # "first" THEN @ ELSE @ + 1]]
  /\ UNCHANGED <<conf, last, loads, num, active, kid, fails, up, ctx, link, con, mode, status, back, bounds>>

\* gw_handle_trigger_host: gw_proc_waitpid for each process, gw_restart_dead_procs
NextHost == IF mh + 1 \in Hosts THEN main' = "restart" /\ mh' = mh + 1 ELSE main' = "loop" /\ mh' = 1
TriggerRestart ==
  /\ main = "restart" /\ RestartDead(mh, Zombies(mh, "first"))
  /\ IF MinProcs = MaxProcs \/ mh \notin Spawning THEN NextHost ELSE main' = "grow" /\ mh' = mh
  /\ UNCHANGED <<conf, last, loads, up, ctx, link, con, mode, status, back, bounds>>
\* all processes have more than MaxLoad requests: one more
TriggerGrow ==
  /\ main = "grow" /\ main' = "shrink" /\ mh' = mh
  /\ IF (\A s \in FirstOf(mh) : load[s] > MaxLoad) /\ num[mh] # 0 /\ num[mh] < MaxProcs
     THEN ProcSpawn(mh) ELSE UNCHANGED pool
  /\ UNCHANGED <<conf, last, loads, up, ctx, link, con, mode, status, back, bounds>>
\* one process without a request for longer than IdleTimeout: gw_proc_kill
IdleOf(h) == {s \in FirstOf(h) : num[h] > MinProcs /\ load[s] = 0 /\ proc[s].pid # NoPid
                                 /\ proc[s].idle > IdleTimeout}
TriggerShrink ==
  /\ main = "shrink" /\ main' = "unused" /\ mh' = mh
  /\ \/ IdleOf(mh) = {} /\ UNCHANGED <<proc, num, active>>
     \/ \E s \in IdleOf(mh) :
          /\ proc' = [proc EXCEPT ![s].in = "unused", ![s].st = "killed", ![s].wait = -1, ![s].idle = 0]
          /\ active' = Fewer(mh, s) /\ num' = [num EXCEPT ![mh] = @ - 1]
  /\ UNCHANGED <<conf, last, loads, kid, fails, up, ctx, link, con, mode, status, back, bounds>>
\* gw_proc_waitpid for each unused process
TriggerUnused ==
  LET gone == Zombies(mh, "unused") IN
  /\ main = "unused" /\ NextHost
  /\ proc' = [s \in Slots |-> IF s \in gone THEN Reaped(proc[s], proc[s].st # "killed") ELSE proc[s]]
  /\ kid' = [p \in Pids |-> IF \E s \in gone : p = proc[s].pid THEN "none" ELSE kid[p]]
  /\ UNCHANGED <<conf, last, loads, num, active, fails, up, ctx, link, con, mode, status, back, bounds>>

\* gw_handle_waitpid_cb: main learned of the end of a child and reaped it
WaitPid(p) ==
  LET s == p[1] pr == proc[s] IN
  /\ MainTurn /\ kid[p] = "dead" /\ pr.local /\ pr.pid = p
  /\ \/ /\ pr.in = "first" /\ pr.wait >= 0
        /\ proc' = [proc EXCEPT ![s] = Reaped(@, FALSE)] /\ active' = Fewer(s[1], s)
        /\ kid' = [kid EXCEPT ![p] = "none"] /\ UNCHANGED fails
     \/ /\ pr.in = "first" /\ pr.wait < 0
        /\ \E o \in Spawned(s, Reaped(pr, TRUE)) :
             /\ proc' = [proc EXCEPT ![s] = o.pr] /\ fails' = IF o.ok THEN fails ELSE fails - 1
             /\ active' = IF o.ok /\ pr.st # "running" THEN [active EXCEPT ![s[1]] = @ + 1]
                          ELSE IF ~o.ok THEN Fewer(s[1], s) ELSE active
             /\ kid' = [q \in Pids |-> IF q \in o.kids THEN "alive" ELSE IF q = p THEN "none" ELSE kid[q]]
     \/ /\ pr.in = "unused" /\ proc' = [proc EXCEPT ![s] = Reaped(@, pr.st # "killed")]
        /\ kid' = [kid EXCEPT ![p] = "none"] /\ UNCHANGED <<active, fails>>
  /\ UNCHANGED <<conf, last, loads, num, up, ctx, link, con, mode, status, back, mains, bounds>>

-----------------------------------------------------------------------------
(* The backends.                                                            *)

Drop(R) == link' = [r \in Reqs |-> IF r \in R /\ link[r] # "none" THEN "down" ELSE link[r]]
\* A child ends, by itself or by the signal of gw_proc_kill.
KidDies(p) ==
  /\ kid[p] = "alive" /\ kid' = [kid EXCEPT ![p] = "dead"]
  /\ Drop({r \in Reqs : ctx[r].proc = p[1] /\ ctx[r].pid = p})
  /\ UNCHANGED <<conf, last, loads, proc, num, active, fails, up, ctx, con, mode, status, back, mains, bounds>>
\* The server behind an address that is not our child ends or comes up.
UpChanges(h) ==
  /\ h \in Changing
  /\ up' = [up EXCEPT ![h] = ~@]
  /\ IF up[h] THEN Drop({r \in Reqs : ctx[r].host = h /\ ctx[r].proc # NoProc /\ ~proc[ctx[r].proc].local})
              ELSE UNCHANGED link
  /\ UNCHANGED <<conf, last, loads, pool, ctx, con, mode, status, back, mains, bounds>>
\* The backend closes the connection.
BackendCloses(r) ==
  /\ link[r] = "up" /\ Drop({r})
  /\ UNCHANGED <<conf, last, loads, pool, up, ctx, con, mode, status, back, mains, bounds>>

Handler(r) == HostGet(r) \/ Pick(r) \/ Connect(r) \/ Write(r) \/ WriteError(r) \/ Reclose(r) \/ Close(r)
Events(r) == EventOut(r) \/ EventHup(r)
Trigger == TriggerRestart \/ TriggerGrow \/ TriggerShrink \/ TriggerUnused
Next ==
  \/ \E r \in Reqs : Arrive(r) \/ Take(r) \/ Handler(r) \/ Reset(r) \/ Wake(r) \/ Events(r) \/ BackendCloses(r)
  \/ Tick \/ Trigger
  \/ \E p \in Pids : WaitPid(p) \/ KidDies(p)
  \/ \E h \in Hosts : UpChanges(h)
Spec == Init /\ [][Next]_vars

\* Each thread goes on with what it has begun, workers empty their queues, and the main
\* loop comes back to the clock and to each descriptor that is ready.
Fairness ==
  /\ WF_vars(Trigger) /\ SF_vars(Tick)
  /\ \A r \in Reqs : SF_vars(Handler(r)) /\ SF_vars(Take(r)) /\ SF_vars(Events(r))
                    /\ WF_vars(con[r] = "fdwait" /\ Wake(r)) /\ SF_vars(con[r] = "done" /\ Reset(r))
FairSpec == Spec /\ Fairness

-----------------------------------------------------------------------------
(* What holds.                                                              *)

ProcSet == [in : {"none", "first", "unused"}, st : {"running", "overloaded", "died", "killed"},
            pid : Pids \cup {NoPid}, local : BOOLEAN, wait : Int, idle : Nat]
CtxSet == [st : {"none", "init", "delayed", "prepare", "write", "read"}, host : Hosts \cup {NoHost},
           proc : Slots \cup {NoProc}, pid : Pids \cup {NoPid}, rec : 0 .. MaxReconnects, left : 0 .. Units]
\* The state has its types.
TypeOK ==
  /\ overlap \in Overlaps /\ balance \in Balances /\ last \in Hosts \cup {0}
  /\ proc \in [Slots -> ProcSet] /\ load \in [Slots -> Int] /\ hload \in [Hosts -> Int]
  /\ num \in [Hosts -> Int] /\ active \in [Hosts -> Int] /\ {fails, short, lost} \subseteq Nat
  /\ kid \in [Pids -> {"none", "alive", "dead"}] /\ up \in [Hosts -> BOOLEAN]
  /\ ctx \in [Reqs -> CtxSet] /\ link \in [Reqs -> {"none", "pending", "up", "down"}]
  /\ con \in [Reqs -> Busy \cup {"idle", "queued", "wait", "fdwait", "done"}]
  /\ mode \in [Reqs -> {"direct", "gw"}] /\ status \in [Reqs -> {0, 400, 500, 503}]
  /\ back \in [Reqs -> {"worker", "main"}]
  /\ main \in {"loop", "restart", "grow", "shrink", "unused"} /\ mh \in Hosts

Bound(s) == {r \in Reqs : ctx[r].proc = s}
Guests(h) == {r \in Reqs : ctx[r].host = h}
\* While handlers do not overlap no load is below the requests it stands for, over
\* reconnects, closes and errors, and the load of a host is their number: a process with
\* a request is never restarted by gw_restart_dead_procs or killed for being idle.
LoadCovers ==
  ~overlap => /\ \A s \in Slots : load[s] >= Cardinality(Bound(s))
              /\ \A h \in Hosts : hload[h] = Cardinality(Guests(h))
\* active_procs, by which gw_host_get takes a host or answers 503, is the number of
\* running processes in the host's list, whoever last changed their states.
ActiveCounts == \A h \in Hosts : active[h] = Cardinality(RunningOf(h))
\* Every child belongs to one process structure, which alone may reap it, and no
\* structure names a child that was reaped: none is leaked, none is signalled for another.
KidsKnown ==
  /\ \A s \in Slots : proc[s].pid # NoPid => proc[s].local /\ kid[proc[s].pid] # "none"
  /\ \A p \in Pids : kid[p] # "none" => \E s \in Slots : proc[s].pid = p
\* num_procs never counts less than the processes in use, nor more than max-procs, though
\* a process that could not be started stays counted.
NumCovers ==
  \A h \in Spawning : Cardinality(FirstOf(h)) <= num[h] /\ num[h] <= MaxProcs
\* What a host counts of its processes, and what the structures say of the children, is what
\* there is, over starts that fail, deaths, connect errors, growth and shrinking
\* (gw_proc_set_state, gw_proc_waitpid, gw_proc_spawn, gw_proc_kill).
PoolKnown == ActiveCounts /\ KidsKnown /\ NumCovers
\* A request of which the backend may have seen something is not sent to another one.
SentOnce ==
  [][\A r \in Reqs : ctx[r].st \in {"write", "read"} =>
       ctx'[r] = NoCtx \/ (ctx'[r].proc = ctx[r].proc /\ ctx'[r].st \in {"write", "read"})]_vars
\* A process that ended or was found overloaded is in use again or put aside, unless its
\* load was lost track of: whatever requests are bound to it are closed first.
Returns ==
  \A s \in Slots :
    (s[1] \in Spawning /\ proc[s].in = "first" /\ proc[s].st # "running") ~>
      (proc[s].in # "first" \/ proc[s].st = "running" \/ load[s] # Cardinality(Bound(s)))
\* A request whose backend hung up lets go of the descriptor, and comes to an answer or to
\* wait for another backend: no endless round of reconnects.
Settles ==
  \A r \in Reqs :
    /\ (link[r] = "down") ~> (link[r] # "down")
    /\ (con[r] \in Busy \cup {"queued"}) ~> (con[r] \in {"wait", "done", "idle"})

=============================================================================
