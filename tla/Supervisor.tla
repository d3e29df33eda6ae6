----------------------------- MODULE Supervisor -----------------------------
(***************************************************************************)
(* server.max-worker: the parent process (server.c) forks the workers,     *)
(* waits for any child, replaces a worker that went away, restarts the     *)
(* piped logger (fdevent.c) and passes signals on; SIGUSR1 makes it stop   *)
(* its workers gracefully and run server_main again.                       *)
(*                                                                         *)
(* Signals come at any moment.  Their handlers only set flags; a system    *)
(* call that blocks returns with EINTR if it has begun (SIGCHLD apart,     *)
(* which restarts it), so a flag set just before wait() does not end it.   *)
(***************************************************************************)
EXTENDS Integers, FiniteSets

CONSTANTS
  MaxWorker,   \* server.max-worker
  Pids,        \* process ids: enough for two runs of server_main
  Chroot,      \* server.chroot is set: no graceful restart
  Gap,         \* the alarm's delay, and the least time between two starts of the logger: 5 s
  MaxTime,     \* bound: seconds
  MaxSignals,  \* bound: signals sent to the parent
  MaxDeaths,   \* bound: workers and loggers that die of themselves, and forks that fail
  MaxGen       \* bound: runs of server_main

NoPid == 0
Slots == 1 .. MaxWorker   \* the entries of pids[]
NoAlarm == -1

ASSUME SupervisorAssumption ==
  MaxWorker \in Nat \ {0} /\ Pids \subseteq Nat \ {0} /\ Chroot \in BOOLEAN
  /\ {Gap, MaxTime, MaxSignals, MaxDeaths} \subseteq Nat /\ MaxGen \in Nat \ {0}

VARIABLES
  pc,          \* where the parent is
  gen,         \* the number of this run of server_main
  missing,     \* num_childs: workers to fork
  pids,        \* [Slots -> the worker's process id, or NoPid (-1 in the code)]
  shutdown,    \* srv_shutdown
  graceful,    \* graceful_shutdown
  restart,     \* graceful_restart: 0, 1 or 2
  hup, alarmed,  \* handle_sig_hup, handle_sig_alarm
  timer,       \* an alarm was asked for (timer # 0)
  alarmAt,     \* when the kernel will send SIGALRM
  logger,      \* cmd_pipes: [pid, start] of the piped logger
  kids,        \* [Pids -> the child process]
  rc,          \* what server_main returned
  now, sent, deaths   \* the clock, and what was used up of the bounds

flags == <<shutdown, graceful, restart, hup, alarmed>>
vars == <<pc, gen, missing, pids, flags, timer, alarmAt, logger, kids, rc, now, sent, deaths>>

NoKid == [kind |-> "none", life |-> "none", gen |-> 0, told |-> "nothing"]
Kid(kind, g) == [kind |-> kind, life |-> "runs", gen |-> g, told |-> "nothing"]

Init ==
  /\ pc = "start" /\ gen = 1 /\ missing = 0 /\ pids = [n \in Slots |-> NoPid]
  /\ shutdown = FALSE /\ graceful = FALSE /\ restart = 0 /\ hup = FALSE /\ alarmed = FALSE
  /\ timer = FALSE /\ alarmAt = NoAlarm
  /\ logger = [pid |-> NoPid, start |-> 0]
  /\ kids = [p \in Pids |-> NoKid] /\ rc = 0
  /\ now = 0 /\ sent = 0 /\ deaths = 0

Goto(a, b) == pc = a /\ pc' = b
Free(ks) == {p \in Pids : ks[p].kind = "none"}
\* The kernel's choice: process ids are interchangeable, the model takes the lowest.
NewPid(ks) == CHOOSE p \in Free(ks) : \A q \in Free(ks) : p <= q
FirstFree(n) == pids[n] = NoPid /\ \A m \in 1 .. n - 1 : pids[m] # NoPid
Running(kind) == {p \in Pids : kids[p].kind = kind /\ kids[p].life = "runs"}
Zombies == {p \in Pids : kids[p].life = "zombie"}
Reaped(p) == [kids EXCEPT ![p] = NoKid]
Told(ks, what) == [p \in Pids |->
  IF ks[p].kind = "worker" /\ ks[p].life = "runs" THEN [ks[p] EXCEPT !.told = what] ELSE ks[p]]

-----------------------------------------------------------------------------
(* Signals and children *)

\* sigaction_handler; wait() and waitpid() return if they have begun.
Interrupt == pc' = CASE pc = "wait" -> "eintr" [] pc = "reap" -> "start"
                     [] pc \notin {"wait", "reap"} -> pc
NextRun == gen' = IF pc = "reap" THEN gen + 1 ELSE gen

SigTerm == shutdown' = TRUE /\ UNCHANGED <<graceful, restart, hup, alarmed>>
SigUsr1 == /\ graceful' = TRUE
           /\ restart' = IF graceful THEN restart ELSE 1
           /\ UNCHANGED <<shutdown, hup, alarmed>>
SigInt == /\ graceful' = TRUE
          /\ restart' = IF graceful /\ restart = 2 THEN 1 ELSE restart
          /\ shutdown' = (shutdown \/ (graceful /\ restart # 2))
          /\ UNCHANGED <<hup, alarmed>>
SigHup == hup' = TRUE /\ UNCHANGED <<shutdown, graceful, restart, alarmed>>

\* The administrator signals the parent, once its handlers are there.
Signal ==
  /\ sent < MaxSignals /\ sent' = sent + 1
  /\ pc # "exit" /\ (pc \in {"start", "setup"} => gen > 1) /\ (pc = "reap" => gen < MaxGen)
  /\ SigTerm \/ SigUsr1 \/ SigInt \/ SigHup
  /\ Interrupt /\ NextRun
  /\ UNCHANGED <<missing, pids, timer, alarmAt, logger, kids, rc, now, deaths>>

SigAlarm ==
  /\ alarmAt # NoAlarm /\ now >= alarmAt /\ pc # "exit" /\ (pc = "reap" => gen < MaxGen)
  /\ alarmAt' = NoAlarm /\ alarmed' = TRUE
  /\ Interrupt /\ NextRun
  /\ UNCHANGED <<missing, pids, shutdown, graceful, restart, hup, timer, logger, kids, rc,
                 now, sent, deaths>>

\* A worker or the logger dies of itself.
Dies(p) ==
  /\ p \in Running("worker") \cup Running("logger") /\ deaths < MaxDeaths
  /\ deaths' = deaths + 1 /\ kids' = [kids EXCEPT ![p].life = "zombie"]
  /\ UNCHANGED <<pc, gen, missing, pids, flags, timer, alarmAt, logger, rc, now, sent>>

\* A worker that was told to stop does: at once, or when its last connection has gone.
Stops(p) ==
  /\ p \in Running("worker") /\ kids[p].told # "nothing"
  /\ kids' = [kids EXCEPT ![p].life = "zombie"]
  /\ UNCHANGED <<pc, gen, missing, pids, flags, timer, alarmAt, logger, rc, now, sent, deaths>>

\* The logger ends at the end of its input, when the parent has closed its pipe.
LoggerEnds(p) ==
  /\ p \in Running("logger") /\ logger.pid # p
  /\ kids' = [kids EXCEPT ![p].life = "zombie"]
  /\ UNCHANGED <<pc, gen, missing, pids, flags, timer, alarmAt, logger, rc, now, sent, deaths>>

Tick ==
  /\ now < MaxTime /\ now' = now + 1
  /\ UNCHANGED <<pc, gen, missing, pids, flags, timer, alarmAt, logger, kids, rc, sent, deaths>>

-----------------------------------------------------------------------------
(* The parent *)

\* The beginning of server_main: the flags are initialized.
Start ==
  /\ Goto("start", "setup")
  /\ shutdown' = FALSE /\ graceful' = FALSE /\ hup' = FALSE /\ alarmed' = TRUE
  /\ UNCHANGED <<gen, missing, pids, restart, timer, alarmAt, logger, kids, rc, now, sent, deaths>>

\* Up to the loop: two flags are reset again, the error log is opened, workers are wanted.
Setup ==
  /\ Goto("setup", "loop")
  /\ restart' = 0 /\ graceful' = FALSE
  /\ missing' = Cardinality(Slots) /\ pids' = [n \in Slots |-> NoPid] /\ timer' = FALSE
  /\ Free(kids) # {}
  /\ logger' = [pid |-> NewPid(kids), start |-> now]
  /\ kids' = [kids EXCEPT ![NewPid(kids)] = Kid("logger", gen)]
  /\ UNCHANGED <<gen, shutdown, hup, alarmed, alarmAt, rc, now, sent, deaths>>

\* Mutant of Fork: the child takes the first entry, whether it is free or not.
ForkFirst ==
  /\ pc = "loop" /\ ~shutdown /\ ~graceful /\ missing > 0 /\ Free(kids) # {}
  /\ missing' = missing - 1
  /\ pids' = [pids EXCEPT ![1] = NewPid(kids)]
  /\ kids' = [kids EXCEPT ![NewPid(kids)] = Kid("worker", gen)]
  /\ UNCHANGED <<pc, gen, flags, timer, alarmAt, logger, rc, now, sent, deaths>>

Fork ==
  /\ pc = "loop" /\ ~shutdown /\ ~graceful /\ missing > 0 /\ Free(kids) # {}
  /\ missing' = missing - 1
  /\ pids' = [n \in Slots |-> IF FirstFree(n) THEN NewPid(kids) ELSE pids[n]]
  /\ kids' = [kids EXCEPT ![NewPid(kids)] = Kid("worker", gen)]
  /\ UNCHANGED <<pc, gen, flags, timer, alarmAt, logger, rc, now, sent, deaths>>

\* fork() failed: server_main returns at once, and tells nobody.
ForkFails ==
  /\ Goto("loop", "close") /\ ~shutdown /\ ~graceful /\ missing > 0
  /\ deaths < MaxDeaths /\ deaths' = deaths + 1 /\ rc' = -1
  /\ UNCHANGED <<gen, missing, pids, flags, timer, alarmAt, logger, kids, now, sent>>

\* The loop's condition was checked, wait() has not begun: a signal comes too early for it.
Enter ==
  /\ Goto("loop", "enter") /\ ~shutdown /\ ~graceful /\ missing = 0
  /\ UNCHANGED <<gen, missing, pids, flags, timer, alarmAt, logger, kids, rc, now, sent, deaths>>
Wait ==
  /\ Goto("enter", "wait")
  /\ UNCHANGED <<gen, missing, pids, flags, timer, alarmAt, logger, kids, rc, now, sent, deaths>>

\* if (!timer) alarm((timer = 5))
AskAlarm == timer' = TRUE /\ alarmAt' = IF timer THEN alarmAt ELSE now + Gap

\* fdevent_open_logger_pipe_spawn: fork can fail.
Spawn(ks) ==
  \/ /\ Free(ks) # {}
     /\ logger' = [pid |-> NewPid(ks), start |-> now]
     /\ kids' = [ks EXCEPT ![NewPid(ks)] = Kid("logger", gen)]
     /\ UNCHANGED deaths
  \/ /\ deaths < MaxDeaths /\ deaths' = deaths + 1
     /\ logger' = [pid |-> NoPid, start |-> now] /\ kids' = ks

\* wait() returned the logger (fdevent_reaped_logger_pipe): it is started again at once, or
\* after the alarm.
ReapLogger(p) ==
  /\ Goto("wait", "loop") /\ p \in Zombies /\ logger.pid = p
  /\ IF logger.start + Gap < now
     THEN Spawn(Reaped(p)) /\ UNCHANGED <<timer, alarmAt>>
     ELSE /\ logger' = [logger EXCEPT !.pid = NoPid] /\ kids' = Reaped(p)
          /\ AskAlarm /\ UNCHANGED deaths
  /\ UNCHANGED <<gen, missing, pids, flags, rc, now, sent>>

\* Mutant of ReapWorker: the worker that went away is not counted.
ReapWorkerLost(p) ==
  /\ Goto("wait", "loop") /\ p \in Zombies /\ logger.pid # p
  /\ kids' = Reaped(p)
  /\ pids' = [n \in Slots |-> IF pids[n] = p THEN NoPid ELSE pids[n]]
  /\ UNCHANGED <<gen, missing, flags, timer, alarmAt, logger, rc, now, sent, deaths>>

\* wait() returned another child: one of the workers, or none of these.
ReapWorker(p) ==
  /\ Goto("wait", "loop") /\ p \in Zombies /\ logger.pid # p
  /\ kids' = Reaped(p)
  /\ pids' = [n \in Slots |-> IF pids[n] = p THEN NoPid ELSE pids[n]]
  /\ missing' = IF \E n \in Slots : pids[n] = p THEN missing + 1 ELSE missing
  /\ UNCHANGED <<gen, flags, timer, alarmAt, logger, rc, now, sent, deaths>>

\* EINTR: SIGHUP is forwarded, after an alarm the loggers are restarted that may be.
Interrupted ==
  /\ Goto("eintr", "loop")
  /\ hup' = FALSE /\ alarmed' = FALSE
  /\ IF alarmed
     THEN /\ timer' = FALSE
          /\ IF logger.pid = NoPid /\ logger.start + Gap < now
             THEN Spawn(kids) ELSE UNCHANGED <<logger, kids, deaths>>
     ELSE UNCHANGED <<timer, logger, kids, deaths>>
  /\ UNCHANGED <<gen, missing, pids, shutdown, graceful, restart, alarmAt, rc, now, sent>>

\* Mutant of Leave: the workers are left alone when the server goes down at once.
LeaveAlone ==
  /\ Goto("loop", IF graceful \/ restart # 0 THEN "tell" ELSE "close")
  /\ shutdown \/ graceful
  /\ restart' = IF graceful /\ restart # 0 THEN 2 ELSE restart
  /\ UNCHANGED <<gen, missing, pids, shutdown, graceful, hup, alarmed, timer, alarmAt, logger,
                 kids, rc, now, sent, deaths>>

\* The parent leaves the loop: the group is told to stop, gracefully or not.
Leave ==
  /\ pc = "loop" /\ (shutdown \/ graceful)
  /\ IF graceful \/ restart # 0
     THEN /\ pc' = "tell" /\ restart' = IF restart # 0 THEN 2 ELSE 0
          /\ UNCHANGED kids
     ELSE /\ pc' = "close" /\ kids' = Told(kids, "term")
          /\ UNCHANGED restart
  /\ UNCHANGED <<gen, missing, pids, shutdown, graceful, hup, alarmed, timer, alarmAt, logger,
                 rc, now, sent, deaths>>

\* kill(0, SIGINT) reaches the parent too, whose handler takes it for the one to ignore.
Tell ==
  /\ Goto("tell", "graceful")
  /\ kids' = Told(kids, "int") /\ SigInt
  /\ UNCHANGED <<gen, missing, pids, timer, alarmAt, logger, rc, now, sent, deaths>>

\* server_graceful_state
GracefulState ==
  /\ Goto("graceful", "close")
  /\ restart' = IF Chroot THEN 0 ELSE restart
  /\ UNCHANGED <<gen, missing, pids, shutdown, graceful, hup, alarmed, timer, alarmAt, logger,
                 kids, rc, now, sent, deaths>>

\* main(): the loggers' pipes are closed; another run, or the end.
Close ==
  /\ Goto("close", IF rc = 0 /\ restart # 0 THEN "reap" ELSE "exit")
  /\ logger' = [logger EXCEPT !.pid = NoPid]
  /\ UNCHANGED <<gen, missing, pids, flags, timer, alarmAt, kids, rc, now, sent, deaths>>

\* while (waitpid(-1, NULL, 0) > 0), which ends with ECHILD.
ReapAny ==
  /\ pc = "reap"
  /\ \E p \in Zombies : kids' = Reaped(p)
  /\ UNCHANGED <<pc, gen, missing, pids, flags, timer, alarmAt, logger, rc, now, sent, deaths>>
AllReaped ==
  /\ Goto("reap", "start") /\ gen < MaxGen /\ gen' = gen + 1
  /\ \A p \in Pids : kids[p].kind = "none"
  /\ UNCHANGED <<missing, pids, flags, timer, alarmAt, logger, kids, rc, now, sent, deaths>>

Parent ==
  \/ Start \/ Setup \/ Fork \/ ForkFails \/ Enter \/ Wait \/ Interrupted
  \/ \E p \in Pids : ReapLogger(p) \/ ReapWorker(p)
  \/ Leave \/ Tell \/ GracefulState \/ Close \/ ReapAny \/ AllReaped

Next ==
  \/ Parent \/ Signal \/ SigAlarm \/ Tick
  \/ \E p \in Pids : Dies(p) \/ Stops(p) \/ LoggerEnds(p)

Spec == Init /\ [][Next]_vars

\* The parent runs; alarms and the end of stopped children come.
FairSpec == Spec /\ WF_vars(Parent) /\ WF_vars(SigAlarm) /\ WF_vars(Tick)
                 /\ \A p \in Pids : WF_vars(Stops(p)) /\ WF_vars(LoggerEnds(p))

-----------------------------------------------------------------------------
(* Properties *)

InLoop == pc \in {"loop", "enter", "wait", "eintr"}
Workers == {p \in Pids : kids[p].kind = "worker" /\ kids[p].gen = gen}

TypeOK ==
  /\ pc \in {"start", "setup", "loop", "enter", "wait", "eintr", "tell", "graceful",
             "close", "reap", "exit"}
  /\ gen \in 1 .. MaxGen /\ missing \in 0 .. MaxWorker /\ pids \in [Slots -> Pids \cup {NoPid}]
  /\ {shutdown, graceful, hup, alarmed, timer} \subseteq BOOLEAN /\ restart \in 0 .. 2
  /\ alarmAt \in Int /\ rc \in {0, -1}
  /\ logger \in [pid : Pids \cup {NoPid}, start : Nat]
  /\ kids \in [Pids -> [kind : {"none", "worker", "logger"}, life : {"none", "runs", "zombie"},
                        gen : Nat, told : {"nothing", "term", "int"}]]
  /\ {now, sent, deaths} \subseteq Nat

\* pids[] lists exactly the workers of this run that were not waited for, each once, and
\* num_childs counts its free entries: so SIGHUP is sent on to every worker and to no process
\* that took over a dead worker's id (server.c:1507-1569).
PidsExact == InLoop =>
  /\ missing = Cardinality({n \in Slots : pids[n] = NoPid})
  /\ {pids[n] : n \in Slots} \ {NoPid} = Workers
  /\ \A m, n \in Slots : pids[m] = pids[n] /\ pids[m] # NoPid => m = n

\* The parent that ends with success leaves no worker that was not told to stop, of this run
\* or of an earlier one (server.c:1575-1593).
AllTold == pc = "exit" /\ rc = 0 =>
  \A p \in Running("worker") : kids[p].told # "nothing"

\* A worker that has gone is replaced, however its end meets other signals, children and
\* restarts, or the parent leaves the loop (server.c:1509-1574); and a parent that leaves for a
\* graceful restart gets there once its children are gone: no SIGINT, its own or one from
\* outside, turns the restart into a stop (server.c:1579-1585, 2055).
Renewed ==
  /\ InLoop /\ Cardinality(Workers \cap Running("worker")) < MaxWorker
       ~> ~InLoop \/ Cardinality(Workers \cap Running("worker")) = MaxWorker
  /\ pc = "tell" /\ restart # 0 /\ ~Chroot /\ gen < MaxGen ~> pc = "start"
=============================================================================
