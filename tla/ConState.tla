------------------------------ MODULE ConState ------------------------------
(***************************************************************************)
(* One connection slot of connections.c: the CON_STATE_* machine the       *)
(* worker thread of the slot runs, the client's socket, the mod_cgi        *)
(* backend and the once-a-second timer of the main thread.                 *)
(*                                                                         *)
(* A handler of the state machine is one step of the worker; the main      *)
(* thread's timer may run between any two of them, as it does in the       *)
(* server.  Bytes are abstracted to tokens: "part" is some header bytes,   *)
(* a request's kind stands for the end of its header, "body" is a piece of *)
(* body.  Times are kept as ages (cur_ts minus the time stamp).            *)
(***************************************************************************)
EXTENDS Integers, Sequences, FiniteSets

CONSTANTS
  Kinds,           \* the requests clients send in this instance
  MaxRequests,     \* requests one client sends on a connection
  MemLen,          \* what one read() can return at most
  MaxHeader,       \* server.max-request-field-size
  SockCap,         \* kernel receive buffer
  SndBuf,          \* kernel send buffer
  RespLen,         \* units of a static response's body
  CgiLen,          \* units of a CGI response's body
  MaxKeepAlive,    \* server.max-keep-alive-requests
  MaxReadIdle, KeepAliveIdle, MaxWriteIdle,   \* server.max-*-idle
  LingerTimeout,   \* HTTP_LINGER_TIMEOUT
  MaxJobs,         \* bound on queued state-machine runs
  ErrorHandler,    \* is server.error-handler configured?
  Throttled,       \* is a traffic limit configured?
  MayShutdown,     \* may a graceful shutdown be requested?
  Sluggish         \* may a second pass in the middle of a state-machine run?

AllKinds == {"get", "getclose", "missing", "bad", "big", "post", "cgi", "cgipost"}

ASSUME ConStateAssumption ==
  /\ Kinds \subseteq AllKinds /\ Kinds # {}
  /\ {MaxRequests, MemLen, MaxHeader, SockCap, SndBuf, RespLen, CgiLen, MaxReadIdle,
      KeepAliveIdle, MaxWriteIdle, LingerTimeout, MaxJobs} \subseteq Nat \ {0}
  /\ MaxKeepAlive \in Nat
  /\ {ErrorHandler, Throttled, MayShutdown, Sluggish} \subseteq BOOLEAN

VARIABLES
  con,       \* struct connection
  net,       \* the client and the kernel's socket buffers
  pc,        \* the worker: "idle", "run" (in connection_handle_base) or "write"
  ostate,    \* http_connection_t.ostate of the run in progress
  jobs,      \* queued runs, each with the ostate captured when it was queued
  graceful,  \* graceful_shutdown: "no", "asked", or "begun" once the listeners are closed
  hist       \* history: what happened to the response in progress, for properties

vars == <<con, net, pc, ostate, jobs, graceful, hist>>

States == {"CONNECT", "REQUEST_START", "READ", "REQUEST_END", "READ_POST", "HANDLE_REQUEST",
           "RESPONSE_START", "WRITE", "RESPONSE_END", "ERROR", "CLOSE"}

Least(a, b) == IF a <= b THEN a ELSE b
Bodied(k) == k \in {"post", "cgipost"}
NoKind == "none"

\* the bytes of a request, as the client sends them
Bytes(k) == CASE k = "big" -> <<"part", "part", k>>
              [] Bodied(k) -> <<k, "body">>
              [] OTHER     -> <<"part", k>>

OldestAge == 1 + (IF MaxReadIdle > KeepAliveIdle THEN MaxReadIdle ELSE KeepAliveIdle)
NeverTs == -1      \* write_request_ts == 0

\* connection_init: a slot nobody has used yet (a zeroed struct)
NewConnection ==
  [st |-> "CONNECT", used |-> FALSE, open |-> FALSE, uri |-> FALSE,
   readable |-> 0, writable |-> 0, keep |-> FALSE, reqCount |-> 0,
   kind |-> NoKind, status |-> 0, saved |-> 0, body |-> 0, got |-> 0, cq |-> 0,
   cgi |-> FALSE, hctx |-> "none", cgiLeft |-> 0,
   started |-> FALSE, fin |-> FALSE, wq |-> 0, rq |-> <<>>,
   pollin |-> FALSE, want |-> {}, limited |-> FALSE, missing |-> FALSE,
   readAge |-> 0, writeAge |-> NeverTs, closeAge |-> LingerTimeout + 1]

NoClient == [peer |-> "none", sock |-> <<>>, todo |-> <<>>, left |-> 0, snd |-> 0]
NoHistory == [taken |-> 0, logged |-> 0, idle |-> 0]

Init == /\ con = NewConnection /\ net = NoClient
        /\ pc = "idle" /\ ostate = "CONNECT" /\ jobs = <<>>
        /\ graceful = "no" /\ hist = NoHistory

-----------------------------------------------------------------------------
(* Pieces shared by the handlers.  A handler returns the set of its outcomes, *)
(* records [c, n, r]: the connection, the network and the return value.       *)

Out(c, n, r) == {[c |-> c, n |-> n, r |-> r]}
Go(c, n, s)  == Out([c EXCEPT !.st = s], n, 0)

\* connection_get_ostate
OState(c) == IF c.st = "READ_POST" THEN "HANDLE_REQUEST" ELSE c.st

\* http_response_backend_done
BackendDone(c) ==
  IF c.st \in {"HANDLE_REQUEST", "READ_POST"} /\ ~c.started
  THEN [c EXCEPT !.status = 500, !.cgi = FALSE]
  ELSE IF c.st \in {"HANDLE_REQUEST", "READ_POST", "WRITE"} THEN [c EXCEPT !.fin = TRUE] ELSE c

\* cgi_connection_close
CgiClose(c) == LET d == [c EXCEPT !.hctx = "none"] IN IF d.cgi THEN BackendDone(d) ELSE d

\* cgi_connection_close_callback, the plugins' connection_reset hook
PluginsReset(c) == IF c.hctx = "none" THEN c ELSE CgiClose(c)

\* connection_response_reset
ResponseReset(c) ==
  [c EXCEPT !.cgi = FALSE, !.status = 0, !.writable = 1, !.fin = FALSE, !.started = FALSE,
            !.wq = 0]

\* Mutant of Reset: error_handler_saved_status survives.
ResetKeepsSaved(c) ==
  [ResponseReset(PluginsReset(c)) EXCEPT
     !.readable = 1, !.uri = FALSE, !.kind = NoKind, !.body = 0, !.got = 0, !.cq = 0,
     !.pollin = FALSE]

\* connection_reset
Reset(c) ==
  [ResponseReset(PluginsReset(c)) EXCEPT
     !.readable = 1, !.uri = FALSE, !.kind = NoKind, !.body = 0, !.got = 0, !.cq = 0,
     !.saved = 0, !.pollin = FALSE]

\* connection_close: a handler context the plugins left behind is logged as "missing
\* cleanup" and dropped; the slot is free again.
CloseConnection(c, n) ==
  Out([c EXCEPT !.open = FALSE, !.want = {}, !.missing = @ \/ c.hctx # "none",
                !.hctx = "none", !.used = FALSE, !.st = "CONNECT"], NoClient, 0)

\* connection_handle_shutdown: shutdown() fails once the peer has reset the connection
Shutdown(c, n) ==
  IF n.peer = "reset"
  THEN CloseConnection(Reset(c), n)
  ELSE Go([Reset(c) EXCEPT !.closeAge = 0], n, "CLOSE")

\* connection_read_cq: -1 error, -2 the peer closed, 0 otherwise
NetworkRead(c, n) ==
  LET k == Least(Len(n.sock), MemLen) IN
  IF n.peer = "reset" THEN Out([c EXCEPT !.readable = 0, !.st = "ERROR"], n, -1)
  ELSE IF k = 0 THEN Out([c EXCEPT !.readable = 0], n, IF n.peer = "fin" THEN -2 ELSE 0)
  ELSE Out([c EXCEPT !.rq = @ \o SubSeq(n.sock, 1, k),
                     !.readable = IF k = MemLen THEN @ ELSE 0],
           [n EXCEPT !.sock = SubSeq(@, k + 1, Len(@))], 0)

ReadIfReadable(c, n) ==
  IF c.readable = 1 THEN NetworkRead([c EXCEPT !.readAge = 0], n) ELSE Out(c, n, 0)

\* Mutant of ReadForEos: the end of the stream is not noticed.
ReadForEosBlind(c, n) == [c |-> c, n |-> [n EXCEPT !.sock = <<>>]]

\* connection_read_for_eos
ReadForEos(c, n) ==
  [c |-> IF n.peer = "open" THEN c ELSE [c EXCEPT !.closeAge = LingerTimeout + 1],
   n |-> [n EXCEPT !.sock = <<>>]]

\* where the first header in the read queue ends, 0 if it has not
HeaderEnd(q) ==
  IF \E i \in 1 .. Len(q) : q[i] \in AllKinds
  THEN CHOOSE i \in 1 .. Len(q) : q[i] \in AllKinds /\ \A j \in 1 .. i - 1 : q[j] \notin AllKinds
  ELSE 0

-----------------------------------------------------------------------------
(* The handlers of the states.                                              *)

RequestStart(c, n) == Go([c EXCEPT !.readAge = 0, !.reqCount = @ + 1], n, "READ")

\* connection_handle_read_state, after the read
ScanHeader(c, n, closed) ==
  LET e == HeaderEnd(c.rq)
      d == CASE e # 0 -> [c EXCEPT !.st = "REQUEST_END", !.kind = c.rq[e],
                                   !.rq = SubSeq(@, e + 1, Len(@))]
             [] e = 0 /\ closed -> [c EXCEPT !.st = "ERROR"]
             [] OTHER -> c
      size == IF e # 0 THEN e ELSE Len(c.rq)
  IN IF size > MaxHeader
     THEN Go([d EXCEPT !.status = 431, !.keep = FALSE], n, "HANDLE_REQUEST")
     ELSE Out(d, n, 0)

\* connection_handle_read_state
ReadHeader(c, n) ==
  UNION {IF o.r = -1 THEN {o} ELSE ScanHeader(o.c, o.n, o.r = -2) : o \in ReadIfReadable(c, n)}

\* http_request_parse: what it decides of the request's kind
ParseRequest(c) ==
  [c EXCEPT !.keep = c.kind \notin {"bad", "getclose"},
            !.status = IF c.kind = "bad" THEN 400 ELSE 0,
            !.body = IF Bodied(c.kind) THEN 1 ELSE 0]

\* connection_handle_request_end_state
RequestEnd(c, n) ==
  LET d == ParseRequest([c EXCEPT !.uri = TRUE])
  IN Go(d, n, IF d.body # 0 THEN "READ_POST" ELSE "HANDLE_REQUEST")

\* connection_handle_read_post_state for a Content-Length body; r is GO_ON, WAIT or ERROR
ReadPost(c, n) ==
  UNION {
    IF o.r = -1 THEN Out(o.c, o.n, "ERROR")
    ELSE LET k == Least(o.c.body - o.c.got, Len(o.c.rq))
             d == [o.c EXCEPT !.got = @ + k, !.cq = @ + k, !.rq = SubSeq(@, k + 1, Len(@))]
         IN IF d.got = d.body
            THEN Out([d EXCEPT !.pollin = FALSE,
                               !.st = IF @ = "READ_POST" THEN "HANDLE_REQUEST" ELSE @], o.n, "GO_ON")
            ELSE IF o.r = -2 THEN Out(d, o.n, "ERROR")
            ELSE Out([d EXCEPT !.pollin = TRUE], o.n, "WAIT")
    : o \in ReadIfReadable(c, n)}

\* the end of mod_cgi_handle_subrequest: start the script, which gets the whole body;
\* cgi_create_env may fail before it has started anything
StartCgi(c, n) ==
  IF c.hctx = "new"
  THEN Out([c EXCEPT !.hctx = "run", !.cgiLeft = CgiLen, !.cq = 0], n, "WAIT") \cup
       UNION {Out([c EXCEPT !.hctx = h, !.status = 500, !.cgi = FALSE], n, "FINISHED") : h \in {"new", "none"}}
  ELSE Out(c, n, "WAIT")

\* mod_cgi_handle_subrequest
Subrequest(c, n) ==
  IF c.hctx = "none" THEN Out(c, n, "FINISHED")
  ELSE IF c.got = c.body THEN StartCgi(c, n)
  ELSE UNION {CASE o.c.cq # 0    -> Out(o.c, o.n, IF o.r = "GO_ON" THEN "WAIT" ELSE o.r)
                [] o.c.cq = 0 /\ o.r # "GO_ON" -> {o}
                [] OTHER -> StartCgi(o.c, o.n) : o \in ReadPost(c, n)}

\* http_response_prepare: who handles the request
Prepare(c, n) ==
  CASE ~c.cgi /\ c.status \notin {0, 200} ->
         Out([c EXCEPT !.wq = IF c.fin THEN @ ELSE 0], n, "FINISHED")
    [] c.cgi -> Subrequest(c, n)
    [] ~c.cgi /\ c.status \in {0, 200} /\ c.kind \in {"cgi", "cgipost"} ->
         Subrequest([c EXCEPT !.cgi = TRUE, !.hctx = "new"], n)
    [] ~c.cgi /\ c.status \in {0, 200} /\ c.kind = "missing" ->
         Out([c EXCEPT !.status = 404], n, "FINISHED")
    [] OTHER -> Out([c EXCEPT !.status = 200, !.wq = RespLen, !.fin = TRUE], n, "FINISHED")

\* connection_handle_handle_request_state, a request whose outcome is known: an error
\* may go to the error handler, once; r = -1 makes connection_handle_base run it again.
Answered(c, n) ==
  IF ~c.cgi /\ c.status >= 400 /\ c.saved = 0 /\ ErrorHandler
  THEN LET d == PluginsReset(c) IN
       Out([d EXCEPT !.saved = c.status, !.status = 0, !.kind = "get", !.writable = 1,
                     !.fin = FALSE, !.started = FALSE, !.wq = 0,
                     !.keep = @ /\ d.body = d.got, !.body = 0, !.got = 0, !.cq = 0],
           n, -1)
  ELSE Go([c EXCEPT !.status = CASE ~c.cgi /\ c.saved # 0 -> c.saved
                                 [] (c.cgi \/ c.saved = 0) /\ @ = 0 -> 200
                                 [] OTHER -> @], n, "RESPONSE_START")

HandleRequest(c, n) ==
  UNION {CASE o.r = "FINISHED" -> Answered(o.c, o.n)
           [] o.r = "WAIT" -> IF o.c.fin THEN Answered(o.c, o.n)   \* stream_response_body is 0
                              ELSE Out(o.c, o.n, 0)
           [] o.r = "ERROR" -> Go(o.c, o.n, "ERROR")
         : o \in Prepare(c, n)}

\* connection_handle_write_prepare: an error gets its document
WritePrepare(c) == IF ~c.cgi /\ c.status >= 400 THEN [c EXCEPT !.wq = 1, !.fin = TRUE] ELSE c

\* http_response_write_header: the header is queued, which says whether to keep the connection
WriteHeader(c) == [c EXCEPT !.wq = @ + 1, !.keep = @ /\ c.reqCount <= MaxKeepAlive]

\* connection_handle_response_start_state
ResponseStart(c, n) == Go(WriteHeader(WritePrepare(c)), n, "WRITE")

\* Mutant of HandleWrite: a finished response ends although some of it is still queued.
HandleWriteShort(c, n) ==
  LET k == Least(c.wq, SndBuf - n.snd)
      d == [c EXCEPT !.wq = @ - k, !.writeAge = 0]
      m == [n EXCEPT !.snd = @ + k]
  IN IF n.peer = "reset" THEN Go(c, n, "ERROR")
     ELSE Out([d EXCEPT !.st = IF d.fin THEN "RESPONSE_END" ELSE @,
                        !.writable = IF d.wq # 0 THEN 0 ELSE @], m, 0)

\* connection_handle_write
HandleWrite(c, n) ==
  LET k == Least(c.wq, SndBuf - n.snd)
      d == [c EXCEPT !.wq = @ - k]
      m == [n EXCEPT !.snd = @ + k]
      sent == IF n.peer = "reset" THEN Go(c, n, "ERROR")
              ELSE IF d.wq # 0 THEN Out([d EXCEPT !.writable = 0, !.writeAge = 0], m, 0)
              ELSE Out([d EXCEPT !.writeAge = 0, !.st = IF d.fin THEN "RESPONSE_END" ELSE @], m, 0)
  IN sent \cup (IF Throttled
                THEN Out([c EXCEPT !.limited = TRUE, !.writable = 0, !.writeAge = 0], n, 0) ELSE {})

\* one turn of the loop of connection_handle_write_state; r = 1: another turn follows
WriteTurn(c, n) ==
  LET first == IF c.wq # 0 THEN (IF c.writable = 1 THEN HandleWrite(c, n) ELSE Out(c, n, 0))
               ELSE IF c.fin THEN Go(c, n, "RESPONSE_END") ELSE Out(c, n, 0)
      again(d) == d.st = "WRITE" /\ (IF d.wq # 0 THEN d.writable = 1 ELSE d.fin)
  IN {[o EXCEPT !.r = IF again(o.c) THEN 1 ELSE 0] : o \in first}

\* Mutant of ResponseEnd: kept alive with a body that was not read.
ResponseEndIgnoresBody(c, n) ==
  IF c.keep /\ c.st # "ERROR" THEN Go(Reset(c), n, "REQUEST_START")
                               ELSE Shutdown([c EXCEPT !.keep = FALSE], n)

\* connection_handle_response_end_state, for RESPONSE_END and ERROR
ResponseEnd(c, n) ==
  LET keep == c.keep /\ c.body = c.got /\ c.st # "ERROR" IN
  IF keep THEN Go(Reset(c), n, "REQUEST_START") ELSE Shutdown([c EXCEPT !.keep = FALSE], n)

\* Mutant of CloseState: only the end of the stream closes.
CloseStateAtEos(c, n) ==
  LET e == ReadForEos(c, n) IN
  IF n.peer # "open" THEN CloseConnection(e.c, e.n) ELSE Out(e.c, e.n, 0)

\* connection_handle_close_state
CloseState(c, n) ==
  LET e == ReadForEos(c, n) IN
  IF e.c.closeAge > LingerTimeout THEN CloseConnection(e.c, e.n) ELSE Out(e.c, e.n, 0)

ConnectState(c, n) == Out([c EXCEPT !.rq = <<>>, !.reqCount = 0], n, 0)

\* Mutant of FdeventSet: a full socket is not waited for.
FdeventSetNoOut(c) ==
  LET r == CASE c.st \in {"READ", "CLOSE"} -> {"IN"}
             [] c.st \in {"WRITE", "READ_POST"} /\ c.pollin -> {"IN"}
             [] OTHER -> {}
  IN IF ~c.open THEN c
     ELSE [c EXCEPT !.want = r, !.readAge = IF "IN" \in r \ c.want THEN 0 ELSE @]

\* connection_handle_fdevent_set
FdeventSet(c) ==
  LET poll == IF c.pollin THEN {"IN"} ELSE {}
      r == CASE c.st \in {"READ", "CLOSE"} -> {"IN"}
             [] c.st = "WRITE" ->
                  poll \cup (IF c.wq # 0 /\ c.writable = 0 /\ ~c.limited THEN {"OUT"} ELSE {})
             [] c.st = "READ_POST" -> poll
             [] OTHER -> {}
  IN IF ~c.open THEN c
     ELSE [c EXCEPT !.want = r,
                    !.readAge = IF "IN" \in r \ c.want THEN 0 ELSE @,
                    !.writeAge = IF "OUT" \in r \ c.want THEN 0 ELSE @]

-----------------------------------------------------------------------------
(* The worker thread.                                                       *)

\* What a step changes in the history: hist is observed, never read by the server.
Observe(c, d) ==
  [hist EXCEPT !.taken = IF c.st = "READ" /\ d.st \in {"REQUEST_END", "HANDLE_REQUEST"}
                         THEN @ + 1 ELSE @,
               !.idle = IF d.st # "WRITE" \/ c.st # "WRITE" \/ d.wq < c.wq THEN 0 ELSE @]

\* Mutant of Logs: every end of a connection is logged.
LogsAnyEnd == pc = "run" /\ con.st \in {"RESPONSE_END", "ERROR"}

\* connection_handle_response_end_state calls the handle_request_done hooks
Logs == pc = "run" /\ con.st \in {"RESPONSE_END", "ERROR"} /\ con.status # 0

\* connection_handle_base, after the handler: run again while the state changes
Finish(o, turn) ==
  /\ net' = o.n
  /\ IF turn THEN con' = o.c /\ pc' = "write" /\ UNCHANGED ostate
     ELSE IF o.r = -1 \/ o.c.st # ostate
     THEN con' = o.c /\ ostate' = o.c.st /\ pc' = "run"
     ELSE con' = FdeventSet(o.c) /\ pc' = "idle" /\ UNCHANGED ostate
  /\ hist' = [Observe(con, o.c) EXCEPT !.logged = IF Logs THEN @ + 1 ELSE @]
  /\ UNCHANGED <<jobs, graceful>>

Handle(s, outcomes) == pc = "run" /\ con.st \in s /\ \E o \in outcomes : Finish(o, FALSE)

RunConnect       == Handle({"CONNECT"}, ConnectState(con, net))
RunRequestStart  == Handle({"REQUEST_START"}, RequestStart(con, net))
RunRead          == Handle({"READ"}, ReadHeader(con, net))
RunRequestEnd    == Handle({"REQUEST_END"}, RequestEnd(con, net))
RunHandleRequest == Handle({"READ_POST", "HANDLE_REQUEST"}, HandleRequest(con, net))
RunResponseStart == Handle({"RESPONSE_START"}, ResponseStart(con, net))
RunResponseEnd   == Handle({"RESPONSE_END", "ERROR"}, ResponseEnd(con, net))
RunClose         == Handle({"CLOSE"}, CloseState(con, net))
RunWrite         == /\ pc = "write" \/ (pc = "run" /\ con.st = "WRITE")
                    /\ \E o \in WriteTurn(con, net) : Finish(o, o.r = 1)

\* The worker takes the next queued run.
StartRun == /\ pc = "idle" /\ jobs # <<>>
            /\ pc' = "run" /\ ostate' = Head(jobs) /\ jobs' = Tail(jobs)
            /\ UNCHANGED <<con, net, graceful, hist>>

Revents == (IF "IN" \in con.want /\ (net.sock # <<>> \/ net.peer # "open") THEN {"IN"} ELSE {})
      \cup (IF "OUT" \in con.want /\ (net.snd < SndBuf \/ net.peer = "reset") THEN {"OUT"} ELSE {})
      \cup (IF net.peer = "reset" THEN {"HUP"} ELSE {})

\* connection_handle_fdevent up to the call of the state machine
EventRead(c, n)  == IF c.st = "READ" THEN ReadHeader(c, n) ELSE Out(c, n, 0)
EventWrite(c, n) == IF c.st = "WRITE" /\ c.wq # 0 /\ c.writable = 1 THEN HandleWrite(c, n) ELSE Out(c, n, 0)
EventHup(c) == IF c.st = "ERROR" THEN c
               ELSE IF c.st = "CLOSE" THEN [c EXCEPT !.closeAge = LingerTimeout + 1]
               ELSE [c EXCEPT !.st = "ERROR"]

FdEvent ==
  /\ pc = "idle" /\ con.open /\ Revents # {}
  /\ LET c0 == [con EXCEPT !.readable = IF "IN" \in Revents THEN 1 ELSE @,
                           !.writable = IF "OUT" \in Revents THEN 1 ELSE @]
     IN \E o \in EventRead(c0, net) : \E w \in EventWrite(o.c, o.n) :
          LET e == IF w.c.st = "CLOSE" THEN ReadForEos(w.c, w.n) ELSE [c |-> w.c, n |-> w.n]
              d == IF "HUP" \in Revents THEN EventHup(e.c) ELSE e.c
          IN /\ con' = d /\ net' = e.n /\ ostate' = OState(d)
             /\ hist' = Observe(con, d)
  /\ pc' = "run" /\ UNCHANGED <<jobs, graceful>>

\* cgi_handle_fdevent: output, the end of it, or a read error; then the state machine runs.
CgiRun(c) == /\ pc = "idle" /\ con.hctx = "run"
             /\ con' = c /\ pc' = "run" /\ ostate' = OState(c)
             /\ hist' = Observe(con, c)
             /\ UNCHANGED <<net, jobs, graceful>>
CgiData == con.cgiLeft > 0 /\ CgiRun([con EXCEPT !.started = TRUE, !.wq = @ + 1, !.cgiLeft = @ - 1])
CgiEnd  == con.cgiLeft = 0 /\ CgiRun(CgiClose(con))
CgiFail == CgiRun(CgiClose(IF con.started
                           THEN [con EXCEPT !.cgi = FALSE, !.keep = FALSE, !.fin = TRUE] ELSE con))

Worker == \/ RunConnect \/ RunRequestStart \/ RunRead \/ RunRequestEnd \/ RunHandleRequest
          \/ RunResponseStart \/ RunResponseEnd \/ RunClose \/ RunWrite \/ StartRun \/ FdEvent

-----------------------------------------------------------------------------
(* The main thread.                                                         *)

Queued(c) == Append(jobs, OState(c))

\* connection_accepted and the run network_server_handle_fdevent queues for it
Accept ==
  /\ ~con.used /\ pc = "idle" /\ Len(jobs) < MaxJobs /\ graceful # "begun"
  /\ LET c == [(IF con.uri THEN Reset(con) ELSE con) EXCEPT
                 !.used = TRUE, !.open = TRUE, !.want = {}, !.st = "REQUEST_START"]
     IN con' = c /\ jobs' = Queued(c)
  /\ net' = [NoClient EXCEPT !.peer = "open", !.left = MaxRequests]
  /\ hist' = NoHistory
  /\ UNCHANGED <<pc, ostate, graceful>>

Aged(c) == [c EXCEPT !.readAge = Least(@ + 1, OldestAge),
                     !.writeAge = IF @ = NeverTs THEN @ ELSE Least(@ + 1, MaxWriteIdle + 1),
                     !.closeAge = Least(@ + 1, LingerTimeout + 1)]

\* server_graceful_shutdown_maint for the connection: the new connection and "changed"
Maint(c) ==
  LET d == CASE c.st = "CLOSE" ->
                  [c EXCEPT !.closeAge = Least(@ + LingerTimeout - 1, LingerTimeout + 1)]
             [] c.st = "READ" /\ c.reqCount > 1 /\ c.rq = <<>> -> [c EXCEPT !.st = "ERROR"]
             [] OTHER -> c
  IN [c |-> [d EXCEPT !.keep = FALSE, !.limited = FALSE],
      changed |-> \/ c.st = "CLOSE" /\ d.closeAge > LingerTimeout
                  \/ d.st # c.st \/ c.limited]

\* server.c:1812 compares the negated time stamp, cur_ts is missing; Now stands for any
\* time after the epoch, far beyond the linger timeout.
Now == 1000000
CloseTimeoutTs(c) == Now - c.closeAge
LingerExpired(c) == - CloseTimeoutTs(c) > LingerTimeout

\* Mutant of ReadExpired: a kept-alive connection is left to wait.
ReadExpiredOnlyFirst(c) == "IN" \in c.want /\ c.reqCount = 1 /\ c.readAge > MaxReadIdle

ReadExpired(c) ==
  /\ "IN" \in c.want
  /\ IF c.reqCount = 1 \/ c.st # "READ" THEN c.readAge > MaxReadIdle ELSE c.readAge > KeepAliveIdle
WriteExpired(c) == c.st = "WRITE" /\ c.writeAge # NeverTs /\ c.writeAge > MaxWriteIdle

\* The once-a-second check of main's loop for the connection.  A traffic limit is lifted at
\* once: the time it takes for the average rate to fall below the limit is not modelled.
Timer(c) ==
  LET d == IF graceful # "no" THEN [c EXCEPT !.st = "CLOSE"]
           ELSE IF c.st # "CLOSE" /\ ReadExpired(c) THEN [c EXCEPT !.st = "ERROR"] ELSE c
      e == IF WriteExpired(d) THEN [d EXCEPT !.st = "ERROR"] ELSE d
  IN [c |-> [e EXCEPT !.limited = FALSE],
      changed |-> \/ graceful # "no" \/ e.st # c.st \/ c.limited
                  \/ c.st = "CLOSE" /\ LingerExpired(c)]

Requeue(changed, c) == IF changed THEN <<OState(c)>> ELSE <<>>

\* A second passes; the main thread looks at the connection if its slot is in use, after
\* server_graceful_shutdown_maint did.
Tick ==
  /\ Sluggish \/ pc = "idle"
  /\ LET m == IF graceful # "no" /\ con.used THEN Maint(Aged(con))
              ELSE [c |-> Aged(con), changed |-> FALSE]
         t == IF con.used THEN Timer(m.c) ELSE m
     IN /\ con' = t.c
        /\ jobs' = jobs \o Requeue(m.changed, m.c) \o Requeue(t.changed, t.c)
        /\ Len(jobs') <= MaxJobs
        /\ hist' = [hist EXCEPT !.idle = IF con.st = "WRITE" THEN Least(@ + 1, MaxWriteIdle + 1)
                                         ELSE 0]
  /\ graceful' = IF graceful = "no" THEN "no" ELSE "begun"   \* server_graceful_state follows
  /\ UNCHANGED <<net, pc, ostate>>

\* server_graceful_state in every turn of the main loop; the loop ends when no slot is used.
GracefulPass ==
  /\ graceful # "no" /\ graceful' = "begun"
  /\ LET m == IF con.used THEN Maint(con) ELSE [c |-> con, changed |-> FALSE]
     IN con' = m.c /\ jobs' = jobs \o Requeue(m.changed, m.c) /\ Len(jobs') <= MaxJobs
  /\ UNCHANGED <<net, pc, ostate, hist>>

\* SIGINT
GracefulStart == /\ MayShutdown /\ graceful = "no" /\ graceful' = "asked"
                 /\ UNCHANGED <<con, net, pc, ostate, jobs, hist>>

-----------------------------------------------------------------------------
(* The client.                                                              *)

ClientOnly == UNCHANGED <<con, pc, ostate, jobs, graceful, hist>>

ClientRequests(k) ==
  /\ net.peer = "open" /\ net.todo = <<>> /\ net.left > 0
  /\ net' = [net EXCEPT !.todo = Bytes(k), !.left = @ - 1] /\ ClientOnly
ClientSends ==
  /\ net.peer = "open" /\ net.todo # <<>> /\ Len(net.sock) < SockCap
  /\ net' = [net EXCEPT !.sock = Append(@, Head(net.todo)), !.todo = Tail(@)] /\ ClientOnly
ClientReceives ==
  net.peer \in {"open", "fin"} /\ net.snd > 0 /\ net' = [net EXCEPT !.snd = @ - 1] /\ ClientOnly
ClientFinishes == net.peer = "open" /\ net' = [net EXCEPT !.peer = "fin", !.todo = <<>>] /\ ClientOnly
ClientResets ==
  /\ net.peer \in {"open", "fin"}
  /\ net' = [net EXCEPT !.peer = "reset", !.sock = <<>>, !.todo = <<>>, !.snd = 0] /\ ClientOnly

Client == \/ \E k \in Kinds : ClientRequests(k)
          \/ ClientSends \/ ClientReceives \/ ClientFinishes \/ ClientResets

Next == \/ Worker \/ CgiData \/ CgiEnd \/ CgiFail
        \/ Accept \/ Tick \/ GracefulPass \/ GracefulStart
        \/ Client

Spec == Init /\ [][Next]_vars

\* The worker polls its events and drains its queue, the main thread wakes up every
\* second, and a script ends one day.  Nothing is assumed of the client.
Fairness == /\ WF_vars(Worker) /\ WF_vars(CgiData \/ CgiEnd \/ CgiFail)
            /\ WF_vars(Tick) /\ WF_vars(GracefulPass)

FairSpec == Spec /\ Fairness
=============================================================================
