----------------------------- MODULE MCConState -----------------------------
(***************************************************************************)
(* The properties of one connection.  Each run's .cfg picks the requests   *)
(* and the limits of its instance.                                         *)
(***************************************************************************)
EXTENDS ConState

Armed == CASE con.st \in {"READ", "READ_POST", "CLOSE"} -> "IN" \in con.want
           [] con.st = "HANDLE_REQUEST" -> con.hctx = "run"
           [] con.st = "WRITE" -> con.wq > 0 /\ ("OUT" \in con.want \/ con.limited)
           [] con.st = "CONNECT" -> ~con.used
           [] OTHER -> FALSE

\* A CGI request whose body came after its header: mod_cgi_handle_subrequest waits for a
\* script that it has not started (mod_cgi.c:934), and nothing runs the connection again.
LateBody == con.st = "HANDLE_REQUEST" /\ con.hctx = "new" /\ con.body # 0 /\ con.got = con.body

\* When connection_handle_base lets a connection rest, something will wake it: the socket
\* event its state waits for, its script, or the timer that lifts a traffic limit.  The one
\* exception is the request of LateBody.
NoSleep == pc = "idle" /\ jobs = <<>> /\ ~LateBody => Armed

\* Where connection_handle_read_state looks for a header, the bytes to come never begin in
\* the body of an earlier request: keep-alive ends when a body was not read to its end.
BytesAligned ==
  LET stream == con.rq \o net.sock \o net.todo IN
  con.st \in {"REQUEST_START", "READ"} /\ stream # <<>> => Head(stream) # "body"

\* A connection goes on to its next request only after the whole response of the last one
\* has been written to the socket, and its script is done with.
AnswerComplete ==
  [][con.st = "RESPONSE_END" /\ con'.st = "REQUEST_START"
       => con.fin /\ con.wq = 0 /\ con.hctx # "run"]_vars

Clean(c) == /\ c.status = 0 /\ c.saved = 0 /\ c.wq = 0 /\ ~c.fin /\ ~c.cgi /\ c.hctx = "none"
            /\ c.body = 0 /\ c.got = 0 /\ c.cq = 0

\* Nothing of an earlier request is left when the next one starts, on this connection or,
\* with the slot's reuse, on another client's; a new client finds no bytes of the old one.
CleanSlate ==
  [][con.st # "REQUEST_START" /\ con'.st = "REQUEST_START"
       => Clean(con') /\ (~con.used => con'.rq = <<>> /\ con'.reqCount = 0)]_vars

Phase == CASE ~con.used -> "free"
           [] con.used /\ con.st = "CLOSE" -> "closing"
           [] con.used /\ con.st # "CLOSE" /\ hist.taken # hist.logged -> "busy"
           [] OTHER -> "waiting"

Session == INSTANCE HttpSession
             WITH phase <- Phase, taken <- hist.taken, logged <- hist.logged

\* The connection implements the session: one request at a time, logged once, at its end.
ImplementsSession == Session!Spec

Serving == con.st \in {"REQUEST_END", "READ_POST", "HANDLE_REQUEST", "RESPONSE_START", "WRITE",
                       "RESPONSE_END", "ERROR"}

\* No client keeps a connection in CON_STATE_READ for ever, nor a request in service, by not
\* sending its body or not reading the response: the once-a-second check ends all of them
\* (max-read-idle, max-keep-alive-idle, max-write-idle).
HoldEnds == /\ con.st = "READ" ~> con.st # "READ"
            /\ Serving ~> ~Serving

\* A lingering close ends when the client has closed, too.
LingerEnds == con.st = "CLOSE" /\ net.peer # "open" ~> ~con.used

\* A graceful shutdown ends: the connection's slot becomes free.
GracefulEnds == graceful # "no" ~> ~con.used

=============================================================================
