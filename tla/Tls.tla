-------------------------------- MODULE Tls --------------------------------
(***************************************************************************)
(* mod_openssl: a connection whose bytes go through an SSL object.  The    *)
(* object is the library's: what its calls may answer is a choice here,    *)
(* with the two things it holds, a record that it could not send and       *)
(* bytes of a record that were not read yet.                               *)
(***************************************************************************)
EXTENDS Integers, Sequences, FiniteSets, SequencesExt

CONSTANTS
  Options,   \* [verify, enforce, depth, dn, disable, ahead]: ssl.verifyclient.* (dn: is there a ca-dn-file),
             \* ssl.disable-client-renegotiation, ssl.read-ahead
  Certs,     \* what clients present: [there, trusted, depth, listed]
  Queues,    \* what is to be sent: [now, later], sequences of [mem, data]
  Records,   \* what the client sends: sequences of records, each a sequence of bytes
  SendBuf,   \* LOCAL_SEND_BUFSIZE
  Record,    \* the bytes of a record at most, 16k
  Limits,    \* the bytes that one call may write, after connection_write_throttle
  MaxHandshakes

TlsAssumption ==
  /\ SendBuf \in Nat \ {0} /\ Record \in 1 .. SendBuf /\ Limits \subseteq Nat \ {0}
  /\ \A o \in Options : {o.verify, o.enforce, o.dn, o.disable, o.ahead} \subseteq BOOLEAN

VARIABLES
  opts,      \* hctx->conf
  cert,      \* the client's
  queue,     \* con->write_queue
  todo,      \* what is not in it yet
  buffer,    \* local_send_buffer, of the process
  load,      \* what SSL_write is called with: [shared, data], shared when it is in the buffer
  left,      \* max_bytes of connection_write_cq_ssl
  hctx,      \* [renegotiations, patched]
  ssl,       \* [done: the handshake, verdict: on the certificate, pending, part]
  wire,      \* what the client received
  coming,    \* the records it sends
  got,       \* con->read_queue
  readable, writable,  \* con->is_readable, is_writable: -1, 0 or 1
  env,       \* the request's SSL_CLIENT_VERIFY: "", "FAILED", "NONE" or "SUCCESS"
  at,        \* "open"; in a call, "load", "write" or "read"; "error", "shut", "closed"
  others,    \* did another worker write through the buffer, too, in between?
  request    \* "none", "prepared" or "handled"

vars == <<opts, cert, queue, todo, buffer, load, left, hctx, ssl, wire, coming, got, readable, writable, env, at, request, others>>

Bytes(cq) == FlattenSeq([i \in DOMAIN cq |-> cq[i].data])
Lowest(a, b) == IF a < b THEN a ELSE b
Upto(s, n) == SubSeq(s, 1, Lowest(n, Len(s)))
Nothing == [shared |-> FALSE, data |-> <<>>]

\* mod_openssl_handle_con_accept, when SSL_new and SSL_set_fd succeed
Init ==
  /\ opts \in Options /\ cert \in Certs /\ coming \in Records
  /\ \E q \in Queues : queue = q.now /\ todo = q.later
  /\ buffer = <<>> /\ load = Nothing /\ left = 0 /\ wire = <<>> /\ got = <<>>
  /\ hctx = [renegotiations |-> 0, patched |-> FALSE]
  /\ ssl = [done |-> FALSE, verdict |-> "NONE", pending |-> <<>>, part |-> <<>>]
  /\ readable = 1 /\ writable = 1 /\ env = "" /\ at = "open" /\ others = FALSE
  /\ request = "none"

-----------------------------------------------------------------------------
(* The handshake, and the certificate *)

\* verify_callback: is a certificate good?
Good(o) == cert.trusted /\ cert.depth <= o.depth /\ (o.dn => cert.listed)
\* SSL_get_verify_result, and what https_add_ssl_client_entries makes of it
Verdict(o) == IF ~o.verify \/ ~cert.there THEN "NONE" ELSE IF Good(o) THEN "SUCCESS" ELSE "FAILED"

Killed == hctx'.renegotiations > 1 /\ opts.disable

\* SSL_CB_HANDSHAKE_START, in any call of SSL_read or SSL_write
MayStart ==
  \/ UNCHANGED hctx
  \/ hctx.renegotiations < MaxHandshakes /\ hctx' = [hctx EXCEPT !.renegotiations = @ + 1]

\* The first handshake is made by SSL_read; the server's name in it selects the options
\* (network_ssl_servername_callback).
Handshake ==
  /\ at = "read" /\ ~ssl.done
  /\ hctx' = [hctx EXCEPT !.renegotiations = 1]
  /\ \E o \in {p \in Options : p.disable = opts.disable} :
       /\ opts' = o
       /\ ssl' = [ssl EXCEPT !.done = TRUE, !.verdict = Verdict(o)]
       /\ at' = IF o.verify /\ o.enforce /\ Verdict(o) # "SUCCESS" THEN "error" ELSE "read"
  /\ UNCHANGED <<cert, queue, todo, buffer, load, left, wire, coming, got, readable, writable, env, request, others>>

-----------------------------------------------------------------------------
(* connection_read_cq_ssl *)

Reads == at = "read" /\ UNCHANGED <<opts, cert, queue, todo, buffer, load, left, wire, env, request, others>>

StartRead ==
  /\ at = "open" /\ readable # 0 /\ at' = "read"
  /\ UNCHANGED <<opts, cert, queue, todo, buffer, load, left, hctx, ssl, wire, coming, got, readable, writable, env, request, others>>

\* Mutant of Again: what the library still has is left to the next event.
AgainNever(rest) == opts.ahead
Again(rest) == opts.ahead \/ rest # <<>>

\* SSL_read returns bytes of one record, as many as there is memory for.
ReadSome ==
  /\ Reads /\ ssl.done
  /\ ssl.part # <<>> \/ coming # <<>>
  /\ LET record == IF ssl.part # <<>> THEN ssl.part ELSE Head(coming)
     IN \E n \in 1 .. Len(record) :
          LET rest == SubSeq(record, n + 1, Len(record))
          IN /\ got' = got \o Upto(record, n) /\ ssl' = [ssl EXCEPT !.part = rest]
             /\ MayStart
             /\ at' = IF Killed THEN "error" ELSE IF Again(rest) THEN "read" ELSE "open"
  /\ coming' = IF ssl.part # <<>> THEN coming ELSE Tail(coming)
  /\ UNCHANGED <<readable, writable>>

\* SSL_read returns nothing: it waits for bytes, or to send some of a handshake.
ReadWaits ==
  /\ Reads /\ ssl.part = <<>>
  /\ MayStart
  /\ \/ writable' = -1
     \/ UNCHANGED writable
  /\ IF Killed THEN at' = "error" /\ UNCHANGED readable ELSE at' = "open" /\ readable' = 0
  /\ UNCHANGED <<ssl, coming, got>>

\* an error (-1), or the client's end of the connection (-2)
ReadEnds ==
  /\ Reads /\ ssl.part = <<>>
  /\ at' = "error" /\ readable' \in {readable, 0}
  /\ UNCHANGED <<hctx, ssl, coming, got, writable>>

-----------------------------------------------------------------------------
(* connection_write_cq_ssl *)

StartWrite ==
  /\ at = "open" /\ ssl.done /\ queue # <<>> /\ writable # 0
  /\ left' \in Limits /\ at' = "load"
  /\ UNCHANGED <<opts, cert, queue, todo, buffer, load, hctx, ssl, wire, coming, got, readable, writable, env, request, others>>

\* What the chunks in memory, from the first one on, give at most
RECURSIVE Merged(_, _, _)
Merged(data, cq, max) ==
  IF cq = <<>> \/ Len(data) >= max \/ (data # <<>> /\ Len(data) >= SendBuf) THEN data
  ELSE IF ~Head(cq).mem THEN data
  ELSE Merged(data \o Upto(Head(cq).data, IF data = <<>> THEN max ELSE Lowest(max, SendBuf) - Len(data)), Tail(cq), max)

\* load_next_chunk: one chunk in memory is sent from where it is, several and a file's through the buffer.
Load ==
  /\ at = "load"
  /\ IF Head(queue).mem
     THEN LET data == Merged(<<>>, queue, left)
              shared == Len(data) > Len(Head(queue).data)
          IN /\ load' = [shared |-> shared, data |-> data] /\ at' = "write"
             /\ buffer' = IF shared THEN data ELSE buffer
     ELSE \/ LET data == Upto(Head(queue).data, Lowest(SendBuf, left))     \* the file is as long as it was
             IN buffer' = data /\ load' = [shared |-> TRUE, data |-> data] /\ at' = "write"
          \/ at' = "error" /\ UNCHANGED <<buffer, load>>
  /\ UNCHANGED <<opts, cert, queue, todo, left, hctx, ssl, wire, coming, got, readable, writable, env, request, others>>

\* Another worker's load_next_chunk: the buffer is not locked.
OtherWorker ==
  /\ at = "write" /\ load.shared
  /\ buffer' = [i \in 1 .. SendBuf |-> 0] /\ others' = TRUE
  /\ UNCHANGED <<opts, cert, queue, todo, load, left, hctx, ssl, wire, coming, got, readable, writable, env, at, request>>

Given == IF load.shared THEN Upto(buffer, Len(load.data)) ELSE load.data
\* the record that SSL_write sends: the one that waits, or a new one
ToSend == IF ssl.pending # <<>> THEN ssl.pending ELSE Upto(Given, Record)
\* SSL_R_BAD_WRITE_RETRY: less is given than there was
BadRetry == Len(ssl.pending) > Len(load.data)

\* chunkqueue_mark_written
RECURSIVE Written(_, _)
Written(cq, n) ==
  IF n = 0 THEN cq
  ELSE IF n >= Len(Head(cq).data) THEN Written(Tail(cq), n - Len(Head(cq).data))
  ELSE <<[Head(cq) EXCEPT !.data = SubSeq(@, n + 1, Len(@))]>> \o Tail(cq)

Writes == at = "write" /\ load' = Nothing /\ UNCHANGED <<opts, cert, todo, buffer, coming, got, env, request, others>>

\* Mutant of WriteSome: what was given counts as written, though one record was sent.
WriteSomeAll ==
  /\ Writes /\ ~BadRetry /\ MayStart
  /\ wire' = wire \o ToSend /\ ssl' = [ssl EXCEPT !.pending = <<>>]
  /\ queue' = Written(queue, Len(load.data)) /\ left' = 0 /\ writable' = (IF queue' = <<>> THEN writable ELSE 0)
  /\ at' = IF Killed THEN "error" ELSE "open"
  /\ UNCHANGED readable

\* With SSL_MODE_ENABLE_PARTIAL_WRITE a call sends one record.
WriteSome ==
  /\ Writes /\ ~BadRetry
  /\ wire' = wire \o ToSend /\ ssl' = [ssl EXCEPT !.pending = <<>>]
  /\ MayStart
  /\ IF Killed THEN at' = "error" /\ UNCHANGED <<queue, left, writable>>
     ELSE /\ queue' = Written(queue, Len(ToSend)) /\ left' = left - Len(ToSend)
          /\ at' = IF Len(ToSend) = Len(load.data) /\ left' > 0 /\ queue' # <<>> THEN "load" ELSE "open"
          /\ writable' = IF at' = "open" /\ queue' # <<>> THEN 0 ELSE writable   \* connection_handle_write
  /\ UNCHANGED readable

\* WANT_READ in a handshake, WANT_WRITE with a record that is kept
WriteWaits ==
  /\ Writes /\ ~BadRetry
  /\ MayStart
  /\ \/ ssl.pending = <<>> /\ readable' = -1 /\ UNCHANGED ssl
     \/ ssl' = [ssl EXCEPT !.pending = ToSend] /\ UNCHANGED readable
  /\ at' = IF Killed THEN "error" ELSE "open"
  /\ writable' = 0 /\ left' = 0
  /\ UNCHANGED <<queue, wire>>

WriteFails ==
  /\ Writes /\ at' = "error" /\ left' = 0
  /\ UNCHANGED <<queue, hctx, ssl, wire, readable, writable>>

\* The response goes on.
Produce ==
  /\ at = "open" /\ todo # <<>>
  /\ queue' = Append(queue, Head(todo)) /\ todo' = Tail(todo)
  /\ UNCHANGED <<opts, cert, buffer, load, left, hctx, ssl, wire, coming, got, readable, writable, env, at, request, others>>

\* connection_set_fdevent_interest, and the events that come; data that comes is read.
FdEvent ==
  /\ at = "open"
  /\ \/ readable # 1 /\ (readable = -1 \/ coming # <<>>) /\ readable' = 1 /\ UNCHANGED writable
     \/ writable # 1 /\ (writable = -1 \/ queue # <<>>) /\ writable' = 1 /\ UNCHANGED readable
  /\ UNCHANGED <<opts, cert, queue, todo, buffer, load, left, hctx, ssl, wire, coming, got, env, at, request, others>>

-----------------------------------------------------------------------------
(* Requests, and the end *)

Still == UNCHANGED <<cert, queue, todo, buffer, load, left, ssl, wire, coming, got, readable, writable, others>>

\* http_cgi_ssl_env, https_add_ssl_client_entries: once for a request
Entries(o) ==
  /\ env' = IF hctx.patched \/ ~o.verify THEN env ELSE ssl.verdict
  /\ hctx' = [hctx EXCEPT !.patched = TRUE]

\* mod_openssl_handle_uri_raw, with the options that the request's conditions select
UriRaw ==
  /\ at = "open" /\ ssl.done /\ got # <<>> /\ request = "none"
  /\ \E o \in {p \in Options : p.disable = opts.disable} :
       /\ opts' = o
       /\ IF o.verify THEN Entries(o) ELSE UNCHANGED <<env, hctx>>
  /\ request' = "prepared"
  /\ Still /\ UNCHANGED at

\* mod_openssl_handle_request_env, when a backend wants the environment
RequestEnv ==
  /\ at = "open" /\ request = "prepared"
  /\ Entries(opts)
  /\ request' = "handled"
  /\ Still /\ UNCHANGED <<opts, at>>

\* Mutant of Reset: the next request gets no entries.
ResetForgets ==
  /\ at = "open" /\ request # "none"
  /\ env' = "" /\ request' = "none"
  /\ Still /\ UNCHANGED <<opts, hctx, at>>

\* mod_openssl_handle_request_reset, with connection_reset's array_reset of the environment
Reset ==
  /\ at = "open" /\ request # "none"
  /\ hctx' = [hctx EXCEPT !.patched = FALSE] /\ env' = ""
  /\ request' = "none"
  /\ Still /\ UNCHANGED <<opts, at>>

\* mod_openssl_handle_con_shut_wr: nothing is sent after the close_notify.
ShutWr ==
  /\ at = "open" /\ queue \o todo = <<>> /\ request = "none" /\ at' = "shut"
  /\ Still /\ UNCHANGED <<opts, hctx, env, request>>

\* mod_openssl_handle_con_close
CloseConn ==
  /\ at \in {"error", "shut"} /\ at' = "closed"
  /\ hctx' = [renegotiations |-> 0, patched |-> FALSE]
  /\ ssl' = [done |-> FALSE, verdict |-> "NONE", pending |-> <<>>, part |-> <<>>]
  /\ UNCHANGED <<opts, cert, queue, todo, buffer, load, left, wire, coming, got, readable, writable, env, request, others>>

Next ==
  \/ Handshake \/ StartRead \/ ReadSome \/ ReadWaits \/ ReadEnds
  \/ StartWrite \/ Load \/ OtherWorker \/ WriteSome \/ WriteWaits \/ WriteFails
  \/ Produce \/ FdEvent
  \/ UriRaw \/ RequestEnv \/ Reset \/ ShutWr \/ CloseConn

Spec == Init /\ [][Next]_vars

-----------------------------------------------------------------------------

\* What the client received and what is still to be sent are the response, in its order, unless another
\* worker used the buffer in between; a record that waits is given again as it was; nothing that was
\* read off the socket is left in the library when a call returns, where no event would tell of it; a
\* client that renegotiates, where that is disabled, gets no further; what a request says of the
\* client's certificate is what the handshake found (mod_openssl.c:1195-1378, 1389-1418, 1785-1845).
TlsWhole ==
  /\ at \in {"open", "load", "write", "read"} /\ ~others =>
       /\ wire \o Bytes(queue \o todo) = [i \in 1 .. Len(wire) + Len(Bytes(queue \o todo)) |-> i]
       /\ IsPrefix(ssl.pending, Bytes(queue))
  /\ at = "write" => ~BadRetry
  /\ at = "shut" => ssl.pending = <<>> /\ (others \/ \A i \in DOMAIN wire : wire[i] = i)
  /\ at = "open" => ssl.part = <<>>
  /\ at \in {"open", "load", "shut"} /\ opts.disable => hctx.renegotiations <= 1
  /\ at = "open" /\ request = "handled" /\ opts.verify => env = ssl.verdict
=============================================================================
