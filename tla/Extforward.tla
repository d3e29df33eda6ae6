----------------------------- MODULE Extforward -----------------------------
(***************************************************************************)
(* mod_extforward: who a client is, behind proxies that are trusted.  The  *)
(* HAProxy PROXY header at the beginning of a connection replaces the      *)
(* address of the peer; a Forwarded or X-Forwarded-For field of a request  *)
(* replaces it for that request.  Headers are sequences of symbols, an     *)
(* address or a word is one of them.                                       *)
(***************************************************************************)
EXTENDS Integers, Sequences, FiniteSets, SequencesExt, TLC

CONSTANTS
  Scenes,     \* [conf, peer, wire, fields]: the configuration, who connects, what it sends before its
              \* requests, and the field that each of these has
  Numeric,    \* the addresses that sock_addr_from_str_numeric takes
  Hex,        \* the symbols that extract_forward_array takes for an address
  MaxPeek,    \* the symbols of a PROXY header that are looked at: 232 bytes, of union hap_PROXY_hdr
  MaxCells,   \* 256: offsets[] of mod_extforward_Forwarded
  MaxPasses

ExtforwardAssumption ==
  /\ \A s \in Scenes : s.conf.all \in {-1, 0, 1} /\ s.conf.hap \in BOOLEAN /\ s.conf.verify \in BOOLEAN
  /\ Numeric \subseteq {<<x>> : x \in Hex} /\ MaxPeek \in Nat /\ MaxCells \in Nat \ {0}

VARIABLES
  scene,      \* what the connection is
  proto,      \* con->proto
  here,       \* how much of what the peer sends has come
  used,       \* how much of it was taken off the socket before the first request
  reader,     \* con->network_read: "own", or "hap" before the PROXY header
  addr,       \* con->dst_addr, dst_addr_buf
  ctx,        \* handler_ctx: [made, saved: <<>> or <<address>>, env: the certificate's name, verify]
  field,      \* the field of the request that is looked at first
  scheme, http_host, user, actual,    \* the request's; REMOTE_USER and _L_EXTFORWARD_ACTUAL_FOR
  phase,      \* "new", "proxy", "closing", "idle", "parsed", "request", "closed"
  refused,    \* the request was answered 400
  asked, pass \* requests so far, and how often this one was prepared

vars == <<scene, proto, here, used, reader, addr, ctx, field, scheme, http_host, user, actual,
          phase, refused, asked, pass>>

conf == scene.conf
wire == scene.wire
NoCtx == [made |-> FALSE, saved |-> <<>>, env |-> <<>>, verify |-> FALSE]
None == <<"none">>
\* a field, the X-Forwarded-Proto beside it, and what it says: hops (the client's first), is it refused
NoField == [kind |-> "none", text |-> <<>>, proto |-> <<>>, hops |-> <<>>, bad |-> FALSE]

-----------------------------------------------------------------------------
(* Trust *)

IsTrusted(a) == a \in conf.trusted
ConnectionTrusted == IF conf.all # 0 THEN conf.all = 1 ELSE IsTrusted(addr)

-----------------------------------------------------------------------------
(* mod_extforward_Forwarded: the field is cut in cells, a parameter each, or a comma *)

Comma == [k |-> <<",">>, v |-> <<>>]
Bad == [ok |-> FALSE, list |-> <<>>]

RECURSIVE QuoteEnd(_, _)
QuoteEnd(s, i) ==
  IF i + 1 > Len(s) \/ s[i + 1] = "dq" THEN i + 1
  ELSE IF s[i + 1] = "bs" THEN (IF i + 2 > Len(s) THEN i + 2 ELSE QuoteEnd(s, i + 2)) ELSE QuoteEnd(s, i + 1)

\* The next symbol of S outside quotes, 0 when a quote does not end
RECURSIVE NextOf(_, _, _)
NextOf(s, i, S) ==
  IF i > Len(s) \/ s[i] \in S THEN i
  ELSE IF s[i] # "dq" THEN NextOf(s, i + 1, S)
  ELSE IF QuoteEnd(s, i) > Len(s) THEN 0 ELSE NextOf(s, QuoteEnd(s, i) + 1, S)

RECURSIVE Cells(_, _)
Cells(s, i) ==
  LET e == NextOf(s, i, {"=", ";", ","})
      f == NextOf(s, e + 1, {";", ","})
      from(c, n) == LET r == Cells(s, n) IN [ok |-> r.ok, list |-> c \o r.list]
  IN IF i > Len(s) THEN [ok |-> TRUE, list |-> <<>>]
     ELSE IF s[i] \in {" ", ";"} THEN Cells(s, i + 1)
     ELSE IF s[i] = "," THEN from(<<Comma>>, i + 1)
     ELSE IF e = 0 THEN Bad
     ELSE IF e > Len(s) \/ s[e] # "=" THEN Cells(s, e)
     ELSE IF f = 0 THEN Bad
     ELSE IF e = i THEN Cells(s, f)
     ELSE from(<<[k |-> SubSeq(s, i, e - 1), v |-> SubSeq(s, e + 1, f - 1)]>>, f)

CellCount(c) == Len(c) + 3 * Cardinality({i \in DOMAIN c : c[i] # Comma})
TooMany(c) == CellCount(c) - 1 >= MaxCells - 4

RECURSIVE RTrim(_)
RTrim(v) == IF v # <<>> /\ Last(v) = " " THEN RTrim(Front(v)) ELSE v
Quoted(v) == Len(v) > 1 /\ v[1] = "dq" /\ Last(v) = "dq"
Inner(v) == SubSeq(v, 2, Len(v) - 1)
Plain(v) == IF Quoted(RTrim(v)) THEN Inner(RTrim(v)) ELSE RTrim(v)

\* the address of a for=: without the brackets and the port it has in quotes; Bad when "]" is missing
Hidden == {"_x", "/x"}
Addr(v) ==
  LET q == Plain(v)
      end == SelectLastInSeq(q, LAMBDA x : x = "]")
      colon == SelectInSeq(q, LAMBDA x : x = ":")
      given(a) == [ok |-> TRUE, list |-> a]
  IN IF ~Quoted(RTrim(v)) \/ q = <<>> THEN given(q)
     ELSE IF q[1] = "[" THEN (IF end <= 2 THEN Bad ELSE given(SubSeq(q, 2, end - 1)))
     ELSE IF q[1] \in Hidden \cup {"unknown"} \/ colon = 0 THEN given(q)
     ELSE given(SubSeq(q, 1, colon - 1))
Obfuscated(a) == a[1] \in Hidden \/ a = <<"unknown">>

\* Back from the end: the for= of each proxy, until one is not trusted; best is the last that may be
\* an address, -1 when there is an error.
PrevComma(c, j) == SelectLastInSubSeq(c, 1, j - 1, LAMBDA x : x = Comma)
\* Mutant of Walk: a proxy that is not trusted does not end the chain.
RECURSIVE WalkOn(_, _, _)
WalkOn(c, j, best) ==
  IF j <= 0 THEN best
  ELSE IF c[j].k # <<"for">> THEN WalkOn(c, j - 1, best)
  ELSE LET a == Addr(c[j].v)
           b == IF a.list # <<>> /\ ~Obfuscated(a.list) THEN j ELSE best
       IN IF ~a.ok THEN -1 ELSE WalkOn(c, PrevComma(c, j) - 1, b)

RECURSIVE Walk(_, _, _)
Walk(c, j, best) ==
  IF j <= 0 THEN best
  ELSE IF c[j].k # <<"for">> THEN Walk(c, j - 1, best)
  ELSE LET a == Addr(c[j].v)
           b == IF a.list # <<>> /\ ~Obfuscated(a.list) THEN j ELSE best
       IN IF ~a.ok THEN -1
          ELSE IF a.list # <<>> /\ ~IsTrusted(a.list) THEN b
          ELSE Walk(c, PrevComma(c, j) - 1, b)

\* The places of parameter k: from the for= at j to the end of its group, and after that
GroupEnd(c, j) == LET i == SelectInSubSeq(c, j, Len(c), LAMBDA x : x = Comma) IN IF i = 0 THEN Len(c) + 1 ELSE i
InGroup(c, j, k) == {i \in PrevComma(c, j) + 1 .. GroupEnd(c, j) - 1 : c[i].k = k}
Later(c, j, k) == {i \in GroupEnd(c, j) + 1 .. Len(c) : c[i].k = k}
Greatest(S) == CHOOSE i \in S : \A j \in S : j <= i
Smallest(S) == CHOOSE i \in S : \A j \in S : i <= j

\* buffer_backslash_unescape
RECURSIVE Unescaped(_)
Unescaped(v) ==
  IF v = <<>> THEN [ok |-> TRUE, list |-> <<>>]
  ELSE IF v[1] # "bs" THEN LET r == Unescaped(Tail(v)) IN [ok |-> r.ok, list |-> <<v[1]>> \o r.list]
  ELSE IF Len(v) = 1 THEN Bad
  ELSE LET r == Unescaped(SubSeq(v, 3, Len(v))) IN [ok |-> r.ok, list |-> <<v[2]>> \o r.list]
Decoded(v) == IF Quoted(RTrim(v)) THEN Unescaped(Plain(v)) ELSE [ok |-> TRUE, list |-> Plain(v)]

-----------------------------------------------------------------------------
(* The connection, and the PROXY header before its first request *)

request == <<field, scheme, http_host, user, actual, refused, pass>>
EndRequest ==
  /\ field' = NoField /\ scheme' = "" /\ http_host' = None /\ user' = None /\ actual' = None
  /\ refused' = FALSE /\ pass' = 0

Init ==
  /\ scene \in Scenes
  /\ proto = "http" /\ here = 0 /\ used = 0 /\ reader = "own" /\ addr = scene.peer /\ ctx = NoCtx
  /\ phase = "new" /\ asked = 0
  /\ field = NoField /\ scheme = "" /\ http_host = None /\ user = None /\ actual = None /\ refused = FALSE /\ pass = 0

\* mod_extforward_handle_con_accept
Accept ==
  /\ phase = "new"
  /\ IF conf.hap /\ ConnectionTrusted
     THEN ctx' = [NoCtx EXCEPT !.made = TRUE] /\ reader' = "hap" /\ phase' = "proxy"
     ELSE UNCHANGED <<ctx, reader>> /\ phase' = "idle"
  /\ UNCHANGED <<scene, proto, here, used, addr, asked, request>>

Arrive ==
  /\ phase = "proxy"
  /\ \E n \in here + 1 .. Len(wire.text) : here' = n
  /\ UNCHANGED <<scene, proto, used, reader, addr, ctx, phase, asked, request>>

\* hap_PROXY_recv: the length of the header, 0 for what is none, or is not all there
V2Head == 4   \* the signature, the command, the family and the length
HeaderLen(p) ==
  IF Len(p) >= V2Head /\ p[1] = "sig"
  THEN IF Len(p) < V2Head + wire.length \/ p[2] \notin {"PROXY", "LOCAL"} THEN 0 ELSE V2Head + wire.length
  ELSE IF Len(p) >= 3 /\ p[1] = "PROXY"
  THEN LET cr == SelectInSubSeq(p, 1, Len(p) - 1, LAMBDA x : x = "r")
       IN IF cr = 0 \/ p[cr + 1] # "n" THEN 0 ELSE cr + 1
  ELSE 0

\* what a header says: [ok, addr (or the one there was), proto, env, verify]
Says(a) == [ok |-> TRUE, addr |-> a, proto |-> proto, env |-> <<>>, verify |-> FALSE]
Wrong == [Says(addr) EXCEPT !.ok = FALSE]
Family == "TCP4" :> {x \in Numeric : x # <<"A6">>} @@ "TCP6" :> {<<"A6">>}

\* mod_extforward_hap_PROXY_v1; w: the words of the line, and the blanks between them
V1(w) ==
  IF w = <<>> \/ w[1] # " " \/ Len(w) = 1 THEN Wrong
  ELSE IF w[2] = "UNKNOWN" THEN (IF Len(w) = 2 \/ w[3] = " " THEN Says(addr) ELSE Wrong)
  ELSE IF /\ w[2] \in {"TCP4", "TCP6"} /\ Len(w) = 10 /\ \A i \in {3, 5, 7, 9} : w[i] = " "
          /\ w[8] = "port" /\ w[10] = "port" /\ <<w[4]>> \in Family[w[2]]
  THEN Says(<<w[4]>>) ELSE Wrong

\* mod_extforward_hap_PROXY_v2: the addresses are two symbols; then what the TLVs say about TLS
Tls(r, t) ==
  IF t.is # "ssl" THEN r
  ELSE [r EXCEPT !.proto = IF t.ssl THEN "https" ELSE @,
                 !.verify = @ \/ (t.cert /\ t.verified),
                 !.env = IF t.cn = <<>> THEN @ ELSE t.cn]
Whole(tlvs) == SubSeq(tlvs, 1, LET i == SelectInSeq(tlvs, LAMBDA t : t.is = "short")
                               IN IF i = 0 THEN Len(tlvs) ELSE i - 1)
V2(p) ==
  IF p[2] = "LOCAL" \/ p[3] \notin {"TCP4", "TCP6", "UNIX"} THEN Says(addr)
  ELSE IF p[3] = "UNIX" /\ p[5] = "long" THEN Wrong
  ELSE FoldLeft(Tls, Says(<<p[5]>>), Whole(wire.tlvs))

\* Mutant of Restore: the address that was saved is forgotten.
RestoreForgets(c) == [addr |-> addr, ctx |-> IF c.env = <<>> THEN NoCtx ELSE [c EXCEPT !.saved = <<>>]]

\* mod_extforward_restore, of the context c
Restore(c) ==
  [addr |-> IF c.saved = <<>> THEN addr ELSE c.saved[1],
   ctx |-> IF c.env = <<>> THEN NoCtx ELSE [c EXCEPT !.saved = <<>>]]

\* mod_extforward_network_read: a header that is wrong, or not all there, ends the connection.
ReadProxy ==
  /\ phase = "proxy" /\ here > 0
  /\ LET p == SubSeq(wire.text, 1, IF here < MaxPeek THEN here ELSE MaxPeek)
         n == HeaderLen(p)
         r == IF n = 0 THEN Wrong ELSE IF p[1] = "sig" THEN V2(p) ELSE V1(SubSeq(p, 2, n - 2))
     IN /\ used' = n /\ addr' = r.addr /\ proto' = r.proto
        /\ ctx' = Restore([ctx EXCEPT !.env = r.env, !.verify = r.verify]).ctx
        /\ phase' = IF r.ok THEN "idle" ELSE "closing"
  /\ reader' = "own"
  /\ UNCHANGED <<scene, here, asked, request>>

\* mod_extforward_handle_con_close, at any time; then the slot is the next client's.
CloseConn ==
  /\ phase \notin {"new", "closed"}
  /\ reader' = "own" /\ addr' = (IF ctx.saved # <<>> THEN ctx.saved[1] ELSE addr) /\ ctx' = NoCtx
  /\ phase' = "closed" /\ EndRequest
  /\ UNCHANGED <<scene, proto, here, used, asked>>

-----------------------------------------------------------------------------
(* Requests *)

\* The head of a request is parsed.
ReadHead ==
  /\ phase = "idle" /\ asked < Len(scene.fields)
  /\ field' = scene.fields[asked + 1]
  /\ http_host' = <<"h">> /\ phase' = "parsed" /\ asked' = asked + 1
  /\ UNCHANGED <<scene, proto, here, used, reader, addr, ctx, scheme, user, actual, refused, pass>>

\* what a field says: the client's address, <<>> for none, and what its proxies add
Silent == [from |-> <<>>, proto |-> <<>>, host |-> <<>>, user |-> <<>>, bad |-> FALSE]
BadField == [Silent EXCEPT !.bad = TRUE]

\* extract_forward_array, last_not_in_array
ForwardedFor ==
  LET list == SelectSeq(field.text, LAMBDA x : x \in Hex)
      j == SelectLastInSeq(list, LAMBDA x : ~IsTrusted(<<x>>))
  IN IF j = 0 \/ <<list[j]>> \notin Numeric THEN Silent
     ELSE [Silent EXCEPT !.from = <<list[j]>>, !.proto = field.proto]

\* mod_extforward_Forwarded
HostNames == {<<"g">>, <<"h">>, <<"k">>}   \* what http_request_host_policy lets pass
\* host= is the last of the group, or the first after it; remote_user= the last of all, proto= of the group.
HostPlace(c, j) ==
  LET own == InGroup(c, j, <<"host">>)
      after == Later(c, j, <<"host">>)
  IN IF own # {} THEN {Greatest(own)} ELSE IF after # {} THEN {Smallest(after)} ELSE {}
UserPlace(c, j) == InGroup(c, j, <<"remote_user">>) \cup Later(c, j, <<"remote_user">>)
Value(c, S, opt) ==
  IF S = {} \/ opt \notin conf.opts THEN [ok |-> TRUE, list |-> <<>>] ELSE Decoded(c[Greatest(S)].v)
ProtoOf(c, S) == IF S = {} THEN <<>> ELSE Plain(c[Greatest(S)].v)

\* what is taken from the parameters c when the client is in the for= at j
Taken(c, j) ==
  LET h == Value(c, HostPlace(c, j), "host")
      good == h.ok /\ h.list \in HostNames \cup {<<>>}
      u == IF good THEN Value(c, UserPlace(c, j), "remote_user") ELSE Bad
  IN [from |-> Addr(c[j].v).list, proto |-> ProtoOf(c, InGroup(c, j, <<"proto">>)),
      host |-> h.list, user |-> u.list, bad |-> ~u.ok]
FromChain(c, j) ==
  IF j = -1 THEN BadField
  ELSE IF j = 0 THEN Silent
  ELSE IF Addr(c[j].v).list \notin Numeric THEN Silent ELSE Taken(c, j)
Forwarded ==
  LET c == Cells(field.text, 1)
  IN IF ~c.ok \/ TooMany(c.list) THEN BadField ELSE FromChain(c.list, Walk(c.list, Len(c.list), 0))

\* hap-PROXY-ssl-client-verify: the name in the client's certificate is the user.
Verified == IF conf.verify /\ ctx.verify /\ ctx.env # <<>> THEN ctx.env ELSE user

\* mod_extforward_set_addr: the address as it was before an earlier pass is the one that is saved.
SetAddr(a) ==
  LET own == IF ctx.saved # <<>> THEN ctx.saved[1] ELSE addr
  IN addr' = a /\ actual' = own /\ ctx' = [ctx EXCEPT !.made = TRUE, !.saved = <<own>>]

\* mod_extforward_uri_handler, in http_response_prepare: for each request, and again when a plugin
\* sends the request back (HANDLER_COMEBACK), with the scheme of the connection and what the pass
\* before it left.
UriRaw ==
  /\ phase \in {"parsed", "request"} /\ ~refused /\ pass < MaxPasses
  /\ \E r \in {IF field.kind = "none" \/ ~ConnectionTrusted THEN Silent
                ELSE IF field.kind = "Forwarded" THEN Forwarded ELSE ForwardedFor} :
       /\ IF r.from = <<>> THEN UNCHANGED <<addr, actual, ctx>> ELSE SetAddr(r.from)
       /\ scheme' = IF r.proto \in {<<"http">>, <<"https">>} THEN r.proto[1] ELSE proto
       /\ http_host' = IF r.host = <<>> THEN http_host ELSE r.host
       /\ user' = IF r.user = <<>> THEN Verified ELSE r.user
       /\ refused' = r.bad
  /\ phase' = "request" /\ pass' = pass + 1
  /\ UNCHANGED <<scene, proto, here, used, reader, field, asked>>

\* The end of a request: handle_request_done and connection_reset
Done ==
  /\ phase = "request"
  /\ addr' = Restore(ctx).addr /\ ctx' = Restore(ctx).ctx /\ phase' = "idle" /\ EndRequest
  /\ UNCHANGED <<scene, proto, here, used, reader, asked>>

Next == Accept \/ Arrive \/ ReadProxy \/ CloseConn \/ ReadHead \/ UriRaw \/ Done
Spec == Init /\ [][Next]_vars

-----------------------------------------------------------------------------
(* Who the client is: wire.says is what its PROXY header announces, hops are [for, host, proto, user] *)

Proxied == conf.hap /\ (conf.all = 1 \/ (conf.all = 0 /\ IsTrusted(scene.peer)))
OwnAddr == IF Proxied /\ wire.says.from # <<>> THEN wire.says.from ELSE scene.peer
Believed == field.kind # "none" /\ (conf.all = 1 \/ (conf.all = 0 /\ IsTrusted(OwnAddr)))

\* The hops that trusted proxies vouch for: the last that is not one of them, and those after it
Vouched == {i \in DOMAIN field.hops : \A j \in DOMAIN field.hops :
              j > i /\ field.hops[j].for # <<>> => IsTrusted(field.hops[j].for)}
Addresses == {i \in Vouched : field.hops[i].for # <<>> /\ ~(field.kind = "Forwarded" /\ Obfuscated(field.hops[i].for))}
Client == IF field.kind = "Forwarded" \/ Addresses = {} THEN Addresses
          ELSE {i \in Addresses : ~IsTrusted(field.hops[i].for)}
Patched == Believed /\ Client # {} /\ field.hops[Smallest(Client)].for \in Numeric
From == Smallest(Client)
Naming == {i \in From .. Len(field.hops) : field.hops[i].host # <<>>}
Users == {i \in From .. Len(field.hops) : field.hops[i].user # <<>>}
Authenticated == IF conf.verify /\ Proxied THEN wire.says.user ELSE None

\* A connection serves requests only when it read its PROXY header exactly; each request on it is the
\* farthest client's that its trusted proxies vouch for, with the name, the scheme and the user
\* those gave it, whatever the requests before it said; between requests and after the last one
\* the address is the connection's own again (mod_extforward.c:656-1006, 1087-1138, 1280-1350).
ClientKnown ==
  /\ phase \in {"idle", "parsed", "request"} /\ Proxied => wire.says.good /\ used = wire.says.size
  /\ phase \in {"idle", "parsed"} => addr = OwnAddr
  /\ phase \in {"idle", "parsed", "closed"} => reader = "own" /\ ctx.saved = <<>>
  /\ phase = "closed" => ~ctx.made /\ addr \in {scene.peer, OwnAddr}
  /\ phase = "request" => (refused <=> Believed /\ field.bad)
  /\ phase = "request" /\ ~refused =>
       /\ addr = IF Patched THEN field.hops[From].for ELSE OwnAddr
       /\ actual = IF Patched THEN OwnAddr ELSE None
       /\ pass = 1 => scheme = IF Patched /\ field.hops[From].proto \in {<<"http">>, <<"https">>}
                               THEN field.hops[From].proto[1] ELSE IF Proxied THEN wire.says.proto ELSE "http"
       /\ http_host = IF Patched /\ "host" \in conf.opts /\ Naming # {} THEN field.hops[Smallest(Naming)].host ELSE <<"h">>
       /\ user = IF Patched /\ "remote_user" \in conf.opts /\ Users # {} THEN field.hops[Greatest(Users)].user ELSE Authenticated
=============================================================================
