------------------------------ MODULE MCParts ------------------------------
(***************************************************************************)
(* One TLC run of the parts of the server that meet the others only by the *)
(* calls of a connection: Init chooses one of them, and only that one      *)
(* moves.  (Their product says nothing that each of them does not: they    *)
(* share no state.)                                                        *)
(***************************************************************************)
EXTENDS ConPool, MCHooks, MCHeads, MCPages, MCForwards, OptionTables

CONSTANTS c1, c2, t1, t2, f1, f2, r1, socket, ip, host, url, p1, p2

VARIABLES
  part,  \* the part that moves
  q, files, job, fed, sent, setup, cqpc, cqfails,                        \* ChunkQueue
  request, got, cq, te, body, length, asked, interim, verdict,           \* PostBody
  config, value, valid, result, local, stuck,                            \* ConfigCond
  src, copy, seen, sized, ccpc, making, answer, ccfails, crashes, left,    \* CompressCache
  fs, props, locks, lastdst, req, code, wdfails,                         \* Webdav
  overlap, balance, last, proc, load, hload, num, active, kid, up, ctx,
  link, con, mode, status, back, main, mh, short, lost, fails,           \* Gateway
  backend, opens, sock, node, events, ndx, leaving, pend, mon, pollfds,
  unused, report, pending, loop, cur, served,                             \* FdEvent
  which, client, pconf, kept,                                             \* Hooks
  plugin, option, given, stage, blocks, opconf,                          \* Options
  stream, came, rq, hst, hcon, answers,                                  \* RequestHead
  hname, policy, hverdict,                                               \* HostName
  page, frames, out, ssi_vars, cond, sizefmt, stmt, newest, sspc, ssstatus, failed,  \* Ssi
  scene, proto, here, efused, reader, addr, efctx, field, scheme, http_host, user,
  actual, phase, refused, efasked, pass,                                 \* Extforward
  opts, cert, tlqueue, todo, buffer, tlload, tlleft, hctx, ssl, wire, coming, tlgot,
  readable, writable, env, at, others, tlreq                             \* Tls

-----------------------------------------------------------------------------
\* ConPool: two workers and the main thread on two slots, which are reused quietly
TwoWorkers == c1 :> t1 @@ c2 :> t2

-----------------------------------------------------------------------------
CQ == INSTANCE ChunkQueue WITH
        Total <- 3, TempSize <- 1, MaxIov <- 2, MaxBytes <- 2, MaxFails <- 1, MaxNames <- 2,
        Setups <- {[backend |-> "write", dirs |-> 0], [backend |-> "sendfile", dirs |-> 2]},
        pc <- cqpc, fails <- cqfails

-----------------------------------------------------------------------------
\* A certificate must be good, is not asked for, or need not be good; chunks that are sent together, and a file
TlsOptions == {
  [verify |-> TRUE, enforce |-> TRUE, depth |-> 1, dn |-> TRUE, disable |-> TRUE, ahead |-> FALSE],
  [verify |-> FALSE, enforce |-> FALSE, depth |-> 0, dn |-> FALSE, disable |-> TRUE, ahead |-> TRUE],
  [verify |-> TRUE, enforce |-> FALSE, depth |-> 1, dn |-> FALSE, disable |-> FALSE, ahead |-> TRUE]}
TlsCerts == {
  [there |-> FALSE, trusted |-> FALSE, depth |-> 0, listed |-> FALSE],
  [there |-> TRUE, trusted |-> TRUE, depth |-> 1, listed |-> TRUE],
  [there |-> TRUE, trusted |-> TRUE, depth |-> 2, listed |-> FALSE]}
TlsQueues == {[now |-> <<[mem |-> TRUE, data |-> <<1>>], [mem |-> TRUE, data |-> <<2>>]>>,
               later |-> <<[mem |-> FALSE, data |-> <<3, 4, 5>>]>>]}

TL == INSTANCE Tls WITH
        Options <- TlsOptions, Certs <- TlsCerts, Queues <- TlsQueues, Records <- {<<<<1, 2>>>>},
        SendBuf <- 3, Record <- 2, Limits <- {4}, MaxHandshakes <- 2,
        queue <- tlqueue, load <- tlload, left <- tlleft, got <- tlgot, request <- tlreq

\* What is written on a connection is what was queued, in its order, as it is (BytesKept of
\* ChunkQueue) and through TLS (TlsWhole of Tls).
BytesKept ==
  /\ part = "chunks" => CQ!BytesKept
  /\ part = "tls" => TL!TlsWhole

-----------------------------------------------------------------------------
\* A chunk's size line, an extension, a CRLF that is missing, trailers, a size that is too large,
\* a line that is too long; a body with a length, with none, and one announced with an Expect.
Msg(t, n, m) == [text |-> t, length |-> n, expects |-> FALSE, max |-> m]
Messages == {
  Msg(<<"1","r","n","x","r","n","0","r","n","r","n","x">>, -1, 0),
  Msg(<<"2",";","x","r","n","r","n","r","n","0"," ",";","r","n","r","n">>, -1, 2),
  Msg(<<"1","r","n","0","r","n","2","r","n","x","x","r","n">>, -1, 2),
  Msg(<<"1","r","n","x","x","r","n">>, -1, 0),
  Msg(<<"1","r","n","x","r","x">>, -1, 0),
  Msg(<<"0","r","n","x","r","n","r","n","1","r","n">>, -1, 0),
  Msg(<<"1","1","1","r","n","x">>, -1, 0),
  Msg(<<"1","f","r","n","x">>, -1, 3),
  Msg(<<"1","x","r","n","x">>, -1, 3),
  Msg(<<"1",";","x","x","x","x","x","x","r","n">>, -1, 3),
  Msg(<<"x","r","n","x">>, 3, 0), Msg(<<"x","r","n","x">>, 2, 0), Msg(<<"x","r","n">>, -2, 2),
  [Msg(<<"x","x">>, 2, 0) EXCEPT !.expects = TRUE],
  Msg(<<"1","r","n","x">>, 6, 0)}

PB == INSTANCE PostBody WITH
        Requests <- Messages, MemLimit <- 2, MaxLine <- 8, OffBits <- 6, status <- verdict

-----------------------------------------------------------------------------
\* A nested block with an else and a catch-all after it, blocks nested twice, and a chain of
\* alternatives; every kind of item is tested somewhere.
Blocks == {
  [parent |-> <<0,1,1,0>>, prev |-> <<0,0,2,1>>, comp |-> <<host,url,ip,host>>, catchAll |-> {4}, negated |-> {2}],
  [parent |-> <<0,1,2,1>>, prev |-> <<0,0,0,2>>, comp |-> <<ip,host,url,url>>, catchAll |-> {}, negated |-> {}],
  [parent |-> <<0,0,2,0>>, prev |-> <<0,1,0,2>>, comp |-> <<socket,host,ip,ip>>, catchAll |-> {}, negated |-> {4}]}

CF == INSTANCE ConfigCond WITH
        LastNode <- 4, Configs <- Blocks, Items <- {socket, ip, host, url},
        AtAccept <- {socket, ip}, AtHello <- {host}

-----------------------------------------------------------------------------
CC == INSTANCE CompressCache WITH
        Procs <- {p1, p2}, LastVersion <- 2, MaxFails <- 1, MaxCrashes <- 1,
        pc <- ccpc, job <- making, fails <- ccfails

LeftWhole == part = "compress" => CC!LeftWhole

-----------------------------------------------------------------------------
WD == INSTANCE Webdav WITH
        Tops <- {"a", "b"}, Names <- {"x"}, Data <- {"one"},
        Paths <- {<<"a">>, <<"a","x">>, <<"b">>, <<"b","x">>}, Lockable <- {<<"a","x">>},
        MaxLocks <- 1, MaxProps <- 1, MaxFails <- 1, status <- code, fails <- wdfails

ChangesNamed == WD!ChangesNamed

-----------------------------------------------------------------------------
\* a pool of up to two processes that grows and shrinks with the load
GW == INSTANCE Gateway WITH
        Reqs <- {r1}, Balances <- {"fair"}, Overlaps <- {FALSE}, Changing <- {}, LastHost <- 1,
        Spawning <- {1}, LastId <- 1, MinProcs <- 0, MaxProcs <- 2, MaxLoad <- 0,
        IdleTimeout <- 0, DisableTime <- 0, MaxReconnects <- 0, Units <- 1, MaxShort <- 0,
        MaxLost <- 0, MaxFails <- 1

PoolKnown == part = "gateway" => GW!PoolKnown

-----------------------------------------------------------------------------
FD == INSTANCE FdEvent WITH
        Backends <- {"epoll", "poll", "select", "kqueue"}, LastFd <- 2, MaxOpens <- 3,
        slots <- pollfds, n <- pending, pc <- loop

InterestKept == part = "events" => FD!InterestKept
RoundSafe == part = "events" => FD!RoundSafe

-----------------------------------------------------------------------------
\* a request on its way through the plugins, alone and beside another one
HK == INSTANCE Hooks WITH
        Conns <- {1, 2}, Configs <- HookConfigs, Files <- HookFiles, Scripts <- HookScripts,
        Homes <- Homes1, Db <- Db1,
        RewriteLoops <- 1, LocalLoops <- 1, Serial <- TRUE, c <- client, z <- kept

\* Requests beside each other are answered as they would be alone (SameAnswer, UploadsOwn of Hooks); on
\* its way a request is sent back a bounded number of times, and guarded (RoundsBounded, Guarded).
RequestsApart == part = "hooks" => HK!SameAnswer /\ HK!UploadsOwn
RequestsGuarded == part = "hooks" => HK!RoundsBounded /\ HK!Guarded

-----------------------------------------------------------------------------
\* every option, with two conditional blocks that may have it, too
OP == INSTANCE Options WITH LastBlock <- 2, pconf <- opconf

\* What a request sees of the configuration: the blocks whose conditions hold for it, each of the
\* conditions looked at again when what it looks at has changed (CacheFresh of ConfigCond), and
\* what these blocks say (Effective of Options).
ConfigSeen ==
  /\ part = "conditions" => CF!CacheFresh
  /\ part = "options" => OP!Effective

-----------------------------------------------------------------------------
RH == INSTANCE RequestHead WITH
        Streams <- Heads, MaxField <- 16, MaxChunks <- 2, st <- hst, con <- hcon, log <- answers

-----------------------------------------------------------------------------
\* every name of up to four characters, and an address
HostNames == UNION {[1 .. n -> {"a", "0", "1", "-", ".", ":", "[", "]"}] : n \in 1 .. 4}
               \cup {<<"1", ".", "1", ".", "0", ".", "1">>}

HN == INSTANCE HostName WITH
        Names <- HostNames, SchemePort <- 10, MaxPort <- 10, name <- hname, verdict <- hverdict

\* What a client says is understood as it was said, wherever the network cuts it: the heads of its
\* requests (Framed of RequestHead), the names in them (NamesRead of HostName) and the bodies
\* (CutsDontMatter of PostBody).
MessagesRead ==
  /\ part = "head" /\ hst \in {"start", "close"} => RH!Framed   \* where an answer was just given
  /\ part = "host" => HN!NamesRead
  /\ part = "body" => PB!CutsDontMatter

-----------------------------------------------------------------------------
SS == INSTANCE Ssi WITH
        Pages <- SsiPages, BufSize <- SsiBuffer, Order <- <<"a", "b">>, pc <- sspc, status <- ssstatus

PageSaid == part = "pages" => SS!PageSaid

-----------------------------------------------------------------------------
EF == INSTANCE Extforward WITH
        Scenes <- ForwardScenes, Numeric <- ForwardNumeric, Hex <- ForwardHex, MaxPeek <- 22,
        MaxCells <- 60, MaxPasses <- 2, ctx <- efctx, used <- efused, asked <- efasked

ClientKnown == part = "forwards" => EF!ClientKnown

-----------------------------------------------------------------------------
ASSUME PartsAssumption ==
  /\ CQ!ChunkQueueAssumption /\ PB!PostBodyAssumption /\ CF!ConfigAssumption
  /\ CC!CompressAssumption /\ WD!WebdavAssumption /\ FD!FdEventAssumption
  /\ TL!TlsAssumption /\ SS!SsiAssumption /\ EF!ExtforwardAssumption
  /\ HK!HooksAssumption /\ OP!OptionsAssumption /\ RH!HeadAssumption /\ HN!HostAssumption

cqvars == <<q, files, job, fed, sent, setup, cqpc, cqfails>>
pbvars == <<request, got, cq, te, body, length, asked, interim, verdict>>
cfvars == <<config, value, valid, result, local, stuck>>
ccvars == <<src, copy, seen, sized, ccpc, making, answer, ccfails, crashes, left>>
wdvars == <<fs, props, locks, lastdst, req, code, wdfails>>
gwvars == <<overlap, balance, last, proc, load, hload, num, active, kid, up, ctx,
            link, con, mode, status, back, main, mh, short, lost, fails>>
fdvars == <<backend, opens, sock, node, events, ndx, leaving, pend, mon, pollfds, unused,
            report, pending, loop, cur, served>>
hkvars == <<which, client, pconf, kept>>
opvars == <<plugin, option, given, stage, blocks, opconf>>
rhvars == <<stream, came, rq, hst, hcon, answers>>
hnvars == <<hname, policy, hverdict>>
ssvars == <<page, frames, out, ssi_vars, cond, sizefmt, stmt, newest, sspc, ssstatus, failed>>
efvars == <<scene, proto, here, efused, reader, addr, efctx, field, scheme, http_host, user,
            actual, phase, refused, efasked, pass>>
tlvars == <<opts, cert, tlqueue, todo, buffer, tlload, tlleft, hctx, ssl, wire, coming, tlgot,
            readable, writable, env, at, others, tlreq>>

\* The parts that do not move are not there, their variables are 0; the pool and the tree stand.
NoChunks ==
  /\ q = 0 /\ files = 0 /\ job = 0 /\ fed = 0 /\ sent = 0 /\ setup = 0 /\ cqpc = 0 /\ cqfails = 0
NoBody ==
  /\ request = 0 /\ got = 0 /\ cq = 0 /\ te = 0 /\ body = 0 /\ length = 0 /\ asked = 0
  /\ interim = 0 /\ verdict = 0
NoConditions ==
  /\ config = 0 /\ value = 0 /\ valid = 0 /\ result = 0 /\ local = 0 /\ stuck = 0
NoCompress ==
  /\ src = 0 /\ copy = 0 /\ seen = 0 /\ sized = 0 /\ ccpc = 0 /\ making = 0 /\ answer = 0
  /\ ccfails = 0 /\ crashes = 0 /\ left = 0
NoGateway ==
  /\ overlap = 0 /\ balance = 0 /\ last = 0 /\ proc = 0 /\ load = 0 /\ hload = 0 /\ num = 0
  /\ active = 0 /\ kid = 0 /\ up = 0 /\ ctx = 0 /\ link = 0 /\ con = 0 /\ mode = 0 /\ status = 0
  /\ back = 0 /\ main = 0 /\ mh = 0 /\ short = 0 /\ lost = 0 /\ fails = 0
NoEvents ==
  /\ backend = 0 /\ opens = 0 /\ sock = 0 /\ node = 0 /\ events = 0 /\ ndx = 0 /\ leaving = 0
  /\ pend = 0 /\ mon = 0 /\ pollfds = 0 /\ unused = 0 /\ report = 0 /\ pending = 0 /\ loop = 0
  /\ cur = 0 /\ served = 0
NoHooks ==
  /\ which = 0 /\ client = 0 /\ pconf = 0 /\ kept = 0
NoOptions ==
  /\ plugin = 0 /\ option = 0 /\ given = 0 /\ stage = 0 /\ blocks = 0 /\ opconf = 0
NoHead ==
  /\ stream = 0 /\ came = 0 /\ rq = 0 /\ hst = 0 /\ hcon = 0 /\ answers = 0
NoHost ==
  /\ hname = 0 /\ policy = 0 /\ hverdict = 0
NoPages ==
  /\ page = 0 /\ frames = 0 /\ out = 0 /\ ssi_vars = 0 /\ cond = 0 /\ sizefmt = 0 /\ stmt = 0
  /\ newest = 0 /\ sspc = 0 /\ ssstatus = 0 /\ failed = 0
NoForwards ==
  /\ scene = 0 /\ proto = 0 /\ here = 0 /\ efused = 0 /\ reader = 0 /\ addr = 0 /\ efctx = 0
  /\ field = 0 /\ scheme = 0 /\ http_host = 0 /\ user = 0 /\ actual = 0 /\ phase = 0 /\ refused = 0
  /\ efasked = 0 /\ pass = 0
NoTls ==
  /\ opts = 0 /\ cert = 0 /\ tlqueue = 0 /\ todo = 0 /\ buffer = 0 /\ tlload = 0 /\ tlleft = 0
  /\ hctx = 0 /\ ssl = 0 /\ wire = 0 /\ coming = 0 /\ tlgot = 0 /\ readable = 0 /\ writable = 0
  /\ env = 0 /\ at = 0 /\ others = 0 /\ tlreq = 0

PartsInit ==
  /\ part \in {"pool", "chunks", "body", "conditions", "compress", "webdav", "gateway", "events", "hooks", "options", "head",
             "host", "pages", "forwards", "tls"}
  /\ Init /\ WD!Init
  /\ IF part = "chunks" THEN CQ!Init ELSE NoChunks
  /\ IF part = "body" THEN PB!Init ELSE NoBody
  /\ IF part = "conditions" THEN CF!Init ELSE NoConditions
  /\ IF part = "compress" THEN CC!Init ELSE NoCompress
  /\ IF part = "gateway" THEN GW!Init ELSE NoGateway
  /\ IF part = "events" THEN FD!Init ELSE NoEvents
  /\ IF part = "hooks" THEN HK!Init ELSE NoHooks
  /\ IF part = "options" THEN OP!Init ELSE NoOptions
  /\ IF part = "head" THEN RH!Init ELSE NoHead
  /\ IF part = "host" THEN HN!Init ELSE NoHost
  /\ IF part = "pages" THEN SS!Init ELSE NoPages
  /\ IF part = "forwards" THEN EF!Init ELSE NoForwards
  /\ IF part = "tls" THEN TL!Init ELSE NoTls

\* the variables of all parts but one stay as they are
Only(p) ==
  /\ part = p /\ UNCHANGED part
  /\ p # "pool" => UNCHANGED vars
  /\ p # "chunks" => UNCHANGED cqvars
  /\ p # "body" => UNCHANGED pbvars
  /\ p # "conditions" => UNCHANGED cfvars
  /\ p # "compress" => UNCHANGED ccvars
  /\ p # "webdav" => UNCHANGED wdvars
  /\ p # "gateway" => UNCHANGED gwvars
  /\ p # "events" => UNCHANGED fdvars
  /\ p # "hooks" => UNCHANGED hkvars
  /\ p # "options" => UNCHANGED opvars
  /\ p # "head" => UNCHANGED rhvars
  /\ p # "host" => UNCHANGED hnvars
  /\ p # "pages" => UNCHANGED ssvars
  /\ p # "forwards" => UNCHANGED efvars
  /\ p # "tls" => UNCHANGED tlvars

PartsNext ==
  \/ Only("pool") /\ Next
  \/ Only("chunks") /\ CQ!Next
  \/ Only("body") /\ PB!Next
  \/ Only("conditions") /\ CF!Next
  \/ Only("compress") /\ CC!Next
  \/ Only("webdav") /\ WD!Next
  \/ Only("gateway") /\ GW!Next
  \/ Only("events") /\ FD!Next
  \/ Only("hooks") /\ HK!Next
  \/ Only("options") /\ OP!Next
  \/ Only("head") /\ RH!Next
  \/ Only("host") /\ HN!Next
  \/ Only("pages") /\ SS!Next
  \/ Only("forwards") /\ EF!Next
  \/ Only("tls") /\ TL!Next

partsvars == <<part, vars, cqvars, pbvars, cfvars, ccvars, wdvars, gwvars, fdvars, hkvars, opvars, rhvars, hnvars, ssvars, efvars, tlvars>>
PartsSpec == PartsInit /\ [][PartsNext]_partsvars

\* req and code of Webdav are only there for its property.
View == <<part, vars, cqvars, pbvars, cfvars, ccvars, gwvars, fdvars, hkvars, opvars, rhvars, hnvars, ssvars, efvars, tlvars, fs, props, locks, lastdst, wdfails>>
=============================================================================
