------------------------------- MODULE Hooks -------------------------------
(***************************************************************************)
(* The way of a request through http_response_prepare (response.c) and the *)
(* plugins it calls, slot by slot, until somebody answers it; the ways     *)
(* back to the start: rewriting, local redirects of scripts and error      *)
(* handlers; and what plugins keep between requests.                       *)
(*                                                                         *)
(* A path is the sequence of its names, "" after a slash at the end.       *)
(* Workers serve connections at the same time, and every plugin has one    *)
(* p->conf: with Serial no connection comes between the patching of a      *)
(* plugin's configuration and its use, which the code does not ensure.     *)
(***************************************************************************)
EXTENDS Integers, Sequences, FiniteSets, SequencesExt

CONSTANTS
  Conns,
  Configs,       \* a sequence of [mods, blocks, asked]: server.modules; the blocks of the configuration, whose
                 \* options hold where the host and the path have what "host" and "path" say;
                 \* and the requests [host, uri, method, cred, id, start] that come on a connection
  Files,         \* the file system: path -> "reg" or "dir"
  Scripts,       \* what CGI scripts do: path -> [status, loc], loc <<>> without a Location
  Homes, Db,     \* the home of "~user" as a name of a path; a host's root in the database
  RewriteLoops,  \* 100 in process_rewrite_rules
  LocalLoops,    \* 5 in http_response_process_local_redir
  Serial

HooksAssumption ==
  /\ RewriteLoops \in Nat /\ LocalLoops \in Nat /\ Serial \in BOOLEAN
  /\ \A p \in DOMAIN Files : Files[p] \in {"reg", "dir"}
  /\ \A p \in DOMAIN Scripts : p \in DOMAIN Files /\ Files[p] = "reg"

VARIABLES
  which,  \* the configuration
  c,      \* the connections
  pconf,  \* p->conf of each plugin
  z       \* what plugins keep: simple_vhost's cache of each block, uploadprogress' con_map

vars == <<which, c, pconf, z>>

-----------------------------------------------------------------------------
(* The configuration.                                                       *)

conf == Configs[which]

Plugins == {"rewrite", "redirect", "setenv", "access", "auth", "uploadprogress", "evhost",
            "simple_vhost", "vhostdb", "alias", "userdir", "secdownload", "flv", "indexfile",
            "cgi", "dirlisting", "staticfile"}

\* the options and their defaults
Default ==
  [root |-> <<"www">>, handler |-> <<>>, handler404 |-> <<>>, rewrite |-> <<>>, rewriteNF |-> <<>>,
   redirect |-> <<>>, env |-> "none", allow |-> {}, deny |-> {}, require |-> <<>>, extern |-> FALSE,
   progress |-> <<>>, pattern |-> <<>>, vroot |-> <<>>, vhost |-> "", vdoc |-> <<>>,
   vhostdb |-> FALSE, alias |-> <<>>, userdir |-> <<>>, excluded |-> {}, secprefix |-> <<>>,
   secroot |-> <<>>, flv |-> {}, index |-> <<>>, cgi |-> {}, dirlist |-> FALSE,
   ignored |-> {}, nopathinfo |-> FALSE]

\* the conditions of a block were looked at when the request was prepared
Applies(b, cond) == b.host \in {"*", cond.host} /\ IsPrefix(b.path, cond.path)

\* mod_*_patch_connection: the last block that applies and sets an option
Block(cond, o) ==
  LET bs == {i \in DOMAIN conf.blocks : Applies(conf.blocks[i], cond) /\ o \in DOMAIN conf.blocks[i].set}
  IN IF bs = {} THEN 0 ELSE CHOOSE i \in bs : \A j \in bs : j <= i
Setting(cond, o) == LET b == Block(cond, o) IN IF b = 0 THEN Default[o] ELSE conf.blocks[b].set[o]
OptionsOf ==
  [rewrite |-> {"rewrite", "rewriteNF"}, redirect |-> {"redirect"}, setenv |-> {"env"},
   access |-> {"allow", "deny"}, auth |-> {"require", "extern"}, uploadprogress |-> {"progress"},
   evhost |-> {"pattern"}, simple_vhost |-> {"vroot", "vhost", "vdoc", "vctx"}, vhostdb |-> {"vhostdb"},
   alias |-> {"alias"}, userdir |-> {"userdir", "excluded"}, secdownload |-> {"secprefix", "secroot"},
   flv |-> {"flv"}, indexfile |-> {"index"}, cgi |-> {"cgi"}, dirlisting |-> {"dirlist"},
   staticfile |-> {"ignored", "nopathinfo"}]
\* with the server root of simple_vhost comes the cache of its block, vctx
Patched(p, cond) ==
  [o \in OptionsOf[p] |-> IF o = "vctx" THEN Block(cond, "vroot") ELSE Setting(cond, o)]

\* mod_indexfile is put before the other modules, the handlers of files behind them
LoadedLate == conf.mods \o <<"indexfile", "dirlisting", "staticfile">>
Loaded == <<"indexfile">> \o conf.mods \o <<"dirlisting", "staticfile">>
Slots == <<"raw", "clean", "docroot", "physical", "start">>
HooksIn ==
  [raw |-> {"rewrite"},
   clean |-> {"setenv", "redirect", "access", "auth", "uploadprogress"},
   docroot |-> {"evhost", "simple_vhost", "vhostdb"},
   physical |-> {"rewrite", "alias", "userdir", "secdownload", "flv"},
   start |-> {"indexfile", "access", "cgi", "dirlisting", "staticfile"}]
Hooked(s) == SelectSeq(Loaded, LAMBDA p : p \in HooksIn[Slots[s]])

-----------------------------------------------------------------------------
(* Files.                                                                   *)

Strip(p) == IF p # <<>> /\ Last(p) = "" THEN Front(p) ELSE p
Stat(p) ==
  LET q == Strip(p) IN
  IF q \in DOMAIN Files THEN IF Files[q] = "reg" /\ q # p THEN "notdir" ELSE Files[q]
  ELSE IF \E f \in DOMAIN Files : Files[f] = "reg" /\ IsStrictPrefix(f, q) THEN "notdir" ELSE "noent"
IsDir(p) == Stat(p) = "dir"
AsDir(path) == path # <<>> /\ Last(path) = ""

-----------------------------------------------------------------------------
(* What the steps of a connection return: the connection, what plugins      *)
(* keep, and the return value.                                              *)

Ret(k, y, r) == [c |-> k, z |-> y, r |-> r]
Go(k, y) == Ret(k, y, "go")
Done(k, y, status, what) == Ret([k EXCEPT !.status = status, !.what = what], y, "finished")

NoCtx == -1
NoHost == [host |-> "", root |-> <<>>]
NoRequest == [host |-> "", uri |-> <<>>, method |-> "none", cred |-> FALSE, id |-> "none", start |-> FALSE]
NoAnswer == [status |-> 0, what |-> <<"none">>, name |-> "", env |-> "none"]

\* a connection without a request
Idle ==
  [pc |-> "idle", slot |-> 1, i |-> 1, patched |-> FALSE, rq |-> NoRequest,
   uri |-> <<>>, method |-> "none", cond |-> [host |-> "", path |-> <<>>], path |-> <<>>,
   root |-> <<>>, rel |-> <<>>, base |-> <<>>, phys |-> <<>>, pathinfo |-> <<>>, name |-> "",
   status |-> 0, mode |-> "direct", what |-> <<"none">>, loops |-> NoCtx, once |-> FALSE,
   env |-> "unset", user |-> FALSE, ve |-> NoHost, saved |-> 0, savedMethod |-> "none",
   redirs |-> 0, loc |-> <<>>, rounds |-> 0]

-----------------------------------------------------------------------------
(* The plugins: o is p->conf, k the connection, y what plugins keep.        *)

\* the handler returns before it patches its configuration
Skips(p, k) ==
  \/ p = "setenv" /\ k.env # "unset"
  \/ p \in {"evhost", "vhostdb"} /\ k.rq.host = ""
  \/ p = "vhostdb" /\ k.ve.host = k.rq.host
  \/ p \in {"indexfile", "dirlisting"} /\ (k.mode # "direct" \/ ~AsDir(k.path))
  \/ p = "dirlisting" /\ k.method # "GET"
  \/ p \in {"cgi", "staticfile"} /\ k.mode # "direct"
  \/ p = "staticfile" /\ k.status # 0

\* process_rewrite_rules: a rule [at, to, once], to <<>> when nothing is to be rewritten
MatchOf(rules, uri) ==
  LET m == {i \in DOMAIN rules : IsPrefix(rules[i].at, uri)} IN
  IF m = {} THEN [at |-> <<>>, to |-> <<>>, once |-> FALSE] ELSE rules[CHOOSE i \in m : \A j \in m : i <= j]
\* the context is made anew by every rule that matches
RewriteForgets(rules, k, y) ==
  LET rule == MatchOf(rules, k.uri) IN
  IF k.loops > RewriteLoops THEN Ret(k, y, "error")
  ELSE IF k.once \/ rule.to = <<>> THEN Go(k, y)
  ELSE Ret([k EXCEPT !.uri = rule.to, !.once = rule.once, !.loops = 0], y, "comeback")
RewriteRules(rules, k, y) ==
  LET rule == MatchOf(rules, k.uri)
      k1 == [k EXCEPT !.loops = IF @ = NoCtx THEN NoCtx ELSE @ + 1]
  IN IF k.loops > RewriteLoops THEN Ret(k1, y, "error")
     ELSE IF k.once \/ rule.to = <<>> THEN Go(k1, y)
     ELSE Ret([k1 EXCEPT !.uri = rule.to, !.once = rule.once,
                         !.loops = IF @ = NoCtx THEN 0 ELSE @], y, "comeback")
RewriteUri(o, k, y) == IF o.rewrite = <<>> THEN Go(k, y) ELSE RewriteRules(o.rewrite, k, y)
RewritePhysical(o, k, y) ==
  IF o.rewriteNF = <<>> \/ Stat(k.phys) = "reg" THEN Go(k, y)
  ELSE LET r == RewriteRules(o.rewriteNF, k, y) IN
       [r EXCEPT !.c.phys = IF r.r = "comeback" THEN <<>> ELSE @]

Redirect(o, k, y) ==
  LET rule == MatchOf(o.redirect, k.uri) IN
  IF rule.to = <<>> THEN Go(k, y) ELSE Done(k, y, 301, rule.to)

Setenv(o, k, y) == Go([k EXCEPT !.env = o.env], y)

\* twice: after the clean-up of the URL, and after the look for a path info
Access(o, k, y) ==
  LET f == Last(k.path) IN
  IF (IF o.allow # {} THEN f \notin o.allow ELSE f \in o.deny)
  THEN Done(k, y, 403, <<"error">>) ELSE Go(k, y)

Auth(o, k, y) ==
  IF ~\E i \in DOMAIN o.require : IsPrefix(o.require[i], k.path) THEN Go(k, y)
  ELSE IF o.extern /\ k.user THEN Go(k, y)
  ELSE IF k.rq.cred THEN Go([k EXCEPT !.user = TRUE], y)
  ELSE Done(k, y, 401, <<"error">>)

\* connection_map_insert, for the connection n
UploadProgress(o, k, y, n) ==
  IF o.progress = <<>> \/ k.rq.id = "none" THEN Go(k, y)
  ELSE IF k.method = "POST"
  THEN Go(k, [y EXCEPT !.uploads = Append(@, [id |-> k.rq.id, con |-> n])])
  ELSE IF k.path = o.progress THEN Done([k EXCEPT !.phys = <<>>], y, 200, <<"progress">>)
  ELSE Go(k, y)
\* connection_map_remove_connection, when a request is done with or the connection reset
Forget(k, y, n) ==
  LET us == y.uploads m == {i \in DOMAIN us : us[i].con = n} IN
  IF k.method # "POST" \/ m = {} THEN y
  ELSE LET i == CHOOSE i \in m : \A j \in m : i <= j IN
       [y EXCEPT !.uploads = Front([us EXCEPT ![i] = Last(us)])]

Evhost(o, k, y) ==
  LET p == o.pattern \o <<k.rq.host>> IN
  Go(IF o.pattern # <<>> /\ IsDir(p) THEN [k EXCEPT !.root = p] ELSE k, y)

\* the cache holds the last host that was found, for each block that sets the server root
SimpleVhost(o, k, y) ==
  LET RootOf(h) == o.vroot \o (IF h = "" THEN <<>> ELSE <<h>>) \o o.vdoc
      h == k.rq.host
  IN IF o.vroot = <<>> THEN Go(k, y)
     ELSE IF h # "" /\ y.vcache[o.vctx].host = h
     THEN Go([k EXCEPT !.name = h, !.root = y.vcache[o.vctx].root], y)
     ELSE IF h # "" /\ IsDir(RootOf(h))
     THEN Go([k EXCEPT !.name = h, !.root = RootOf(h)],
             [y EXCEPT !.vcache[o.vctx] = [host |-> h, root |-> RootOf(h)]])
     ELSE Go(IF IsDir(RootOf(o.vhost)) THEN [k EXCEPT !.name = o.vhost, !.root = RootOf(o.vhost)] ELSE k, y)

Found(k, ve) == [k EXCEPT !.name = ve.host, !.root = ve.root, !.ve = ve]
VhostDb(o, k, y) ==
  IF ~o.vhostdb \/ k.rq.host \notin DOMAIN Db THEN Go(k, y)
  ELSE IF ~IsDir(Db[k.rq.host]) THEN Done(k, y, 500, <<"error">>)
  ELSE Go(Found(k, [host |-> k.rq.host, root |-> Db[k.rq.host]]), y)

\* an entry [key, to] of alias.url
Alias(o, k, y) ==
  LET uri == SubSeq(k.phys, Len(k.base) + 1, Len(k.phys))
      m == {i \in DOMAIN o.alias : IsPrefix(o.alias[i].key, uri)}
  IN IF m = {} THEN Go(k, y)
     ELSE LET a == o.alias[CHOOSE i \in m : \A j \in m : i <= j] IN
          Go([k EXCEPT !.base = a.to, !.phys = a.to \o SubSeq(uri, Len(a.key) + 1, Len(uri))], y)

Userdir(o, k, y) ==
  LET u == Head(k.path) base == Homes[u] \o o.userdir IN
  IF o.userdir = <<>> \/ u \notin DOMAIN Homes THEN Go(k, y)
  ELSE IF Len(k.path) = 1 THEN Done(k, y, 301, k.path \o <<"">>)
  ELSE IF u \in o.excluded \/ ~IsDir(base) THEN Go(k, y)
  ELSE Go([k EXCEPT !.base = base, !.phys = base \o Tail(k.rel)], y)

\* the MAC and the time are one name: "mac", "old" or "forged"
Secdownload(o, k, y) ==
  LET n == Len(o.secprefix) + 1 rel == SubSeq(k.path, n + 1, Len(k.path)) IN
  IF o.secprefix = <<>> THEN Go(k, y)
  ELSE IF o.secroot = <<>> THEN Done(k, y, 500, <<"error">>)
  ELSE IF ~IsPrefix(o.secprefix, k.path) \/ rel = <<>> \/ k.path[n] \notin {"mac", "old", "forged"}
  THEN Go(k, y)
  ELSE IF k.path[n] = "old" THEN Done(k, y, 410, <<"error">>)
  ELSE IF k.path[n] = "forged" THEN Done(k, y, 403, <<"error">>)
  ELSE Go([k EXCEPT !.root = o.secroot, !.base = o.secroot, !.rel = rel, !.phys = o.secroot \o rel], y)

\* a part of a film; without "start" it is a file like others
FlvStreaming(o, k, y) ==
  IF Last(k.phys) \in o.flv /\ k.rq.start /\ Stat(k.phys) = "reg"
  THEN Done(k, y, 0, k.phys \o <<"part">>) ELSE Go(k, y)

\* an entry of index-file.names is a name, or, with a slash before it, a path in the document root
Indexfile(o, k, y) ==
  LET To(e) == IF e.abs THEN k.root \o e.path ELSE Front(k.phys) \o e.path
      m == {i \in DOMAIN o.index : Stat(To(o.index[i])) \in {"reg", "dir"}}
  IN IF m = {} THEN Go(k, y)
     ELSE LET e == o.index[CHOOSE i \in m : \A j \in m : i <= j] IN
          Go([k EXCEPT !.path = IF e.abs THEN e.path ELSE Front(k.path) \o e.path, !.phys = To(e)], y)

Cgi(o, k, y) ==
  Go(IF Stat(k.phys) = "reg" /\ Last(k.phys) \in o.cgi THEN [k EXCEPT !.mode = "cgi"] ELSE k, y)

Dirlisting(o, k, y) ==
  IF o.dirlist /\ IsDir(k.phys) THEN Done([k EXCEPT !.phys = <<>>], y, 200, k.phys) ELSE Go(k, y)

Staticfile(o, k, y) ==
  IF (o.nopathinfo /\ k.pathinfo # <<>>) \/ Last(k.phys) \in o.ignored THEN Go(k, y)
  ELSE IF Stat(k.phys) = "reg" THEN Done(k, y, 200, k.phys)
  ELSE IF IsDir(k.phys) THEN Done(k, y, 403, <<"error">>)
  ELSE Done(k, y, 404, <<"error">>)

Use(p, o, k, y, n) ==
  CASE p = "rewrite" -> IF k.slot = 1 THEN RewriteUri(o, k, y) ELSE RewritePhysical(o, k, y)
    [] p = "redirect" -> Redirect(o, k, y)
    [] p = "setenv" -> Setenv(o, k, y)
    [] p = "access" -> Access(o, k, y)
    [] p = "auth" -> Auth(o, k, y)
    [] p = "uploadprogress" -> UploadProgress(o, k, y, n)
    [] p = "evhost" -> Evhost(o, k, y)
    [] p = "simple_vhost" -> SimpleVhost(o, k, y)
    [] p = "vhostdb" -> VhostDb(o, k, y)
    [] p = "alias" -> Alias(o, k, y)
    [] p = "userdir" -> Userdir(o, k, y)
    [] p = "secdownload" -> Secdownload(o, k, y)
    [] p = "flv" -> FlvStreaming(o, k, y)
    [] p = "indexfile" -> Indexfile(o, k, y)
    [] p = "cgi" -> Cgi(o, k, y)
    [] p = "dirlisting" -> Dirlisting(o, k, y)
    [] p = "staticfile" -> Staticfile(o, k, y)
    [] OTHER -> Go(k, y)   \* no other plugin has a handler

-----------------------------------------------------------------------------
(* http_response_prepare, as functions of a connection.                     *)

At(k, pc) == [k EXCEPT !.pc = pc]
Slot(k, s) == [k EXCEPT !.pc = "hook", !.slot = s, !.i = 1]

\* the start: what was decided already, what comes back with a file, or a request to be prepared
Prepared(k) ==
  IF k.mode = "direct" /\ k.status \notin {0, 200} THEN At(k, "finished")
  ELSE IF k.mode = "direct" /\ k.phys = <<>>
  THEN Slot([k EXCEPT !.path = k.uri, !.cond = [host |-> k.rq.host, path |-> k.uri]], 1)
  ELSE IF k.mode = "direct" THEN At(k, "check") ELSE At(k, "sub")

\* what follows when all plugins of a slot went on
Border(k) == Slot([k EXCEPT !.root = Setting(k.cond, "root"), !.rel = k.path], 3)
Assembled(k) ==
  Slot([k EXCEPT !.name = IF @ = "" THEN k.rq.host ELSE @, !.base = k.root, !.phys = k.root \o k.rel], 4)
Unwanted(k) ==
  IF k.mode = "direct" /\ k.status = 0
  THEN At([k EXCEPT !.status = 403, !.what = <<"error">>], "finished") ELSE At(k, "sub")
SlotDone(k) ==
  CASE k.slot = 1 -> Slot(k, 2) [] k.slot = 2 -> Border(k) [] k.slot = 3 -> Assembled(k)
    [] k.slot = 4 -> At(k, "check") [] k.slot = 5 -> Unwanted(k)

\* where a plugin's answer leads
After(k, r) ==
  CASE r = "go" -> [k EXCEPT !.i = @ + 1]
    [] r = "finished" -> At(k, "finished")
    [] r = "comeback" -> At([k EXCEPT !.rounds = @ + 1], "prepare")
    [] r = "error" -> At([k EXCEPT !.status = -1], "answer")

\* http_response_physical_path_check
Refuse(k, status) == At([k EXCEPT !.status = status, !.what = <<"error">>, !.phys = <<>>], "finished")
NotFile(k) == {n \in Len(k.base) .. Len(k.phys) - 1 : ~IsDir(SubSeq(k.phys, 1, n))}
PathInfo(k) ==
  LET n == CHOOSE n \in NotFile(k) : \A m \in NotFile(k) : n <= m
      info == SubSeq(k.phys, n + 1, Len(k.phys))
  IN [k EXCEPT !.pathinfo = info, !.phys = SubSeq(@, 1, n),
               !.path = SubSeq(@, 1, Len(@) - Len(info))]
HasPathInfo(k) ==
  \E n \in NotFile(k) : Stat(SubSeq(k.phys, 1, n)) = "reg" /\ \A m \in NotFile(k) : n <= m
Checked(k) ==
  CASE Stat(k.phys) = "noent" -> Refuse(k, 404)
    [] Stat(k.phys) = "notdir" -> IF HasPathInfo(k) THEN Slot(PathInfo(k), 5) ELSE Refuse(k, 404)
    [] Stat(k.phys) = "reg" -> Slot(k, 5)
    [] IsDir(k.phys) ->
         IF AsDir(k.path) THEN Slot(k, 5)
         ELSE At([k EXCEPT !.status = 301, !.what = k.path \o <<"">>], "finished")

\* plugins_call_connection_reset
PluginsReset(k, y, n) ==
  [c |-> [k EXCEPT !.loops = NoCtx, !.once = FALSE, !.env = "unset", !.ve = NoHost], z |-> Forget(k, y, n)]
\* connection_response_reset
ResponseReset(k) ==
  [k EXCEPT !.mode = "direct", !.status = 0, !.what = <<"none">>,
            !.root = <<>>, !.phys = <<>>, !.base = <<>>, !.rel = <<>>]

\* A script's answer; a Location without a status, that is not below the script, is looked for
\* here: http_response_process_local_redir, after which the caller resets the connection.
LocalRedir(k, y, n, loc) ==
  IF k.redirs >= LocalLoops
  THEN Ret(At([k EXCEPT !.mode = "direct", !.status = 500, !.redirs = @ + 1, !.what = <<"error">>], "finished"), y, "finished")
  ELSE LET k1 == [k EXCEPT !.uri = loc, !.method = "GET", !.redirs = @ + 1, !.loc = loc]
           p == PluginsReset(ResponseReset(k1), y, n)
       IN Ret(At([p.c EXCEPT !.rounds = @ + 1], "prepare"), p.z, "comeback")
Subrequest(k, y, n) ==
  LET s == Scripts[k.phys] IN
  IF s.loc # <<>> /\ ~IsPrefix(k.path, s.loc) THEN LocalRedir(k, y, n, s.loc)
  ELSE Ret(At([k EXCEPT !.status = s.status, !.what = k.phys], "finished"), y, "finished")

-----------------------------------------------------------------------------
(* The end of connection_handle_handle_request_state: error handlers.       *)

Ending(k) == [k EXCEPT !.method = IF k.saved > 0 THEN k.savedMethod ELSE @]
\* the error document is a request of its own (connection_handle_errdoc_init)
Errdoc(k, uri) ==
  At([k EXCEPT !.uri = uri, !.phys = <<>>, !.what = <<"none">>, !.status = 0, !.rounds = @ + 1], "prepare")
\* server.error-handler; the method is changed before the plugins are reset
ErrorHandlerGet(k, y, n) ==
  LET p == PluginsReset([k EXCEPT !.method = "GET"], y, n) IN
  Ret(Errdoc([p.c EXCEPT !.saved = k.status, !.savedMethod = k.method], Setting(k.cond, "handler")), p.z, "comeback")
\* server.error-handler
ErrorHandler(k, y, n) ==
  LET p == PluginsReset(k, y, n) IN
  Ret(Errdoc([p.c EXCEPT !.saved = k.status, !.savedMethod = k.method, !.method = "GET"],
             Setting(k.cond, "handler")), p.z, "comeback")
ErrorHandler404(k, y) ==
  Ret(Errdoc([k EXCEPT !.saved = -k.status], Setting(k.cond, "handler404")), y, "comeback")
Status(k) ==
  CASE k.mode = "direct" /\ k.saved > 0 -> k.saved
    [] k.mode = "direct" /\ k.saved < 0 /\ k.status \in {403, 404} -> -k.saved
    [] OTHER -> IF k.status = 0 THEN 200 ELSE k.status
Finished(k0, y, n) ==
  LET k == Ending(k0) failed == k.mode = "direct" /\ k.saved = 0 /\ k.status >= 400 IN
  IF failed /\ Setting(k.cond, "handler") # <<>> THEN ErrorHandler(k, y, n)
  ELSE IF failed /\ k.status \in {403, 404} /\ Setting(k.cond, "handler404") # <<>>
  THEN ErrorHandler404(k, y)
  ELSE Ret(At([k EXCEPT !.status = Status(k)], "answer"), y, "finished")

\* The answer, with what mod_setenv adds when it starts.
AnswerOf(k) ==
  IF k.status = -1 THEN [NoAnswer EXCEPT !.status = -1]
  ELSE [status |-> k.status, what |-> k.what, name |-> k.name, env |-> k.env]

-----------------------------------------------------------------------------
(* The steps.                                                               *)

Start(k, rq) == [k EXCEPT !.pc = "prepare", !.rq = rq, !.uri = rq.uri, !.method = rq.method]
Fresh == [vcache |-> [b \in 0 .. Len(conf.blocks) |-> NoHost], uploads |-> <<>>]

\* a configuration that nobody is about to read is forgotten: it is patched before it is read
Unread == [p \in Plugins |-> <<>>]

Init ==
  /\ which \in DOMAIN Configs /\ c = [n \in Conns |-> Idle] /\ z = Fresh
  /\ pconf = Unread

Put(n, r) ==
  /\ c' = [c EXCEPT ![n] = r.c] /\ z' = r.z /\ UNCHANGED which
  /\ pconf' = IF \E m \in Conns : c'[m].patched THEN pconf ELSE Unread
Move(n, k) == Put(n, Ret(k, z, "go"))

Request(n) ==
  /\ c[n].pc = "idle"
  /\ \E rq \in conf.asked[n] : Move(n, Start(c[n], rq))
Prepare(n) == c[n].pc = "prepare" /\ Move(n, Prepared(c[n]))

Plugin(n) == Hooked(c[n].slot)[c[n].i]
InHook(n) == c[n].pc = "hook" /\ c[n].i <= Len(Hooked(c[n].slot))
SlotEnd(n) == c[n].pc = "hook" /\ c[n].i > Len(Hooked(c[n].slot)) /\ Move(n, SlotDone(c[n]))

\* a handler that does not look at its configuration; mod_vhostdb knows the host already
Skipped(p, k) ==
  LET k1 == [k EXCEPT !.i = @ + 1] IN IF p = "vhostdb" /\ k.rq.host # "" THEN Found(k1, k.ve) ELSE k1
Skip(n) == InHook(n) /\ Skips(Plugin(n), c[n]) /\ Move(n, Skipped(Plugin(n), c[n]))
Patch(n) ==
  /\ InHook(n) /\ ~Skips(Plugin(n), c[n]) /\ ~c[n].patched
  /\ Serial => \A m \in Conns : ~c[m].patched
  /\ pconf' = [pconf EXCEPT ![Plugin(n)] = Patched(Plugin(n), c[n].cond)]
  /\ c' = [c EXCEPT ![n].patched = TRUE] /\ UNCHANGED <<which, z>>
Handler(n) ==
  /\ InHook(n) /\ c[n].patched
  /\ LET r == Use(Plugin(n), pconf[Plugin(n)], [c[n] EXCEPT !.patched = FALSE], z, n) IN
     Put(n, [r EXCEPT !.c = After(r.c, r.r)])

PhysicalCheck(n) == c[n].pc = "check" /\ Move(n, Checked(c[n]))
Backend(n) == c[n].pc = "sub" /\ Put(n, Subrequest(c[n], z, n))
Finish(n) == c[n].pc = "finished" /\ Put(n, Finished(c[n], z, n))

\* connection_reset, after the answer
ResetKeepsName(n) ==
  LET p == PluginsReset(c[n], z, n) IN Put(n, Ret([Idle EXCEPT !.name = c[n].name], p.z, "go"))
Reset(n) == LET p == PluginsReset(c[n], z, n) IN Put(n, Ret(Idle, p.z, "go"))
Answer(n) == c[n].pc = "answer" /\ c[n].status # -1 /\ Reset(n)
\* an error, or the client goes: connection_handle_shutdown resets the connection, too
Close(n) ==
  /\ c[n].pc = "sub" \/ (c[n].pc = "answer" /\ c[n].status = -1)
  /\ LET p == PluginsReset(c[n], z, n) IN Put(n, Ret(Idle, p.z, "go"))

Next == \E n \in Conns : \/ Request(n) \/ Prepare(n) \/ SlotEnd(n) \/ Skip(n) \/ Patch(n) \/ Handler(n)
                          \/ PhysicalCheck(n) \/ Backend(n) \/ Finish(n) \/ Answer(n) \/ Close(n)

Spec == Init /\ [][Next]_vars

-----------------------------------------------------------------------------
(* What the answers have to be.                                             *)

\* a step of a connection that is alone on the server
Alone(k, y, n) ==
  CASE k.pc = "prepare" -> Ret(Prepared(k), y, "go")
    [] k.pc = "hook" ->
         IF k.i > Len(Hooked(k.slot)) THEN Ret(SlotDone(k), y, "go")
         ELSE LET p == Hooked(k.slot)[k.i] IN
              IF Skips(p, k) THEN Ret(Skipped(p, k), y, "go")
              ELSE LET r == Use(p, Patched(p, k.cond), k, y, n) IN [r EXCEPT !.c = After(r.c, r.r)]
    [] k.pc = "check" -> Ret(Checked(k), y, "go")
    [] k.pc = "sub" -> Subrequest(k, y, n)
    [] k.pc = "finished" -> Finished(k, y, n)
    [] k.pc = "answer" -> Ret(k, y, "go")

\* In a round there are five slots, two plugins have two hooks, and three steps are of no plugin.
MaxRounds == (LocalLoops + 2) * (RewriteLoops + 3)
MaxSteps == Len(Loaded) + 10
RoundAlone(k, y, n) ==
  LET run[i \in 0 .. MaxSteps] ==
        IF i = 0 THEN Alone(k, y, n)
        ELSE LET s == run[i - 1] IN IF s.c.pc \in {"prepare", "answer"} THEN s ELSE Alone(s.c, s.z, n)
  IN run[MaxSteps]
Expected(rq, n) ==
  LET rounds[i \in 0 .. MaxRounds] ==
        IF i = 0 THEN Ret(Start(Idle, rq), Fresh, "go")
        ELSE LET s == rounds[i - 1] IN IF s.c.pc = "answer" THEN s ELSE RoundAlone(s.c, s.z, n)
  IN AnswerOf(rounds[MaxRounds].c)

\* A request is answered as the first request of a fresh server would be: no configuration of
\* another connection, and nothing that plugins, contexts and caches keep of what was served
\* before, shows in an answer; and what a script redirects to locally is answered as a request
\* for it would be (http_response_process_local_redir).
SameAnswer == \A n \in Conns : c[n].pc = "answer" =>
  /\ AnswerOf(c[n]) = Expected(c[n].rq, n)
  /\ c[n].redirs \in 1 .. LocalLoops /\ c[n].saved = 0
     => AnswerOf(c[n]) = Expected([c[n].rq EXCEPT !.uri = c[n].loc, !.method = "GET"], n)

\* No configuration sends a request round for ever: rewriting, local redirects and error handlers
\* come back to http_response_prepare a bounded number of times.
RoundsBounded == \A n \in Conns : c[n].rounds <= MaxRounds

\* What con_map says of an upload is of the connection that uploads: an entry goes when its
\* request is done with, before the connection is closed or used for another one.
UploadsOwn == \A i \in DOMAIN z.uploads :
  LET u == z.uploads[i] IN c[u.con].pc # "idle" /\ c[u.con].rq.id = u.id

\* Nothing is served whose path url.access denies, or for which auth.require wants credentials the
\* client did not show, by whatever rewriting, index file, alias or path info it was come by.
Guarded == \A n \in Conns :
  LET k == c[n] o == [x \in {"allow", "deny", "require"} |-> Setting(k.cond, x)] f == Last(k.path) IN
  k.pc = "finished" /\ k.status = 200 /\ k.phys # <<>> =>
    /\ f \notin o.deny \/ f \in o.allow
    /\ (\E i \in DOMAIN o.require : IsPrefix(o.require[i], k.path)) => k.rq.cred
=============================================================================
