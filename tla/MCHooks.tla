------------------------------ MODULE MCHooks ------------------------------
(* Configurations, files, scripts and requests for runs of Hooks. *)
EXTENDS Integers, Sequences, TLC

HookFiles ==
  LET dirs == {<<"www">>, <<"www","d">>, <<"www","e">>, <<"www","priv">>, <<"other">>, <<"home">>, <<"home","pub">>,
               <<"vh">>, <<"vh","h1">>, <<"vh","h2">>, <<"vx">>, <<"vx","h2">>, <<"db">>}
      regs == {<<"www","index">>, <<"www","secret">>, <<"www","d","secret">>, <<"www","script">>, <<"www","back">>,
               <<"www","ring">>, <<"www","err">>, <<"www","priv","f">>, <<"www","up">>, <<"other","film">>,
               <<"home","pub","f">>, <<"vh","h1","f">>, <<"vh","h2","f">>, <<"vx","h2","f">>, <<"db","f">>, <<"www","f">>}
  IN [p \in dirs \cup regs |-> IF p \in dirs THEN "dir" ELSE "reg"]
HookScripts ==
  (<<"www","script">> :> [status |-> 200, loc |-> <<>>]) @@ (<<"www","err">> :> [status |-> 404, loc |-> <<>>])
  @@ (<<"www","up">> :> [status |-> 200, loc |-> <<>>]) @@ (<<"www","back">> :> [status |-> 302, loc |-> <<"d","">>])
  @@ (<<"www","ring">> :> [status |-> 302, loc |-> <<"back2">>])

Rq(h, u, m) == [host |-> h, uri |-> u, method |-> m, cred |-> FALSE, id |-> "none", start |-> FALSE]
Gets(us) == {Rq("h1", u, "GET") : u \in us}
Everywhere(o) == [host |-> "*", path |-> <<>>, set |-> o]
Rule(a, t, o) == [at |-> a, to |-> t, once |-> o]
Name(n) == [abs |-> FALSE, path |-> <<n>>]
OneAsks(rqs) == 1 :> rqs @@ 2 :> {}

HookConfigs == <<
  [mods |-> <<"rewrite", "access", "cgi">>,
   blocks |-> <<
     Everywhere([index |-> <<Name("index"), [abs |-> TRUE, path |-> <<"index">>]>>, deny |-> {"secret"},
                 cgi |-> {"script"}, rewriteNF |-> <<Rule(<<"nf">>, <<"nf","again">>, FALSE)>>,
                 rewrite |-> <<Rule(<<"skip">>, <<>>, FALSE), Rule(<<"round">>, <<"round","round">>, FALSE),
                               Rule(<<"hop">>, <<"once">>, FALSE), Rule(<<"once">>, <<"d","">>, TRUE)>>]),
     [host |-> "*", path |-> <<"d">>, set |-> [index |-> <<Name("secret")>>]],
     [host |-> "*", path |-> <<"e">>, set |-> [dirlist |-> TRUE]]>>,
   asked |-> OneAsks(Gets({<<"">>, <<"round">>, <<"hop">>, <<"skip">>, <<"nf">>, <<"d">>, <<"d","">>, <<"e","">>,
                           <<"script","secret">>, <<"secret","info">>, <<"index","">>}))],
  [mods |-> <<"redirect", "auth", "alias", "userdir", "secdownload", "flv">>,
   blocks |-> <<
     Everywhere([redirect |-> <<Rule(<<"old">>, <<"new">>, FALSE)>>, require |-> <<<<"priv">>>>, flv |-> {"film"},
                 alias |-> <<[key |-> <<"al">>, to |-> <<"other">>]>>, userdir |-> <<"pub">>, excluded |-> {"~v"},
                 secprefix |-> <<"dl">>, secroot |-> <<"other">>])>>,
   asked |-> OneAsks(
     Gets({<<"old">>, <<"priv","f">>, <<"~u","f">>, <<"~u">>, <<"~v","f">>, <<"al">>, <<"al","film">>,
           <<"dl","mac","film">>, <<"dl","old","film">>, <<"dl","forged","film">>, <<"dl","mac">>})
     \cup {[Rq("h1", u, "GET") EXCEPT !.cred = TRUE, !.start = TRUE] : u \in {<<"priv","f">>, <<"al","film">>}})],
  [mods |-> <<"evhost", "simple_vhost">>,
   blocks |-> <<
     Everywhere([vroot |-> <<"vh">>, vhost |-> "h1", pattern |-> <<"vx">>]),
     [host |-> "h2", path |-> <<>>, set |-> [vroot |-> <<"vx">>]]>>,
   asked |-> [n \in 1 .. 2 |-> {Rq(h, <<"f">>, "GET") : h \in {"", "h1", "h2", "h3"}}]],
  [mods |-> <<"vhostdb", "setenv">>,
   blocks |-> <<Everywhere([vhostdb |-> TRUE, env |-> "all", handler404 |-> <<"f">>]),
                [host |-> "h2", path |-> <<>>, set |-> [env |-> "own"]]>>,
   asked |-> [n \in 1 .. 2 |-> {Rq(h, u, "GET") : h \in {"", "h1", "h2", "h3", "h4"}, u \in {<<"f">>, <<"none">>}}]],
  [mods |-> <<"uploadprogress", "cgi">>,
   blocks |-> <<Everywhere([progress |-> <<"progress">>, cgi |-> {"up", "err"}, handler |-> <<"err">>])>>,
   asked |-> [n \in 1 .. 2 |-> {[Rq("h1", u, m) EXCEPT !.id = IF n = 1 THEN "one" ELSE "two"] :
                                u \in {<<"up">>, <<"none">>, <<"progress">>}, m \in {"GET", "POST"}}]],
  [mods |-> <<"setenv", "cgi", "rewrite">>,
   blocks |-> <<Everywhere([cgi |-> {"back", "ring", "err"}, handler404 |-> <<"err">>,
                            rewrite |-> <<Rule(<<"back2">>, <<"ring">>, FALSE)>>,
                            env |-> "all", index |-> <<Name("secret")>>]),
                [host |-> "*", path |-> <<"d">>, set |-> [env |-> "own"]]>>,
   asked |-> OneAsks(Gets({<<"back">>, <<"ring">>, <<"none">>, <<"priv","">>, <<"f","info">>}))],
  [mods |-> <<"cgi", "rewrite">>,
   blocks |-> <<Everywhere([cgi |-> {"ring"}, handler |-> <<"ring">>,
                            rewrite |-> <<Rule(<<"back2">>, <<"ring">>, FALSE)>>])>>,
   asked |-> OneAsks(Gets({<<"ring">>, <<"none">>}))]>>

\* two hosts, of which one denies a file
TwoHosts == <<
  [mods |-> <<"access">>,
   blocks |-> <<[host |-> "h1", path |-> <<>>, set |-> [deny |-> {"f"}]]>>,
   asked |-> [n \in 1 .. 2 |-> {Rq(IF n = 1 THEN "h1" ELSE "h2", <<"f">>, "GET")}]]>>

Homes1 == "~u" :> <<"home">> @@ "~v" :> <<"home">>
Db1 == "h1" :> <<"vh","h1">> @@ "h2" :> <<"db">> @@ "h3" :> <<"gone">>
=============================================================================
