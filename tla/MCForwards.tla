----------------------------- MODULE MCForwards -----------------------------
(* Connections for Extforward: what proxies send, and what it means *)
EXTENDS Integers, Sequences, SequencesExt

ForwardHex == {"P", "Q", "A1", "A2", "A6", "cafe"}
ForwardNumeric == {<<"P">>, <<"Q">>, <<"A1">>, <<"A2">>, <<"A6">>}

LOCAL None == <<"none">>

-----------------------------------------------------------------------------
(* PROXY headers, with the head of a request after them *)

LOCAL Hello(text, length, tlvs, good, from, proto, user) ==
  [text |-> text \o <<"head">>, length |-> length, tlvs |-> tlvs,
   says |-> [good |-> good, size |-> Len(text), from |-> from, proto |-> proto, user |-> user]]
LOCAL Line(words) == <<"PROXY">> \o FlattenSeq([i \in DOMAIN words |-> <<" ", words[i]>>]) \o <<"r", "n">>
LOCAL V1(text, good, from) == Hello(text, 0, <<>>, good, from, "http", None)
LOCAL Tlv(is, ssl, cert, verified, cn) == [is |-> is, ssl |-> ssl, cert |-> cert, verified |-> verified, cn |-> cn]
LOCAL V2(cmd, fam, from, tlvs, good, proto, user) ==
  Hello(<<"sig", cmd, fam, "len">> \o (IF fam = "UNSPEC" THEN <<>> ELSE from \o <<"to">>) \o [i \in DOMAIN tlvs |-> "tlv"],
        (IF fam = "UNSPEC" THEN 0 ELSE 2) + Len(tlvs), tlvs, good,
        IF cmd = "LOCAL" \/ fam = "UNSPEC" THEN <<>> ELSE from, proto, user)

LOCAL Plain == V1(<<>>, FALSE, <<>>)
LOCAL Signed == V2("PROXY", "TCP4", <<"A1">>, <<Tlv("other", FALSE, FALSE, FALSE, <<>>), Tlv("ssl", TRUE, TRUE, TRUE, <<"cn">>)>>,
                   TRUE, "https", <<"cn">>)
LOCAL Hellos ==
  {Plain, Signed,
   V1(Line(<<"TCP4", "A1", "A2", "port", "port">>), TRUE, <<"A1">>), V1(Line(<<"TCP6", "A6", "A6", "port", "port">>), TRUE, <<"A6">>),
   V1(Line(<<"UNKNOWN">>), TRUE, <<>>), V1(Line(<<"UNKNOWN", "A1", "A2">>), TRUE, <<>>),
   V1(Line(<<"TCP4", "A6", "A6", "port", "port">>), FALSE, <<>>), V1(Line(<<"TCP4", "A1", "A2", "port">>), FALSE, <<>>),
   V1(Line(<<"UDP4", "A1", "A2", "port", "port">>), FALSE, <<>>), V1(<<"PROXY", " ", "UNKNOWN", "r", "r">>, FALSE, <<>>),
   V1(<<"PROXY", " ", "UNKNOWN">> \o [i \in 1 .. 20 |-> "x"] \o <<"r", "n">>, FALSE, <<>>),
   V2("LOCAL", "UNSPEC", <<>>, <<>>, TRUE, "http", None), V2("PROXY", "UNSPEC", <<>>, <<>>, TRUE, "http", None),
   V2("PROXY", "UNIX", <<"path">>, <<>>, TRUE, "http", None), V2("PROXY", "UNIX", <<"long">>, <<>>, FALSE, "http", None),
   V2("OTHER", "TCP4", <<"A1">>, <<>>, FALSE, "http", None), V2("PROXY", "TCP6", <<"A6">>, <<>>, TRUE, "http", None),
   V2("PROXY", "TCP4", <<"P">>, <<Tlv("ssl", TRUE, TRUE, FALSE, <<"cn">>), Tlv("short", TRUE, TRUE, TRUE, <<"cn">>)>>, TRUE, "https", None),
   V2("PROXY", "TCP4", <<"A1">>, <<Tlv("ssl", FALSE, FALSE, TRUE, <<>>)>>, TRUE, "http", None)}

-----------------------------------------------------------------------------
(* Fields, of the hops they name *)

LOCAL Hop(for, host, proto, user) == [for |-> for, host |-> host, proto |-> proto, user |-> user]
LOCAL For(a) == Hop(<<a>>, <<>>, <<>>, <<>>)
LOCAL Quote(s) == <<"dq">> \o s \o <<"dq">>
LOCAL Join(parts, sep) ==
  FlattenSeq([i \in DOMAIN parts |-> IF i = 1 \/ parts[i] = <<>> THEN parts[i] ELSE sep \o parts[i]])

\* An address as it must be written, or may be; how: 0 when it is not quoted
LOCAL Addr(a, how) ==
  IF a = "A6" THEN Quote(<<"[", a, "]", ":", "port">>)
  ELSE IF how = 0 THEN <<a, " ">> ELSE IF a \in {"_x", "unknown"} THEN Quote(<<a>>) ELSE Quote(<<a, ":", "port">>)
LOCAL Group(h, how) ==
  Join(<<IF h.proto = <<>> THEN <<"by", "=", "x">> ELSE <<"proto", "=">> \o h.proto,
         IF h.for = <<>> THEN <<>> ELSE <<"for", "=">> \o Addr(h.for[1], how),
         IF h.host = <<>> THEN <<>> ELSE <<"host", "=">> \o (IF how = 0 THEN h.host ELSE Quote(<<"bs">> \o h.host)),
         IF h.user = <<>> THEN <<>> ELSE <<"remote_user", "=">> \o Quote(h.user)>>, <<";", " ">>)
LOCAL Forwarded(text, hops, bad) == [kind |-> "Forwarded", text |-> text, proto |-> <<>>, hops |-> hops, bad |-> bad]
LOCAL Chain(hops, how) == Forwarded(Join([i \in DOMAIN hops |-> Group(hops[i], how)], <<",", " ">>), hops, FALSE)
LOCAL List(hops, proto) ==
  [kind |-> "X-Forwarded-For", text |-> Join([i \in DOMAIN hops |-> hops[i].for], <<",", " ">>), proto |-> proto,
   hops |-> [i \in DOMAIN hops |-> [hops[i] EXCEPT !.proto = proto]], bad |-> FALSE]

LOCAL Sayings == {For(a) : a \in {"P", "A1", "A6", "_x", "unknown"}}
                   \cup {Hop(<<"P">>, <<"g">>, <<"https">>, <<"u">>), Hop(<<"A1">>, <<"k">>, <<"ftp">>, <<"v">>),
                         Hop(<<"Q">>, <<>>, <<"https">>, <<>>), Hop(<<>>, <<"k">>, <<>>, <<"u">>), For("cafe")}
LOCAL Chains == UNION {[1 .. n -> Sayings] : n \in 1 .. 2}
                  \cup {<<x, y, z>> : x \in {For("A1"), For("A2"), Hop(<<"P">>, <<"k">>, <<>>, <<"v">>)},
                                      y \in Sayings, z \in {For("P"), For("Q"), Hop(<<"P">>, <<"g">>, <<>>, <<"u">>)}}
LOCAL Lists == {List(hops, proto) : proto \in {<<>>, <<"https">>},
                  hops \in UNION {[1 .. n -> {For("P"), For("A1"), For("A2"), For("cafe")}] : n \in 1 .. 3}}

LOCAL A1 == <<"for", "=", "A1">>
LOCAL Odd == {
  \* a quote without an end, brackets without an end, a name that is none, and too many parameters
  Forwarded(<<"for", "=", "dq", "A1">>, <<>>, TRUE), Forwarded(<<"x", "dq", "bs", "dq", "=">> \o A1, <<>>, TRUE),
  Forwarded(<<"for", "=">> \o Quote(<<"[", "]">>), <<>>, TRUE), Forwarded(<<"for", "=">> \o Quote(<<"[", "A6">>), <<>>, TRUE),
  Forwarded(A1 \o FlattenSeq([i \in 1 .. 12 |-> <<",", "for", "=", "P">>]), <<>>, TRUE),
  \* empty elements, a word without a value, a value without a word, nothing at all
  Forwarded(<<",", ",">> \o A1 \o <<";", ";", ",", "x", ",", ",">>, <<For("A1")>>, FALSE),
  Forwarded(<<"=", "x", ";">> \o A1 \o <<";", "host", ",", "for", "=", ",", "for", "=", "dq", "dq">>, <<For("A1")>>, FALSE),
  Forwarded(<<>>, <<>>, FALSE), Forwarded(<<"host", "=", "k">>, <<Hop(<<>>, <<"k">>, <<>>, <<>>)>>, FALSE)}
LOCAL Misnamed == {
  Forwarded(A1 \o <<";", "host", "=", "b">>, <<For("A1")>>, TRUE),
  Forwarded(A1 \o <<";", "host", "=">> \o Quote(<<"k", "bs", "bs">>) \o <<"x">>, <<For("A1")>>, TRUE)}

LOCAL NoField == [kind |-> "none", text |-> <<>>, proto |-> <<>>, hops |-> <<>>, bad |-> FALSE]
LOCAL Few == {NoField, Chain(<<For("A2"), Hop(<<"P">>, <<"g">>, <<"https">>, <<"u">>)>>, 0), List(<<For("A2"), For("P")>>, <<>>)}

LOCAL Conf(trusted, all, opts, hap) ==
  [trusted |-> {<<x>> : x \in trusted}, all |-> all, opts |-> opts, hap |-> hap, verify |-> hap]
LOCAL Both == {"host", "remote_user"}
LOCAL Scene(conf, peer, wire, fields) == [conf |-> conf, peer |-> <<peer>>, wire |-> wire, fields |-> fields]

LOCAL Many == {NoField} \cup {Chain(c, how) : c \in Chains, how \in {0, 1}} \cup Lists \cup Odd

ForwardScenes ==
  {Scene(Conf({"P", "Q"}, 0, {}, FALSE), "P", Plain, <<f, NoField>>) : f \in Many}
    \cup {Scene(Conf({"P", "Q"}, 0, Both, FALSE), "P", Plain, <<f, NoField>>) : f \in Many \cup Misnamed}
    \cup {Scene(Conf({"P"}, all, Both, TRUE), peer, w, <<f, g>>) :
            all \in {-1, 0, 1}, peer \in {"P", "A1"}, w \in Hellos, f \in Few, g \in Few}
=============================================================================
