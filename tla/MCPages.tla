------------------------------- MODULE MCPages -------------------------------
(* Pages for Ssi: what they say, and the symbols that say it *)
EXTENDS Integers, Sequences, SequencesExt

SsiBuffer == 56

LOCAL Quote(s) == <<"dq">> \o s \o <<"dq">>
LOCAL Param(a, s) == <<" ", a, "=">> \o Quote(s)
LOCAL Tag(words) == <<"<", "!", "-", "-", "#">> \o words \o <<" ", "-", "-", ">">>

RECURSIVE PageExpr(_)
PageExpr(c) ==
  CASE c[1] = "set" -> <<"$", c[2]>>
    [] c[1] = "is" -> <<"$", c[2], "=", "sq", c[3], "sq">>
    [] c[1] = "before" -> <<c[2], " ", "<", "sq", c[3], "sq">>
    [] c[1] = "not" -> <<"!", "(">> \o PageExpr(c[2]) \o <<")">>
    [] c[1] = "and" -> <<"(">> \o PageExpr(c[2]) \o <<")", "&", "&", "(">> \o PageExpr(c[3]) \o <<")">>
    [] c[1] = "or" -> <<"(">> \o PageExpr(c[2]) \o <<")", "|", "|", "(">> \o PageExpr(c[3]) \o <<")">>
    [] c[1] = "broken" -> c[2]

RECURSIVE PageText(_)
PageText(items) ==
  IF items = <<>> THEN <<>>
  ELSE LET i == Head(items)
           alternative(k) == Tag(<<IF k = 1 THEN "if" ELSE "elif">> \o Param("expr", PageExpr(i[2][k][1])))
                               \o PageText(i[2][k][2])
       IN (CASE i[1] \in {"text", "raw"} -> i[2]
             [] i[1] = "echo" -> Tag(<<"echo">> \o Param("var", <<i[2]>>))
             [] i[1] = "set" -> Tag(<<"set">> \o Param("var", <<i[2]>>) \o Param("value", <<i[3]>>))
             [] i[1] = "fsize" -> Tag(<<"config">> \o Param("sizefmt", <<i[2]>>)) \o
                                    Tag(<<"fsize">> \o Param("virtual", <<i[3]>>))
             [] i[1] \in {"file", "virtual"} -> Tag(<<"include">> \o Param(i[1], <<i[3]>>))
             [] i[1] = "if" -> FlattenSeq([k \in DOMAIN i[2] |-> alternative(k)])
                                 \o (IF i[3] = <<>> THEN <<>> ELSE Tag(<<"else">>) \o PageText(i[3])) \o Tag(<<"endif">>))
          \o PageText(Tail(items))
LOCAL Pad(n) == <<<<"text", [i \in 1 .. n |-> "x"]>>>>

LOCAL X == <<"text", <<"a">>>>
LOCAL Y == <<"text", <<"b">>>>
LOCAL V == <<"set", "v", "a">>
LOCAL Yes == <<"set", "v">>
LOCAL No == <<"not", Yes>>
LOCAL If(c, then, else) == <<"if", <<<<c, then>>>>, else>>
LOCAL Chain(c, a, d, b, else) == <<"if", <<<<c, a>>, <<d, b>>>>, else>>
LOCAL Raw(s) == <<"raw", s, s>>
LOCAL Skipped(s) == <<"raw", s, <<>>>>
LOCAL Name == <<"echo", "DOCUMENT_NAME">>
LOCAL Virtual(f) == <<"virtual", "", f>>
LOCAL File(f) == <<"file", "", f>>

LOCAL Broken == {<<"$", "v", "&">>, <<"sq", "v">>, <<"(", "$", "v">>, <<"$", "v", "=">>, <<"|", "|">>, <<"$", "v", ")">>,
                 <<"$", "v", "=", "sq", "a", "sq", "=", "sq", "a", "sq">>}

LOCAL Starts ==
  {<<V, If(c, <<X>>, <<Y>>), Name>> :
     c \in {Yes, <<"is", "v", "a">>, <<"and", Yes, <<"is", "v", "b">>>>, <<"or", No, <<"before", "a", "b">>>>,
            <<"and", <<"or", Yes, <<"is", "w", "a">>>>, <<"not", <<"before", "b", "a">>>>>>}}
    \cup {<<V, If(<<"broken", b>>, <<X>>, <<Y>>)>> : b \in Broken}
    \cup {<<V, Chain(c, <<X, <<"echo", "v">>>>, d, <<Y>>, <<<<"echo", "w">>>>), X>> : c \in {Yes, No}, d \in {Yes, No}}
    \cup {<<V, If(c, <<X, If(d, <<Y, <<"set", "w", "b">>>>, <<X>>), Y>>, <<If(d, <<X>>, <<>>), Y>>), <<"echo", "w">>>> :
            c \in {Yes, No}, d \in {Yes, No}}
    \cup {
      <<X, <<"fsize", "bytes", "inc">>, <<"fsize", "abbrev", "inc">>, Y>>,
      <<V, Virtual("inc"), Name, <<"echo", "w">>>>, <<X, File("inc"), Y>>, <<Virtual("page"), X>>,
      <<Virtual("deep"), Y>>, <<If(Yes, <<Virtual("inc")>>, <<Y>>)>>,
      \* what is no directive, or looks like one, or is none that is known
      <<Raw(<<"<">>), X, Raw(<<"<", "!", "-", "-">>), Y, Raw(<<"<", "!", "-", "-", "#", "-", "-", ">">>)>>,
      <<Raw(<<"<", "<", "!", "-", "#">>), Raw(Tag(<<"echo", " ", "var">>)), Raw(<<"<", "!", "-", "-", "#", "echo">>)>>,
      <<Skipped(Tag(<<"comment", " ", "b", " ", "b">>)), Skipped(Tag(<<"unknown">>)), X,
        Skipped(<<"<", "!", "-", "-", "#", "exec", " ", "b", "=", "sq", "-", "-", ">", "sq", "-", "-", ">">>)>>,
      <<<<"raw", Tag(<<"exec">> \o Param("cmd", <<"a", "bs", "bs">>)), <<"output", "a", "bs", "bs">>>>,
        <<"raw", Tag(<<"printenv">>), <<"SCRIPT_NAME", "=", "page">>>>,
        <<"raw", Tag(<<"flastmod", " ", "file", "=", "inc">>), <<"mtime", "inc">>>>>>,
      <<<<"raw", <<"<", "!", "-", "-", "#">> \o [k \in 1 .. 60 |-> "b"] \o <<"-", "-", ">">>,
          <<"[too long]">> \o [k \in 1 .. 65 - SsiBuffer |-> "b"] \o <<"-", "-", ">">>>>>>}

LOCAL Page(items, max, since) ==
  LET files == "page" :> items @@ "inc" :> <<Name, Y>> @@ "deep" :> <<Virtual("inc"), File("inc")>>
  IN [files |-> files, data |-> [f \in DOMAIN files |-> PageText(files[f])],
      mtime |-> "page" :> 2 @@ "inc" :> 3 @@ "deep" :> 1,
      start |-> "page", since |-> since, max |-> max, exec |-> TRUE]

SsiPages == {Page(Pad(n) \o s, 1, 0) : n \in 0 .. 11, s \in Starts}
              \cup {Page(s, max, since) : max \in {0, 2}, since \in {0, 2, 3}, s \in Starts}
=============================================================================
