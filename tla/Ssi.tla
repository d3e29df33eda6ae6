-------------------------------- MODULE Ssi --------------------------------
(***************************************************************************)
(* mod_ssi: a page is read into a buffer of a fixed size, and its          *)
(* directives are looked for, parsed and obeyed while it is read;          *)
(* mod_ssi_expr.c and mod_ssi_exprparser.y decide its conditions.  A file  *)
(* is a sequence of symbols, a word without structure is one of them.  One *)
(* request in one worker: plugin_data's variables and                      *)
(* include_file_last_mtime are not shared here, as they are in the code.   *)
(***************************************************************************)
EXTENDS Integers, Sequences, FiniteSets, SequencesExt

CONSTANTS
  Pages,    \* [files: name -> what it says, data: name -> its symbols, mtime: name -> Nat, start,
            \*  since: the client's If-Modified-Since, max: ssi.recursion-max, exec: ssi.exec]
  BufSize,  \* 8192, of mod_ssi_read_fd
  Order     \* the words that are compared, in strcmp's order

SsiAssumption ==
  /\ BufSize \in Nat /\ BufSize > 5
  /\ \A p \in Pages : p.start \in DOMAIN p.files /\ DOMAIN p.mtime = DOMAIN p.files

VARIABLES
  page,     \* what is asked for, as it is on the disk
  frames,   \* mod_ssi_process_file's calls: [file, at, buf, pos, tag, scans]
  out,      \* con->write_queue
  ssi_vars, \* what was set: name -> value
  cond,     \* if_level, if_is_false, if_is_false_level, if_is_false_endif of handler_ctx
  sizefmt, stmt, newest, pc,
  status,   \* the answer's, 0 before
  failed    \* a file or a command was not there any more

vars == <<page, frames, out, ssi_vars, cond, sizefmt, stmt, newest, pc, status, failed>>

Marks == {"<", "!", "-", "#", ">", " ", "=", "dq", "sq", "bs", "$", "{", "}", "(", ")", "&", "|"}
Open == <<"<", "!", "-", "-", "#">>
Close == <<"-", "-", ">">>

\* The first place from n on where P holds, or the one after the end
First(s, n, P(_)) ==
  LET at == {i \in n .. Len(s) : P(s[i])} IN IF at = {} THEN Len(s) + 1 ELSE CHOOSE i \in at : \A j \in at : i <= j

-----------------------------------------------------------------------------
(* mod_ssi_parse_ssi_stmt_offlen: the words of a directive *)

\* the next symbol of S that no backslash is before; 0 when a backslash is the last one
RECURSIVE Unescaped(_, _, _)
Unescaped(b, n, S) ==
  IF n > Len(b) THEN n ELSE IF b[n] \in S THEN n
  ELSE IF b[n] # "bs" THEN Unescaped(b, n + 1, S) ELSE IF n = Len(b) THEN 0 ELSE Unescaped(b, n + 2, S)

\* the place after the value at n; 0 when it is empty or does not end
ValueEnd(b, n) ==
  IF n <= Len(b) /\ b[n] \in {"dq", "sq"}
  THEN LET e == Unescaped(b, n + 1, {b[n]}) IN IF e \in {0, Len(b) + 1} THEN 0 ELSE e + 1
  ELSE LET e == Unescaped(b, n, {" "}) IN IF e = n THEN 0 ELSE e

Unquoted(v) == IF v[1] \in {"dq", "sq"} THEN SubSeq(v, 2, Len(v) - 1) ELSE v
WordEnd(b, n) == First(b, n, LAMBDA c : c \in Marks)
NoWords == [ok |-> FALSE, list |-> <<>>]

\* What follows the word that ends before n, where left more parameters may come
RECURSIVE Params(_, _, _)
Params(b, n, left) ==
  LET m == First(b, n, LAMBDA c : c # " ")
      e == WordEnd(b, m)
      v == ValueEnd(b, e + 1)
      more == Params(b, v, left - 1)
  IN IF m > Len(b) THEN [ok |-> TRUE, list |-> <<>>]
     ELSE IF m = n \/ left = 0 \/ e = m \/ e > Len(b) \/ b[e] # "=" \/ v = 0 THEN NoWords
     ELSE [ok |-> more.ok, list |-> <<[attr |-> SubSeq(b, m, e - 1),
                                       value |-> Unquoted(SubSeq(b, e + 1, v - 1))]>> \o more.list]

\* b: what is between "<!--#" and "-->"
Parse(b) ==
  LET e == WordEnd(b, 1)
      words == IF e = 1 THEN NoWords ELSE Params(b, e, 2)
  IN [ok |-> words.ok, name |-> SubSeq(b, 1, e - 1), list |-> words.list, text |-> Open \o b \o Close]

\* mod_ssi_stmt_len: the length of the directive that b begins with, 0 when its end has not come
RECURSIVE StmtEnd(_, _, _, _, _)
StmtEnd(b, n, sq, dq, bs) ==
  IF n > Len(b) THEN 0
  ELSE CASE b[n] = "-" /\ ~sq /\ ~dq /\ n + 2 <= Len(b) /\ SubSeq(b, n, n + 2) = Close -> n + 2
         [] b[n] = "dq" -> StmtEnd(b, n + 1, sq, IF ~sq /\ (~dq \/ ~bs) THEN ~dq ELSE dq, bs)
         [] b[n] = "sq" -> StmtEnd(b, n + 1, IF ~dq /\ (~sq \/ ~bs) THEN ~sq ELSE sq, dq, bs)
         [] b[n] = "bs" -> StmtEnd(b, n + 1, sq, dq, IF sq \/ dq THEN ~bs ELSE bs)
         [] OTHER -> StmtEnd(b, n + 1, sq, dq, bs)
StmtLen(b) == StmtEnd(b, 6, FALSE, FALSE, FALSE)

-----------------------------------------------------------------------------
(* ssi_eval_expr: the tokens of a condition, and what they say *)

\* ssi_cgi_env first, then ssi_vars
Env == (<<"SCRIPT_NAME">> :> page.start)
Known(name) == name \in DOMAIN Env \cup DOMAIN ssi_vars
Lookup(name) == IF name \in DOMAIN Env THEN Env[name] ELSE IF Known(name) THEN ssi_vars[name] ELSE <<>>

Tok(t) == <<[t |-> t, s |-> <<>>]>>
Val(s) == <<[t |-> "value", s |-> s]>>
Double == ">" :> ">=" @@ "<" :> "<=" @@ "!" :> "!="

RECURSIVE Tokens(_, _)
Tokens(e, n) ==
  LET next == IF n < Len(e) THEN e[n + 1] ELSE "end"
      quote == First(e, n + 1, LAMBDA c : c = "sq")
      brace == First(e, n + 2, LAMBDA c : c = "}")
      word == First(e, n + 1, LAMBDA c : c \in Marks)
      blank == First(e, n, LAMBDA c : c = " ")
  IN IF n > Len(e) THEN <<>>
     ELSE CASE e[n] = " " -> Tokens(e, n + 1)
            [] e[n] \in {"=", "(", ")"} -> Tok(e[n]) \o Tokens(e, n + 1)
            [] e[n] \in {">", "<", "!"} ->
                 IF next = "=" THEN Tok(Double[e[n]]) \o Tokens(e, n + 2) ELSE Tok(e[n]) \o Tokens(e, n + 1)
            [] e[n] \in {"&", "|"} -> IF next = e[n] THEN Tok(e[n]) \o Tokens(e, n + 2) ELSE Tok("bad")
            [] e[n] = "sq" ->
                 IF quote > Len(e) THEN Tok("bad") ELSE Val(SubSeq(e, n + 1, quote - 1)) \o Tokens(e, quote + 1)
            \* the last letter in the braces is lost, and the brace stays: no variable is found
            [] e[n] = "$" /\ next = "{" -> IF brace > Len(e) THEN Tok("bad") ELSE Val(<<>>) \o Tokens(e, brace)
            [] e[n] = "$" /\ next # "{" -> Val(Lookup(SubSeq(e, n + 1, word - 1))) \o Tokens(e, word)
            [] OTHER -> Val(SubSeq(e, n, blank - 1)) \o Tokens(e, blank)

Str(s) == [is |-> "string", s |-> s, b |-> FALSE]
Bool(b) == [is |-> "bool", s |-> <<>>, b |-> b]
ToBool(v) == IF v.is = "string" THEN v.s # <<>> ELSE v.b

Rank(w) == First(Order, 1, LAMBDA x : x = w)
RECURSIVE StrCmp(_, _)
StrCmp(a, b) ==
  IF a = <<>> \/ b = <<>> THEN Len(a) - Len(b)
  ELSE IF Head(a) = Head(b) THEN StrCmp(Tail(a), Tail(b)) ELSE Rank(Head(a)) - Rank(Head(b))

Conds == {"=", "!=", ">=", ">", "<=", "<"}
Compared(c, a, b) ==
  LET bit(v) == IF ToBool(v) THEN 1 ELSE 0
      cmp == IF a.is = "string" /\ b.is = "string" THEN StrCmp(a.s, b.s) ELSE bit(a) - bit(b)
  IN CASE c = "=" -> cmp = 0 [] c = "!=" -> cmp # 0 [] c = ">=" -> cmp >= 0
       [] c = ">" -> cmp > 0 [] c = "<=" -> cmp <= 0 [] c = "<" -> cmp < 0

\* The grammar; o is what there is up to the token o.n, 0 when a token came that cannot, which
\* fails the parser (there is no rule for its error symbol).  The rules: an operand, what ORs and
\* what ANDs follow one, a comparison.  %left AND comes before %left OR: an OR binds more tightly.
From(n) == [v |-> Bool(FALSE), n |-> n]
NoParse == From(0)
NextIs(ts, o, S) == o.n \in 1 .. Len(ts) /\ ts[o.n].t \in S
With(o, p, P(_, _)) == IF p.n = 0 THEN p ELSE [p EXCEPT !.v = Bool(P(ToBool(o.v), ToBool(@)))]

RECURSIVE Rule(_, _, _)
Rule(rule, ts, o) ==
  LET after == IF o.n = 0 THEN NoParse ELSE From(o.n + 1) IN
  CASE rule = "operand" /\ NextIs(ts, o, {"value"}) ->
         LET j == First(ts, o.n, LAMBDA x : x.t # "value")
         IN [v |-> Str(FlattenSeq([k \in 1 .. j - o.n |-> ts[o.n + k - 1].s])), n |-> j]
    [] rule = "operand" /\ NextIs(ts, o, {"!"}) -> With(o, Rule("operand", ts, after), LAMBDA x, y : ~y)
    [] rule = "operand" /\ NextIs(ts, o, {"("}) ->
         LET p == Rule("line", ts, after) IN IF NextIs(ts, p, {")"}) THEN [p EXCEPT !.n = @ + 1] ELSE NoParse
    [] rule = "operand" /\ ~NextIs(ts, o, {"value", "!", "("}) -> NoParse
    [] rule = "or" ->
         IF ~NextIs(ts, o, {"|"}) THEN o
         ELSE Rule("or", ts, With(o, Rule("operand", ts, after), LAMBDA x, y : x \/ y))
    [] rule = "and" ->
         IF ~NextIs(ts, o, {"&"}) THEN o
         ELSE Rule("and", ts, With(o, Rule("or", ts, Rule("operand", ts, after)), LAMBDA x, y : x /\ y))
    [] rule = "line" ->
         LET a == Rule("and", ts, Rule("or", ts, Rule("operand", ts, o)))
         IN IF ~NextIs(ts, a, Conds) THEN a
            ELSE LET b == Rule("and", ts, Rule("or", ts, Rule("operand", ts, From(a.n + 1))))
                 IN IF b.n = 0 THEN b ELSE [b EXCEPT !.v = Bool(Compared(ts[a.n].t, a.v, @))]

\* -1, for what could not be parsed, hides a block like 0 does.
EvalExpr(e) ==
  LET ts == Tokens(e, 1) r == Rule("line", ts, From(1))
  IN (\A i \in DOMAIN ts : ts[i].t # "bad") /\ r.n = Len(ts) + 1 /\ ToBool(r.v)

-----------------------------------------------------------------------------
(* mod_ssi_read_fd *)

Top == Last(frames)
Put(f) == frames' = Append(Front(frames), f)
Frame(file) == [file |-> file, at |-> 0, buf |-> <<>>, pos |-> 1, tag |-> 1, scans |-> FALSE]
Data(file) == page.data[file]
Shown(s) == IF cond.hidden THEN out ELSE out \o s
Write(s) == out' = out \o s
Kept(f, i) == [f EXCEPT !.buf = SubSeq(@, i, Len(@)), !.pos = 1, !.tag = 1, !.scans = FALSE]
NoStmt == [ok |-> FALSE, name |-> <<>>, list |-> <<>>, text |-> <<>>]

Init ==
  /\ page \in Pages
  /\ frames = <<>> /\ out = <<>> /\ ssi_vars = <<>> /\ sizefmt = "bytes" /\ stmt = NoStmt
  /\ cond = [level |-> 0, hidden |-> FALSE, at |-> 0, done |-> FALSE]
  /\ newest = 0 /\ pc = "start" /\ status = 0 /\ failed = FALSE

\* mod_ssi_handle_request, up to the first read
Start ==
  /\ pc = "start"
  /\ newest' = 0 /\ frames' = <<Frame(page.start)>> /\ pc' = "file"
  /\ UNCHANGED <<page, out, ssi_vars, cond, sizefmt, stmt, status, failed>>

\* read() of a regular file: all there is room for
Room == LET room == BufSize - Len(Top.buf) rest == Len(Data(Top.file)) - Top.at
        IN IF room < rest THEN room ELSE rest
Read ==
  /\ pc = "file" /\ ~Top.scans
  /\ Room > 0
  /\ Put([Top EXCEPT !.at = @ + Room, !.buf = @ \o SubSeq(Data(Top.file), Top.at + 1, Top.at + Room),
                     !.pos = 1, !.scans = TRUE])
  /\ UNCHANGED <<page, out, ssi_vars, cond, sizefmt, stmt, newest, pc, status, failed>>

\* Text that goes on to the end of the buffer: it waits there while there is room.
Text ==
  LET f == Top IN
  IF Len(f.buf) = BufSize
  THEN out' = Shown(SubSeq(f.buf, f.tag, BufSize)) /\ Put(Kept(f, BufSize + 1))
  ELSE Put([f EXCEPT !.scans = FALSE]) /\ UNCHANGED out

\* Mutant of Partial: what may be the beginning of a directive is not kept.
PartialForgets(i) ==
  Text

\* the end of the buffer may be the beginning of a directive
Partial(i) ==
  LET f == Top IN
  IF IsPrefix(SubSeq(f.buf, i, Len(f.buf)), Open)
  THEN out' = Shown(SubSeq(f.buf, f.tag, i - 1)) /\ Put(Kept(f, i))
  ELSE Put([f EXCEPT !.pos = i + 1]) /\ UNCHANGED out

\* A directive from i on: it is taken, or waits for its end, or is too long for the buffer.
Directive(i) ==
  LET f == Top
      text == Shown(SubSeq(f.buf, f.tag, i - 1))
      e == StmtLen(SubSeq(f.buf, i, Len(f.buf))) + i - 1
      long == "[too long]"
      rest == CASE f.buf[Len(f.buf)] # "-" -> <<>> [] f.buf[Len(f.buf) - 1] = "-" -> <<"-", "-">> [] OTHER -> <<"-">>
  IN IF e >= i
     THEN /\ out' = text /\ pc' = "stmt" /\ stmt' = Parse(SubSeq(f.buf, i + 5, e - 3))
          /\ Put(IF e = Len(f.buf) THEN Kept(f, e + 1) ELSE [f EXCEPT !.pos = e + 1, !.tag = e + 1])
     ELSE /\ IF i = 1 /\ Len(f.buf) = BufSize
             THEN out' = text \o <<long>> \o rest /\ Put(Kept(f, Len(f.buf) + 1))
             ELSE out' = text /\ Put(Kept(f, i))
          /\ UNCHANGED <<pc, stmt>>

\* One round of the loop that looks for the next "<"
Scan ==
  /\ pc = "file" /\ frames # <<>> /\ Top.scans
  /\ LET f == Top
         i == First(f.buf, f.pos, LAMBDA c : c = "<")
     IN IF i + 4 <= Len(f.buf) /\ SubSeq(f.buf, i, i + 4) = Open THEN Directive(i)
        ELSE /\ IF i > Len(f.buf) THEN Text
                ELSE IF i + 4 <= Len(f.buf) THEN Put([f EXCEPT !.pos = i + 1]) /\ UNCHANGED out
                ELSE Partial(i)
             /\ UNCHANGED <<pc, stmt>>
  /\ UNCHANGED <<page, ssi_vars, cond, sizefmt, newest, status, failed>>

\* The file's end: what is left is text, and the page that included it goes on.
EndOfFile ==
  /\ pc = "file" /\ ~Top.scans /\ Room = 0
  /\ out' = Shown(SubSeq(Top.buf, Top.tag, Len(Top.buf)))
  /\ frames' = Front(frames) /\ pc' = IF Len(frames) = 1 THEN "answer" ELSE "file"
  /\ UNCHANGED <<page, ssi_vars, cond, sizefmt, stmt, newest, status, failed>>

\* The rest of mod_ssi_handle_request: Last-Modified is that of the newest file in the page.
Answer ==
  /\ pc = "answer"
  /\ LET mtime == IF page.mtime[page.start] < newest THEN newest ELSE page.mtime[page.start]
         same == page.since >= mtime
     IN status' = (IF same THEN 304 ELSE 200) /\ out' = (IF same THEN <<>> ELSE out)
  /\ newest' = 0 /\ pc' = "done"
  /\ UNCHANGED <<page, frames, ssi_vars, cond, sizefmt, stmt, failed>>

-----------------------------------------------------------------------------
(* process_ssi_stmt: one action for each directive *)

Is(name) == pc = "stmt" /\ stmt.ok /\ stmt.name = <<name>> /\ pc' = "file"
Given(a) == {i \in DOMAIN stmt.list : stmt.list[i].attr = <<a>>}
Has(a) == Given(a) # {}
Attr(a) == stmt.list[CHOOSE i \in Given(a) : \A j \in Given(a) : j <= i].value
Held == UNCHANGED <<page, stmt, status>>

Echoed(name, file) ==
  CASE name = <<"DOCUMENT_NAME">> -> <<file>> [] name = <<"LAST_MODIFIED">> -> <<"mtime", file>>
    [] name = <<"DATE_GMT">> -> <<"now">> [] OTHER -> IF Known(name) THEN Lookup(name) ELSE <<"(none)">>
Echo ==
  /\ Is("echo")
  /\ out' = IF Has("var") THEN Shown(Echoed(Attr("var"), Top.file)) ELSE out
  /\ UNCHANGED <<frames, ssi_vars, cond, sizefmt, newest, failed>> /\ Held

\* a variable that is set again gets the value after the one it has (data_string_insert_dup)
Set ==
  /\ Is("set")
  /\ ssi_vars' = IF cond.hidden \/ ~Has("var") \/ ~Has("value") THEN ssi_vars
                 ELSE LET name == Attr("var")
                      IN (name :> IF name \in DOMAIN ssi_vars THEN ssi_vars[name] \o <<",">> \o Attr("value")
                                  ELSE Attr("value")) @@ ssi_vars
  /\ UNCHANGED <<frames, out, cond, sizefmt, newest, failed>> /\ Held

Config ==
  /\ Is("config")
  /\ sizefmt' = IF ~cond.hidden /\ Has("sizefmt") /\ Attr("sizefmt") \in {<<"bytes">>, <<"abbrev">>}
                THEN Attr("sizefmt")[1] ELSE sizefmt
  /\ UNCHANGED <<frames, out, ssi_vars, cond, newest, failed>> /\ Held

Listed == FlattenSeq([i \in DOMAIN SetToSeq(DOMAIN ssi_vars) |->
                        LET x == SetToSeq(DOMAIN ssi_vars)[i] IN x \o <<"=">> \o ssi_vars[x]])
Printenv ==
  /\ Is("printenv")
  /\ out' = Shown(Listed \o <<"SCRIPT_NAME", "=", page.start>>)
  /\ UNCHANGED <<frames, ssi_vars, cond, sizefmt, newest, failed>> /\ Held

\* the output of a command, when there is room for it and a process
Exec ==
  /\ Is("exec")
  /\ \E ran \in BOOLEAN :
       IF ~page.exec \/ ~Has("cmd") \/ cond.hidden THEN UNCHANGED <<out, failed>>
       ELSE IF ran THEN Write(<<"output">> \o Attr("cmd")) /\ UNCHANGED failed
       ELSE failed' = TRUE /\ UNCHANGED out
  /\ UNCHANGED <<frames, ssi_vars, cond, sizefmt, newest>> /\ Held

\* the file that is named, in one way
Named == (Has("file") # Has("virtual")) /\ ~cond.hidden
Target == IF Has("file") THEN Attr("file")[1] ELSE Attr("virtual")[1]
Stat ==
  /\ Is("fsize") \/ Is("flastmod")
  /\ out' = IF ~Named \/ Target \notin DOMAIN page.files THEN out
            ELSE out \o (IF stmt.name = <<"fsize">> THEN <<"size", sizefmt, Target>> ELSE <<"mtime", Target>>)
  /\ UNCHANGED <<frames, ssi_vars, cond, sizefmt, newest, failed>> /\ Held

\* A file is included as it is, a virtual one as a page when ssi.recursion-max allows it.
Include ==
  /\ Is("include")
  /\ IF ~Named \/ Target \notin DOMAIN page.files THEN UNCHANGED <<frames, out, newest, failed>>
     ELSE /\ newest' = IF page.mtime[Target] > newest THEN page.mtime[Target] ELSE newest
          /\ IF Has("file") \/ page.max = 0
             THEN Write(Data(Target)) /\ UNCHANGED <<frames, failed>>
             ELSE IF Len(frames) > page.max THEN Write(<<"[too deep]">>) /\ UNCHANGED <<frames, failed>>
             ELSE IF Target = Top.file THEN Write(<<"[loop]">>) /\ UNCHANGED <<frames, failed>>
             ELSE /\ \/ frames' = Append(frames, Frame(Target)) /\ UNCHANGED failed
                     \/ failed' = TRUE /\ UNCHANGED frames        \* it cannot be opened
                  /\ UNCHANGED out
  /\ UNCHANGED <<ssi_vars, cond, sizefmt>> /\ Held

Conditional(c) ==
  /\ cond' = c
  /\ UNCHANGED <<frames, out, ssi_vars, sizefmt, newest, failed>> /\ Held

If ==
  /\ Is("if")
  /\ LET tests == ~cond.hidden /\ (cond.at = 0 \/ cond.level < cond.at)
         false == tests /\ ~EvalExpr(Attr("expr"))
     IN Conditional(IF ~Has("expr") THEN cond
                    ELSE [cond EXCEPT !.level = @ + 1, !.hidden = @ \/ false,
                                      !.at = IF false THEN cond.level ELSE @])

Else ==
  /\ Is("else")
  /\ LET l == cond.level - 1
     IN Conditional(IF cond.hidden THEN [cond EXCEPT !.hidden = ~(l = cond.at /\ ~cond.done)]
                    ELSE [cond EXCEPT !.hidden = TRUE, !.at = l])

\* Mutant of Elif: an alternative is looked at though one before it held.
ElifAgain ==
  /\ Is("elif")
  /\ LET l == cond.level - 1
     IN Conditional(IF ~Has("expr") \/ l # cond.at THEN cond
                    ELSE [cond EXCEPT !.hidden = ~EvalExpr(Attr("expr")), !.at = l])

Elif ==
  /\ Is("elif")
  /\ LET l == cond.level - 1
     IN Conditional(IF ~Has("expr") \/ l # cond.at THEN cond
                    ELSE IF cond.hidden /\ ~cond.done
                    THEN [cond EXCEPT !.hidden = ~EvalExpr(Attr("expr")), !.at = l]
                    ELSE [cond EXCEPT !.hidden = TRUE, !.at = l, !.done = TRUE])

Endif ==
  /\ Is("endif")
  /\ LET l == cond.level - 1
     IN Conditional(IF l = cond.at THEN [cond EXCEPT !.level = l, !.hidden = FALSE, !.done = FALSE]
                    ELSE [cond EXCEPT !.level = l])

Commands == {"echo", "set", "config", "printenv", "exec", "fsize", "flastmod", "include", "if", "else", "elif", "endif"}
\* What is no directive stays where it was, except for a comment; an unknown one is left out.
Other ==
  /\ pc = "stmt" /\ pc' = "file"
  /\ ~stmt.ok \/ stmt.name \notin {<<x>> : x \in Commands}
  /\ IF stmt.ok \/ SubSeq(stmt.text, 6, 7) = <<"comment", " ">> THEN UNCHANGED out ELSE Write(stmt.text)
  /\ UNCHANGED <<frames, ssi_vars, cond, sizefmt, newest, failed>> /\ Held

Next ==
  \/ Start \/ Read \/ Scan \/ EndOfFile \/ Answer
  \/ Echo \/ Set \/ Config \/ Printenv \/ Exec \/ Stat \/ Include
  \/ If \/ Else \/ Elif \/ Endif \/ Other

Spec == Init /\ [][Next]_vars

-----------------------------------------------------------------------------
(* What a page says: items and the blocks they stand in, of doc/outdated/ssi.txt *)

ValueOf(v, name) == IF name = "SCRIPT_NAME" THEN <<page.start>> ELSE IF name \in DOMAIN v THEN v[name] ELSE <<>>
RECURSIVE Holds(_, _)
Holds(c, v) ==
  CASE c[1] = "set" -> ValueOf(v, c[2]) # <<>>
    [] c[1] = "is" -> ValueOf(v, c[2]) = <<c[3]>>
    [] c[1] = "before" -> Rank(c[2]) < Rank(c[3])
    [] c[1] = "not" -> ~Holds(c[2], v)
    [] c[1] = "and" -> Holds(c[2], v) /\ Holds(c[3], v)
    [] c[1] = "or" -> Holds(c[2], v) \/ Holds(c[3], v)
    [] c[1] = "broken" -> FALSE

\* w: [out, vars, files] of what was said before, d: how many files are open
RECURSIVE Says(_, _, _, _)
Says(items, f, d, w) ==
  IF items = <<>> THEN w
  ELSE
  LET i == Head(items)
      add(s) == [w EXCEPT !.out = @ \o s]
      read == [w EXCEPT !.files = @ \cup {i[3]}]
      true == First(i[2], 1, LAMBDA a : Holds(a[1], w.vars))
  IN Says(Tail(items), f, d,
       CASE i[1] = "text" -> add(i[2])
         [] i[1] = "raw" -> add(i[3])
         [] i[1] = "echo" -> add(IF i[2] = "DOCUMENT_NAME" THEN <<f>>
                                 ELSE IF i[2] \in DOMAIN w.vars \cup {"SCRIPT_NAME"} THEN ValueOf(w.vars, i[2])
                                 ELSE <<"(none)">>)
         [] i[1] = "set" -> [w EXCEPT !.vars = i[2] :> <<i[3]>> @@ @]
         [] i[1] = "fsize" -> add(<<"size", i[2], i[3]>>)
         [] i[1] = "file" -> [read EXCEPT !.out = @ \o Data(i[3])]
         [] i[1] = "virtual" ->
              IF page.max = 0 THEN [read EXCEPT !.out = @ \o Data(i[3])]
              ELSE IF d > page.max THEN [read EXCEPT !.out = Append(@, "[too deep]")]
              ELSE IF i[3] = f THEN [read EXCEPT !.out = Append(@, "[loop]")]
              ELSE Says(page.files[i[3]], i[3], d + 1, read)
         [] i[1] = "if" -> IF true > Len(i[2]) THEN Says(i[3], f, d, w) ELSE Says(i[2][true][2], f, d, w))

Said == Says(page.files[page.start], page.start, 1, [out |-> <<>>, vars |-> <<>>, files |-> {page.start}])

\* Wherever the buffer cuts a page, it is what its directives say, block by block, with the files
\* it includes; and a client is told that its copy is good only when none of them is newer
\* (mod_ssi.c:1099-1182, 827-935, 1210-1264).
PageSaid ==
  pc = "done" /\ ~failed =>
    /\ status = 200 => out = Said.out
    /\ status = 304 => \A f \in Said.files : page.mtime[f] <= page.since
    /\ cond.level = 0 /\ ~cond.hidden
=============================================================================
