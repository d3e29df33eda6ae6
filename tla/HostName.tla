------------------------------ MODULE HostName ------------------------------
(***************************************************************************)
(* The name in a request's Host field (request.c), which chooses the       *)
(* virtual host: request_check_hostname walks over it from its end,        *)
(* http_request_host_normalize takes its port away when it says nothing.   *)
(* A letter stands for all of them.                                        *)
(***************************************************************************)
EXTENDS Integers, Sequences, FiniteSets, SequencesExt

CONSTANTS
  Names,       \* what the field may be: sequences of characters
  SchemePort,  \* 80 or 443
  MaxPort      \* USHRT_MAX

Ten == <<"0", "1", "2", "3", "4", "5", "6", "7", "8", "9">>
Digits == {Ten[i] : i \in 1 .. 10}
Alphas == {"a"}

HostAssumption == SchemePort \in Nat /\ MaxPort \in Nat /\ SchemePort <= MaxPort

VARIABLES
  name,    \* con->request.http_host
  policy,  \* "strict" or "normalize", of server.http-parseopts
  verdict  \* [ok, name], or Unknown before the policy is applied

vars == <<name, policy, verdict>>

Unknown == [ok |-> FALSE, name |-> <<"?">>]
Refused == [ok |-> FALSE, name |-> <<>>]
Accepted(h) == [ok |-> TRUE, name |-> h]
Places(c, h) == {i \in DOMAIN h : h[i] = c}
Least(S) == CHOOSE i \in S : \A j \in S : i <= j
All(h, S) == \A i \in DOMAIN h : h[i] \in S
AllFrom(h, i, S) == \A j \in i .. Len(h) : h[j] \in S

-----------------------------------------------------------------------------
(* request_check_hostname *)

\* The address in brackets and the port after it
CheckLiteral(h) ==
  LET close == Least(Places("]", h))
      address == SubSeq(h, 2, close - 1)
  IN IF Places("]", h) = {} \/ ~All(address, Digits \cup Alphas \cup {":", "."})
        \/ Cardinality(Places(":", address)) > 7
        \/ (close < Len(h) /\ (h[close + 1] # ":" \/ ~AllFrom(h, close + 2, Digits)))
     THEN Refused ELSE Accepted(h)

\* The walk from character i of the host to its first one.  w: [stage, len, ip, level, ok]; stage
\* is "top" in the last label, ip is -1 while it has only digits, 1 when it had only digits.
\* Mutant of Dot: a label may be empty.
DotAnywhere(w, right) ==
  LET digits == IF w.stage = "domain" \/ w.ip = 0 THEN w.ip ELSE IF right \notin Digits THEN 0 ELSE 1
      alnum == right \in Digits \cup Alphas
  IN [w EXCEPT !.stage = "domain", !.len = 0, !.level = @ + 1, !.ip = digits, !.ok = (digits = 0 => alnum)]

Dot(w, right) ==
  LET digits == IF w.stage = "domain" \/ w.ip = 0 THEN w.ip ELSE IF right \notin Digits THEN 0 ELSE 1
      starts == CASE w.stage = "top" /\ w.ip = 0 -> right \in Digits \cup Alphas
                  [] w.stage = "domain" /\ w.ip # 1 -> right # "-"
                  [] OTHER -> TRUE
  IN [w EXCEPT !.stage = "domain", !.len = 0, !.level = @ + 1, !.ip = digits, !.ok = w.len > 0 /\ starts]

Letter(w, c, first) ==
  LET known == IF w.stage = "top" /\ ~first /\ w.ip = -1 /\ c \notin Digits THEN 0 ELSE w.ip
      allowed == IF w.stage = "domain" /\ w.ip = 1 THEN Digits
                 ELSE IF first THEN Digits \cup Alphas
                 ELSE Digits \cup Alphas \cup {"-"}
  IN [w EXCEPT !.len = @ + 1, !.ip = known, !.ok = c \in allowed]

\* In the last label, a dot that is the last character changes nothing.
RECURSIVE Walk(_, _, _)
Walk(h, i, w) ==
  IF ~w.ok \/ i = 0 THEN w
  ELSE IF h[i] # "." THEN Walk(h, i - 1, Letter(w, h[i], i = 1))
  ELSE IF w.stage = "top" /\ i = Len(h) THEN Walk(h, i - 1, [w EXCEPT !.ok = i > 1])
  ELSE Walk(h, i - 1, Dot(w, h[i + 1]))

CheckHost(host, port) ==
  LET strip == host[Len(host)] = "."
      h == IF strip THEN SubSeq(host, 1, Len(host) - 1) ELSE host
      end == Walk(h, Len(h), [stage |-> "top", len |-> 0, ip |-> -1, level |-> 0, ok |-> TRUE])
  IN IF host = <<>> \/ h = <<>> THEN Refused
     ELSE IF ~end.ok \/ (end.ip = 1 /\ end.level # 3) \/ end.len = 0 THEN Refused
     ELSE Accepted(h \o port)

request_check_hostname(h) ==
  LET colon == Least(Places(":", h)) IN
  IF h # <<>> /\ h[1] = "[" THEN CheckLiteral(h)
  ELSE IF Places(":", h) = {} THEN CheckHost(h, <<>>)
  ELSE IF ~AllFrom(h, colon + 1, Digits) THEN Refused
  ELSE CheckHost(SubSeq(h, 1, colon - 1), SubSeq(h, colon, Len(h)))

-----------------------------------------------------------------------------
(* http_request_host_normalize; what inet_pton takes for an address is one that stays as it is. *)

\* strtol with base 0: a 0 in front makes it octal.
Value(text) ==
  LET base == IF text[1] = "0" THEN 8 ELSE 10
      digit(c) == (CHOOSE i \in 1 .. 10 : Ten[i] = c) - 1
  IN IF All(text, {Ten[i] : i \in 1 .. base})
     THEN FoldLeft(LAMBDA v, c : v * base + digit(c), 0, text) ELSE -1

\* Mutant of Port: a port is cut to 16 bits.
PortCut(text) == IF text = <<>> THEN 0 ELSE IF Value(text) < 0 THEN -1 ELSE Value(text) % (MaxPort + 1)

\* The port after a colon: 0 when there is none after it, -1 when it is none
Port(text) ==
  IF text = <<>> THEN 0
  ELSE IF Value(text) \in 1 .. MaxPort THEN Value(text) ELSE -1

RECURSIVE Decimal(_)
Decimal(n) == IF n = 0 THEN <<>> ELSE Append(Decimal(n \div 10), Ten[(n % 10) + 1])

WithPort(h, port) == IF port \in {0, SchemePort} THEN h ELSE h \o <<":">> \o Decimal(port)

\* inet_pton, AF_INET6
Address6(a) == All(a, Digits \cup {":"}) /\ a \in {<<":", ":">>, <<":", ":", "1">>}

http_request_host_normalize(h) ==
  LET colon == Least(Places(":", h))
      close == Least(Places("]", h))
      at == IF Head(h) = "[" THEN close + 1 ELSE colon
      port == IF at \in DOMAIN h THEN Port(SubSeq(h, at + 1, Len(h))) ELSE 0
  IN IF Head(h) # "["
     THEN IF Places(":", h) = {} THEN Accepted(h)
          ELSE IF colon = 1 \/ port = -1 THEN Refused
          ELSE Accepted(WithPort(SubSeq(h, 1, colon - 1), port))
     ELSE IF Len(h) <= 2 \/ Places("]", h) = {} THEN Refused
     ELSE IF h[Len(h)] # "]" /\ (h[close + 1] # ":" \/ close = 2 \/ port = -1) THEN Refused
     ELSE LET last == IF h[Len(h)] = "]" THEN Len(h) ELSE close
          IN IF ~Address6(SubSeq(h, 2, last - 1)) THEN Refused
             ELSE Accepted(WithPort(SubSeq(h, 1, last), IF last = Len(h) THEN 0 ELSE port))

-----------------------------------------------------------------------------
Init == name \in Names /\ policy \in {"strict", "normalize"} /\ verdict = Unknown

\* http_request_host_policy, of a Host that is there
http_request_host_policy ==
  /\ verdict = Unknown
  /\ verdict' = IF policy = "strict" THEN request_check_hostname(name)
                ELSE http_request_host_normalize(name)
  /\ UNCHANGED <<name, policy>>

Next == http_request_host_policy
Spec == Init /\ [][Next]_vars

-----------------------------------------------------------------------------
(* The grammar of request.c:23-32, of names without brackets.  Three of its rules are not kept: a  *)
(* label may end with a hyphen, the last label may begin with a digit, and a name may end with two *)
(* dots, one of which stays.                                                                       *)

Labels(h) ==
  LET dots == Places(".", h)
      after(i) == Least({j \in i + 1 .. Len(h) + 1 : j \in dots \/ j = Len(h) + 1})
  IN {SubSeq(h, i + 1, after(i) - 1) : i \in dots \cup {0}}
LastLabel(h) == SubSeq(h, 1 + (CHOOSE i \in Places(".", h) \cup {0} : \A j \in Places(".", h) : j <= i), Len(h))

Label(l) == l # <<>> /\ l[1] # "-" /\ All(l, Digits \cup Alphas \cup {"-"})
Hostname(h) ==
  /\ \A l \in Labels(h) : Label(l)
  /\ Places(".", h) # {} /\ All(LastLabel(h), Digits) =>
       All(h, Digits \cup {"."}) /\ Cardinality(Places(".", h)) = 3

Host(h) == SubSeq(h, 1, Least({i \in 1 .. Len(h) + 1 : i = Len(h) + 1 \/ h[i] = ":"}) - 1)
PortOf(h) == SubSeq(h, Len(Host(h)) + 1, Len(h))
Undotted(h) == IF h # <<>> /\ h[Len(h)] = "." THEN SubSeq(h, 1, Len(h) - 1) ELSE h

\* A strict check accepts the names of the grammar and no others, and takes the dot at the end of
\* one away; a normalised name is normal, is the same host, and names the port only when it is not
\* the one of the scheme (request.c:14, 204).
NamesRead ==
  verdict # Unknown =>
    IF policy = "strict"
    THEN name[1] # "[" =>
           LET h == Undotted(Host(name))
           IN IF Hostname(Undotted(h)) /\ AllFrom(PortOf(name), 2, Digits)
              THEN verdict = Accepted(h \o PortOf(name)) ELSE verdict = Refused
    ELSE verdict.ok =>
           LET again == http_request_host_normalize(verdict.name)
               number(h) == Value(SubSeq(PortOf(h), 2, Len(PortOf(h))))
           IN /\ again = verdict
              /\ name[1] # "[" => Host(verdict.name) = Host(name) /\ PortOf(verdict.name) # <<":">>
              /\ name[1] # "[" => IF PortOf(verdict.name) # <<>>
                                  THEN number(verdict.name) = number(name) /\ number(name) # SchemePort
                                  ELSE Len(PortOf(name)) <= 1 \/ number(name) = SchemePort

=============================================================================
