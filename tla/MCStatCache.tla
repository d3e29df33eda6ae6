----------------------------- MODULE MCStatCache -----------------------------
(* StatCache for TLC: two names, with keys of their own and sharing one. *)
EXTENDS StatCache, TLC
CONSTANTS w1, w2, n1, n2, k1, k2, e1, e2, e3

OwnKeys == (n1 :> k1) @@ (n2 :> k2)
OneName == n1 :> k1
OneKey == [n \in {n1, n2} |-> k1]
Config(e, h, f, o) == [engine |-> e, hash |-> h, follow |-> f, overlap |-> o]
C1 == {Config("simple", OneName, TRUE, TRUE)}
C2 == {Config("simple", OneKey, TRUE, FALSE)}
C3 == {Config("none", OneName, FALSE, TRUE)}
C4 == {Config("fam", OwnKeys, TRUE, FALSE)}
AllConfigs == C1 \cup C2 \cup C3 \cup C4
Perms == Permutations({w1, w2}) \cup Permutations({e1, e2, e3})
=============================================================================
