----------------------------- MODULE MCConPool -----------------------------
(* Instances of ConPool for TLC. *)
EXTENDS ConPool, TLC

CONSTANTS c1, c2, t1, t2, f1, f2, f3

OneWorker == [c \in {c1, c2} |-> t1]
TwoWorkers == c1 :> t1 @@ c2 :> t2

Symmetry == Permutations({f1, f2, f3})
=============================================================================
