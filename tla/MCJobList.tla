----------------------------- MODULE MCJobList -----------------------------
(* Instances of JobList for TLC. *)
EXTENDS JobList, TLC

CONSTANTS c1, c2, t1, t2

TwoWorkers == c1 :> t1 @@ c2 :> t2
=============================================================================
