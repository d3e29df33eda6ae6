---------------------------- MODULE HttpSession ----------------------------
(***************************************************************************)
(* What the server promises about one client connection, without saying   *)
(* how: it waits for a request, is busy with it, and either waits for the  *)
(* next one, having answered this one completely, or closes.  Requests are *)
(* logged once each, when their answer ends and not before.                *)
(***************************************************************************)
EXTENDS Naturals

VARIABLES phase,     \* "free", "waiting", "busy" or "closing"
          taken,     \* requests taken from the client on this connection
          logged     \* requests handed to the handle_request_done hooks

vars == <<phase, taken, logged>>

Init == phase = "free" /\ taken = 0 /\ logged = 0

\* A client connects; the counters of an earlier client are forgotten.
Open == phase = "free" /\ phase' = "waiting" /\ taken' = 0 /\ logged' = 0

\* A request is taken; its predecessors have all been answered and logged.
Take == /\ phase = "waiting" /\ logged = taken
        /\ phase' = "busy" /\ taken' = taken + 1 /\ UNCHANGED logged

\* The answer ended and the connection is kept for the next request.
Finish == /\ phase = "busy" /\ logged + 1 = taken
          /\ phase' = "waiting" /\ logged' = taken /\ UNCHANGED taken

\* The answer ended, or the connection failed; the request is logged at most once.
Hangup == /\ phase \in {"waiting", "busy"} /\ phase' \in {"closing", "free"}
          /\ UNCHANGED taken
          /\ logged' \in (IF phase = "busy" THEN {logged, taken} ELSE {logged})

Close == phase = "closing" /\ phase' = "free" /\ UNCHANGED <<taken, logged>>

Next == Open \/ Take \/ Finish \/ Hangup \/ Close

Spec == Init /\ [][Next]_vars
=============================================================================
