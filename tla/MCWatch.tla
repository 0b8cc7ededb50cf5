------------------------------ MODULE MCWatch -------------------------------
(* Watch with two requests: a body, and the same or another one. *)
EXTENDS Watch, TLC

CONSTANTS r1, r2, small, big, i1, i2

MCMaySend == [r \in Requests |-> IF r = r1 THEN {small} ELSE {small, big}]
MCResults == (small :> (i1 :> 1)) @@ (big :> ((i1 :> 2) @@ (i2 :> 1)))
=============================================================================
