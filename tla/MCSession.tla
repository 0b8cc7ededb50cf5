----------------------------- MODULE MCSession -----------------------------
(* What a session keeps: its placeholder names, its summaries, and what a   *)
(* summary says.  A behaviour is of one of the three, which share no file.  *)
EXTENDS Names, StopHook, Summary

CONSTANTS h1, h2, h3, c1, r1, r2, r3, s1, s2, run1, run2

Symmetry == Permutations(Hooks) \cup Permutations(Recorders) \cup Permutations(Stops)

VARIABLE part

sessionvars == << vars, stopvars, records, part >>

SessionInit ==
    /\ part \in {"names", "stops", "summary"} /\ Init /\ StopInit /\ SummaryInit
    /\ part # "names" => run = [p \in Procs |-> run1]

Idle(v, p) == part # p => UNCHANGED v

SessionNext ==
    /\ UNCHANGED part
    /\ Idle(vars, "names") /\ Idle(stopvars, "stops") /\ Idle(records, "summary")
    /\ \/ part = "names" /\ Next
       \/ part = "stops" /\ StopNext
       \/ part = "summary" /\ SummaryNext

SessionSpec == SessionInit /\ [][SessionNext]_sessionvars
=============================================================================
