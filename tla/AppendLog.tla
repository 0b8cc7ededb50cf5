------------------------------ MODULE AppendLog ------------------------------
(***************************************************************************)
(* What a session's log promises the hooks that share it: an append-only   *)
(* log of lines, at most one of each writer, none of them changed, moved   *)
(* or taken back; and a line its writer knows to be kept is in it from the *)
(* moment the writer knows.                                                *)
(***************************************************************************)
EXTENDS Naturals

VARIABLES
    log,    \* the lines in the log: whose they are, and the offset they start at
    kept    \* the writers that know theirs to be kept

Init == log = {} /\ kept = {}

InLog(w) == \E line \in log : line.of = w

(* One line is added, whole and behind every other.  Its writer may not    *)
(* get to know, if it dies or is interrupted on the way.                   *)
AddLine(line) ==
    /\ ~InLog(line.of)
    /\ \A earlier \in log : earlier.at < line.at
    /\ log' = log \cup {line}
    /\ kept' = kept \/ kept' = kept \cup {line.of}

Next == \E line \in log' \ log : AddLine(line)

Spec == Init /\ [][Next]_<< log, kept >>

=============================================================================
