-------------------------- MODULE SettingsRegister --------------------------
(***************************************************************************)
(* What a settings file promises those that share it: it is one register.  *)
(* Whoever looks sees all of what is in it at one moment; a command adds   *)
(* its change to what it planned from, in one step, and only if that is    *)
(* what the register still holds; whatever fails, is interrupted or killed *)
(* leaves it as it was before that step or after it.  An editor, which     *)
(* knows nothing of this, may come between a command's last look and its   *)
(* step.                                                                   *)
(***************************************************************************)
CONSTANTS
    Commands,   \* who may change it, each in its own way
    Hooks,      \* who only look
    Edit,       \* what an editor puts there
    Absent,     \* what it holds when there is no file
    Unread      \* what a process knows that has not looked

VARIABLES
    value,      \* what it holds
    view,       \* what each process saw of it, and has not used yet
    base,       \* what each command plans from
    stage,      \* how far each command is
    outcome,    \* what each process reports
    overtaken   \* the commands an editor came before

vars == << value, view, base, stage, outcome, overtaken >>

Init ==
    /\ value \in {Absent, {}} \cup {{c} : c \in Commands}
    /\ view = [p \in Commands \cup Hooks |-> Unread]
    /\ base = [c \in Commands |-> Unread]
    /\ stage = [c \in Commands |-> "idle"]
    /\ outcome = [p \in Commands \cup Hooks |-> "none"]
    /\ overtaken = {}

-----------------------------------------------------------------------------
(* Whoever looks: all of it at once, or nothing; and as often as it likes. *)

Look(p) ==
    /\ outcome[p] = "none"
    /\ \E seen \in {value, Unread} : view' = [view EXCEPT ![p] = seen]
    /\ UNCHANGED << value, base, stage, outcome, overtaken >>

(* A hook takes what it saw for the settings; the defaults if that was no  *)
(* file; or refuses.                                                       *)
Decide(h) ==
    /\ outcome[h] = "none"
    /\ \E what \in {"settings", "defaults", "refused"} :
          /\ outcome' = [outcome EXCEPT ![h] = what]
          /\ what = "settings" => view[h] \notin {Absent, Unread}
          /\ what = "defaults" => view[h] = Absent
    /\ UNCHANGED << value, view, base, stage, overtaken >>

-----------------------------------------------------------------------------
(* A command. *)

Plan(c) ==
    /\ stage[c] = "idle" /\ stage' = [stage EXCEPT ![c] = "planned"]
    /\ view[c] # Unread
    /\ base' = [base EXCEPT ![c] = view[c]]
    /\ view' = [view EXCEPT ![c] = Unread]
    /\ UNCHANGED << value, outcome, overtaken >>

(* No file is made where there is one by now, and what is there is changed *)
(* only if it is what was planned from, or an editor's who came between.   *)
Save(c) ==
    /\ stage[c] = "planned" /\ stage' = [stage EXCEPT ![c] = "published"]
    /\ \/ base[c] = Absent /\ value = Absent /\ value' = {c}
       \/ /\ base[c] # Absent /\ (value = base[c] \/ c \in overtaken)
          /\ value' = base[c] \cup {c}
    /\ base' = [base EXCEPT ![c] = Unread]
    /\ UNCHANGED << view, outcome, overtaken >>

(* A command comes to its end, or is killed and says nothing.  "same" is   *)
(* said of a change that was there, at a second look too, and "saved" of   *)
(* one that is published; of a failure nothing can be told.                *)
End(c) ==
    /\ stage[c] # "ended" /\ stage' = [stage EXCEPT ![c] = "ended"]
    /\ \E what \in {"none", "refused", "cancelled", "same", "saved", "failed", "interrupted"} :
          /\ outcome' = [outcome EXCEPT ![c] = what]
          /\ what = "refused" => stage[c] = "idle"
          /\ what = "cancelled" => stage[c] = "planned"
          /\ what = "same" =>
                stage[c] = "planned" /\ view[c] = base[c] /\ base[c] # Absent /\ c \in base[c]
          /\ what = "saved" => stage[c] = "published"
    /\ base' = [base EXCEPT ![c] = Unread]
    /\ view' = [view EXCEPT ![c] = Unread]
    /\ UNCHANGED << value, overtaken >>

-----------------------------------------------------------------------------
(* An editor, for which some of the commands may be too far to notice.     *)
EditorWrites ==
    /\ value' \in {Absent, {Edit}}
    /\ \E late \in SUBSET { c \in Commands : stage[c] = "planned" } :
          overtaken' = overtaken \cup late
    /\ UNCHANGED << view, base, stage, outcome >>

-----------------------------------------------------------------------------
Next ==
    \/ \E c \in Commands : Plan(c) \/ Save(c) \/ End(c)
    \/ \E h \in Hooks : Decide(h)
    \/ EditorWrites
    \/ \E p \in Commands \cup Hooks : Look(p)

Spec == Init /\ [][Next]_vars
=============================================================================
