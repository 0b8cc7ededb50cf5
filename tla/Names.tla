------------------------------- MODULE Names -------------------------------
(***************************************************************************)
(* The placeholder names shim issued in a session: spool.issue and issued, *)
(* as hook._issue and hook._issued use them around a tool event.           *)
(*                                                                         *)
(* A hook that masks a result keeps the names of its placeholders before   *)
(* it hands the result to the model.  A hook that sees the model write a   *)
(* file asks for the names, and refuses the write when it holds one, or    *)
(* when they cannot be read.  The session's end removes the file.          *)
(*                                                                         *)
(* A read or an append is one step: both are made under the file's lock,   *)
(* and Journal shows that nobody sees the middle of one, save what a       *)
(* process leaves that dies in it.  A line is EMAIL, 1, 3, and a newline,  *)
(* in four parts; what was written of it is <<line, parts>>.               *)
(***************************************************************************)
EXTENDS Naturals, Sequences

CONSTANTS
    Hooks,      \* the hooks that mask a result
    Checkers,   \* the hooks that see a write
    Runs,       \* runs of placeholder numbers, in the order they are numbered
    Cap         \* MAX_NAMES_BYTES, in lines

ASSUME NamesAssumption == Cap \in Nat /\ Hooks \cap Checkers = {}

Procs == Hooks \cup Checkers

VARIABLES
    run,        \* the names each process is about: to keep, or in the write
    pc,         \* what each process does next
    opened,     \* the file a hook has open: 1, or 2 once 1 is removed
    kept,       \* the two files' lines
    cleared,    \* the session's end has removed the first file
    outcome     \* what each process answers

vars == << run, pc, opened, kept, cleared, outcome >>

Whole == 4

Init ==
    /\ run \in [Procs -> Runs]
    /\ pc = [p \in Procs |-> "start"]
    /\ opened = [h \in Hooks |-> 1]
    /\ kept = [n \in 1..2 |-> << >>]
    /\ cleared = "no"
    /\ outcome = [p \in Procs |-> "none"]

Current == IF cleared = "yes" THEN 2 ELSE 1
Goto(p, point) == pc' = [pc EXCEPT ![p] = point]
Answers(p, what) == outcome' = [outcome EXCEPT ![p] = what] /\ Goto(p, "done")

(* Every line has three fields, the last two of them numbers: a line not   *)
(* written whole is glued to the next, and is noticed unless it stopped    *)
(* within its first field, or is the last and lacks no more than its       *)
(* newline.                                                                *)
Readable(lines) ==
    \A i \in DOMAIN lines :
        \/ lines[i][2] = Whole
        \/ lines[i][2] = 3 /\ i = Len(lines)
        \/ lines[i][2] = 1 /\ i < Len(lines)

(* The runs spool.issued returns: a line glued to the one before it is of  *)
(* another type.                                                           *)
Issued(lines) ==
    {lines[i][1] : i \in {j \in DOMAIN lines :
        lines[j][2] >= 3 /\ (j > 1 => lines[j - 1][2] = Whole)}}

-----------------------------------------------------------------------------
(* spool.issue. *)

(* The names kept already; a run among them is not written again. *)
Keep(h) ==
    /\ pc[h] = "start"
    /\ \/ ~Readable(kept[Current]) /\ Answers(h, "refused")
       \/ /\ Readable(kept[Current]) /\ run[h] \in Issued(kept[Current])
          /\ Answers(h, "handed")
       \/ /\ Readable(kept[Current]) /\ run[h] \notin Issued(kept[Current])
          /\ Goto(h, "open") /\ UNCHANGED outcome
    /\ UNCHANGED << run, opened, kept, cleared >>

Open(h) ==
    /\ pc[h] = "open"
    /\ opened' = [opened EXCEPT ![h] = Current] /\ Goto(h, "append")
    /\ UNCHANGED << run, kept, cleared, outcome >>

Adds(h, parts) == kept' = [kept EXCEPT ![opened[h]] = Append(@, << run[h], parts >>)]

(* Mutant: at the cap the result is handed over all the same. *)
MutantAppendLine(h) ==
    /\ pc[h] = "append"
    /\ Answers(h, "handed")
    /\ IF Len(kept[opened[h]]) < Cap THEN Adds(h, Whole) ELSE UNCHANGED kept
    /\ UNCHANGED << run, opened, cleared >>

AppendLine(h) ==
    /\ pc[h] = "append" /\ Len(kept[opened[h]]) < Cap
    /\ Adds(h, Whole) /\ Answers(h, "handed")
    /\ UNCHANGED << run, opened, cleared >>

(* "placeholder names reached their cap": the result is not handed over. *)
AppendRefused(h) ==
    /\ pc[h] = "append" /\ Len(kept[opened[h]]) >= Cap
    /\ Answers(h, "refused")
    /\ UNCHANGED << run, opened, kept, cleared >>

(* No lock in time, no room, an error: the line is taken back. *)
AppendFails(h) ==
    /\ pc[h] \in {"start", "open", "append"}
    /\ Answers(h, "refused")
    /\ UNCHANGED << run, opened, kept, cleared >>

(* The hook is killed, or its timer ends it, in the middle of the append.  *)
AppendDies(h) ==
    /\ pc[h] = "append" /\ Len(kept[opened[h]]) < Cap
    /\ \E parts \in 1..Whole : Adds(h, parts)
    /\ Goto(h, "dead")
    /\ UNCHANGED << run, opened, cleared, outcome >>

-----------------------------------------------------------------------------
(* hook._issued, for a write that holds a name of run[c]. *)
Check(c) ==
    /\ pc[c] = "start"
    /\ Answers(c, IF Readable(kept[Current]) /\ run[c] \notin Issued(kept[Current])
                  THEN "written" ELSE "refused")
    /\ UNCHANGED << run, opened, kept, cleared >>

(* SessionEnd: spool.clear takes no lock, and a hook may have the file open. *)
Clear ==
    /\ cleared = "no" /\ cleared' = "yes"
    /\ UNCHANGED << run, pc, opened, kept, outcome >>

HookStep(h) ==
    \/ Keep(h) \/ Open(h) \/ AppendLine(h) \/ AppendRefused(h) \/ AppendFails(h)
    \/ AppendDies(h)

AllOver == (\A p \in Procs : pc[p] \in {"done", "dead"}) /\ UNCHANGED vars

Next ==
    \/ \E h \in Hooks : HookStep(h)
    \/ \E c \in Checkers : Check(c)
    \/ Clear
    \/ AllOver

Spec == Init /\ [][Next]_vars

-----------------------------------------------------------------------------
(* Properties. *)

TypeOK ==
    /\ run \in [Procs -> Runs]
    /\ pc \in [Procs -> {"start", "open", "append", "done", "dead"}]
    /\ opened \in [Hooks -> 1..2]
    /\ kept \in [1..2 -> Seq(Runs \X (1..Whole))]
    /\ cleared \in {"no", "yes"}
    /\ outcome \in [Procs -> {"none", "handed", "refused", "written"}]

(* The names handed to the model in this session. *)
Handed(r) == \E h \in Hooks : run[h] = r /\ outcome[h] = "handed"

(* A hook died within the first field of its line, and the next line hides *)
(* behind what it left.                                                    *)
Hidden == \E i \in DOMAIN kept[1] : kept[1][i][2] = 1

(* Until the session ends, every name the model was handed is one that     *)
(* spool.issued returns, or it raises: whatever hooks race, fail and die.  *)
HandedIsKnown ==
    cleared = "no" /\ Readable(kept[1]) /\ ~Hidden =>
        \A r \in Runs : Handed(r) => r \in Issued(kept[1])

(* A name the model was handed before is not written to a file. *)
NoWriteBack ==
    [][\A c \in Checkers :
          outcome[c] = "none" /\ outcome'[c] = "written" /\ cleared = "no" /\ ~Hidden
             => ~Handed(run[c])]_vars

(* The inductive invariant: a line that was handed over is there, for all  *)
(* that is appended behind it, until the file is removed.                  *)
IsThere(r, lines) == \E i \in DOMAIN lines : lines[i][1] = r /\ lines[i][2] >= 3

HandedInv ==
    cleared = "no" =>
        /\ \A h \in Hooks : opened[h] = 1
        /\ \A h \in Hooks : outcome[h] = "handed" => IsThere(run[h], kept[1])

-----------------------------------------------------------------------------
(* What the documentation says, and the code does not do. *)

(* spool.issued: "Raises when they cannot all be read".  It does not when  *)
(* the line in front stopped within its first field.                       *)
RaisesUnlessAll ==
    cleared = "no" /\ Readable(kept[1]) => \A r \in Runs : Handed(r) => r \in Issued(kept[1])

=============================================================================
