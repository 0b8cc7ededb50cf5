----------------------------- MODULE LedgerMove -----------------------------
(***************************************************************************)
(* The move of a 0.2.0 ledger month (cli/migration.ledger_files) beside    *)
(* hooks that append to the month of that name (ledger.append) and a user  *)
(* who purges it (ledger.purge).                                           *)
(*                                                                         *)
(* report, ledger show, ledger purge and install move what they find, and  *)
(* may run at once; each may die at any step.  An append is one step: it   *)
(* is made under the file's lock, and what Journal shows of one that dies  *)
(* half way is left out.  The old and the new folder are on one device.    *)
(*                                                                         *)
(* A file is an inode: Legacy is the month 0.2.0 left, p the one that      *)
(* process p made by opening the new month.  It holds records: a hook's    *)
(* is the hook, Past stands for all that 0.2.0 wrote.                      *)
(***************************************************************************)
EXTENDS Naturals, Sequences, SequencesExt

CONSTANTS
    Hooks,      \* the hooks with a record to append
    Movers,     \* the commands that move
    Past,       \* the lines 0.2.0 wrote
    Legacy, NoFile,
    Cap         \* MAX_LEDGER_BYTES, in records

ASSUME NamesAssumption ==
    /\ Cap \in Nat \ {0} /\ Hooks \cap Movers = {} /\ Past \notin Hooks
    /\ Legacy \notin Hooks \cup Movers /\ NoFile \notin Hooks \cup Movers \cup {Legacy}

Procs == Hooks \cup Movers
Inodes == Procs \cup {Legacy}

VARIABLES
    old,        \* the inode at the 0.2.0 path, or NoFile
    new,        \* the inode at the new path, or NoFile
    lines,      \* the records in each inode
    pc,         \* what each process does next
    opened,     \* the inode each process has open
    blob,       \* what a mover has read of the old month
    told,       \* what each process reports
    before,     \* history: the hooks' records in the month when a mover looked
    purged      \* the user has purged the ledger

vars == << old, new, lines, pc, opened, blob, told, before, purged >>

Init ==
    /\ old = Legacy /\ new = NoFile
    /\ lines = [i \in Inodes |-> IF i = Legacy THEN << Past >> ELSE << >>]
    /\ pc = [p \in Procs |-> "start"]
    /\ opened = [p \in Procs |-> NoFile]
    /\ blob = [m \in Movers |-> << >>]
    /\ told = [p \in Procs |-> "nothing"]
    /\ before = [m \in Movers |-> {}]
    /\ purged = "no"

Goto(p, point) == pc' = [pc EXCEPT ![p] = point]
Tells(p, what) == told' = [told EXCEPT ![p] = what]

(* _open_for_append: O_CREAT. *)
OpenNew(p) ==
    /\ new' = IF new = NoFile THEN p ELSE new
    /\ opened' = [opened EXCEPT ![p] = new']

-----------------------------------------------------------------------------
(* ledger.append. *)

HookOpen(h) ==
    /\ pc[h] = "start"
    /\ OpenNew(h) /\ Goto(h, "append")
    /\ UNCHANGED << old, lines, blob, told, before, purged >>

HookAppend(h) ==
    /\ pc[h] = "append"
    /\ Goto(h, "done")
    /\ IF Len(lines[opened[h]]) < Cap
       THEN lines' = [lines EXCEPT ![opened[h]] = Append(@, h)] /\ Tells(h, "kept")
       ELSE UNCHANGED lines /\ Tells(h, "refused")
    /\ UNCHANGED << old, new, opened, blob, before, purged >>

-----------------------------------------------------------------------------
(* migration.ledger_files. *)

(* The folder of 0.2.0 is listed. *)
Find(m) ==
    /\ pc[m] = "start"
    /\ Goto(m, IF old = NoFile THEN "done" ELSE "exists")
    /\ UNCHANGED << old, new, lines, opened, blob, told, before, purged >>

InMonth(record) == new # NoFile /\ Contains(lines[new], record)
Sees(m) == before' = [before EXCEPT ![m] = {h \in Hooks : InMonth(h)}]

(* Mutant: a month on both sides is moved like any other. *)
MutantExists(m) ==
    /\ pc[m] = "exists" /\ Goto(m, "replace") /\ Sees(m)
    /\ UNCHANGED << old, new, lines, opened, blob, told, purged >>

(* destination.exists(). *)
Exists(m) ==
    /\ pc[m] = "exists"
    /\ Goto(m, IF new = NoFile THEN "replace" ELSE "read") /\ Sees(m)
    /\ UNCHANGED << old, new, lines, opened, blob, told, purged >>

(* _move, os.replace: over whatever has the new name by now. *)
Replace(m) ==
    /\ pc[m] = "replace" /\ Goto(m, "done")
    /\ \/ old # NoFile /\ new' = old /\ old' = NoFile /\ Tells(m, "moved")
       \/ UNCHANGED << old, new >> /\ Tells(m, "failed")
    /\ UNCHANGED << lines, opened, blob, before, purged >>

(* _merge_ledger: source.read_bytes(). *)
ReadOld(m) ==
    /\ pc[m] = "read"
    /\ \/ /\ old # NoFile
          /\ blob' = [blob EXCEPT ![m] = lines[old]] /\ Goto(m, "open")
       \/ Goto(m, "done") /\ UNCHANGED blob
    /\ UNCHANGED << old, new, lines, opened, told, before, purged >>

OpenMonth(m) ==
    /\ pc[m] = "open"
    /\ OpenNew(m) /\ Goto(m, "merge")
    /\ UNCHANGED << old, lines, blob, told, before, purged >>

(* Mutant: what the cap leaves no room for is dropped. *)
MutantMerge(m) ==
    /\ pc[m] = "merge" /\ Goto(m, "unlink")
    /\ IF Len(lines[opened[m]]) + Len(blob[m]) <= Cap
       THEN lines' = [lines EXCEPT ![opened[m]] = @ \o blob[m]]
       ELSE UNCHANGED lines
    /\ UNCHANGED << old, new, opened, blob, told, before, purged >>

(* One append of the whole blob; or none, when the cap leaves no room or   *)
(* the append fails.                                                       *)
Merge(m) ==
    /\ pc[m] = "merge"
    /\ \/ /\ Len(lines[opened[m]]) + Len(blob[m]) <= Cap
          /\ lines' = [lines EXCEPT ![opened[m]] = @ \o blob[m]] /\ Goto(m, "unlink")
       \/ UNCHANGED lines /\ Goto(m, "done")
    /\ UNCHANGED << old, new, opened, blob, told, before, purged >>

(* source.unlink(), suppressed when it fails. *)
UnlinkOld(m) ==
    /\ pc[m] = "unlink" /\ Goto(m, "done") /\ Tells(m, "moved")
    /\ \/ old' = NoFile
       \/ UNCHANGED old
    /\ UNCHANGED << new, lines, opened, blob, before, purged >>

Dies(m) ==
    /\ pc[m] \notin {"done", "dead"} /\ Goto(m, "dead")
    /\ UNCHANGED << old, new, lines, opened, blob, told, before, purged >>

-----------------------------------------------------------------------------
(* ledger.purge, once. *)
Purge ==
    /\ purged = "no" /\ purged' = "yes"
    /\ new' = NoFile
    /\ UNCHANGED << old, lines, pc, opened, blob, told, before >>

MoverStep(m) ==
    \/ Find(m) \/ Exists(m) \/ Replace(m) \/ ReadOld(m) \/ OpenMonth(m) \/ Merge(m)
    \/ UnlinkOld(m) \/ Dies(m)

AllOver == (\A p \in Procs : pc[p] \in {"done", "dead"}) /\ UNCHANGED vars

Next ==
    \/ \E h \in Hooks : HookOpen(h) \/ HookAppend(h)
    \/ \E m \in Movers : MoverStep(m)
    \/ Purge
    \/ AllOver

Spec == Init /\ [][Next]_vars

-----------------------------------------------------------------------------
(* Properties. *)

Records == Hooks \cup {Past}

TypeOK ==
    /\ old \in {Legacy, NoFile} /\ new \in Inodes \cup {NoFile}
    /\ lines \in [Inodes -> Seq(Records)]
    /\ pc \in [Procs -> {"start", "append", "exists", "replace", "read", "open", "merge",
                         "unlink", "done", "dead"}]
    /\ opened \in [Procs -> Inodes \cup {NoFile}]
    /\ blob \in [Movers -> Seq(Records)]
    /\ told \in [Procs -> {"nothing", "kept", "refused", "moved", "failed"}]
    /\ before \in [Movers -> SUBSET Hooks]
    /\ purged \in {"no", "yes"}

(* What 0.2.0 wrote is never lost on the way: until the user purges, it is *)
(* in the old month or in the new one, whichever commands race or die.     *)
PastIsKept == purged = "no" => InMonth(Past) \/ (old # NoFile /\ Contains(lines[old], Past))

(* A record the ledger kept leaves the new month by a purge, or by the     *)
(* rename of a command that looked before the record was there.            *)
KeptLeavesByRename ==
    [][\A h \in Hooks :
          InMonth(h) /\ ~InMonth(h)' =>
             purged' # purged \/ \E m \in Movers : pc[m] = "replace" /\ h \notin before[m]]_vars

-----------------------------------------------------------------------------
(* What the documentation says, and the code does not do. *)

(* migration.py: "Same month on both sides of the rename: keep both files' *)
(* lines".                                                                 *)
BothAreKept ==
    purged = "no" => \A h \in Hooks : told[h] = "kept" => InMonth(h)

(* releases/0.3.0.md: the commands "report each move once, and cannot      *)
(* repeat it because the old file is gone".                                *)
MovedOnce == new # NoFile => Len(SelectSeq(lines[new], LAMBDA r : r = Past)) <= 1

=============================================================================
