------------------------------- MODULE Journal -------------------------------
(***************************************************************************)
(* One journal file shared by hook processes: session/_files.py as the     *)
(* spool's log uses it (spool.append, spool.entries, record.remember).     *)
(*                                                                         *)
(* Parallel hooks append a line each and a summary reads the file.  flock  *)
(* keeps them apart and is waited for LOCK_WAIT_SECONDS at most; a write   *)
(* may be short, fail, or be interrupted by the hook's alarm, whose        *)
(* TimeoutError is an OSError; and a process may die at any point: the     *)
(* hook's timer calls os._exit, the client kills.                          *)
(*                                                                         *)
(* The file is a sequence of units, <<p, k>> being the k-th of the line of *)
(* process p; the last unit of a line holds its newline.                   *)
(***************************************************************************)
EXTENDS Naturals, Sequences, FiniteSets

CONSTANTS
    Writers,    \* the processes with a record to append
    Readers,    \* the processes that read the file
    Steady,     \* the process that is known to run
    MaxEntry,   \* MAX_ENTRY_BYTES, in units
    Limit       \* MAX_SPOOL_BYTES, in units

ASSUME SizesAssumption ==
    /\ MaxEntry \in Nat \ {0} /\ Limit \in Nat /\ MaxEntry <= Limit
    /\ Writers \cap Readers = {} /\ Steady \in Writers \cup Readers

Procs == Writers \cup Readers

VARIABLES
    length,     \* units in the line each writer has to append
    pc,         \* what each process does next
    file,       \* the units in the file
    locked,     \* the flock each process holds: "none", "SH" or "EX"
    before,     \* the size a writer found under its lock
    sent,       \* units of its line a writer has written
    lost,       \* the `.lost` marker exists
    outcome,    \* what became of each writer's record, as its process knows it
    got         \* what each reader has read

vars == << length, pc, file, locked, before, sent, lost, outcome, got >>

Units(p, from, to) == [k \in 1..(to - from + 1) |-> << p, from + k - 1 >>]

Init ==
    /\ length \in [Writers -> 1..(MaxEntry + 1)]
    /\ pc = [p \in Procs |-> "start"]
    /\ file = << >>
    /\ locked = [p \in Procs |-> "none"]
    /\ before = [w \in Writers |-> 0]
    /\ sent = [w \in Writers |-> 0]
    /\ lost = "no"
    /\ outcome = [w \in Writers |-> "none"]
    /\ got = [r \in Readers |-> << >>]

Goto(p, point) == pc' = [pc EXCEPT ![p] = point]
Unlock(p) == locked' = [locked EXCEPT ![p] = "none"]
Ends(w, result) == outcome' = [outcome EXCEPT ![w] = result]

(* Mutant: appends take the shared lock. *)
MutantIsFree(p, kind) == \A q \in Procs \ {p} : p \in Writers \/ locked[q] # "EX"

(* flock, LOCK_NB: an EX lock excludes every other, an SH lock an EX one. *)
IsFree(p, kind) ==
    \A q \in Procs \ {p} : IF kind = "EX" THEN locked[q] = "none" ELSE locked[q] # "EX"

-----------------------------------------------------------------------------
(* spool.append, as remember() calls it. *)

(* A line over MAX_ENTRY_BYTES is not tried, and neither is one whose      *)
(* folder cannot be opened; remember() swallows the SpoolError.            *)
GiveUp(w) ==
    /\ pc[w] = "start"
    /\ Goto(w, "done") /\ Ends(w, "dropped")
    /\ UNCHANGED << length, file, locked, before, sent, lost, got >>

(* _open_for_append, O_APPEND | O_CREAT. *)
OpenToAppend(w) ==
    /\ pc[w] = "start" /\ length[w] <= MaxEntry
    /\ \E opened \in BOOLEAN : Goto(w, IF opened THEN "lock" ELSE "mark")
    /\ UNCHANGED << length, file, locked, before, sent, lost, outcome, got >>

LockToAppend(w) ==
    /\ pc[w] = "lock" /\ IsFree(w, "EX")
    /\ locked' = [locked EXCEPT ![w] = "EX"]
    /\ Goto(w, "stat")
    /\ UNCHANGED << length, file, before, sent, lost, outcome, got >>

(* Mutant: the lock is waited for until it is free. *)
MutantLockFails(w) == FALSE /\ UNCHANGED vars

(* lock(): BlockingIOError once the wait is over; or the alarm, before the *)
(* line is begun.                                                          *)
LockFails(w) ==
    /\ pc[w] \in {"lock", "stat"}
    /\ Unlock(w) /\ Goto(w, "mark")
    /\ UNCHANGED << length, file, before, sent, lost, outcome, got >>

(* Mutant: the cap is checked before the line is counted. *)
MutantFits(w) == Len(file) < Limit

Fits(w) == Len(file) + length[w] <= Limit

Stat(w) ==
    /\ pc[w] = "stat"
    /\ before' = [before EXCEPT ![w] = Len(file)]
    /\ \/ Fits(w) /\ Goto(w, "write") /\ UNCHANGED << locked, outcome >>
       \/ ~Fits(w) /\ Goto(w, "done") /\ Unlock(w) /\ Ends(w, "refused")
    /\ UNCHANGED << length, file, sent, lost, got >>

(* os.write: at least one unit, not always the rest. *)
Write(w) ==
    /\ pc[w] = "write"
    /\ \E to \in (sent[w] + 1)..length[w] :
          /\ file' = file \o Units(w, sent[w] + 1, to)
          /\ sent' = [sent EXCEPT ![w] = to]
          /\ Goto(w, IF to = length[w] THEN "wrote" ELSE "write")
    /\ UNCHANGED << length, locked, before, lost, outcome, got >>

(* os.write fails, or the alarm strikes in the loop. *)
WriteFails(w) ==
    /\ pc[w] \in {"write", "wrote"}
    /\ Goto(w, "truncate")
    /\ UNCHANGED << length, file, locked, before, sent, lost, outcome, got >>

(* os.ftruncate to the size found under the lock, which is still held, and *)
(* the close that ends it.                                                 *)
Truncate(w) ==
    /\ pc[w] = "truncate"
    /\ file' = SubSeq(file, 1, before[w])
    /\ Unlock(w) /\ Goto(w, "mark")
    /\ UNCHANGED << length, before, sent, lost, outcome, got >>

(* append() returns; an alarm on the way still marks a record lost that    *)
(* was kept.                                                               *)
Return(w) ==
    /\ pc[w] = "wrote"
    /\ Unlock(w)
    /\ \/ Goto(w, "done") /\ Ends(w, "kept")
       \/ Goto(w, "mark") /\ UNCHANGED outcome
    /\ UNCHANGED << length, file, before, sent, lost, got >>

(* mark_lost(), which may fail too. *)
MarkLost(w) ==
    /\ pc[w] = "mark"
    /\ Goto(w, "done")
    /\ \/ lost' = "yes" /\ Ends(w, "marked")
       \/ UNCHANGED lost /\ Ends(w, "dropped")
    /\ UNCHANGED << length, file, locked, before, sent, got >>

-----------------------------------------------------------------------------
(* _files.read. *)

OpenToRead(r) ==
    /\ pc[r] = "start"
    /\ Goto(r, "lock")
    /\ UNCHANGED << length, file, locked, before, sent, lost, outcome, got >>

LockToRead(r) ==
    /\ pc[r] = "lock" /\ IsFree(r, "SH")
    /\ locked' = [locked EXCEPT ![r] = "SH"]
    /\ Goto(r, "read")
    /\ UNCHANGED << length, file, before, sent, lost, outcome, got >>

(* The lock was not free in time, or a read failed: the summary is silent. *)
ReadFails(r) ==
    /\ pc[r] \in {"lock", "read"}
    /\ Unlock(r) /\ Goto(r, "failed")
    /\ UNCHANGED << length, file, before, sent, lost, outcome, got >>

(* os.read, chunk by chunk, until it returns nothing. *)
ReadChunk(r) ==
    /\ pc[r] = "read" /\ Len(got[r]) < Len(file)
    /\ \E to \in (Len(got[r]) + 1)..Len(file) :
          got' = [got EXCEPT ![r] = @ \o SubSeq(file, Len(@) + 1, to)]
    /\ UNCHANGED << length, pc, file, locked, before, sent, lost, outcome >>

ReadEnds(r) ==
    /\ pc[r] = "read" /\ Len(got[r]) >= Len(file)
    /\ Unlock(r) /\ Goto(r, "done")
    /\ UNCHANGED << length, file, before, sent, lost, outcome, got >>

-----------------------------------------------------------------------------
(* os._exit from the hook's timer, or the client's kill: the kernel closes *)
(* the descriptor, and the lock goes with it.                              *)
Dies(p) ==
    /\ pc[p] \notin {"done", "failed", "dead"}
    /\ Unlock(p) /\ Goto(p, "dead")
    /\ UNCHANGED << length, file, before, sent, lost, outcome, got >>

WriterStep(w) ==
    \/ GiveUp(w) \/ OpenToAppend(w) \/ LockToAppend(w) \/ LockFails(w) \/ Stat(w)
    \/ Write(w) \/ WriteFails(w) \/ Truncate(w) \/ Return(w) \/ MarkLost(w)

ReaderStep(r) ==
    \/ OpenToRead(r) \/ LockToRead(r) \/ ReadFails(r) \/ ReadChunk(r) \/ ReadEnds(r)

Over(p) == pc[p] \in {"done", "failed", "dead"}

AllOver == (\A p \in Procs : Over(p)) /\ UNCHANGED vars

Next ==
    \/ \E w \in Writers : WriterStep(w)
    \/ \E r \in Readers : ReaderStep(r)
    \/ \E p \in Procs : Dies(p)
    \/ AllOver

Spec == Init /\ [][Next]_vars

(* Only one process is known to run: every other may hang, or be stopped,  *)
(* with a lock in its hand.                                                *)
FairSpec ==
    /\ Spec
    /\ Steady \in Writers => WF_vars(WriterStep(Steady))
    /\ Steady \in Readers => WF_vars(ReaderStep(Steady))

-----------------------------------------------------------------------------
(* Properties. *)

TypeOK ==
    /\ length \in [Writers -> 1..(MaxEntry + 1)]
    /\ pc \in [Procs -> {"start", "lock", "stat", "write", "wrote", "truncate", "mark",
                         "read", "failed", "done", "dead"}]
    /\ file \in Seq(Writers \X (1..MaxEntry))
    /\ locked \in [Procs -> {"none", "SH", "EX"}]
    /\ before \in [Writers -> 0..Limit]
    /\ sent \in [Writers -> 0..MaxEntry]
    /\ lost \in {"no", "yes"}
    /\ outcome \in [Writers -> {"none", "dropped", "refused", "kept", "marked"}]
    /\ got \in [Readers -> Seq(Writers \X (1..MaxEntry))]

IsNewline(unit) == unit[2] = length[unit[1]]

(* The line of w stands in some units, whole and in one stretch, ... *)
HasLineAt(units, w, at) == \A k \in 1..length[w] : units[at + k] = << w, k >>

HasLine(units, w) == \E at \in 0..(Len(units) - length[w]) : HasLineAt(units, w, at)

(* ... and from the start of a line, so that spool._parse finds it. *)
Parses(units, w) ==
    \E at \in 0..(Len(units) - length[w]) :
        HasLineAt(units, w, at) /\ (at = 0 \/ IsNewline(units[at]))

(* Mutant: only a log with no room for a single byte counts as at its cap. *)
MutantAtCap == lost = "yes" \/ Len(file) >= Limit

(* spool._at_cap: what makes a summary say that it undercounts. *)
AtCap == lost = "yes" \/ Len(file) + MaxEntry > Limit

(* The log never outgrows MAX_SPOOL_BYTES, however appends race. *)
WithinLimit == Len(file) <= Limit

(* Only the writer at work and the dead leave part of a line: an append    *)
(* that fails takes back what it wrote, and nothing else.                  *)
TornOnlyByTheDead ==
    \A i \in 1..Len(file) :
        LET w == file[i][1] IN
        pc[w] \in {"write", "truncate", "dead"} \/ HasLine(file, w)

(* A record its hook was told is kept stays in the file, whole, whatever   *)
(* later appends do, or take back.                                         *)
KeptStays == \A w \in Writers : outcome[w] = "kept" => HasLine(file, w)

(* It fails to parse only behind the torn line of a writer that died.      *)
KeptIsCounted ==
    \A w \in Writers : outcome[w] = "kept" =>
        \/ Parses(file, w)
        \/ \E v \in Writers : pc[v] = "dead" /\ sent[v] > 0 /\ ~HasLine(file, v)

(* A summary never reads part of a line that is still being written, or    *)
(* was taken back.                                                         *)
ReadsWholeLines ==
    \A r \in Readers : pc[r] = "done" =>
        \A i \in 1..Len(got[r]) :
            LET w == got[r][i][1] IN HasLine(got[r], w) \/ pc[w] = "dead"

(* However writers race, fail and die, a line is in the log whole, for good *)
(* and where a reader finds it, or is of a writer at work or dead.         *)
LinesAreWhole == TornOnlyByTheDead /\ KeptStays /\ KeptIsCounted /\ ReadsWholeLines

(* A record refused at the cap, or marked lost, is one capped() tells of.  *)
LossIsTold ==
    \A w \in Writers : outcome[w] \in {"refused", "marked"} => AtCap

(* The cap holds, and never takes a record in silence (spool.append).      *)
LimitIsTold == WithinLimit /\ LossIsTold

(* What a reader may rely on: the bytes below where the writer at work     *)
(* began.                                                                  *)
InFile == {"write", "wrote", "truncate"}

Settled ==
    IF \E w \in Writers : pc[w] \in InFile
    THEN before[CHOOSE w \in Writers : pc[w] \in InFile]
    ELSE Len(file)

LineEndsBy(size, i) ==
    LET w == file[i][1] IN i - 1 + length[w] <= size /\ HasLineAt(file, w, i - 1)

LinesWithin(size) ==
    { [at |-> i - 1, of |-> file[i][1]] : i \in { i \in 1..size : LineEndsBy(size, i) } }

Lines == LinesWithin(Settled)

(* The journal is an append-only log: AppendLog, with a line in the log    *)
(* once its writer lets go of the lock.                                    *)
Log == INSTANCE AppendLog WITH
    log <- Lines,
    kept <- {w \in Writers : outcome[w] = "kept"}

ImplementsAppendLog == Log!Spec

(* A lock is waited for briefly, never indefinitely: an operation ends     *)
(* whatever the processes it shares the file with do.                      *)
SteadyEnds == <>Over(Steady)

(* The inductive invariant behind the properties that are proved. *)

(* An EX lock is held alone, and every point that needs a lock has one.    *)
LockInv ==
    /\ \A p, q \in Procs : p # q /\ locked[p] = "EX" => locked[q] = "none"
    /\ \A w \in Writers : pc[w] \in {"stat"} \cup InFile => locked[w] = "EX"

(* The writer at work has put its own units after what it found, and has   *)
(* room for the rest.                                                      *)
AtWork(w) ==
    /\ before[w] + length[w] <= Limit
    /\ Len(file) = before[w] + sent[w]
    /\ \A k \in 1..sent[w] : file[before[w] + k] = << w, k >>

WriterInv(w) ==
    /\ pc[w] \in {"lock", "stat"} \cup InFile => length[w] <= MaxEntry
    /\ pc[w] \in {"start", "lock", "stat"} => sent[w] = 0
    /\ pc[w] = "write" => sent[w] < length[w]
    /\ pc[w] = "wrote" => sent[w] = length[w]
    /\ pc[w] \in InFile => AtWork(w)

WriteInv == Len(file) <= Limit /\ \A w \in Writers : WriterInv(w)

(* A line that is kept stands below what any later writer may take back.   *)
StandsAt(w, at) ==
    /\ at + length[w] <= Len(file)
    /\ HasLineAt(file, w, at)
    /\ \A v \in Writers : pc[v] \in InFile => at + length[w] <= before[v]

KeptInv == \A w \in Writers : outcome[w] = "kept" => \E at \in 0..Limit : StandsAt(w, at)

(* A log that refused a record stays at its cap, also when a writer takes  *)
(* its line back.                                                          *)
Full(size) == size + MaxEntry > Limit

LossInv ==
    \A w \in Writers :
        /\ outcome[w] = "marked" => lost = "yes"
        /\ outcome[w] = "refused" =>
              Full(Len(file)) /\ \A v \in Writers : pc[v] \in InFile => Full(before[v])

(* What a writer has put in the file stands there in one stretch, from the *)
(* offset it found.                                                        *)
Stands(w) ==
    /\ before[w] + sent[w] <= Len(file)
    /\ \A k \in 1..sent[w] : file[before[w] + k] = << w, k >>

(* Every unit is of such a stretch, and once its writer is out of the      *)
(* file, the stretch is its whole line, unless the writer is dead.         *)
UnitInv(i) ==
    LET w == file[i][1] IN
    /\ Stands(w)
    /\ before[w] < i /\ i <= before[w] + sent[w]
    /\ pc[w] \in InFile \cup {"mark", "done", "dead"}
    /\ pc[w] \in {"mark", "done"} => sent[w] = length[w]

LinesInv ==
    /\ \A w \in Writers : sent[w] <= length[w] /\ (outcome[w] = "kept" => pc[w] = "done")
    /\ \A i \in 1..Len(file) : UnitInv(i)

(* A reader under its lock has the beginning of the file, which no writer  *)
(* changes; and one that is done found every line whole or its writer dead.*)
ReaderInv(r) ==
    /\ pc[r] \in {"start", "lock"} => got[r] = << >>
    /\ pc[r] = "read" =>
          /\ locked[r] = "SH" /\ Len(got[r]) <= Len(file)
          /\ \A i \in 1..Len(got[r]) : got[r][i] = file[i]
    /\ pc[r] = "done" =>
          \A i \in 1..Len(got[r]) : HasLine(got[r], got[r][i][1]) \/ pc[got[r][i][1]] = "dead"

ReadInv == \A r \in Readers : ReaderInv(r)

IInv ==
    /\ TypeOK /\ LockInv /\ WriteInv /\ KeptInv /\ LossInv
    /\ LinesInv /\ ReadInv

-----------------------------------------------------------------------------
(* What the documentation says, and the code does not do. *)

(* architecture.md: "a record still lost leaves a marker beside the spool, *)
(* so the summary says it undercounts".  A line behind the torn one of a   *)
(* writer that died is not counted, and nothing says so.                   *)
EveryLossIsTold ==
    \A w \in Writers : outcome[w] = "kept" /\ ~Parses(file, w) => AtCap

=============================================================================
