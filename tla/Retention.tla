----------------------------- MODULE Retention ------------------------------
(***************************************************************************)
(* How long the ledger keeps what (session/ledger.py): a file a month,     *)
(* which every append() may prune, `shim ledger purge` deletes and `shim   *)
(* ledger show` reads, with an empty file beside a month that lost an      *)
(* event.  Hooks append at different times, some of them late: `moment` is *)
(* read first, and the computer may sleep.  Any call on a file may fail,   *)
(* and hooks and commands may be killed at any step.  What becomes of one  *)
(* append in the file is Journal's; here it is a step.                     *)
(*                                                                         *)
(* A calendar gives the first day of each month, days being counted.       *)
(***************************************************************************)
EXTENDS Integers, Sequences, FiniteSets, SequencesExt, FiniteSetsExt

CONSTANTS
    Writers,    \* the hooks that append one event each
    Purger, Show,   \* `ledger purge`, `ledger show`
    FirstDay,   \* the first day of each month, and of two months more
    Days,       \* the days on which something happens
    Room        \* MAX_LEDGER_BYTES, in records

RETENTION_DAYS == 30
Months == 1..(Len(FirstDay) - 2)
IsIn(day, m) == FirstDay[m] <= day /\ day < FirstDay[m + 1]
MonthOf(day) == CHOOSE m \in 1..(Len(FirstDay) - 1) : IsIn(day, m)

ASSUME CalendarAssumption ==
    /\ FirstDay \in Seq(Nat) /\ Len(FirstDay) > 2
    /\ \A m \in 1..(Len(FirstDay) - 1) : FirstDay[m + 1] - FirstDay[m] \in 28..31
    /\ \A m, n \in 1..Len(FirstDay) : m < n => FirstDay[m] < FirstDay[n]

ASSUME RetentionAssumption ==
    /\ Days \subseteq Nat /\ Days # {} /\ Room \in Nat \ {0}
    /\ \A day \in Days : \E m \in Months : IsIn(day, m)
    /\ Purger \notin Writers /\ Show \notin Writers /\ Purger # Show

(* Mutant: a month ends thirty days after it began. *)
MutantMonthEnd(m) == FirstDay[MonthOf(FirstDay[m] + 30)]

(* _month_end: (start + 31 days).replace(day=1). *)
MonthEnd(m) == FirstDay[MonthOf(FirstDay[m] + 31)]

Keepers == Writers \cup {Purger, Show}
NoMonth == [made |-> 0, lines |-> << >>]

VARIABLES
    today,
    months,     \* each month's file: which one it is, and its records
    lost,       \* the months with an empty file beside them
    moment,     \* the day each hook read when it started
    does,       \* what it does next
    left,       \* the months it has listed and not visited yet
    holds,    \* the file a hook has open
    shown,      \* what `ledger show` has read
    result,     \* what each of them says
    made,       \* how many files were made so far
    short,      \* history: the files that lost an event and said so: full, or marked
    early,      \* history: a record was pruned before its time
    spared,     \* history: the files that were to be deleted, and were not
    listed      \* history: the ledger when `ledger show` listed it

retvars == << today, months, lost, moment, does, left, holds, shown, result,
              made, short, early, spared, listed >>
ledgerFiles == << months, lost, made, short, early, spared >>

There(m) == months[m].made # 0
Retained == {m \in Months : There(m)}

RetentionInit ==
    /\ today = Min(Days)
    /\ months = [m \in Months |-> IF m = 1 THEN [made |-> 1, lines |-> << FirstDay[2] - 1 >>] ELSE NoMonth]
    /\ lost \in {{}, {1}} /\ made = 1 /\ short = {1 : m \in lost} /\ early = FALSE /\ spared = {}
    /\ moment = [h \in Writers |-> 0]
    /\ \E idle \in Keepers : does = [c \in Keepers |-> IF c = idle THEN "done" ELSE "start"]
    /\ left = [c \in Keepers |-> {}]
    /\ holds = [c \in Writers |-> 0]
    /\ shown = {} /\ listed = months /\ result = [c \in Keepers |-> "nothing"]

Turn(c, what) == does' = [does EXCEPT ![c] = what]
Reports(c, what) == result' = [result EXCEPT ![c] = what]

Tomorrow ==
    /\ \E day \in Days : day > today /\ today' = day /\ ~\E d \in Days : today < d /\ d < day
    /\ UNCHANGED << ledgerFiles, moment, does, left, holds, shown, result, listed >>

(* files(), and what prune() leaves alone of it. *)
ListFiles(c) ==
    /\ does[c] = "start" /\ moment' = IF c \in Writers THEN [moment EXCEPT ![c] = today] ELSE moment
    /\ left' = [left EXCEPT ![c] =
           IF c \in Writers THEN {m \in Retained : MonthEnd(m) + RETENTION_DAYS <= today} ELSE Retained]
    /\ Turn(c, IF c = Show THEN "reads" ELSE "marker")
    /\ listed' = IF c = Show THEN months ELSE listed
    /\ UNCHANGED << today, ledgerFiles, holds, shown, result >>

Visited(c, m) == left' = [left EXCEPT ![c] = @ \ {m}]

(* Mutant: the markers of all the months listed go before the first month. *)
MutantUnlinkLost(c) ==
    /\ c # Show /\ does[c] = "marker"
    /\ IF left[c] = {} THEN Turn(c, "append") /\ UNCHANGED << lost, left >>
       ELSE \/ lost' = lost \ left[c] /\ Turn(c, "month") /\ UNCHANGED left
            \/ Visited(c, Min(left[c])) /\ UNCHANGED << lost, does >>
    /\ UNCHANGED << today, months, made, short, early, spared, moment, holds, shown, result, listed >>

(* prune() and purge() visit the files in order: the empty one goes first. *)
UnlinkLost(c) ==
    /\ c # Show /\ does[c] = "marker"
    /\ IF left[c] = {} THEN Turn(c, "append") /\ UNCHANGED << lost, left >>
       ELSE LET m == Min(left[c]) IN
            \/ lost' = lost \ {m} /\ Turn(c, "month") /\ UNCHANGED left
            \/ Visited(c, m) /\ UNCHANGED << lost, does >>              \* OSError
    /\ UNCHANGED << today, months, made, short, early, spared, moment, holds, shown, result, listed >>

UnlinkMonth(c) ==
    /\ does[c] = "month" /\ Turn(c, "marker")
    /\ LET m == Min(left[c]) IN
       /\ Visited(c, m)
       /\ \/ /\ There(m) /\ months' = [months EXCEPT ![m] = NoMonth]
             /\ early' = (early \/ (c \in Writers /\ \E d \in Range(months[m].lines) :
                                         today < d + RETENTION_DAYS))
             /\ UNCHANGED spared
          \/ spared' = spared \cup {months[m].made} /\ UNCHANGED << months, early >>
    /\ UNCHANGED << today, lost, made, short, moment, holds, shown, result, listed >>

-----------------------------------------------------------------------------
(* append(), after prune(). *)

Mine(h) == MonthOf(moment[h])

OpenThisMonth(h) ==
    /\ h \in Writers /\ does[h] = "append" /\ Turn(h, "write")
    /\ IF There(Mine(h))
       THEN holds' = [holds EXCEPT ![h] = months[Mine(h)].made] /\ UNCHANGED << months, made >>
       ELSE /\ made' = made + 1 /\ holds' = [holds EXCEPT ![h] = made']
            /\ months' = [months EXCEPT ![Mine(h)] = [made |-> made', lines |-> << >>]]
    /\ UNCHANGED << today, lost, short, early, spared, moment, left, shown, result, listed >>

IsOpen(h) == months[Mine(h)].made = holds[h]

WriteMonth(h) ==
    /\ does[h] = "write" /\ Turn(h, "done")
    /\ \/ /\ IsOpen(h) /\ Len(months[Mine(h)].lines) < Room
          /\ months' = [months EXCEPT ![Mine(h)].lines = Append(@, moment[h])]
          /\ Reports(h, "kept") /\ UNCHANGED << lost, short >>
       \/ /\ ~IsOpen(h) /\ Reports(h, "kept") /\ UNCHANGED << months, lost, short >>
       \/ /\ IsOpen(h) /\ Len(months[Mine(h)].lines) = Room /\ Reports(h, "refused")
          /\ short' = short \cup {holds[h]} /\ UNCHANGED << months, lost >>
       \/ /\ Reports(h, "raised") /\ UNCHANGED months                     \* OSError:
          /\ \/ lost' = lost \cup {Mine(h)} /\ short' = short \cup {holds[h]}    \* mark_lost,
             \/ UNCHANGED << lost, short >>                               \* which may fail
    /\ UNCHANGED << today, made, early, spared, moment, left, holds, shown, listed >>

(* There is no file to open: the marker may be made, beside nothing.       *)
CannotOpen(h) ==
    /\ h \in Writers /\ does[h] = "append" /\ Turn(h, "done") /\ Reports(h, "raised")
    /\ lost' = lost \cup {Mine(h)} /\ short' = short \cup ({months[Mine(h)].made} \ {0})
    /\ UNCHANGED << today, months, made, early, spared, moment, left, holds, shown, listed >>

PurgeSays == does[Purger] = "append" /\ Turn(Purger, "done") /\ Reports(Purger, "deleted")
             /\ UNCHANGED << today, ledgerFiles, moment, left, holds, shown, listed >>

-----------------------------------------------------------------------------
(* entries(), a file at a time; one that went is read as empty. *)
ReadMonth ==
    /\ does[Show] = "reads"
    /\ IF left[Show] = {} THEN Turn(Show, "capped") /\ UNCHANGED << shown, left >>
       ELSE LET m == Min(left[Show]) IN
            /\ Visited(Show, m) /\ UNCHANGED does
            /\ shown' = shown \cup {<< months[m].made, i >> : i \in DOMAIN months[m].lines}
    /\ UNCHANGED << today, ledgerFiles, moment, holds, result, listed >>

(* capped(): one look, although it lists and stats one file after another. *)
Capped == \E m \in Retained : m \in lost \/ Len(months[m].lines) = Room

SayShown ==
    /\ does[Show] = "capped" /\ Turn(Show, "done")
    /\ Reports(Show, IF Capped THEN "short" ELSE "whole")
    /\ UNCHANGED << today, ledgerFiles, moment, left, holds, shown, listed >>

(* A call on the folder or a file fails that nothing suppresses and no     *)
(* marker is left for, or the hook or command is killed: one that had      *)
(* removed a month's marker leaves the month without it.                   *)
Stops(c) ==
    /\ does[c] # "done" /\ Turn(c, "done")
    /\ \/ UNCHANGED result
       \/ /\ does[c] \in {"start", "reads", "capped"} \/ (does[c] = "append" /\ c # Purger)
          /\ Reports(c, "raised")
    /\ spared' = IF does[c] = "month" THEN spared \cup {months[Min(left[c])].made} ELSE spared
    /\ UNCHANGED << today, months, lost, made, short, early, moment, left, holds, shown, listed >>

AllDone == /\ \A c \in Keepers : does[c] = "done" /\ today = Max(Days)
           /\ UNCHANGED retvars

RetentionNext ==
    \/ Tomorrow \/ ReadMonth \/ SayShown \/ PurgeSays \/ AllDone
    \/ \E c \in Keepers : ListFiles(c) \/ UnlinkLost(c) \/ UnlinkMonth(c) \/ Stops(c)
    \/ \E h \in Writers : OpenThisMonth(h) \/ CannotOpen(h) \/ WriteMonth(h)

RetentionSpec == RetentionInit /\ [][RetentionNext]_retvars

-----------------------------------------------------------------------------
Going(m) == \E c \in Keepers \ {Show} : does[c] \in {"marker", "month"} /\ m \in left[c]

(* No record is pruned before it is thirty days old, however late the hook *)
(* that prunes (prune); a month that is full, or whose lost event could be *)
(* marked, says so until a command that deletes it has come to it, unless  *)
(* it cannot be deleted or that command is killed between the marker and   *)
(* the month (capped, prune, purge); and `ledger show` shows every record  *)
(* that was there when it began and still is, if it shows any (entries).   *)
RetentionHolds ==
    /\ ~early
    /\ \A m \in Retained : months[m].made \in short \ spared => Capped \/ Going(m)
    /\ result[Show] \in {"short", "whole"} => \A m \in Retained : months[m].made = listed[m].made =>
           \A i \in DOMAIN listed[m].lines : << months[m].made, i >> \in shown

(* The inductive invariant behind RetentionHolds. *)

Points == {"start", "marker", "month", "append", "write", "reads", "capped", "done"}

RetentionTypeOK ==
    /\ today \in Days
    /\ months \in [Months -> [made : Nat, lines : Seq(Nat)]] /\ made \in Nat
    /\ lost \subseteq Months
    /\ moment \in [Writers -> Nat]
    /\ does \in [Keepers -> Points] /\ does[Show] \in {"start", "reads", "capped", "done"}
    /\ left \in [Keepers -> SUBSET Months]
    /\ holds \in [Writers -> Nat] /\ listed \in [Months -> [made : Nat, lines : Seq(Nat)]]
    /\ result \in [Keepers -> {"nothing", "kept", "refused", "raised", "deleted", "short", "whole"}]

(* A hook under way has read a day there is; a keeper at a month has one.  *)
UnderWayInv ==
    /\ \A h \in Writers : does[h] \in {"marker", "month", "append", "write"} => moment[h] \in Days
    /\ \A c \in Keepers : does[c] = "month" => left[c] # {}

(* A file that was made keeps its number, which no other file has, and the *)
(* one a hook writes to is of its month while it is there.                 *)
FilesInv ==
    /\ \A m \in Months : months[m].made <= made
    /\ \A m, n \in Retained : months[m].made = months[n].made => m = n
    /\ \A h \in Writers : does[h] = "write" =>
          /\ holds[h] \in 1..made
          /\ \A m \in Retained : months[m].made = holds[h] => m = Mine(h)
    /\ short \subseteq 1..made

(* A month holds records of its own days, and hooks prune it thirty days   *)
(* after its last.                                                         *)
DatesInv ==
    /\ ~early
    /\ \A m \in Months : \A i \in DOMAIN months[m].lines : months[m].lines[i] < FirstDay[m + 1]
    /\ \A h \in Writers : \A m \in left[h] : FirstDay[m + 1] + RETENTION_DAYS <= today

(* A short month shows it, or a keeper that removed its marker is about to *)
(* remove the month too.                                                   *)
ShortInv ==
    \A m \in Retained : months[m].made \in short \ spared =>
        \/ m \in lost \/ Len(months[m].lines) = Room
        \/ \E c \in Keepers \ {Show} : does[c] = "month" /\ m = Min(left[c])

(* What `ledger show` has found, it has shown or is still to visit.        *)
ShowInv ==
    /\ \A m \in Months : listed[m].made <= made
    /\ result[Show] # "nothing" => does[Show] = "done"
    /\ does[Show] \in {"reads", "capped"} \/ result[Show] \in {"short", "whole"} =>
          \A m \in Retained : months[m].made = listed[m].made =>
              \A i \in DOMAIN listed[m].lines :
                  /\ i \in DOMAIN months[m].lines
                  /\ << months[m].made, i >> \in shown \/ (does[Show] = "reads" /\ m \in left[Show])

RetentionInv ==
    RetentionTypeOK /\ UnderWayInv /\ FilesInv /\ DatesInv /\ ShortInv /\ ShowInv

(* docs/privacy.md: "the warning stays for as long as the short month is   *)
(* retained".                                                              *)
WarningStays == \A m \in Retained : months[m].made \in short => Capped \/ Going(m)
=============================================================================
