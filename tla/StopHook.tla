------------------------------ MODULE StopHook ------------------------------
(***************************************************************************)
(* A session's summaries: hook._summary_output and hook._forget with the   *)
(* spool's entries, capped, summarized, mark_summarized and clear.         *)
(*                                                                         *)
(* A Stop hook reads the session's records, whether some are missing, and  *)
(* the mark of the last summary; when there is news it writes the mark and *)
(* shows the summary.  Other hooks append records meanwhile, a second Stop *)
(* may run, and the session's end removes the files one by one, without    *)
(* their locks.  A hook may be ended by its timer or its client anywhere.  *)
(* An append or a read is one step: both are made under the file's lock    *)
(* (Journal).                                                              *)
(***************************************************************************)
EXTENDS Naturals, Sequences, FiniteSets, SequencesExt

CONSTANTS
    Recorders,  \* the hooks that have a record to append
    Stops,      \* the Stop hooks
    Base,       \* the base the mark's count is written in
    LogCap      \* MAX_SPOOL_BYTES in records; an entry of MAX_ENTRY_BYTES is two

ASSUME StopAssumption ==
    /\ Base \in Nat /\ Base >= 2 /\ LogCap \in Nat
    /\ Recorders \cap Stops = {} /\ "end" \notin Recorders \cup Stops /\ "none" \notin Stops

VARIABLES
    at,         \* what each hook, or the session's end ("end"), does next
    logs,       \* the logs, each removed by an end of the session but the last
    held,       \* the log each recorder has open
    missing,    \* `.lost` exists
    mark,       \* the mark: its count's digits and whether it says "capped"
    marks,      \* how many marks were removed
    holder,     \* the Stop that has the mark's lock
    read,       \* what each Stop has read: records, undercount, mark opened
    told,       \* the records some summary has shown
    warned,     \* a summary has said that the log undercounts
    gone,       \* what Stops that ended before they showed it had marked
    damaged     \* a mark was left as it was written, over a longer one

stopvars == << at, logs, held, missing, mark, marks, holder, read, told, warned,
               gone, damaged >>

Actors == Recorders \cup Stops
Unread == [records |-> << >>, capped |-> FALSE, opened |-> 0]

StopInit ==
    /\ at = [p \in Actors \cup {"end"} |-> "start"]
    /\ logs = << << >> >>
    /\ held = [r \in Recorders |-> 1]
    /\ missing = FALSE
    /\ mark = [digits |-> << >>, capped |-> FALSE]
    /\ marks = 0
    /\ holder = "none"
    /\ read = [s \in Stops |-> Unread]
    /\ told = {} /\ warned = FALSE
    /\ gone = [records |-> {}, capped |-> FALSE]
    /\ damaged = FALSE

Log == Last(logs)
At(p, point) == at' = [at EXCEPT ![p] = point]

-----------------------------------------------------------------------------
(* spool.append. *)

OpenLog(r) ==
    /\ at[r] = "start"
    /\ held' = [held EXCEPT ![r] = Len(logs)]
    /\ At(r, "append")
    /\ UNCHANGED << logs, missing, mark, marks, holder, read, told, warned, gone, damaged >>

(* A record over the cap is refused; one that cannot be written leaves     *)
(* `.lost`; one written to a log that was removed goes with it.            *)
Append1(r) ==
    /\ at[r] = "append" /\ At(r, "done")
    /\ \/ /\ Len(logs[held[r]]) < LogCap
          /\ logs' = [logs EXCEPT ![held[r]] = Append(@, r)]
          /\ UNCHANGED missing
       \/ Len(logs[held[r]]) >= LogCap /\ UNCHANGED << logs, missing >>
       \/ missing' = TRUE /\ UNCHANGED logs
    /\ UNCHANGED << held, mark, marks, holder, read, told, warned, gone, damaged >>

-----------------------------------------------------------------------------
(* hook._summary_output. *)

(* spool.entries; a read that does not get its lock raises, and the hook   *)
(* says nothing.                                                           *)
ReadRecords(s) ==
    /\ at[s] = "start"
    /\ \/ At(s, "capped") /\ read' = [read EXCEPT ![s].records = Log]
       \/ At(s, "failed") /\ UNCHANGED read
    /\ UNCHANGED << logs, held, missing, mark, marks, holder, told, warned, gone, damaged >>

(* spool.capped: `.lost`, or no room for an entry of MAX_ENTRY_BYTES. *)
ReadCapped(s) ==
    /\ at[s] = "capped"
    /\ read' = [read EXCEPT ![s].capped = missing \/ Len(Log) + 2 > LogCap]
    /\ At(s, "mark")
    /\ UNCHANGED << logs, held, missing, mark, marks, holder, told, warned, gone, damaged >>

(* The count the mark's digits are read as. *)
Count(m) ==
    CASE Len(m.digits) = 0 -> 0
      [] Len(m.digits) = 1 -> m.digits[1]
      [] OTHER -> m.digits[1] * Base + m.digits[2]

(* Mutant: an undercount is news only with a record. *)
MutantNews(s) == Len(read[s].records) > Count(mark)

News(s) == \/ Len(read[s].records) > Count(mark)
           \/ read[s].capped /\ ~mark.capped

(* spool.summarized, under the mark's shared lock. *)
ReadMark(s) ==
    /\ at[s] = "mark"
    /\ \/ /\ holder = "none"
          /\ IF News(s) THEN At(s, "open") ELSE At(s, "quiet")
       \/ At(s, "failed")
    /\ UNCHANGED << logs, held, missing, mark, marks, holder, read, told, warned, gone, damaged >>

OpenMark(s) ==
    /\ at[s] = "open"
    /\ read' = [read EXCEPT ![s].opened = marks]
    /\ At(s, "write")
    /\ UNCHANGED << logs, held, missing, mark, marks, holder, told, warned, gone, damaged >>

Digits(n) == IF n < Base THEN << n >> ELSE << n \div Base, n % Base >>

(* The mark as os.write leaves it: what it had past the new text stays     *)
(* until ftruncate.  "2" over "10 capped" is "20 capped", "10" over        *)
(* "2 capped" is no number, which is read as nothing shown.                *)
Over(old, new) ==
    IF new.capped \/ old.digits = << >> THEN new
    ELSE IF Len(new.digits) <= Len(old.digits)
         THEN [digits |-> new.digits \o SubSeq(old.digits, Len(new.digits) + 1, Len(old.digits)),
               capped |-> old.capped]
    ELSE IF old.capped THEN [digits |-> << >>, capped |-> FALSE]
    ELSE new

Marked(s) == [digits |-> Digits(Len(read[s].records)), capped |-> read[s].capped]

(* mark_summarized, up to os.write, under the mark's lock. *)
WriteMark(s) ==
    /\ at[s] = "write"
    /\ \/ /\ holder = "none" \/ read[s].opened < marks
          /\ IF read[s].opened = marks
             THEN mark' = Over(mark, Marked(s)) /\ holder' = s
             ELSE UNCHANGED << mark, holder >>
          /\ At(s, "cut")
       \/ At(s, "failed") /\ UNCHANGED << mark, holder >>
    /\ UNCHANGED << logs, held, missing, marks, read, told, warned, gone, damaged >>

(* Mutant: what the mark had past the new text is left in it. *)
MutantCutMark(s) ==
    /\ at[s] = "cut" /\ At(s, "show")
    /\ IF holder = s THEN holder' = "none" /\ UNCHANGED mark ELSE UNCHANGED << mark, holder >>
    /\ UNCHANGED << logs, held, missing, marks, read, told, warned, gone, damaged >>

(* ftruncate, and the close that ends the lock. *)
CutMark(s) ==
    /\ at[s] = "cut" /\ At(s, "show")
    /\ IF holder = s THEN mark' = Marked(s) /\ holder' = "none" ELSE UNCHANGED << mark, holder >>
    /\ UNCHANGED << logs, held, missing, marks, read, told, warned, gone, damaged >>

(* The hook's answer. *)
Show(s) ==
    /\ at[s] = "show" /\ At(s, "shown")
    /\ told' = told \cup Range(read[s].records)
    /\ warned' = (warned \/ read[s].capped)
    /\ UNCHANGED << logs, held, missing, mark, marks, holder, read, gone, damaged >>

(* The hook's timer or its client ends it, or its alarm ends the summary:  *)
(* what it had marked by then is shown by nobody.                          *)
StopEnds(s) ==
    /\ at[s] \in {"capped", "mark", "open", "write", "cut", "show"} /\ At(s, "failed")
    /\ gone' = IF at[s] \in {"cut", "show"}
               THEN [records |-> gone.records \cup Range(read[s].records),
                     capped |-> gone.capped \/ read[s].capped]
               ELSE gone
    /\ damaged' = (damaged \/ (holder = s /\ mark # Marked(s)))
    /\ holder' = IF holder = s THEN "none" ELSE holder
    /\ UNCHANGED << logs, held, missing, mark, marks, read, told, warned >>

-----------------------------------------------------------------------------
(* hook._forget: spool.clear at the session's end, which takes no lock.    *)

RemoveLog ==
    /\ at["end"] = "start" /\ At("end", "mark")
    /\ logs' = Append(logs, << >>)
    /\ UNCHANGED << held, missing, mark, marks, holder, read, told, warned, gone, damaged >>

RemoveMark ==
    /\ at["end"] = "mark" /\ At("end", "lost")
    /\ mark' = [digits |-> << >>, capped |-> FALSE]
    /\ marks' = marks + 1
    /\ holder' = "none"
    /\ UNCHANGED << logs, held, missing, read, told, warned, gone, damaged >>

RemoveLost ==
    /\ at["end"] = "lost" /\ At("end", "done")
    /\ missing' = FALSE
    /\ UNCHANGED << logs, held, mark, marks, holder, read, told, warned, gone, damaged >>

-----------------------------------------------------------------------------
StopNext ==
    \/ \E r \in Recorders : OpenLog(r) \/ Append1(r)
    \/ \E s \in Stops :
          \/ ReadRecords(s) \/ ReadCapped(s) \/ ReadMark(s) \/ OpenMark(s)
          \/ WriteMark(s) \/ CutMark(s) \/ Show(s) \/ StopEnds(s)
    \/ RemoveLog \/ RemoveMark \/ RemoveLost

StopSpec == StopInit /\ [][StopNext]_stopvars

-----------------------------------------------------------------------------
(* What some summary has shown, a Stop is about to show, or a Stop that    *)
(* was ended had marked.                                                   *)
Announced ==
    told \cup gone.records
    \cup UNION { Range(read[s].records) : s \in { z \in Stops : at[z] \in {"cut", "show"} } }
AnnouncedCapped ==
    \/ warned \/ gone.capped
    \/ \E s \in Stops : at[s] \in {"cut", "show"} /\ read[s].capped

(* A Stop says nothing only when there is no news: each record it read is  *)
(* in a summary that was shown, is being shown, or was lost with a Stop    *)
(* that was ended after its mark; and so is the word that the log          *)
(* undercounts ("the next Stop shows it even when no other record landed", *)
(* docs/privacy.md:413).  Until the session ends or a mark is left as it   *)
(* was written.                                                            *)
QuietIsNoNews ==
    at["end"] = "start" /\ ~damaged =>
        \A s \in Stops : at[s] = "quiet" =>
            /\ Range(read[s].records) \subseteq Announced
            /\ read[s].capped => AnnouncedCapped

(* The mark of a session that goes on counts no record its log lacks, so   *)
(* that the next record is news.                                           *)
MarkIsNotAhead ==
    at["end"] = "start" /\ ~damaged /\ holder = "none" => Count(mark) <= Len(Log)

(* Both: a Stop's silence can be believed, now and later (_summary_output).*)
SilenceIsTrue == QuietIsNoNews /\ MarkIsNotAhead

(* The inductive invariant behind SilenceIsTrue. *)

Reading == {"capped", "mark", "open", "write", "cut", "show"}

StopTypeOK ==
    /\ at \in [Actors \cup {"end"} -> Reading \cup {"start", "append", "quiet", "shown", "failed", "lost", "done"}]
    /\ logs \in Seq(Seq(Recorders)) /\ Len(logs) > 0
    /\ held \in [Recorders -> 1..Len(logs)]
    /\ missing \in BOOLEAN
    /\ mark \in [digits : Seq(Nat), capped : BOOLEAN]
    /\ marks \in Nat
    /\ holder \in Stops \cup {"none"}
    /\ read \in [Stops -> [records : Seq(Recorders), capped : BOOLEAN, opened : Nat]]
    /\ gone.records \subseteq Recorders /\ gone.capped \in BOOLEAN
    /\ warned \in BOOLEAN /\ damaged \in BOOLEAN

GoesOn == at["end"] = "start"

(* While the session goes on nothing is removed, and what a Stop has read  *)
(* is how the log begins.                                                  *)
ReadInv ==
    GoesOn =>
        /\ Len(logs) = 1 /\ marks = 0
        /\ \A s \in Stops : at[s] \in Reading =>
              /\ Len(read[s].records) <= Len(Log)
              /\ \A i \in 1..Len(read[s].records) : Log[i] = read[s].records[i]

(* A mark nobody is writing counts records that were announced, from the   *)
(* first on, and says "capped" if that was.                                *)
MarkInv ==
    GoesOn /\ ~damaged /\ holder = "none" =>
        /\ Count(mark) \in 0..Len(Log)
        /\ \A i \in 1..Count(mark) : Log[i] \in Announced
        /\ mark.capped => AnnouncedCapped

(* Who has the mark's lock is between its write and its cut. *)
HolderInv == holder # "none" => at[holder] = "cut"

StopInv == StopTypeOK /\ ReadInv /\ HolderInv /\ MarkInv /\ QuietIsNoNews

(* "`Stop` renders only records not shown in an earlier turn"              *)
(* (docs/privacy.md:415).                                                  *)
ShowsOnlyNew ==
    [][\A s \in Stops : Show(s) => Range(read[s].records) \cap told = {}]_stopvars
=============================================================================
