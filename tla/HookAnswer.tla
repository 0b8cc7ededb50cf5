----------------------------- MODULE HookAnswer -----------------------------
(***************************************************************************)
(* The threads of one hook process (hook.py), from the moment a client     *)
(* starts it for one event until it has exited or the client has killed it. *)
(*                                                                         *)
(* Three things can end the event.  The main thread reads the event,       *)
(* inspects it, keeps a record and writes the answer.  SIGALRM, armed for  *)
(* Deadline, raises TimeoutError in whatever the main thread is doing.  A  *)
(* timer thread writes a fixed refusal at AnswerBy and ends the process.   *)
(* A lock that is never released decides which thread gives the answer.    *)
(*                                                                         *)
(* What a completed inspection calls for is an input here (due); module    *)
(* ToolEvent models how it is decided.                                     *)
(***************************************************************************)
EXTENDS Naturals, FiniteSets

CONSTANTS
    Deadline,   \* HOOK_DEADLINE_SECONDS, in ticks
    AnswerBy,   \* HOOK_ANSWER_SECONDS, in ticks
    Timeout     \* the timeout registered with the client, in ticks

ASSUME TimesAssumption ==
    /\ Deadline \in Nat \ {0} /\ AnswerBy \in Nat /\ Timeout \in Nat
    /\ Deadline < AnswerBy /\ AnswerBy < Timeout

VARIABLES
    event,      \* what the client sent, by what a refusal of it can do
    due,        \* the answer a completed inspection of it calls for
    clock,      \* ticks since the client started the process
    began,      \* the clock when Python reached main
    dup,        \* the copy of descriptor 1 the timer answers on
    pc,         \* what the main thread does next
    raw,        \* what main has read of the event
    alarm,      \* SIGALRM's timer
    stdout,     \* where descriptor 1 leads
    output,     \* the main thread's answer, not yet written
    records,    \* the actions of the records kept of this event
    names,      \* the placeholder names the answer shows
    timer,      \* the timer thread
    holder,     \* which thread holds `answered`
    written,    \* the threads that put bytes on the client's pipe
    delivered,  \* the answer those bytes spell
    ended       \* how the process ended

vars == << event, due, clock, began, dup, pc, raw, alarm, stdout, output,
           records, names, timer, holder, written, delivered, ended >>

Events == {"prompt", "call", "mcpResult", "builtinResult", "failure", "stop"}

(* "silent" is an empty answer: the event goes on as it is.  "block" is the *)
(* refusal of a prompt (error_output), taken to hold nothing but a prompt   *)
(* (it "would let an MCP result through", main), and "copy" the block of an *)
(* inspected prompt that points to a redacted copy.                         *)
Answers == {"silent", "report", "mask", "deny", "withhold", "block", "copy"}
None == "none"

(* What a finished inspection may call for, by event. *)
DueAnswers ==
    [prompt        |-> {"silent", "report", "mask", "copy"},
     call          |-> {"silent", "report", "mask", "deny"},
     mcpResult     |-> {"silent", "report", "mask", "withhold"},
     builtinResult |-> {"silent", "report", "mask", "withhold"},
     failure       |-> {"silent", "report"},
     stop          |-> {"silent"}]

(* _fallback_output: the fixed bytes for an event that was read.  A built-in *)
(* tool's result must keep a shape the fixed bytes do not have.              *)
Fallback ==
    [prompt |-> "block", call |-> "deny", mcpResult |-> "withhold",
     builtinResult |-> "report", failure |-> "report", stop |-> "silent"]

(* _fixed_refusal of the bytes main has: an event that is not read, or     *)
(* whose name is not in what was, is answered as a prompt is.              *)
FixedRefusal == IF raw = "event" THEN Fallback[event] ELSE "block"

(* Mutant: a prompt whose inspection failed is let through. *)
MutantRefusals == {IF event = "prompt" THEN "silent" ELSE Fallback[event]}

(* _refusal_output and _not_inspected: the adapter's refusal where it can  *)
(* be built, else the fixed one.                                           *)
Refusals ==
    IF raw # "event" THEN {"block"}
    ELSE {Fallback[event]} \cup
         (IF event = "builtinResult" THEN {"withhold"} ELSE {})

(* The action a record of each answer carries. *)
RecordOf ==
    [silent |-> "allow", report |-> "report", mask |-> "mask",
     deny |-> "deny", withhold |-> "deny", block |-> "deny", copy |-> "deny"]

(* The answers that show placeholders have names to issue. *)
ShowsNames(answer) == answer \in {"mask", "copy"}

MainPoints == {"start", "read", "redirect", "inspect", "issue", "record", "note",
               "refuse", "refuseRecord", "restore", "disarm", "acquire", "write",
               "done"}

Running == ended = "no"

(* Descriptor 1 leads to the client's pipe, or to the null device: with a  *)
(* copy to restore it from, with none ("gone"), or for good ("lost").      *)
Redirected == stdout \in {"null", "gone"}
Restored == IF stdout = "gone" THEN "lost" ELSE "pipe"

Init ==
    /\ event \in Events
    /\ due \in DueAnswers[event]
    /\ clock = 0 /\ began = 0 /\ dup = "none"
    /\ pc = "start"
    /\ raw = "empty" /\ alarm = "off" /\ stdout = "pipe"
    /\ output = None /\ records = {} /\ names = "none"
    /\ timer = "none" /\ holder = "none" /\ written = {}
    /\ delivered = None /\ ended = "no"

-----------------------------------------------------------------------------
(* The main thread. *)

At(point) == Running /\ pc = point

(* Everything but the variables a step of the inspection path touches. *)
Outside == UNCHANGED << event, due, clock, began, dup, timer, holder, written,
                        delivered, ended >>

(* main: its clock starts with the process (_process_age), so what is due  *)
(* already is not armed.  os.dup(1) may fail: then there is no timer.      *)
TimerIsArmed == dup' = "kept" /\ clock < AnswerBy

StartMain ==
    /\ At("start")
    /\ pc' = "read"
    /\ began' = clock
    /\ dup' \in {"kept", "failed"}
    /\ alarm' = IF clock < Deadline THEN "armed" ELSE "off"
    /\ timer' = IF TimerIsArmed THEN "armed" ELSE "none"
    /\ UNCHANGED << event, due, clock, raw, stdout, output,
                    records, names, holder, written, delivered, ended >>

(* sys.stdin.buffer.read, which may block.  Of an event that is too large, *)
(* nested too deep or no JSON, the name may not be found (_prefix_event).  *)
(* Past the deadline the event is refused, but only once it was read.      *)
ReadEvent ==
    /\ At("read")
    /\ raw' \in {"event", "unnamed"}
    /\ \/ clock < Deadline /\ pc' = "redirect" /\ alarm' = alarm
       \/ clock >= Deadline /\ pc' = "refuse" /\ alarm' = "off"
    /\ Outside /\ UNCHANGED << stdout, output, records, names >>

(* _silence_dependencies on the way in. *)
Redirect ==
    /\ At("redirect")
    /\ stdout' = "null"
    /\ pc' = "inspect"
    /\ Outside
    /\ UNCHANGED << raw, alarm, output, records, names >>

(* Mutant: the record is kept, and the answer goes out, with no name issued. *)
MutantInspected ==
    /\ At("inspect") /\ raw = "event"
    /\ output' = due
    /\ pc' = IF event = "stop" THEN "restore" ELSE "record"
    /\ Outside
    /\ UNCHANGED << raw, alarm, stdout, records, names >>

(* The inspection finished: what it calls for is the output.  Names are    *)
(* issued before anything that shows them.                                 *)
Inspected ==
    /\ At("inspect") /\ raw = "event"
    /\ output' = due
    /\ pc' = IF event = "stop" THEN "restore"
             ELSE IF ShowsNames(due) THEN "issue" ELSE "record"
    /\ Outside
    /\ UNCHANGED << raw, alarm, stdout, records, names >>

IssueNames ==
    /\ At("issue")
    /\ names' = "issued"
    /\ pc' = "record"
    /\ Outside
    /\ UNCHANGED << raw, alarm, stdout, output, records >>

(* remember() swallows every failure, so a record is kept or lost. *)
KeepRecord ==
    /\ At("record")
    /\ records' \in {records, records \cup {RecordOf[output]}}
    /\ pc' = "note"
    /\ Outside
    /\ UNCHANGED << raw, alarm, stdout, output, names >>

(* with_marker_note and the return from _tool_output. *)
Returned ==
    /\ At("note")
    /\ pc' = "restore"
    /\ Outside
    /\ UNCHANGED << raw, alarm, stdout, output, records, names >>

(* An exception that the event's own refusal answers: an event too large,  *)
(* or no null device, before the redirection; a document that does not     *)
(* parse, an analysis that failed, names that could not be kept.  After    *)
(* the record it is a marker note that makes a result too large, which     *)
(* only a result that was not withheld gets.                               *)
InspectionFails ==
    /\ Running
    /\ \/ pc = "redirect"
       \/ pc \in {"inspect", "issue"} /\ (event # "stop" \/ raw = "unnamed")
       \/ pc = "note" /\ event \in {"mcpResult", "builtinResult"} /\ output # "withhold"
    /\ pc' = "refuse"
    /\ Outside
    /\ UNCHANGED << raw, alarm, stdout, output, records, names >>

(* One that only the last handlers of `_output` see.  The client's adapter *)
(* is imported where an exception undoes the redirection first, and the    *)
(* event refused after it.  From there to the tool event's own `try` any   *)
(* exception but ValueError (an import, memory) has error_output() for its *)
(* answer: a prompt's block, whatever the event is.                        *)
FailsInLastHandler ==
    /\ At("inspect")
    /\ \/ pc' = "refuse" /\ stdout' = Restored /\ UNCHANGED output
       \/ pc' = "restore" /\ output' = "block" /\ UNCHANGED stdout
    /\ Outside
    /\ UNCHANGED << raw, alarm, records, names >>

(* What follows a refusal: the redirection is undone if there is one. *)
AfterRefusal == IF Redirected THEN "restore" ELSE "disarm"

(* The refusal: a prompt's keeps no record, any other's is recorded by what *)
(* it asks the client to do.  One that fails in main's own handler is the   *)
(* fixed one, with no record.                                               *)
Refuse ==
    /\ At("refuse")
    /\ \/ /\ output' \in Refusals
          /\ pc' = IF output' = "block" THEN AfterRefusal ELSE "refuseRecord"
       \/ /\ ~Redirected
          /\ output' = FixedRefusal
          /\ pc' = "disarm"
    /\ Outside
    /\ UNCHANGED << raw, alarm, stdout, records, names >>

(* Mutant: every event that was not inspected is recorded as denied. *)
MutantRecordRefusal ==
    /\ At("refuseRecord")
    /\ records' \in {records, records \cup {"deny"}}
    /\ pc' = AfterRefusal
    /\ Outside
    /\ UNCHANGED << raw, alarm, stdout, output, names >>

(* The record of a refusal is read off the answer itself, and kept or lost. *)
RefusalRecorded ==
    records' \in {records, records \cup
                  {IF output \in {"deny", "withhold"} THEN "deny" ELSE "report"}}

RecordRefusal ==
    /\ At("refuseRecord")
    /\ RefusalRecorded
    /\ pc' = AfterRefusal
    /\ Outside
    /\ UNCHANGED << raw, alarm, stdout, output, names >>

(* _silence_dependencies on the way out, from the copy of descriptor 1. *)
Restore ==
    /\ At("restore")
    /\ stdout' = Restored
    /\ pc' = "disarm"
    /\ Outside
    /\ UNCHANGED << raw, alarm, output, records, names >>

(* _deadline on the way out. *)
Disarm ==
    /\ At("disarm")
    /\ alarm' = "off"
    /\ pc' = "acquire"
    /\ Outside
    /\ UNCHANGED << raw, stdout, output, records, names >>

(* Mutant: main does not wait for the lock, and exits if the timer has it. *)
MutantAcquire ==
    /\ At("acquire")
    /\ \/ holder = "none" /\ holder' = "main" /\ pc' = "write" /\ ended' = ended
       \/ holder = "timer" /\ holder' = holder /\ pc' = "done" /\ ended' = "exited"
    /\ UNCHANGED << event, due, clock, began, dup, raw, alarm, stdout, output,
                    records, names, timer, written, delivered >>

(* answered.acquire(): blocks for good if the timer has it. *)
Acquire ==
    /\ At("acquire") /\ holder = "none"
    /\ holder' = "main"
    /\ pc' = "write"
    /\ UNCHANGED << event, due, clock, began, dup, raw, alarm, stdout, output,
                    records, names, timer, written, delivered, ended >>

(* sys.stdout.buffer.write and the exit, which ends the timer thread too. *)
WriteAnswer ==
    /\ At("write")
    /\ \/ stdout = "lost" /\ UNCHANGED << written, delivered >>
       \/ stdout # "lost" /\ written' = written \cup {"main"} /\ delivered' = output
    /\ pc' = "done" /\ ended' = "exited"
    /\ UNCHANGED << event, due, clock, began, dup, raw, alarm, stdout, output,
                    records, names, timer, holder >>

-----------------------------------------------------------------------------
(* SIGALRM.  It may come at any point once due, and, because the detector  *)
(* re-arms it around each of its calls, late or never.                     *)

AlarmStrikes(points) == /\ Running /\ pc \in points
                        /\ alarm = "armed" /\ clock >= Deadline
                        /\ alarm' = "off"

(* While it reads, and after `_output` returned: main's own except. *)
AlarmInMain ==
    /\ AlarmStrikes({"read", "disarm"})
    /\ pc' = "refuse"
    /\ Outside
    /\ UNCHANGED << raw, stdout, output, records, names >>

(* In the inspection: the handlers of a prompt or of a tool event refuse   *)
(* it; while the adapter is imported, once the redirection is undone.      *)
AlarmInInspection ==
    /\ AlarmStrikes({"inspect", "issue", "note"})
    /\ \/ event # "stop" /\ UNCHANGED stdout
       \/ pc = "inspect" /\ stdout' = Restored
    /\ pc' = "refuse"
    /\ Outside
    /\ UNCHANGED << raw, output, records, names >>

(* On a line that only the last handler inside the redirection sees: of    *)
(* the inspection, before a tool event's own `try` and around the Stop     *)
(* path's; of _not_inspected, before its `try`, in its `except` and around *)
(* the record.  The answer is a prompt's block, whatever the event is.     *)
AlarmInLastHandler ==
    /\ \/ AlarmStrikes({"inspect", "refuse"}) /\ UNCHANGED records
       \/ AlarmStrikes({"refuseRecord"}) /\ RefusalRecorded
    /\ Redirected
    /\ output' = "block" /\ pc' = "restore"
    /\ Outside
    /\ UNCHANGED << raw, stdout, names >>

(* On such a line of a refusal outside the redirection: it leaves          *)
(* `_output`, and main refuses the event again, with no alarm left.        *)
AlarmInRefusal ==
    /\ \/ AlarmStrikes({"refuse"}) /\ UNCHANGED records
       \/ AlarmStrikes({"refuseRecord"}) /\ RefusalRecorded
    /\ ~Redirected
    /\ pc' = "refuse"
    /\ Outside
    /\ UNCHANGED << raw, stdout, output, names >>

(* Swallowed: by remember() and _uninspected() with the record, by         *)
(* _not_inspected() with the adapter's refusal, and by the Stop path.      *)
AlarmSwallowed ==
    /\ \/ AlarmStrikes({"record"}) /\ pc' = "note" /\ UNCHANGED output
       \/ AlarmStrikes({"refuseRecord"}) /\ UNCHANGED output /\ pc' = AfterRefusal
       \/ AlarmStrikes({"refuse"}) /\ event # "prompt" /\ raw = "event"
          /\ output' = Fallback[event] /\ pc' = "refuseRecord"
       \/ AlarmStrikes({"inspect"}) /\ event = "stop" /\ raw = "event"
          /\ output' = "silent" /\ pc' = "restore"
    /\ Outside
    /\ UNCHANGED << raw, stdout, records, names >>

(* In _silence_dependencies: TimeoutError is an OSError, so on the way in  *)
(* `suppress(OSError)` hides it and no copy of descriptor 1 is kept; on the *)
(* way out it skips the dup2 that puts the copy back.                       *)
AlarmInRedirection ==
    /\ \/ /\ AlarmStrikes({"redirect"})
          /\ \/ pc' = "inspect" /\ stdout' = "gone"
             \/ pc' = "refuse" /\ UNCHANGED stdout
       \/ /\ AlarmStrikes({"restore"})
          /\ pc' = "refuse" /\ stdout' \in {Restored, "lost"}
    /\ Outside
    /\ UNCHANGED << raw, output, records, names >>

-----------------------------------------------------------------------------
(* The timer thread. *)


(* Mutant: the timer gives up on an event that was not read. *)
MutantUnanswered == holder = "none" /\ raw = "event"

(* `answered` is free. *)
Unanswered == holder = "none"

(* The timer counts from the start of the process. *)
AnswerIsDue == clock >= AnswerBy

(* overdue: takes the lock without waiting, or gives up. *)
TimerFires ==
    /\ Running /\ timer = "armed" /\ AnswerIsDue
    /\ IF Unanswered THEN timer' = "firing" /\ holder' = "timer"
                     ELSE timer' = "done" /\ UNCHANGED holder
    /\ UNCHANGED << event, due, clock, began, dup, pc, raw, alarm, stdout,
                    output, records, names, written, delivered, ended >>

(* The bytes are picked from what main has read by now, and written one    *)
(* os.write at a time on a copy of descriptor 1 made before it was         *)
(* redirected, ...                                                         *)
TimerWrites ==
    /\ Running /\ timer = "firing"
    /\ timer' = "writing"
    /\ written' = written \cup {"timer"}
    /\ delivered' = FixedRefusal
    /\ UNCHANGED << event, due, clock, began, dup, pc, raw, alarm, stdout,
                    output, records, names, holder, ended >>

(* ... and then os._exit ends the main thread wherever it is. *)
TimerExits ==
    /\ Running /\ timer = "writing"
    /\ timer' = "done" /\ ended' = "timerExit"
    /\ UNCHANGED << event, due, clock, began, dup, pc, raw, alarm, stdout,
                    output, records, names, holder, written, delivered >>

-----------------------------------------------------------------------------
(* Time, and the client. *)

(* What the margin between AnswerBy and Timeout is for: a thread that is   *)
(* about to answer is not held up for longer.                              *)
KeepsUp == /\ ~(timer = "armed" /\ AnswerIsDue)
           /\ timer \notin {"firing", "writing"}
           /\ pc # "write"

Tick ==
    /\ Running /\ clock < Timeout
    /\ clock + 1 = Timeout => KeepsUp
    /\ clock' = clock + 1
    /\ UNCHANGED << event, due, began, dup, pc, raw, alarm, stdout, output,
                    records, names, timer, holder, written, delivered,
                    ended >>

(* A client kills a hook that runs past the registered timeout. *)
ClientKills ==
    /\ Running /\ clock = Timeout
    /\ ended' = "killed"
    /\ UNCHANGED << event, due, clock, began, dup, pc, raw, alarm, stdout,
                    output, records, names, timer, holder, written, delivered >>

Main ==
    \/ StartMain \/ ReadEvent \/ Redirect \/ Inspected \/ IssueNames \/ KeepRecord
    \/ Returned \/ InspectionFails \/ FailsInLastHandler \/ Refuse \/ RecordRefusal \/ Restore
    \/ Disarm \/ Acquire \/ WriteAnswer

Alarm ==
    \/ AlarmInMain \/ AlarmInInspection \/ AlarmInLastHandler \/ AlarmInRefusal
    \/ AlarmSwallowed \/ AlarmInRedirection

Timer == TimerFires \/ TimerWrites \/ TimerExits

(* The process has ended: nothing of it moves. *)
Over == ~Running /\ UNCHANGED vars

Next == Main \/ Alarm \/ Timer \/ Tick \/ ClientKills \/ Over

Spec == Init /\ [][Next]_vars

(* The main thread may hang anywhere, in the disk or in a long C call.     *)
(* Time passes, and a thread with nothing to wait for but its own write    *)
(* gets to run.                                                            *)
Fairness ==
    /\ WF_vars(Tick) /\ WF_vars(ClientKills)
    /\ WF_vars(Timer) /\ WF_vars(WriteAnswer)

FairSpec == Spec /\ Fairness

-----------------------------------------------------------------------------
(* Properties. *)

TypeOK ==
    /\ event \in Events
    /\ due \in DueAnswers[event]
    /\ clock \in 0..Timeout /\ began \in 0..Timeout /\ dup \in {"none", "kept", "failed"}
    /\ pc \in MainPoints
    /\ raw \in {"empty", "event", "unnamed"} /\ alarm \in {"off", "armed"}
    /\ stdout \in {"pipe", "null", "gone", "lost"}
    /\ output \in Answers \cup {None}
    /\ records \subseteq {"allow", "report", "mask", "deny"}
    /\ names \in {"none", "issued"}
    /\ timer \in {"none", "armed", "firing", "writing", "done"}
    /\ holder \in {"none", "main", "timer"}
    /\ written \subseteq {"main", "timer"}
    /\ delivered \in Answers \cup {None}
    /\ ended \in {"no", "exited", "timerExit", "killed"}

(* What the client makes of an ended hook: no bytes are an empty answer. *)
Told == IF delivered = None THEN "silent" ELSE delivered

(* The answers that keep an event from going on as it was. *)
Refusing ==
    [prompt |-> {"block", "copy"}, call |-> {"deny"}, mcpResult |-> {"withhold"},
     builtinResult |-> {"withhold"}, failure |-> {}, stop |-> {}]

(* The model, or the tool, gets the event as it was. *)
PassedOn == ended # "no" /\ Told # "mask" /\ Told \notin Refusing[event]

(* The timer could not be armed: Python came too late, or had no           *)
(* descriptor to answer on.                                                *)
NoTimer == dup # "kept" \/ began >= AnswerBy

(* An answer is written once and whole (privacy.md): main and the timer    *)
(* never both write, and main does not exit, which would end the timer     *)
(* thread, while the timer's answer is half written.                       *)
WrittenOnceWhole ==
    /\ written # {"main", "timer"}
    /\ ended = "exited" => timer \notin {"firing", "writing"}

(* An answer that shows placeholders is out only when their names are on   *)
(* disk, so that a later write of one can be refused (_issue, D3).         *)
NamesBeforeShown == ShowsNames(delivered) => names = "issued"

(* Failing closed, as far as the code goes: an event goes on as it was     *)
(* only if its inspection ended so, if no answer could stop it or the      *)
(* fixed one does not (a built-in tool's result), or in one of three       *)
(* corners: it was answered as a prompt is, the client killed a hook that  *)
(* had no timer, or the alarm struck the redirection.  The prompt's block  *)
(* is what an event that is no prompt gets when its name was not read, and *)
(* when only the last handler of `_output` saw the exception.              *)
FailsClosed ==
    PassedOn => \/ Told = due /\ "main" \in written
                \/ event \in {"failure", "stop", "builtinResult"} /\ Told = Fallback[event]
                \/ Told = "block" /\ event # "prompt"
                \/ ended = "killed" /\ NoTimer
                \/ stdout = "lost"

(* The client never has to kill a hook that armed its timer. *)
AnsweredInTime == ended = "killed" => NoTimer

(* Main and the timer share one answer, and one of them gives it before    *)
(* the client's own timeout.                                               *)
OneAnswerInTime == WrittenOnceWhole /\ AnsweredInTime

(* A record of a refusal and the answer the client gets.  Until the        *)
(* deadline they agree.  Past it the alarm or the timer may answer after   *)
(* the record was kept, and an event on record as refused goes on as it    *)
(* was only as a built-in tool's result that got the fixed report, with a  *)
(* prompt's block for an answer, or with none at all.                      *)
RecordsAreTrue ==
    "deny" \in records /\ PassedOn =>
        /\ clock >= Deadline
        /\ \/ event = "builtinResult" /\ Told = "report"
           \/ event # "prompt" /\ Told = "block"
           \/ delivered = None /\ (stdout = "lost" \/ NoTimer)

(* A hook that armed its timer has answered and gone in the end, wherever  *)
(* its main thread hangs.                                                  *)
EventuallyAnswered == timer = "armed" ~> ended \in {"exited", "timerExit"}

(* The inductive invariant behind the safety properties. *)

(* `answered` has one holder, who alone puts bytes on the pipe. *)
LockInv ==
    /\ written \subseteq {holder}
    /\ (holder = "main") <=> (pc \in {"write", "done"})
    /\ (holder = "timer") <=> (timer \in {"firing", "writing"} \/ ended = "timerExit")
    /\ timer = "done" /\ ended # "timerExit" => holder = "main"
    /\ (pc = "done") <=> (ended = "exited")
    /\ pc = "start" => timer = "none"
    /\ timer = "writing" => "timer" \in written
    /\ "timer" \in written => timer \in {"writing", "done"}
    /\ ended = "timerExit" => "timer" \in written
    /\ "main" \in written => pc = "done"

(* What stands in `output` at each point of the main thread. *)
OutputInv ==
    /\ output \in {None, due, Fallback[event], "block"}
                 \cup (IF event = "builtinResult" THEN {"withhold"} ELSE {})
    /\ pc \in {"start", "read", "redirect", "inspect"} => output = None
    /\ pc \in {"issue", "record", "note", "refuseRecord", "restore", "disarm",
               "acquire", "write", "done"} => output # None
    /\ pc \in {"record", "note", "restore", "disarm", "acquire", "write", "done"}
         /\ ShowsNames(output) => names = "issued"
    /\ pc = "refuseRecord" => ~ShowsNames(output)
    /\ pc \in {"issue", "record", "note"} => output = due
    /\ raw = "empty" => stdout \in {"pipe", "lost"}
    /\ raw = "empty" => pc \in {"start", "read", "refuse", "disarm", "acquire", "write",
                            "done"}

(* Main's output is no less than what is on record: nothing replaces a     *)
(* recorded refusal but another refusal of the event, or a prompt's block. *)
RecordInv ==
    /\ pc \in {"start", "read", "redirect", "inspect", "issue"} => records = {}
    /\ "deny" \in records =>
          /\ event \notin {"failure", "stop"}
          /\ output \in Refusing[event] \cup {Fallback[event], "block"}

(* What was delivered is main's output, or what the timer could pick. *)
DeliveredInv ==
    /\ written = {} => delivered = None
    /\ "main" \in written => delivered = output
    /\ "timer" \in written => delivered \in {Fallback[event], "block"}
    /\ "main" \notin written /\ pc = "done" => stdout = "lost"

(* A timer that could be armed was, and time does not run out on it. *)
TimerInv ==
    /\ pc = "start" => timer = "none" /\ dup = "none"
    /\ timer = "none" => pc = "start" \/ NoTimer
    /\ Running /\ clock = Timeout => NoTimer
    /\ ended = "killed" => NoTimer

(* Until the deadline nothing cuts the hook's work short: what is recorded *)
(* as refused is what is being answered.                                   *)
OnTimeInv ==
    clock < Deadline =>
        /\ stdout \in {"pipe", "null"} /\ holder # "timer" /\ ended \in {"no", "exited"}
        /\ "deny" \in records =>
              /\ output \in Refusing[event]
              /\ pc \in {"note", "restore", "disarm", "acquire", "write", "done"}

IInv == TypeOK /\ LockInv /\ OutputInv /\ RecordInv /\ DeliveredInv /\ TimerInv

-----------------------------------------------------------------------------
(* What the documentation says, and the code does not do. *)

(* hook.py, _not_inspected: "the record cannot claim a withhold the client *)
(* was never asked for".                                                   *)
RecordClaimsOnlyWhatWasAsked ==
    ended = "timerExit" /\ "deny" \in records => ~PassedOn

(* privacy.md: a late hook "still reads the event before it refuses, so    *)
(* the refusal fits it", and the timer's answer is "a fixed refusal for    *)
(* the event".                                                             *)
RefusalIsForTheEvent == event # "prompt" => delivered # "block"

(* README.md: a hook that runs but cannot inspect "fails closed, in every  *)
(* mode: ... a Claude Code tool result withheld".                          *)
ResultsAreWithheld ==
    ended = "timerExit" /\ event = "builtinResult" /\ Told # "block" => ~PassedOn

(* README.md: "shim's hook answers within 25 seconds of the client         *)
(* starting it"; what it answers is what main computed.                    *)
AnswerReachesTheClient == ended = "exited" => Told = output

=============================================================================
