# shim, specified and checked

`shim` guards coding agents: a client (Claude Code, VS Code, Codex, Copilot)
runs it as a hook around prompts and tool calls, and it masks, refuses or
reports personal data and secrets. This directory holds TLA+ specifications
of the program, TLC configurations that check them on small instances, and
proofs that TLAPS checks for every value of the constants. `PROJECT.json`
lists the runs, the theorems, the lines each definition models, the hazards
the properties were written for, and the findings.

Paths below are relative to `src/shim_cli/`; docs are named in full.

## 1. The system

| component | state it keeps | operations | what interacts with it |
|---|---|---|---|
| hook process (`hook.py`) | its answer, the lock of the answer, descriptors 0-2, the alarm, the timer | one event: read, inspect, record, answer; the fixed answer of the timer; what is told of an event cut short | the client (starts it, kills it), the spool, the settings |
| event pipeline (`events/pipeline.py`, `events/payload.py`, `events/html_text.py`) | findings, replacements, numbers given, for one event | self-protection, write-back check, walking and masking a payload, decision, encoding | detector, policy, adapters, names on disk |
| policy (`policy.py`) | none: modes from the settings | tool kind, direction, mode, action; the reader of shell lines | pipeline |
| client adapters (`clients/*`) | none | decode an event, encode an action | hook |
| detector (`guard/`) | a numbering per event, the timer of an analysis | match, normalize, cut in pieces, resolve overlaps, number findings | payload |
| session files (`session/_files.py`, `spool.py`, `record.py`) | per session: records, names, summary mark, loss marker | append, read, issue, mark, clear | hooks of one session, in parallel |
| session summary (`session/summary.py`) | the mark of the last one | count the records, name the places, show what is new | Stop hooks, `shim report` |
| ledger (`session/ledger.py`) | a file of records per month, 30 days kept | append, prune, purge, show, merge the old directory | hooks, commands |
| settings files (`settings_files/`, `config.py`) | the files of settings, a lock on their folder | inspect, plan, lock, publish; read with retries | commands, editors, hooks that read |
| `shim config` (`cli/configuration.py`) | none | change what the options name, reset, show | settings files |
| migration (`cli/migration.py`) | none: the old path's absence is its state | move the settings, move or merge a month of the ledger | hooks that read or append, commands |
| client hook settings (`clients/hook_settings.py`, `cli/integrations.py`) | the groups in a client's settings | install, revert, say what is kept | settings files, other hooks in the same file |
| `shim audit` (`cli/audit.py`) | none: the client's history on disk | scan, give a verdict, ask, purge | a client that writes on |
| `shim doctor` and the findings (`cli/diagnostics.py`, `cli/findings.py`) | none | check the hooks and the settings; raise findings of checks, records and a watch | what the other commands leave |
| watch (`watch/`, `cli/watch.py`) | a session of exchanges; counters, slots, sections | forward, measure, read an answer, stop, report; pass signals on | the client, the upstream, threads |
| other commands (`cli/`) | none | read and print | all of the above |

What is hard in it, and hard to test:

* **One answer, three hands.** In the hook process the main thread, an alarm
  that raises an exception at any line of it, and a timer thread race for one
  answer, before the client kills the process (docs/architecture.md:155-171).
* **Hooks in parallel, on files.** Hooks of one session run at the same time
  and share files; each may be killed between two system calls, a lock is only
  waited for a tenth of a second, a write may fall short
  (docs/architecture.md:262-271).
* **Placeholders over events.** What one event shows the model, a later one
  must recognise when the model writes it back (docs/privacy.md:400-421),
  although the hook keeps no value, and any step in between may fail.
* **Failing closed, as far as a client lets it.** Five encoders accept five
  sets of actions; mode, direction and power are combined in three places.
* **Files other programs write.** The settings are published against editors
  and other commands, and read meanwhile.
* **Moves beside running hooks.** The files of 0.2.0 are moved by whichever
  command comes first, with no lock over the looking and the moving.
* **Deleting what is still written.** Audit purges a history its client adds
  to; the ledger prunes months that late hooks append to.
* **A proxy whose end matters.** Watch holds the port its client sends
  credentials to and must outlive it, under signals at any line; its report
  reads what its threads still write.
* **Reading what others meant.** A shell line, a page of markup, a normalized
  text, a stream in chunks, an event cut short: each is read by a hand-written
  reader whose cases meet in more ways than tests list.

What makes each part correct is stated with the modules below.

## 2. The modules

| module | models | checked by | proved in |
|---|---|---|---|
| `HookAnswer` | one hook process: main, the alarm, the timer thread, the client's timeout | `MCHookAnswer`, `MCHookLostAnswer` (section 5) | `HookAnswerProofs` |
| `ToolEvent` | a session's tool events through `process()` and `_tool_output` | `MCToolEvent` | `ToolEventProofs` |
| `Control` | the reader of shell lines, the program of a command, the file of a path, what is told of a cut event | `MCAlgorithms` | - |
| `Payload` | walking an event, masking a page that is converted, putting the event back together | `MCAlgorithms` | - |
| `Recognizers`, `Spans` | the detector: which matches count, their spans, and the pieces a long text is read in | `MCAlgorithms` | `HookAnswerProofs` (the pieces) |
| `Numbering`, `Deadline` | the detector: the numbers of placeholders, the two timers | `MCAlgorithms` | `SessionProofs` |
| `Journal` | one session file, system call by system call, with the hooks and summaries that share it | `MCJournal` | `JournalProofs` |
| `AppendLog` | what such a file promises: lines are added whole and stay | `Journal` implements it | `JournalProofs` |
| `Names` | the names of a session's placeholders, kept, read and removed | `MCSession` | `SessionProofs` |
| `StopHook` | a session's summaries and their mark, beside hooks that append and the session's end | `MCSession` | `SessionProofs` |
| `Summary` | what a summary and `shim report` say of the records (with `Findings`) | `MCSession` | `SessionProofs` |
| `Retention` | how long the ledger keeps its months | `MCMoves` | `MovesProofs` |
| `SettingsFile` | one settings file: commands that save, hooks that read, an editor | `MCSettingsFile` (two cfgs) | `SettingsFileProofs` |
| `SettingsRegister` | what such a file promises: one register, read whole, changed in one step or not at all | `SettingsFile` implements it | `SettingsFileProofs` |
| `SettingsMove` | the move of the 0.2.0 settings, hooks that fall back, commands that save | `MCMoves`, and alone (section 5) | `MovesProofs` |
| `LedgerMove` | the move or merge of a month of the 0.2.0 ledger beside hooks | `MCMoves`, and alone (section 5) | `MovesProofs` |
| `Configuration` | what `shim config` makes of the settings, command after command | `MCMoves` | `CommandsProofs` |
| `Filters` | a sequence without some elements, and the sum of one of numbers, as functions | with the modules that use them | `CommandsProofs`, `SessionProofs` |
| `HookSettings` | `shim install` and `shim revert` among other hooks and edits | `MCMoves` | `CommandsProofs` |
| `Doctor` | every check of `shim doctor`, and a user who does what it says (extends `HookSettings`, `Findings`) | `MCMoves` | `CommandsProofs` |
| `Audit` | `shim audit --purge` beside a Claude Code that writes on | `MCMoves` | `CommandsProofs` |
| `Findings` | the rules and findings of doctor and watch; extended by `Summary`, `Doctor`, `Report` | with these | `CommandsProofs`, of doctor's |
| `WatchProxy` | the requests through the proxy, the drain, the report that reads beside them | `MCWatch` | `WatchProofs` |
| `Supervise` | the main thread of `shim watch` under signals at any line | `MCWatch` | `WatchProofs` |
| `Watch` | the two composed: the client that sends requests is the one supervised | `MCWatch` | `WatchProofs` |
| `UsageReader` | the relay of an answer and the reading of its usage | `MCAlgorithms` | `WatchProofs` |
| `Measure`, `Report` | the split of a request; cache rewrites, the report's text, JSON and findings, over it | `MCAlgorithms` | - |

The modules stack. `HookAnswer` takes keeping the names and the record as
steps that succeed or fail; `Names`, `StopHook` and `Journal` say what these
mean over processes. `Names`, `StopHook`, `Retention` and `LedgerMove` take an
append for one step, which is what `Journal` shows of it. `ToolEvent` takes
the settings it runs under as an input; `SettingsFile` says which version a
hook may get, `SettingsMove`, which takes an inspection and a save for one
step each, from which of the two files, and `Configuration` what a file says.
`ToolEvent` takes for inputs whether a call turns shim off (`Control`), what
its leaves hold (`Payload`, over `Spans` and `Recognizers`) and which
placeholders it gave (`Numbering`).

`MCSession`, `MCMoves` and `MCAlgorithms` hold several specifications that
share no state in one run. A variable `part`, which never changes, says which
of them a behaviour is of; the others keep their first state, so that the
states of a run are the sum of the parts' and not their product. A property
named in such a run says what its part's does, guarded by `part` where the
idle state of the others does not satisfy it of itself.

### HookAnswer

State: the clock; the event and how much of it was read (`raw`); where main
is (`pc`); `due`, the answer its inspection comes to; the answer it holds;
the holder of the lock `answered`; descriptor 1 (`stdout`); the timer and the
alarm; whether names and a record are on disk; what was delivered. An action
is one step of `main` between two points where the alarm can land or the
timer can run. The timer's lock is never released once taken, as in the code.

* `OneAnswerInTime` (`WrittenOnceWhole`, `AnsweredInTime`): one answer goes out,
  by one hand, no exit cuts it, and the client has it before its timeout
  although main may hang.
* `NamesBeforeShown`: an answer with placeholders only after their names.
* `FailsClosed`: an event passes as it was only if its inspection said so, if
  the client gives no way to stop it or the fixed answer does not, or in the
  corners the property names. The widest is the prompt's block: an exception
  that only the last handlers of `_output` see (hook.py:1131-1134), from the
  lines before a tool event's own `try`, or from the lines of `_not_inspected`
  outside its `try`, answers any event with `error_output()`, which no tool
  event's client acts on (`FailsInLastHandler`, `AlarmInLastHandler`). Outside
  the redirection main catches it and refuses again (`AlarmInRefusal`).
* `RecordsAreTrue`: before the deadline a record of a refusal is of the refusal
  the client gets. After it the alarm or the timer may answer otherwise once
  the record is kept; the property names what the client is then told: the
  fixed report of a built-in result, a prompt's block, or nothing.
* `EventuallyAnswered`: an armed timer means the process ends.

`KeepsUp` is the margin the code leaves between its answer time and the
registered timeout (docs/privacy.md:609-626): the timer's thread runs before
the client's timeout if it is due before it. A run where the machine stalls
the process for five seconds has no answer, and no property claims one.
The alarm strikes once, at any point of main until it is taken back.

### ToolEvent

State: one event (client hook, tool, the modes the settings name, its body,
whether it holds shim's controls or placeholders), how far its leaves are
read and with what outcome, the action, the answer, the record, and over
events the names on disk (`issued`) and the names the model saw (`shown`).
`Fails` is any exception at any step, answered by `_not_inspected`: with the
adapter's refusal or, where that cannot be built, with `FixedAnswers`, which for
most results is only a report.

* `NeverWrittenBack`: in a session, no call that may reach a file passes with
  a placeholder the model was ever shown.
* `FindingsAreHeld` (`EnforceHolds`, `UnreadIsRefused`, `MaskIsWhole`): an enforced finding never
  passes where the client can stop it; what was not read is refused in every
  mode; a mask is complete and only where shim knows the destination. What the
  fixed report lets through is excepted by name (`OnlyReported`).
* `RefusesAsAsked` (`RefusalWasAsked`, `ToolsModeRules`, `AskedIsEncodable`):
  nobody who only installed is refused calls in a client that cannot mask; the
  most specific mode wins; no action reaches an encoder that raises on it.
* `RecordIsTrue`: the record tells what the client was asked.

### Journal

State: the file as a sequence of parts of lines, its lock, the loss marker,
and per process its step, offset, the size it saw, what it wrote. Processes
append (`_files.append` under `spool.append`), read (`_files.read`), hang, or
die between any two system calls; a write may be short or fail.

* `LimitIsTold`: no lock or race takes the file past its cap, and
  what is refused there leaves the loss marker.
* `LinesAreWhole` (`TornOnlyByTheDead`, `KeptStays`, `KeptIsCounted`,
  `ReadsWholeLines`): only a death leaves a torn line, what was kept stays and
  is read, whole.
* `ImplementsAppendLog`: the whole lines in the file only grow at the end,
  and a line that was added stays: `AppendLog` with the kept lines as its log.
* `SteadyEnds`: an append ends although others hang with the lock.

### Names

State: per process the run of names it is about and its step; the lines of the
names file, each with how much of it was written, and of the file a late hook
makes once the session's end has removed the first. `Keep`, `Open` and the
appends are `spool.issue`; `Check` is `hook._issued` for a write.

* `HandedIsKnown`: what the model was handed is issued later, or reading it
  raises, through races, the cap, failures and deaths in mid-line.
* `NoWriteBack`: a write that holds a name handed out before is refused.

Both exclude `Hidden`, the one fragment that hides a line without an error
(section 5).

### SettingsFile

State: the inode at the path, and each inode's content (the set of changes it
holds), stamp and temporary name; the lock; per process how far its inspection
is and what it found, its plan and its outcome. Inspection is `_read_at`, from
the `stat` to the second `fstat`, with the content read in two halves. A
command inspects three times: to plan, under the lock, and before it publishes.
The editor writes in place, replaces or deletes at any moment.

* `ReadsWhatIsThere` (`ReadsOneVersion`, `NeverDefaults`, `LinkedIsCutShort`): a
  hook gets one version of the file, never the defaults while there is a file;
  a second link comes from a save at work or one cut short.
* `SteadyReads`: a hook comes to an end of its inspection.
* `ActsAsRegister`: `SettingsRegister` with the content at the path as its
  value, and `SavesCompose`. A look sees all of that value or nothing; a command
  adds its change to what it planned from, in one step, and only where that is
  still the value; a failure, an interrupt or a death leaves the value as it was
  before that step or after it; "same" is said only of a change that was there
  at a second look too, "saved" only after the step. `SavesCompose` adds that
  what a save replaces is kept in it. The gap the code names (files.py:313),
  between the last inspection and the rename, is open to the editor only:
  `raced`, the register's `overtaken`, is the commands it slipped past.

### SettingsMove and LedgerMove

State: the old and the new path, what is in the files, and each command's
step. A move is a rename, or across devices (`devices`) a copy that is opened,
written and followed by an unlink. A month on both sides is merged by one
append of what was read.

* `SettingsAreSomewhere`, `ChangeStays`: on one device the user's settings are
  whole at one of the paths, but for a change made after a failed move; a change
  saved to them is never undone. One saved to the defaults after a failed move
  is, by the late rename of a command that had found no file at the new path
  (migration.py:82-88), and by no other step. Both say nothing across devices,
  where a copy is neither atomic nor exclusive.
* `PastIsKept`, `KeptLeavesByRename`: what 0.2.0 wrote is never lost; a hook's
  record only by a rename of a command that looked before it was there.

### StopHook and Summary

State of `StopHook`: the logs, each removed by an end of the session but the
last; the loss marker; the mark, as far as it was written; its lock; per
process its step and what it read. `Read`, `Mark`, `Show` and their failures
are `hook._summary_output`; the session's end unlinks the files one by one, as
`spool.clear` does, while a late recorder has its log open.

* `SilenceIsTrue` (`QuietIsNoNews`, `MarkIsNotAhead`): a Stop says nothing only
  where each record it read was shown, or lost with a Stop that was ended after
  its mark; and the mark counts no record the log lacks.

State of `Summary`: the records, as the hooks write them (`events/pipeline.py`,
`hook.py`) and as another version may have. What is rendered is an operator.

* `RecordsAreTold` (`SummaryAccounts`, `FindingsStay`): each finding is counted
  once among the actions, each event that was not inspected is told of, a line
  names no place none of its records was of, and the findings in the JSON say
  the same and stay under later records.

### Configuration, HookSettings, Doctor

`Configuration` has the file, as users write it or as it was rendered, and one
invocation after the other: parsing, refusing, changing, rendering.

* `ConfigIsExact` (`ShownIsLoaded`, `OthersStay`, `NamedTakesEffect`,
  `SavesAreSafe`): what is shown is what hooks read; what a command does not
  name stays, in its order; what it names takes effect; no pattern that
  backtracks is saved, and a reset clears whatever does not parse.

`HookSettings` has a client's file as groups of hooks per event, commands of
two installations that plan and then write if the file is still the one they
read, and an editor between. Claude Code's, Codex's and Copilot's ways are
initial states.

* `TheirsStay` (action property), `InstallsStand` (`LatestStands`,
  `InstallIsUndone`, `AnnouncedIsDone`): the hooks of others stay, in order;
  after the last success every event runs shim once, or not at all; install
  and revert undo each other; install does what it says.

`Doctor` reads a world: the file, the old file, the plugins, the command, the
settings (`RunDoctor`; `NotAsked` until then). What follows is a user who
installs, reverts or removes a plugin as advised, or leaves it (`Follow`).

* `DoctorIsRight` (`InspectionIsTold`, `AdviceHelps`, `OneCauseIsToldOnce`,
  `FindingsFit`): what is inspected twice or not at all is failed; the advice
  leads to a passing check; one finding per check that does not pass.

### Audit and Retention

`Audit` lists, looks at and reads each file, gives its verdict, asks, checks
that the files are unchanged, rewrites the history and removes folders and
transcripts, one call per step; Claude Code writes and any call may fail or be
the last.

* `AuditIsExact` (`SafeWasRead`, `DeletesWhatItSaid`): "safe" is of what was
  read; a session said to be deleted had something found in it, those of its
  files that were looked at were unchanged, its history is gone, and so is its
  main file, if that was looked at. A main file whose `lstat` fails is skipped
  alone: the first of the other files is then taken for the transcript
  (`Transcript`), and the main file stays. One whose folder cannot be told for
  an OSError drops its session.

`Retention` has days, months of their real length, hooks that looked at the
clock earlier, a purge and a show.

* `RetentionHolds`: nothing is pruned before its thirty days; a month that lost
  an event, and got its marker, says so; a show that ends has every record that
  stays. The marker may fail as the append did, and a hook or command may be
  killed before it or between a marker and its month (`Stops`): what such a
  loss leaves unsaid is no part of the property.

### WatchProxy, Supervise, Watch

`WatchProxy` has a thread per request: counted in, slot, body in flight,
upstream, recorded, relayed, inspected, counted out, with a failure at each.
`stop()` drains and closes; the report reads while other threads run on.
`Supervise` has the main thread and `escalate()` on top of it. `Watch` joins
them: requests come while the client runs, and all ends with main.

* `SharedIsRight` (`Accounts`, `DuplicatesMarked`, `CarriedAtFullSize`): slots,
  counters and bodies in flight are those of the threads, on every path; one
  of two equal requests at a time is a duplicate; a result is known at its
  largest size.
* `ReportAccounts`: nothing a report counts is without its explanation.
* `OutlivesClient`: the client never outlives its proxy, but for an exception
  before the loop or a Ctrl-C inside `escalate()`.
* `EndsOnRequest`: who asks twice, or a third time, gets an end.

### The algorithms

Each of these modules builds its input a step at a time, so that TLC reaches
every input of the bounds; the properties compare what the code makes of it
with a definition of what it is for.

* `UsageReader`, `KnownIsExact`: whatever the chunks, the usage read is what
  the answer says, or unknown; usage called known had both its counts named by a
  document (`IsNamed`), and a scan called known is of everything the model wrote
  (`Written`). `Chunk` checks the bound on what is held, as feed() does before
  its loop, and each `ReadToken` is one step of that loop: nothing else of the
  relay runs between them (`Reading`, `Between`).
* `Measure`, `Report`, `ReportTells` (`SplitIsExact`,
  `RepeatsAreKnown`, `StoriesAgree`, `WasteIsExplained`): every token is some
  section's and the totals are the bill's; what is sent again is known as
  such; text and JSON tell one story, and the findings explain it. Of a request
  with a result that cannot be encoded the images, results and conversation are
  unknown, and its messages have no size (`InspectUnencodable`).
* `Recognizers`, `Spans`, `DetectedIsRight` (`MatchesAreSound`,
  `OverlapsAreUnited`, `BothReadingsCount`, `ValuesAreWhole`): exactly the
  matches that count are found; findings are apart and cover what was found,
  in both readings; a value no longer than the overlap of two pieces is whole.
  A long text is written, cut (`BeginPieces`) and read piece by piece
  (`ReadPieces`): a piece may be refused and cut again, at any place past the
  overlap and more than once, may fail, or meet the deadline (`PiecesReadAll`).
* `Numbering`, `NamesAreUnique`: a value has one number, in no other's name.
* `Deadline`, `AlarmIsKept`: the hook's alarm comes when it was set to.
* `Payload`, `EventsAreMasked` (`KeyOnlyAdds`, `PageIsMasked`, `EventIsMasked`):
  the shortcut under a long key loses nothing; a page hands on no part of a
  value its markup or its text shows; an event goes out whole and masked, in
  the same shape, or is refused. A leaf may meet the deadline, fail, fail in a
  piece, or meet the deadline while it is converted (`FailsAt`), which refuses
  the event, but for the last when no leaf follows: that one is masked as it is.
* `Control`, `ControlsAreSeen` (`LineIsRead`, `ControlIsNamed`, `FileIsChecked`,
  `CutIsTold`): the input is written from its meaning (commands, words, a file,
  an event's members) and the reader must come back to it, so that a command
  or a path that turns shim off is not missed and a cut event is answered
  within what is known of it. Of redirections with a number the model writes
  the unquoted ones; a substitution ends the command it stands in.

## 3. The runs

| run | cfg | expects | shows |
|---|---|---|---|
| `hook_answer` | `MCHookAnswer.cfg` | pass | One hook process, its main thread, alarm and timer thread, for every kind of event: the one answer, in time, failing closed, with a record of a refusal that is of the one the client gets, but where the deadline came in between. |
| `journal` | `MCJournal.cfg` | pass | Three parallel appends and a summary on one journal file, with short and failed writes, lock timeouts and deaths: an append-only log within its cap, and an append that ends although the others hang. |
| `tool_event` | `MCToolEvent.cfg` | pass | A session of tool events through the pipeline, each client, tool, mode and failure: what is refused, masked, recorded, and that no placeholder is written back. |
| `session` | `MCSession.cfg` | pass | What a session keeps: placeholder names over parallel hooks, failures and deaths; the Stop hooks' summaries and their mark beside hooks that append and the session's end; and what a summary and the findings of `shim report` say of any two records. |
| `settings_file` | `MCSettingsFile.cfg` | pass | Two commands save to one file, a hook reads it and an editor rewrites, replaces or removes it, with every call failing and commands killed: the file is one register, which a save changes in one step or not at all and which is read whole; saves compose. |
| `settings_reader` | `MCSettingsReader.cfg` | pass | A hook ends its inspection within its three looks, with a command at work, hung or killed with the lock, and an editor that writes twice. |
| `moves` | `MCMoves.cfg` | pass | The files commands change: the 0.2.0 settings and a month of the ledger moved beside hooks and other commands, shim's hooks added to and removed from a client's settings beside others' edits, in each client's way; what `shim audit` finds and its purge removes while Claude Code writes on; how long the ledger keeps its months beside hooks, a purge and a show; and what `shim doctor` says of the hooks, to a user who does as it says, and which findings it raises; and what `shim config` saves of any settings, one command after the other. |
| `watch` | `MCWatch.cfg` | pass | shim watch: two requests through the proxy with every failure on their way, the drain and the report that reads what the handlers still write, and the client supervised under signals at any line. |
| `algorithms` | `MCAlgorithms.cfg` | pass | The pure algorithms on every small input, against what they are to compute: the stream reader cut at any byte, the split of a bill, cache rewrites, what the report says in its text, its JSON and its findings, deduplication and checksums, overlapping spans and pieces, placeholder numbers, nested deadlines, an event read, converted and masked, and the commands and files that turn shim off. |
| `hook_lost_answer` | `MCHookLostAnswer.cfg` | violation | The alarm in _silence_dependencies leaves descriptor 1 on the null device, and the answer goes there. |
| `settings_shadow` | `MCSettingsShadow.cfg` | violation | A failed move followed by a save, or a copy cut short, leaves a new file without the user's settings in front of the old one. |
| `ledger_both` | `MCLedgerBoth.cfg` | violation | The rename replaces a month that a hook created after the command looked, with its record. |

Bounds. `MCHookAnswer` keeps the order of the code's times (deadline before
answer time before timeout) in ticks; every event kind and every point of the
alarm is there, and more ticks add only waiting. `MCJournal` has three
appenders and a reader on one file: two to interleave, one more to append
behind what a death left; lines of one unit, of two, so that a short write can
leave half of one, and of three, which are over `MAX_ENTRY_BYTES`; a cap of
three units, which the lines reach. `MCToolEvent` has two placeholders (one
shown, one not), two leaves (one read, one not), and modes for the tool and by
default, which show the ranking.

`MCSession`: of names, three hooks, two runs and a cap of two lines: a fragment,
the line that is glued to it and one that is refused; of summaries, three
recorders (one before the mark, one after, one late) and two Stops, with counts
that start at three in base three, so that the mark's digits grow in number,
and a log of four; of records, any two the hook writes, with
findings of a type or bare numbers up to `MaxFound` (one) in each, and one
place named.

`MCSettingsFile` has two commands, which is what a lock needs, one edit, and one
look of a hook (three in the code): a second look begins as the first did, and
the proofs hold for any number; the reader's cfg has the three looks, beside one
command and two edits; `SYMMETRY` permutes the commands and stands in runs of
safety only.

`MCMoves`: of settings, two commands and two hooks; of a ledger month, two hooks,
two movers and a cap of two records, which a merge or a third record meets; of
hooks in settings, two installations, a revert and two edits; of an audit, two
sessions with every kind of record and two writes of the client; of the ledger,
two hooks, a purge and a show of which three run, on days 31, 61 and 89: the
first of February, and the days on which January and February are due; of doctor, every
combination of file, plugins and source, and five settings; of config, eleven
files, eighteen invocations and three commands in a row.

`MCWatch`: two requests of equal or different bodies, one measuring slot, four
signals and a load of four.

`MCAlgorithms`: alphabets with one character for each case of the code, texts of
four, texts to be cut of nine in pieces of five with an overlap of two (so that a
piece is cut again twice), events of two atoms with one of their first three leaves failing in each way, lines of three pieces, commands of five words, paths
of four characters, cut events of four members, reports of up to four of twelve
requests. Larger instances were run once without an error: `Payload` with
thirteen characters and three atoms, `Control` with lines of four pieces,
commands of six words and paths of five characters.

Deadlock is checked in every run but two, and that all processes have ended is
a step of its own (`AllOver`, `Over`), so that any other stop is an error. The
two are `session` and `algorithms`, where an input that cannot grow further
ends a behaviour.

Fairness. `HookAnswer` assumes weak fairness of time, of the timer's thread
and of its writes, and of the client's kill: the operating system schedules
them. It assumes none of main. `Journal` is fair to one process only, the
`Steady` one, and to that one because the code polls a lock with a limit
instead of waiting for it. `SettingsFile` is fair to one hook, which the client
waits for; never to a command, which waits for its user and may be stopped
with the lock in its hand. `Watch` is fair to its main thread, which waits for
no other process but the client, and to the timer that kills the client; the
client and the requests may hang. The other modules state safety only.

## 4. The proofs

`HookAnswerProofs` proves an inductive invariant `IInv`: who holds the lock
says who may write (`LockInv`), what an answer may be at each point of main
(`OutputInv`), what a delivered answer implies (`DeliveredInv`), and where
timer and clock stand (`TimerInv`, `OnTimeInv`), and which answer a record may
be of (`RecordInv`). The conjuncts need each other: that
a mask goes out after its names holds because main cannot be past `issue`
with a mask it made before. Assumption: `TimesAssumption`, the order of the
three times.

The same module proves of `Spans` that a long text is read whole, `PiecesReadAll`,
the part of `DetectedIsRight` that is about pieces. `PiecesInv` is
inductive: until a piece fails, what is pending or read holds every run of a line
that is no longer than the overlap. A cut keeps that because the next piece begins
at the last newline or an overlap before the end of this one (`ACut`, `PiecesHold`,
by climbing over the cuts of a text, whose number is not bounded), and a piece that
is cut again is itself such a text. Assumption: `SpansAssumption`, the overlap is
below the size, as 4,096 is below 100,000.

`JournalProofs` proves `IInv` of `Journal` for any number of processes and
any limit: what is in the file was put there by a process at that step
(`InFile`, `WriterInv`, `WriteInv`), the lock is held by whoever is between
its lock and unlock (`LockInv`, `AtWork`), kept lines are in the file
(`KeptInv`, `StandsAt`), and a refusal at the cap stays true because the file
never shrinks below a size somebody was refused at (`Full`, `LossInv`).
That lines are whole needs to know of every part in the file whose it is:
each stands in its writer's one stretch (`UnitInv`, `Stands`, `LinesInv`), and
a reader under its lock has the beginning of the file (`ReadInv`). From the same
invariant follows the refinement: a step of `Journal` adds at the end of the
whole lines below the one at work, or leaves them (`AppendOnly`).
Assumption: `SizesAssumption`.

`ToolEventProofs` proves `IInv` of `ToolEvent` for any placeholders, any modes
the settings name and any number of leaves. `BodyInv`, `FoundInv` and
`DecisionInv` say what an action that was asked for implies about what was
read; `EncodedIs`, `ReportsOnly`, `FixedIs` and `FallbackHolds` are lemmas about the
adapters and the fixed answers;
`ShownInv` and `WriteInv` carry a placeholder over events: what is shown is
on disk first, and a call that goes through was compared with what is there.
Assumption: `SizesAssumption`.

`SessionProofs` proves of `Names` that a line that was handed over is there,
and stays there behind anything that is appended (`HandedInv`); where no line
hides, a line that is there is issued or the reading raises. Of `StopHook` it
proves `StopInv`, for any hooks, cap and base the mark is written in: until
the session ends a summary has read a beginning of the log (`ReadInv`), and a
mark that is neither damaged nor being written counts records that were
announced, from the first on (`MarkInv`, with `HolderInv`: who has the lock has
not cut the mark yet). The lemmas about the mark say what its bytes are read as
when one text is written over another of another length. The model writes at
most two digits, so `Count` of a longer mark is the code's only below the
square of the base.
Of `Summary` it proves `RecordsAreTold` for any types, any numbers found and any
records. What is claimed is of an operator, so the invariant is that records
are of those hooks write, and the rest are lemmas about what the operator is
built from. A total is `SumOf` a sequence of numbers, which is a recursive
function: that there is one, that its values are numbers, that it is positive
only if an element is, and that sums of sequences added place by place add up are
each proved of the least length at which it would fail (`Climb`, on `LeastOf`).
The counts of the four actions are disjoint groups of
what was acted on, so they add up to it. `Where` chooses the places most records
are of: that there is such a choice is proved by adding one place at a time to
a choice of one less. What is raised of the beginning of a session stays,
because a group of a beginning is what comes before its end, and the first of
it is the first of the group. Assumption: `SummaryAssumption`, that no type has
the name of what other lines count.

`SettingsFileProofs` proves `IInv` of `SettingsFile` for any number of commands,
hooks, looks and edits. What an inspection holds is of an inode that was
published under one name (`SeenInv`, `Published`), and its content is the
inode's as long as the stamp is (`Current`); so when the last `fstat` agrees the
two halves are of one version, and the inode is the one at the path. One
command at a time is between lock and end (`LockInv`), so what the last
inspection saw is still at the path when it publishes, unless the editor came
between (`GapInv`), and the copy holds what was planned and the change
(`CopyInv`).
The refinement of `SettingsRegister` (`IsARegister`) rests on `IInv` and on
`RegisterInv`, which says what a plan and an inspection are at each step. A look
is shown from its read of the first half, for that is when all it will return was at
the path: if the `fstat` agrees after the second half the two are one content,
and if not the look has seen nothing. A plan is shown from `MakePlan` to the link
or the rename, which is the register's `Save`; of the calls before it the
register sees none, and of those after it only how the command ends. So each action is one of the
register's or a stutter (`InspectionIsALook`, `HookIsShown`, `PlanIsShown`,
`ChecksAreShown`, `WriteIsNotShown`, `PublishIsASave`, `EndIsShown`,
`EditIsShown`). That the value is what was planned when a command saves is
`GapInv` and `Current`: one content at the same inode and stamp, unless an editor
came in between. Assumptions: `NamesAssumption`, that names of inodes differ, and
`MarksAssumption`, that no content is the mark of a file that is absent or was not read.

`MovesProofs` has three parts. `SettingsMove` rests on `MoveInv`: on one device
no command is inside a copy, and none is left to move over a changed file.
`LedgerMove` rests on `MergeInv`: the month a command merges into is the one at
the new path, or the whole old month is there by now. `Retention` rests on
`RetentionInv`: a file keeps the number it was made with, so a hook writes to
the month it opened or to none (`FilesInv`), and no month has a line of a later
day than its last, so what is old enough to prune holds nothing younger
(`DatesInv`). It holds for any calendar whose months have 28 to 31 days
(`CalendarAssumption`); that a day has one month is a lemma.

Of the detector it proves that a numbering stays a bijection onto an interval
(`NumberingInv`), which is why the next number is free, and that of two
deadlines the inner one gives back what the outer had left (`DeadlineInv`).

`CommandsProofs` begins with filters. The library's `SelectSeq` is recursive and
its induction takes an operator, so `Filters` defines `Without` as a recursive
function on the sequences of one set: that there is one such function is proved
by well-founded recursion stated about sets, and what it does to an appended, an
absent or a second filter follows from it. On these rests `HooksInv` of
`HookSettings`: a plan is what install or revert makes of the file it read
(`PlansInv`), which applying compares, so the last success stands
(`LatestStands`) and others' hooks are a subsequence that nobody changed.
Assumption: `InstallAssumption`.
Of `Audit` it proves `AuditInv`, for any sessions, histories and writes. Its
clock says what a look is worth: a file written after it is newer than it
(`ClockInv`). What was read of a file that is still the same is known (`ScanInv`);
a session that is ready had something found in it, and those of its files that
were looked at have not changed but later (`ReadyInv`, `WasFound`); what `_forget` renames into place was compared with what it had
read, so a line it loses came in between (`ForgetInv`); and each thing removed is
one of a ready session, a transcript after the rest (`TakenInv`). Assumption:
`AuditAssumption`, that sessions are listed once and histories are older than
the clock.
Of `Configuration` it proves `ConfigInv`: the file, where it parses, holds
settings (`IsSettings`), and `parse_settings` makes of what `render_settings` wrote
the same settings again (`RenderedIsParsed`), though it leaves out what is as
shipped and puts lists in the order of the catalog. What `_with_custom` does, an
entry at a time, is a recursive function like `Without`, and the lemmas about it
are inductions over what is added: the last entry of a name is there
(`LastIsThere`), and what has another name stays, in its order
(`OthersNotTouched`). Assumption: `ConfigurationAssumption`, that the catalog lists
a type once and has `CUSTOM`, and that files and options are of their types.
Of `Doctor` it proves `DoctorInv`, which says no more than that what doctor looks
at is a file whose lists are of hooks of any kind, in any number: the rest is
about one answer. Install puts this installation's hook on every registered
event once and leaves shim nowhere else (`InPlaceIs`, from `AddedDoc` and
`OnePlace`: a list whose filter is one group has it at one place), so the checks
after it pass (`AdviceIsRight`). An event's inspections are a cardinality of places
and plugins (`InspectionsAre`): two of them are two places or a plugin beside one
(`TwiceIsTold`), none is a missing hook, a runner that fails or a feature that is
off (`NothingIsTold`). No code belongs to two checks (`OwnersAre`), so each that
fails raises a finding of its own id (`OneFindingEach`). Assumption:
`DoctorAssumption`, that this installation is one of those and that the settings
are as `Shown` says, where a client that is not there tells nothing of its
features.

`WatchProofs` proves `PInv` of `WatchProxy` and the invariant of `Supervise`, and so
of `Watch`, for any finite set of requests, any bodies and results, any slots.
Where a thread is says what it has (`ThreadInv`), so slots, counters and bodies
in flight are cardinalities of sets of threads (`Accounts`), which each step
changes by one; of two threads inside with one body the later is marked
(`InsideInv`); a result is known at the largest size that carried it, and by how
many (`ResultsInv`); when the drain did not time out the report reads a session
nobody changes (`ReportInv`), and otherwise it says so. Assumption:
`ProxyAssumption`, that requests and the results of a body are finitely many.

`WatchProofs` also proves `UInv` of `UsageReader`, for any answers, chunks and
bounds (`AnswersAreExact`). It says of a reader that has not failed what it holds
of the line begun (`Held`) and what it tells of the lines before it (`Tells`),
with the state of each token computed by hand. An event left open goes on with
the next line of data and so is never a document by itself (`Glued`); that is why
the invariant says what is held at the start of each line, and not only what
was counted. A JSON answer is one line and is read by `Finish` alone. The sizes
written so far are a recursive function of the line (`Written`). That it exists and
grows by each line's size (`UpToExists`, `WrittenStep`) is shown by climbing from no
line to all of them (`Climb`): a set of numbers below a bound has a least member
outside it, or none. Assumption: `ReaderAssumption`, that
bounds are positive, an answer is a sequence of lines, a JSON answer one line,
and a document's counts integers and its size a natural number.

| theorem | property | establishes |
|---|---|---|
| `HookAnswerProofs!OneInTime` | `OneAnswerInTime` | Main and the timer never both write, no exit cuts the answer short, and a hook that armed its timer has answered before the client would kill it. |
| `HookAnswerProofs!NamesFirst` | `NamesBeforeShown` | An answer that shows placeholders goes out only once their names are on disk. |
| `HookAnswerProofs!Closed` | `FailsClosed` | An event goes on as it was only if its inspection ended so, if no answer or not the fixed one stops it, or in one of the corners the property names: the prompt's block that the last handlers answer any event with, a hook without a timer killed, descriptor 1 lost. |
| `HookAnswerProofs!RecordedInTime` | `RecordsAreTrue` | A record of a refusal is of the one the client gets, unless the deadline came in between; and then the event goes on only as a built-in result with the fixed report, with a prompt's block for an answer, or with no answer of a hook that had no timer or lost its descriptor. |
| `HookAnswerProofs!PiecesAreRead` | `-` | However a long text is cut, and cut again where a piece is refused, a run of a line no longer than the overlap is read whole by one piece, unless the text is said to be read in part: for any text, limit and overlap. |
| `HookAnswerProofs!TypeCorrect` | `-` | Every variable of a hook process keeps its type, for every deadline, answer time and timeout. |
| `JournalProofs!LimitTold` | `LimitIsTold` | The file never outgrows its limit, and a record refused at the cap or marked lost is one capped() tells of, for good. |
| `JournalProofs!WholeLines` | `LinesAreWhole` | Only the writer at work and the dead leave part of a line, a reader never gets another, and a line append() returned True for stays, whole, where a reader finds it unless a dead writer tore the one before. |
| `JournalProofs!AppendOnly` | `ImplementsAppendLog` | The file implements an append-only log: lines appear whole, behind every other, one of a writer, and the kept ones are in it. |
| `JournalProofs!TypeCorrect` | `-` | Every variable of the journal keeps its type, for any number of processes. |
| `ToolEventProofs!WriteBackRefused` | `NeverWrittenBack` | In a session no call that may reach a file goes through with a placeholder the model was shown. |
| `ToolEventProofs!Held` | `FindingsAreHeld` | A value found in an enforced event does not stay where it was, what was not read to its end is refused, and a mask is whole, where the client can do anything about it and the answer is not the fixed report that stands in for a refusal that cannot be built. |
| `ToolEventProofs!AsAsked` | `RefusesAsAsked` | Nobody who only installed is refused calls, the most specific mode wins, and no action reaches an encoder that raises on it. |
| `ToolEventProofs!TrueRecord` | `RecordIsTrue` | The record of an event tells what the client was asked to do. |
| `ToolEventProofs!TypeCorrect` | `-` | Every variable of the pipeline keeps its type, for any placeholders, modes and number of leaves. |
| `SessionProofs!UniqueNames` | `NamesAreUnique` | A value keeps one number, two never share one, the names kept are the numbers given, and none is in a text of the event unless that is numbered _MAX_FLOOR or higher: for any texts and values. |
| `SessionProofs!KeptAlarm` | `AlarmIsKept` | However many analyses run, the hook's alarm comes when it was set to, and none runs past its own deadline or the hook's: for any deadlines. |
| `SessionProofs!KnownOrRaises` | `HandedIsKnown` | Every name the model was handed is issued later or the reading raises, but for the one hidden behind a fragment of a first field. |
| `SessionProofs!WriteBackRefused` | `-` | NoWriteBack: a write with a name that was handed out before is refused. |
| `SessionProofs!TypeCorrect` | `-` | The state of the names keeps its type, for any hooks, runs and cap. |
| `SessionProofs!SilenceHolds` | `SilenceIsTrue` | A Stop says nothing only where every record it read, and the word that some are missing, was shown or went with a Stop that was ended; and a mark never counts more than its log has: for any hooks and Stops, until the session ends or a mark is left half written. |
| `SessionProofs!ToldRecords` | `RecordsAreTold` | The summary, its JSON and the findings count every record the hooks wrote once where it belongs, name its places, and a finding stays under later records: for any types, any counts, any records in any number. |
| `SessionProofs!SummaryTypeCorrect` | `-` | A session's records are of those hooks write, for any types and counts. |
| `SessionProofs!StopInvariant` | `-` | Its inductive invariant: what a Stop has read is how the log begins, and a mark nobody writes counts what was announced. |
| `SettingsFileProofs!ReadsThem` | `ReadsWhatIsThere` | What an inspection returns is one version of the file, never the defaults while there is one, and a second link is one of a save at work or cut short. |
| `SettingsFileProofs!IsARegister` | `ActsAsRegister` | SettingsFile implements SettingsRegister, step for step or stutter: commands, hooks and an editor that share the path share one register, whatever fails and whoever is killed, and saves compose; for any commands, hooks, looks and edits. |
| `SettingsFileProofs!Composes` | `-` | A save keeps every change that is in the file it replaces, unless the editor wrote after its last inspection. |
| `SettingsFileProofs!TypeCorrect` | `-` | The state of the settings file keeps its type, for any commands, hooks, looks and edits. |
| `MovesProofs!NeverLost` | `SettingsAreSomewhere` | On one device the user's settings are whole at one of the paths after every step of any number of commands. |
| `MovesProofs!NeverUndone` | `ChangeStays` | A change saved to the settings as they were is never undone; one saved to the defaults, after a move that failed, is undone by one step alone, the rename of a command that had looked for the new file before there was one. |
| `MovesProofs!SettingsTyped` | `-` | The state of the settings move keeps its type. |
| `MovesProofs!NothingLost` | `PastIsKept` | Until a purge, the records of 0.2.0 are in the old month or the new one, whichever commands race and die. |
| `MovesProofs!LeavesByRename` | `KeptLeavesByRename` | A hook's record leaves the month by a purge or by a rename of a command that had not seen it. |
| `MovesProofs!LedgerTyped` | `-` | The state of the ledger's move keeps its type, for any hooks, commands and cap. |
| `MovesProofs!RetentionKept` | `RetentionHolds` | No record is pruned before it is thirty days old; a month that lost an event, whose marker could be written, says so until a command that can delete it has come to it; and a show that ends has every record that was there throughout: for any hooks, months and calendar. |
| `MovesProofs!RetentionInvariant` | `-` | Its inductive invariant, over the files, what each command has listed, and what it removed or showed of it. |
| `CommandsProofs!HooksInvariant` | `-` | The inductive invariant of install and revert: a plan is for the file that was read, and the command that last reported success is in force. |
| `CommandsProofs!TheirsKept` | `TheirsStay` | What an install or a revert writes keeps every hook that is not shim's, in its order, whatever the editor and other installations did since its plan: for any installations, runs and edits. |
| `CommandsProofs!InstallsAreRight` | `InstallsStand` | The last command that reported success is the one in force, a reinstall changes nothing, a revert undoes an install, and what install announces is what it does: for any lists of hooks of any installations. |
| `CommandsProofs!AuditInvariant` | `-` | The inductive invariant of an audit and its purge beside a Claude Code that writes on: what was looked at, the main file or only the others of its session, is told from what came later, at every step a call can fail or the command can die at. |
| `CommandsProofs!AuditIsRight` | `AuditIsExact` | "safe" is true of every file as it was read; a session reported deleted had something found in it, its files that were looked at were as they had been when it was checked, its lines of the history are gone, and its main file if that was looked at, after its folder. A file of the folder that the scan did not list goes with it, and a main file that could not be looked at stays: for any sessions, histories and writes. |
| `CommandsProofs!ConfigInvariant` | `-` | Whatever users leave in the file and whatever commands are run, the file either is refused or holds settings that render_settings writes and parse_settings reads as the same. |
| `CommandsProofs!ConfigIsKept` | `ConfigIsExact` | `shim config` shows what hooks load, leaves what it was not asked to change, does all it was asked, and saves nothing that hooks refuse: for any file, options, types of entities and limits. |
| `CommandsProofs!DoctorInvariant` | `-` | What doctor looks at is a file that a client may have, whichever advice was followed before: for any lists of hooks, installation and settings. |
| `CommandsProofs!DoctorAnswers` | `DoctorIsRight` | Doctor fails or warns of what is inspected twice or not at all and passes what is as it should be, the install it advises makes its checks pass, one cause is told once, and the findings have one id for each check, the exit code's severity and the risk of what goes through: for lists of hooks of any length, plugins, installation and settings. |
| `WatchProofs!SharedStaysRight` | `SharedIsRight` | Slots and bodies in flight add up, of two identical requests in flight one is marked a duplicate, and every tool result is known at its full size with its count: for any requests whose threads interleave and fail anywhere. |
| `WatchProofs!ReportsAccount` | `ReportAccounts` | Nothing a report counts is left without its reason, and a report after a drain in time has every request the client had an answer of, though handlers write what it reads. |
| `WatchProofs!ClientKeepsProxy` | `OutlivesClient` | The client is not left without its proxy whatever signals come, but for an exception before the loop or inside escalate(). |
| `WatchProofs!AnswersAreExact` | `KnownIsExact` | What is read of an answer is exactly what it says or is said to be unknown: for any answers, cut into any chunks, with any bounds, decoded or not, to the end or broken off. |
| `WatchProofs!WatchTyped` | `-` | Every variable of the proxy and of the supervision keeps its type. |

Only model-checked, and why:

* Liveness (`EventuallyAnswered`, `SteadyEnds`, `SteadyReads`, `EndsOnRequest`): fairness and ENABLED are
  beyond the prover.
* `Control`, `Payload`, `Recognizers`, `Measure`, `Report`, and `Spans` but for its pieces: each is one reader
  compared with a definition of what it is for. What a fold makes of every
  input is an induction over the input.

## 5. What the specifications disagree with

Claims of docs or comments that the code does not keep. The first three are
runs of `PROJECT.json` that are expected to end in a violation, and its
findings quote the lines.

* The rename of an old month replaces one that a hook has just made, where
  migration.py:36 means to "keep both files' lines" (`ledger_both`).
* A failed move, or a copy cut short, lets a new file shadow the settings that
  config.py:254 says are read until a command moves them (`settings_shadow`).
* The alarm inside `_silence_dependencies` can leave descriptor 1 on the null
  device, and the answer is lost (`hook_lost_answer`).

The others are stated at the end of their modules. They have no cfg of their
own: put one in place of the properties of the cfg named, and TLC ends with a
violation.

| property | module, cfg | what the code does |
|---|---|---|
| `RecordClaimsOnlyWhatWasAsked` | `HookAnswer`, `MCHookAnswer.cfg` | the record of a withhold is kept before the answer is taken, which may be the timer's (hook.py:628) |
| `RefusalIsForTheEvent` | the same | a tool event not read in time, or one only the last handlers see fail (hook.py:1131-1134), is answered as a prompt (docs/privacy.md:616-622) |
| `ResultsAreWithheld` | the same | the timer's fixed answer reports a built-in tool's result (README.md:826-830) |
| `EveryLossIsTold` | `Journal`, `MCJournal.cfg` | a record appended behind a dead writer's fragment is lost unsaid (docs/architecture.md:268-269) |
| `RaisesUnlessAll` | `Names`, `MCSession.cfg` | a fragment of a first field hides the next line of names (spool.py:176-177) |
| `ShowsOnlyNew` | `StopHook`, `MCSession.cfg` | a summary renders all of the session's records whenever one is new, and two Stops at a time show the same ones (docs/privacy.md:415) |
| `CustomAgrees` | `Summary`, `MCSession.cfg` | a record that was allowed is counted on the line of the user's own names, but on no line of an action (session/summary.py:230-231) |
| `BareIsWarned` | `Summary`, `MCSession.cfg` | the line of bare numbers has no label of its own when there is a record without findings, and reads as masked or blocked (docs/releases/0.3.2.md:37-41) |
| `FailedSavedNothing` | `SettingsFile`, `MCSettingsFile.cfg` | a save that fails after it published says nothing was saved (cli/configuration.py:462) |
| `LinkedIsInProgress` | the same | a save killed between link and unlink leaves a hard link for good (config.py:21-23) |
| `ReadsOneOrTheOther` | `SettingsMove`, `MCMoves.cfg` | a move between its two looks has a hook find neither file (docs/releases/0.3.0.md:55-56) |
| `MovedOnce` | `LedgerMove`, `MCMoves.cfg` | a merge and its unlink are two steps, and may be made twice (docs/releases/0.3.0.md:56-58) |
| `ShownIsInForce` | `Configuration`, `MCMoves.cfg` | without a file at the path `SHIM_CONFIG` names, "shipped defaults apply" is shown where a hook refuses (cli/configuration.py:396) |
| `OnlyEmptyIsWiped` | `HookSettings`, `MCMoves.cfg` | a file found empty is deleted by its path, which may be another by then (cli/integrations.py:426-442) |
| `RenamesAsAdvised` | `Doctor`, `MCMoves.cfg` | an install that finds the new file as it would write it ends before it removes the old one (cli/diagnostics.py:182) |
| `SafeIsSafe` | `Audit`, `MCMoves.cfg` | what reached the model in a session whose records have no time is left out of the verdict (docs/commands.md) |
| `ChangedIsSkipped` | the same | a file that changes after its session was checked is deleted (docs/commands.md) |
| `TranscriptIsLast` | the same | where the main file could not be looked at, another file of its session is deleted in its place, and it stays (docs/commands.md:697-699) |
| `KeptIsFoundAgain` | the same | a session kept because its folder could not be deleted is not found again if all that was found had been in what is deleted of it (docs/privacy.md) |
| `WarningStays` | `Retention`, `MCMoves.cfg` | the mark of a short month goes before the month, which a failure leaves (docs/privacy.md:438-440) |
| `NotStartedIsTrue` | `Watch`, `MCWatch.cfg` | Ctrl-C ends a client in Popen's wait, and it is said not to have started (cli/watch.py:165) |
| `ReportIsWritten` | `WatchProxy`, `MCWatch.cfg` | an inspection that outlives the drain adds a result under the report's loop (docs/architecture.md:300) |
| `IncompleteIsExplained` | the same | a request is measured between the count and its reasons (watch/report.py:376) |
| `NamesAreFresh` | `Numbering`, `MCAlgorithms.cfg` | a number from `_MAX_FLOOR` on is not counted as taken (guard/evaluate.py:48-51) |

## 6. Not modelled

* other commands: Command lines that read state once and print it: rendering and argument handling.

Simplifications inside what is modelled:

* `HookAnswer`: truncating the summary mark and a second
  alarm; `Journal`: a failing `ftruncate`; `ToolEvent` takes events one
  after another (hooks that run in parallel meet only in the files, which is
  `Journal`'s matter) and does not end a session.
* `Summary`: latencies, token estimates, layout. `Findings`: texts, the window of
  time, the remediation's command. `Report`: one type of findings, widths and
  the order of lines.
* `Configuration`: a text is one of a few kinds; how a save fails is
  `SettingsFile`'s. `Audit`: counting, the layout of its report and the count of
  masked values. `Doctor`: what a fixture's hook answers is an input.
* `Recognizers` and `Spans` take what the patterns match as an input. The table of
  domain suffixes and the regular expressions are data.
* The ledger across two devices, and a second old month, which repeats the
  steps of the first.

## 7. What is left

1. The handling of a tool's names for the records (`session/record.py`), the
   attachments of a prompt and the decoding of prompts (`clients/user_prompt_hook.py`).
2. The walk over phone numbers, the patterns of secrets and of keys, and the other
   conversions of `events/diet.py` and the markers of `events/injection.py`.
3. The report of an audit, `shim status`, and what the commands print.
4. Proofs: `ReportTells`, `DetectedIsRight`, `EventsAreMasked` and `ControlsAreSeen`,
   which compare a fold or a recursion with a definition over the same input.
