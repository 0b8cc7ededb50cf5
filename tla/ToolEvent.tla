------------------------------ MODULE ToolEvent ------------------------------
(***************************************************************************)
(* What one session's tool events come to: events/pipeline.process with    *)
(* the policy it asks, the client adapters it answers through, and         *)
(* hook._tool_output around it.                                            *)
(*                                                                         *)
(* Events follow one another.  Each is checked for changes to shim itself  *)
(* and for placeholders being written back, its leaves are read one by     *)
(* one, an action is decided, the placeholders it shows are put on disk,   *)
(* and the answer is encoded.  Anything on the way may fail, and then the  *)
(* event fails closed (hook._not_inspected).                               *)
(*                                                                         *)
(* What the detector finds in a leaf, and whether a command or a path can  *)
(* turn shim off, are inputs.  What becomes of an event when an exception   *)
(* leaves _not_inspected as well, and of the answer on its way to the       *)
(* client, is in module HookAnswer.                                         *)
(***************************************************************************)
EXTENDS Naturals, FiniteSets

CONSTANTS
    Names,      \* the placeholders of a session, such as <EMAIL_1>
    ModeKeys,   \* the keys under [mode] that settings may hold
    MaxLeaves   \* the leaves of a payload

ASSUME SizesAssumption ==
    /\ ModeKeys \subseteq {"tool", "event", "direction", "default"}
    /\ MaxLeaves \in Nat

VARIABLES
    session,    \* "yes" if the client names a session
    event,      \* the event: what the client sent and how it is configured
    pc,         \* the step of the pipeline
    leaves,     \* leaves read so far
    found,      \* "yes" once a leaf held a finding
    skipped,    \* "yes" once a leaf, or part of one, was not read
    unmaskable, \* "yes" once a finding was where no placeholder can stand
    replaced,   \* "yes" once a leaf has a replacement
    given,      \* the placeholders this event's numbering gave
    action,     \* the action the adapter is asked to encode
    answer,     \* the answer encoded for the client
    record,     \* the action of the record kept of the event
    issued,     \* the names on disk (spool.issue)
    shown       \* the names the model was shown

vars == << session, event, pc, leaves, found, skipped, unmaskable, replaced,
           given, action, answer, record, issued, shown >>

reading == << leaves, found, skipped, unmaskable, replaced, given >>

-----------------------------------------------------------------------------
(* The policy. *)

Unset == "unset"
Modes == {"observe", "warn", "enforce"}

(* A tool, by what policy.TOOLS and the event say of its name: "answer" is  *)
(* the one whose result the person typed in.                                *)
Tools == {"local", "shell", "write", "web", "mcp", "unknown", "answer"}

(* The events a client has an adapter for. *)
Hooks == {<< "claude", "pre" >>, << "claude", "post" >>, << "claude", "failure" >>,
          << "vscode", "pre" >>, << "vscode", "post" >>}

EventSet ==
    {e \in [hook : Hooks, tool : Tools,
            modes : [ModeKeys -> Modes \cup {Unset}],
            body : {"none", "object", "text"},
            control : {"no", "yes"},        \* it would change what shim enforces
            diet : {"no", "yes"},           \* the settings reshape results
            writes : SUBSET Names] :        \* placeholders in its new text
        /\ e.writes # {} => e.hook[2] = "pre" /\ e.body = "object"
        /\ e.control = "yes" => e.hook[2] = "pre" /\ e.body = "object"
        /\ e.diet = "yes" => e.hook[2] # "pre"}

Client == event.hook[1]
IsResult == event.hook[2] # "pre"

(* What the client's hook can do at this event, as each Adapter says. *)
Power ==
    CASE event.hook \in {<< "claude", "pre" >>, << "claude", "post" >>} -> "rewrite"
      [] event.hook = << "vscode", "pre" >> -> "refuse"
      [] OTHER -> "report-only"

(* VS Code's MCP tools have no prefix to be told by. *)
ToolKind ==
    CASE event.tool \in {"local", "answer"} -> "local-tool"
      [] event.tool = "shell" -> "executable-text"
      [] event.tool = "write" -> "local-write"
      [] event.tool = "web" -> "outbound"
      [] event.tool = "mcp" /\ Client = "claude" -> "mcp"
      [] OTHER -> "unknown"

Direction ==
    IF IsResult THEN IF event.tool = "answer" THEN "local-tool" ELSE "inbound"
    ELSE IF ToolKind \in {"mcp", "unknown"} THEN "outbound" ELSE ToolKind

Unrouted == Direction = "outbound" /\ ToolKind # "outbound"

DefaultMode == IF Direction \in {"outbound", "inbound"} THEN "enforce" ELSE "warn"

(* The keys of [mode], first to last. *)
Ranked == << "tool", "event", "direction", "default" >>

IsNamed(key) == key \in ModeKeys /\ event.modes[key] # Unset

(* Policy.chose_mode: a settings file named this mode. *)
ChoseMode == \E key \in ModeKeys : IsNamed(key)

(* Policy.mode_for: the tool's mode, else the event's, the direction's, the *)
(* default of the settings, the shipped one.                                *)
PolicyMode ==
    IF ChoseMode
    THEN event.modes[Ranked[CHOOSE i \in 1..4 :
             IsNamed(Ranked[i]) /\ \A j \in 1..4 : j < i => ~IsNamed(Ranked[j])]]
    ELSE DefaultMode

(* Mutant: enforce is enforce, whoever asked for it. *)
MutantMode == PolicyMode

(* _tool_output: where nothing can be masked, enforce means refusing the   *)
(* call, and that is done only for those who asked for enforce.            *)
Mode ==
    IF PolicyMode = "enforce" /\ Power # "rewrite" /\ ~ChoseMode THEN "warn"
    ELSE PolicyMode

(* policy.decide. *)
PolicyAction ==
    CASE Mode = "observe" -> "allow"
      [] Mode = "warn" -> "report"
      [] Mode = "enforce" /\ Direction = "local-tool" -> "report"
      [] Mode = "enforce" /\ Direction \in {"outbound", "inbound"} -> "mask"
      [] OTHER -> "deny"

(* pipeline._decide: the strongest action this event can honestly deliver. *)
Capped ==
    CASE Power = "report-only" /\ PolicyAction \in {"mask", "deny"} -> "report"
      [] Power # "report-only" /\ PolicyAction = "mask" /\ (Power = "refuse" \/ Unrouted) ->
            "deny"
      [] OTHER -> PolicyAction

(* A finding no placeholder can stand in for is withheld or refused. *)
Decided == IF Capped = "mask" /\ unmaskable = "yes" THEN "deny" ELSE Capped

(* The actions each encoder accepts; any other raises. *)
Encodable ==
    CASE event.hook = << "claude", "failure" >> -> {"allow", "report", "uninspected"}
      [] event.hook = << "vscode", "pre" >> -> {"allow", "report", "deny", "uninspected"}
      [] event.hook = << "vscode", "post" >> -> {"allow", "report", "uninspected"}
      [] OTHER -> {"allow", "report", "mask", "reshape", "deny", "uninspected"}

(* What an encoder makes of an action: a call is denied, a result withheld, *)
(* an event that was not inspected refused as far as its client can.  With  *)
(* no payload there is nothing a withheld result could keep the shape of.   *)
Encoded(asked) ==
    CASE asked = "allow" -> "silent"
      [] asked \in {"report", "mask", "reshape"} -> asked
      [] OTHER -> IF event.hook[2] = "pre" THEN "deny"
                  ELSE IF event.hook # << "claude", "post" >> THEN "report"
                  ELSE IF event.body = "none" /\ event.tool \notin {"mcp"} THEN "report"
                  ELSE "withhold"

(* Mutant: whatever the adapter cannot answer is reported. *)
MutantFixedAnswers == {"report"}

(* _fallback_output, where the adapter's answer for an event that was not  *)
(* inspected cannot be built: of the results only Claude Code's from an    *)
(* MCP server, or from a tool with no name, are withheld.                  *)
FixedAnswers ==
    CASE event.hook[2] = "pre" -> {"deny"}
      [] event.hook = << "claude", "post" >> /\ event.tool = "mcp" -> {"withhold"}
      [] event.hook = << "claude", "post" >> /\ event.tool = "unknown" ->
            {"withhold", "report"}
      [] OTHER -> {"report"}

-----------------------------------------------------------------------------
(* Between two events nothing of the last one is left. *)
NoEvent == CHOOSE e \in EventSet : TRUE

Fresh ==
    /\ leaves' = 0 /\ found' = "no" /\ skipped' = "no" /\ unmaskable' = "no"
    /\ replaced' = "no" /\ given' = {}
    /\ action' = "none" /\ answer' = "none" /\ record' = "none"

Init ==
    /\ session \in {"no", "yes"}
    /\ event = NoEvent
    /\ pc = "idle"
    /\ leaves = 0 /\ found = "no" /\ skipped = "no" /\ unmaskable = "no"
    /\ replaced = "no" /\ given = {}
    /\ action = "none" /\ answer = "none" /\ record = "none"
    /\ issued = {} /\ shown = {}

At(point) == pc = point

Arrives ==
    /\ At("idle")
    /\ event' \in EventSet
    /\ pc' = "check"
    /\ UNCHANGED << session, leaves, found, skipped, unmaskable, replaced, given,
                    action, answer, record, issued, shown >>

Ends ==
    /\ At("answered")
    /\ event' = NoEvent /\ pc' = "idle"
    /\ Fresh
    /\ UNCHANGED << session, issued, shown >>

(* Ask the adapter for an action, and keep a record of another word. *)
Ask(asked, kept) ==
    /\ action' = asked /\ record' = kept /\ pc' = "encode"
    /\ UNCHANGED << session, event, leaves, found, skipped, unmaskable, replaced,
                    given, answer, issued, shown >>

NoPayload == At("check") /\ event.body = "none" /\ Ask("allow", "allow")

(* _self_protection, for what a call's input can do to shim. *)
Protects ==
    /\ event.control = "yes" /\ event.body = "object"
    /\ Direction \in {"executable-text", "local-write"}

ProtectShim == At("check") /\ Protects /\ Ask("deny", "deny")

(* The calls whose input may reach a file, as far as shim can tell. *)
MayWrite == event.body = "object" /\ (Direction = "local-write" \/ Unrouted)

(* _issued: what this session has on disk; nothing without a session. *)
Known == IF session = "yes" THEN issued ELSE {}

(* _write_back: new text that holds an issued placeholder, or one that     *)
(* cannot be checked.                                                      *)
WriteBack ==
    /\ At("check") /\ event.body # "none" /\ ~Protects
    /\ MayWrite /\ event.writes # {}
    /\ \/ event.writes \cap Known # {}
       \/ session = "yes"              \* issued() raised
    /\ Ask("deny", "deny")

StartReading ==
    /\ At("check") /\ event.body # "none" /\ ~Protects
    /\ MayWrite => event.writes \cap Known = {}
    /\ pc' = "inspect"
    /\ UNCHANGED << session, event, leaves, found, skipped, unmaskable, replaced,
                    given, action, answer, record, issued, shown >>

-----------------------------------------------------------------------------
(* payload.inspect. *)

(* Only what came over a network or from an MCP server is reshaped. *)
Shrinkable ==
    /\ Direction = "inbound" /\ ToolKind \in {"outbound", "mcp"}
    /\ Mode # "observe" /\ Power = "rewrite" /\ event.diet = "yes"

Reading == At("inspect") /\ leaves < MaxLeaves

Read ==
    /\ leaves' = leaves + 1
    /\ UNCHANGED << session, event, pc, action, answer, record, issued, shown >>

ReadClean ==
    /\ Reading /\ Read
    /\ replaced' \in {replaced} \cup (IF Shrinkable THEN {"yes"} ELSE {})
    /\ UNCHANGED << found, skipped, unmaskable, given >>

(* Numbers start above the placeholders the event itself holds. *)
NewNames == Names \ event.writes

ReadFinding ==
    /\ Reading /\ Read
    /\ found' = "yes" /\ replaced' = "yes"
    /\ \E name \in NewNames : given' = given \cup {name}
    /\ UNCHANGED << skipped, unmaskable >>

(* In a file's bytes, or in one of two keys that would become one. *)
ReadUnmaskable ==
    /\ Reading /\ Read
    /\ found' = "yes" /\ unmaskable' = "yes"
    /\ UNCHANGED << skipped, replaced, given >>

(* The analysis of a leaf, or of a piece of it, failed. *)
ReadInPart ==
    /\ Reading /\ Read
    /\ skipped' = "yes"
    /\ \/ UNCHANGED << found, replaced >>
       \/ found' = "yes" /\ replaced' = "yes"
    /\ UNCHANGED << unmaskable, given >>

(* The deadline: what is left is not read. *)
OutOfTime ==
    /\ Reading
    /\ skipped' = "yes" /\ pc' = "decide"
    /\ UNCHANGED << session, event, leaves, found, unmaskable, replaced, given,
                    action, answer, record, issued, shown >>

AllRead ==
    /\ At("inspect")
    /\ pc' = "decide"
    /\ UNCHANGED << session, event, leaves, found, skipped, unmaskable, replaced,
                    given, action, answer, record, issued, shown >>

-----------------------------------------------------------------------------
(* What is made of it. *)

NotRead == skipped = "yes"

(* Mutant: the record says what was asked, not what the client could do. *)
MutantUninspected == At("decide") /\ NotRead /\ Ask("uninspected", "deny")

Uninspected ==
    /\ At("decide") /\ NotRead
    /\ Ask("uninspected", IF Power = "report-only" THEN "report" ELSE "deny")

NothingFound ==
    /\ At("decide") /\ ~NotRead /\ found = "no"
    /\ Ask(IF replaced = "yes" THEN "reshape" ELSE "allow", "allow")

(* Mutant: the names a masked answer shows are not kept. *)
MutantNeedsNames == FALSE

NeedsNames == Decided = "mask" /\ given # {}

Decide ==
    /\ At("decide") /\ ~NotRead /\ found = "yes"
    /\ action' = Decided /\ record' = Decided
    /\ pc' = IF NeedsNames THEN "issue" ELSE "encode"
    /\ UNCHANGED << session, event, leaves, found, skipped, unmaskable, replaced,
                    given, answer, issued, shown >>

(* _issue: without a session there is nothing to keep them under. *)
Issue ==
    /\ At("issue")
    /\ issued' = IF session = "yes" THEN issued \cup given ELSE issued
    /\ pc' = "encode"
    /\ UNCHANGED << session, event, leaves, found, skipped, unmaskable, replaced,
                    given, action, answer, record, shown >>

(* entry.encode, remember(), and the answer's way to the client. *)
Encode ==
    /\ At("encode") /\ action \in Encodable
    /\ answer' = Encoded(action)
    /\ shown' = IF answer' = "mask" THEN shown \cup given ELSE shown
    /\ pc' = "answered"
    /\ UNCHANGED << session, event, leaves, found, skipped, unmaskable, replaced,
                    given, action, record, issued >>

(* Mutant: an event that failed goes on in silence. *)
MutantFails ==
    /\ pc \in {"check", "inspect", "decide", "issue", "encode"}
    /\ action' = "allow" /\ answer' = "silent" /\ record' = "allow"
    /\ pc' = "answered"
    /\ UNCHANGED << session, event, leaves, found, skipped, unmaskable, replaced,
                    given, issued, shown >>

(* Any exception on the way, the alarm's included (_not_inspected): the    *)
(* adapter's answer for an event that was not inspected, the fixed one     *)
(* where that fails too, and a record read off the answer.                 *)
Fails ==
    /\ pc \in {"check", "inspect", "decide", "issue", "encode"}
    /\ \/ action' = "uninspected" /\ answer' = Encoded("uninspected")
       \/ action' = "fallback" /\ answer' \in FixedAnswers
    /\ record' = IF answer' = "report" THEN "report" ELSE "deny"
    /\ pc' = "answered"
    /\ UNCHANGED << session, event, leaves, found, skipped, unmaskable, replaced,
                    given, issued, shown >>

Inspect ==
    \/ ReadClean \/ ReadFinding \/ ReadUnmaskable \/ ReadInPart \/ OutOfTime \/ AllRead

Next ==
    \/ Arrives \/ Ends \/ NoPayload \/ ProtectShim \/ WriteBack \/ StartReading
    \/ Inspect \/ Uninspected \/ NothingFound \/ Decide \/ Issue \/ Encode \/ Fails

Spec == Init /\ [][Next]_vars

-----------------------------------------------------------------------------
(* Properties. *)

TypeOK ==
    /\ session \in {"no", "yes"}
    /\ event \in EventSet
    /\ pc \in {"idle", "check", "inspect", "decide", "issue", "encode", "answered"}
    /\ leaves \in 0..MaxLeaves
    /\ found \in {"no", "yes"} /\ skipped \in {"no", "yes"}
    /\ unmaskable \in {"no", "yes"} /\ replaced \in {"no", "yes"}
    /\ given \subseteq Names
    /\ action \in {"none", "allow", "report", "mask", "reshape", "deny", "uninspected",
                   "fallback"}
    /\ answer \in {"none", "silent", "report", "mask", "reshape", "deny", "withhold"}
    /\ record \in {"none", "allow", "report", "mask", "deny"}
    /\ issued \subseteq Names /\ shown \subseteq Names

Refused == answer \in {"deny", "withhold"}
Answered == pc = "answered"

(* D3: in a session, no call whose input may reach a file goes through with *)
(* a placeholder the model was ever shown in it, in any mode, whatever      *)
(* failed in between.                                                       *)
NeverWrittenBack ==
    Answered /\ session = "yes" /\ MayWrite /\ event.writes \cap shown # {} => Refused

(* The one refusal that holds nothing: the fixed one, and a result that    *)
(* did not come from an MCP server.                                        *)
OnlyReported == action = "fallback" /\ IsResult /\ event.tool # "mcp" /\ answer = "report"

(* A value found in an enforced event stays where it is, unless the person *)
(* typed it, or the client can only report, or the event's refusal could   *)
(* not be built and the fixed one is a report.                             *)
EnforceHolds ==
    Answered /\ found = "yes" /\ Mode = "enforce"
    /\ Power # "report-only" /\ Direction # "local-tool"
    => Refused \/ answer = "mask" \/ OnlyReported

(* An event that was not read to its end is refused in every mode, where   *)
(* the client can refuse it, with the same exception; and no part of it is *)
(* handed on rewritten.                                                    *)
UnreadIsRefused ==
    Answered /\ skipped = "yes" =>
        /\ answer \notin {"mask", "reshape", "silent"}
        /\ Power # "report-only" => Refused \/ OnlyReported

(* A masked answer has every finding replaced, and goes only where shim    *)
(* knows the input to go.                                                  *)
MaskIsWhole ==
    Answered /\ answer = "mask" =>
        skipped = "no" /\ unmaskable = "no" /\ replaced = "yes" /\ ~Unrouted

(* Nothing found, and nothing that was not read, goes on as it was where   *)
(* the client and the settings let shim hold it, but for a result of one   *)
(* of the client's own tools whose refusal could not be built: that one is *)
(* reported, and neither masked, nor reshaped, nor passed in silence.      *)
FindingsAreHeld == EnforceHolds /\ UnreadIsRefused /\ MaskIsWhole

(* Nobody is refused a call, for what was found in it, by installing: only *)
(* where masking is possible, or a settings file named the mode.           *)
RefusalWasAsked ==
    Answered /\ action = "deny" /\ found = "yes" /\ Power # "rewrite" => ChoseMode

(* A mode named for the tool is the mode, whatever else is named. *)
ToolsModeRules ==
    Answered /\ IsNamed("tool") /\ event.modes["tool"] = "observe"
    /\ found = "yes" /\ action \notin {"uninspected", "fallback"}
    => answer = "silent"

(* The adapter is never asked for what its client cannot do, which would   *)
(* be an exception and an event that was not inspected.                    *)
AskedIsEncodable == At("encode") => action \in Encodable

(* And nothing is refused that nobody asked to have refused, or that the   *)
(* client cannot refuse.                                                   *)
RefusesAsAsked == RefusalWasAsked /\ ToolsModeRules /\ AskedIsEncodable

(* The record tells what the client was asked to do. *)
RecordIsTrue ==
    Answered => /\ (record = "deny") = Refused
                /\ (record = "mask") = (answer = "mask")
                /\ (record = "report") = (answer = "report")

-----------------------------------------------------------------------------
(* The inductive invariant of ToolEventProofs, part by part. *)

(* An event that was not looked at yet has nothing found in it. *)
FreshInv ==
    pc \in {"idle", "check"} =>
        leaves = 0 /\ found = "no" /\ skipped = "no" /\ unmaskable = "no" /\ given = {}

(* Nothing is found, or left out, where there is no payload. *)
BodyInv ==
    /\ pc \in {"inspect", "decide", "issue"} => event.body # "none"
    /\ pc \in {"encode", "answered"} /\ (found = "yes" \/ skipped = "yes") =>
           event.body # "none"
    /\ pc = "encode" /\ action # "allow" => event.body # "none"

(* Every finding was replaced, cannot be, or was not read to its end. *)
FoundInv == found = "yes" => replaced = "yes" \/ unmaskable = "yes" \/ skipped = "yes"

(* What is asked of the adapter is what was decided of what was read. *)
DecisionInv ==
    pc \in {"issue", "encode", "answered"} =>
        /\ action # "none"
        /\ skipped = "yes" => action \in {"uninspected", "fallback"}
        /\ found = "yes" => action \in {"uninspected", "fallback", Decided}
        /\ action = "fallback" => pc = "answered"
        /\ action = "mask" => found = "yes"

AnswerInv ==
    pc = "answered" =>
        answer \in IF action = "fallback" THEN FixedAnswers ELSE {Encoded(action)}

(* The record kept of what is asked. *)
RecordInv ==
    pc \in {"issue", "encode"} =>
        record = CASE action = "reshape" -> "allow"
                   [] action = "uninspected" ->
                         (IF Power = "report-only" THEN "report" ELSE "deny")
                   [] OTHER -> action

(* In a session, what is shown is on disk, and stays apart from what a call *)
(* that goes through would write.                                          *)
ShownInv ==
    session = "yes" =>
        /\ shown \subseteq issued
        /\ pc = "encode" /\ action = "mask" => given \subseteq issued

WriteInv ==
    /\ given \cap event.writes = {}
    /\ session = "yes" /\ MayWrite
       /\ \/ pc \in {"inspect", "decide", "issue"}
          \/ pc = "encode" /\ action \notin {"deny", "uninspected"}
          \/ Answered /\ ~Refused
       => event.writes \cap issued = {}

(* What the adapter is asked for is what its client can do: only where it  *)
(* can rewrite is a leaf replaced that held nothing.                       *)
AskedInv ==
    /\ pc \in {"idle", "check"} => replaced = "no"
    /\ replaced = "yes" => found = "yes" \/ Shrinkable
    /\ pc \in {"issue", "encode"} => action \in Encodable

IInv ==
    /\ TypeOK /\ FreshInv /\ BodyInv /\ FoundInv /\ DecisionInv /\ AnswerInv
    /\ RecordInv /\ RecordIsTrue /\ ShownInv /\ WriteInv

=============================================================================
