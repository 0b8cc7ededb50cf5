---------------------------- MODULE MCAlgorithms ----------------------------
(* The algorithms that read and count what others wrote, each on inputs of  *)
(* its own: UsageReader on the answers a few events make, Report on the     *)
(* documents of two conversations, Recognizers and Spans on matches, numbers *)
(* and texts that grow, Numbering on the texts of an event, Payload on texts *)
(* and events that grow, Control on lines, commands and paths as they are   *)
(* written, and Deadline.  A behaviour is of one of them.                   *)
EXTENDS UsageReader, Report, Recognizers, Spans, Numbering, Deadline, Payload, Control

Usage(i, o, w, h, r) == [input |-> i, output |-> o, writes |-> w, hour |-> h, reads |-> r]

MCDocs ==
    [start |-> [usage |-> Usage(3, 1, 2, 1, 0), block |-> 0, size |-> 0, stop |-> "", model |-> "m"],
     text |-> [usage |-> NoUsage, block |-> 1, size |-> 2, stop |-> "", model |-> ""],
     more |-> [usage |-> NoUsage, block |-> 2, size |-> 1, stop |-> "", model |-> ""],
     last |-> [usage |-> Usage(-1, 4, -1, -1, 0), block |-> 0, size |-> 0, stop |-> "end", model |-> ""],
     late |-> [usage |-> Usage(9, 2, 5, 7, 1), block |-> 1, size |-> 2, stop |-> "max", model |-> "n"]]

L(form, ev) == [form |-> form, ev |-> ev]
MCAnswers ==
    {<< L("one", "start"), L("two", "text"), L("crlf", "last") >>,
     << L("other", "text"), L("one", "last"), L("one", "late") >>,
     << L("crlf", "text"), L("two", "late"), L("one", "more") >>,
     << L("one", "start"), L("two", "broken"), L("one", "last") >>,
     << L("one", "last"), L("open", "text") >>,
     << L("one", "more"), L("one", "broken") >>,
     << L("open", "text"), L("other", "text"), L("one", "late"), L("one", "last"), L("one", "start") >>,
     << L("json", "late") >>, << L("json", "broken") >>}

-----------------------------------------------------------------------------
Text(tokens) == [kind |-> "text", text |-> tokens]
Image(digest, bytes, tokens) == [digest |-> digest, bytes |-> bytes, tokens |-> tokens]
Use == [kind |-> "use", id |-> "t1", name |-> "Read"]
Result(size, images) == [kind |-> "result", id |-> "t1", size |-> size, images |-> images]
Document(fields, history) == [fields |-> fields, history |-> history]

Small == [tools |-> 5, system |-> 2, other |-> 0]
Even == [tools |-> 4, system |-> 4, other |-> 4]
Plain == Text(<< "x", "x", "x" >>)
Reminded == Text(<< "open", "open", "marker", "close", "marker", "close", "open", "marker" >>)

Short == Document(Small, << Plain >>)
Long == Document(Small, << Plain, Result(4, << Image("d1", 5, 2) >>), Use >>)
Longer == Document(Small, << Plain, Result(4, << Image("d1", 5, 2) >>), Use,
                        Result(2, << Image("d2", 3, 0), Image("d1", 5, 2) >>) >>)
Files == Document(Even, << Text(<< "close", "open", "close", "open", "marker", "close" >>),
                      [kind |-> "image", image |-> Image("d3", 9, 30)], Reminded >>)

Odd == Document(Small, << Plain, Result(4, << Image("d1", 5, 2) >>), Use, [kind |-> "unencodable"] >>)

Bill(fresh, writes, reads) == [fresh |-> fresh, writes |-> writes, reads |-> reads, hour |-> 0, output |-> 1]
Failed == [Bill(0, 0, 0) EXCEPT !.output = 0]
Cold == [Bill(1, 6, 0) EXCEPT !.hour = 2]
Warm == Bill(0, 1, 10)
Tie == Bill(2, 1, 9)
Again == [Bill(11, 1, 5) EXCEPT !.hour = 1]

MCModelId == [a |-> "a", dated |-> "a", b |-> "b", u |-> "u"]
R(fresh, five, hour, read, output) == [fresh |-> fresh, five |-> five, hour |-> hour, read |-> read, output |-> output]
MCPrices == [a |-> R(4, 5, 8, 1, 20), b |-> R(2, 3, 4, 1, 10)]
MCLongPrices == [b |-> R(10, 13, 20, 1, 50)]

A(doc, usage) ==
    [doc |-> doc, usage |-> usage, model |-> "a", stop |-> "end", twice |-> FALSE, route |-> "api-key",
     found |-> << >>, said |-> << >>, scan |-> "known", status |-> "known", reason |-> "", inspected |-> "whole"]
Unanswered == [A(Long, Failed) EXCEPT !.stop = "", !.scan = "unavailable", !.status = "unavailable"]
MCAsked ==
    {A(Short, Cold), A(Short, Warm), Unanswered,
     [A(Long, Warm) EXCEPT !.found = [messages |-> 1, system |-> 1], !.said = [text |-> 1]],
     [A(Long, Tie) EXCEPT !.model = "b", !.stop = "max_tokens", !.found = [messages |-> 1]],
     [A(Long, Again) EXCEPT !.route = "subscription", !.said = [thinking |-> 2]],
     [A(Longer, Warm) EXCEPT !.model = "dated", !.twice = TRUE, !.scan = "partial", !.status = "partial"],
     [A(Longer, Again) EXCEPT !.model = "b", !.twice = TRUE],
     [A(Files, Warm) EXCEPT !.model = "u", !.stop = "length", !.route = ""],
     [A(Files, Again) EXCEPT !.model = "u", !.found = [other |-> 2], !.inspected = "part", !.reason = "too many fields"],
     A(Odd, Warm),
     [A(Long, Warm) EXCEPT !.inspected = "not", !.reason = "slots busy", !.scan = "unavailable"]}

-----------------------------------------------------------------------------
MCTypes == << "CUSTOM", "TR_VKN", "US_SSN" >>
MCPriority == [CUSTOM |-> 10, TR_VKN |-> 70, US_SSN |-> 70]
MCCustom == {<< 30, "a" >>, << 30, "b" >>, << 90, "a" >>}

-----------------------------------------------------------------------------
D == << "d", "d" >>
Wide == << "d", "D" >>
Name == << "name" >>
Worth == << "value" >>
Item == << >>
Cue == << "K" >>

MCKeys == {Item, Cue, D}
MCPaths == {<< >>, << D >>, << Wide >>, << Worth >>, << Name >>, << Cue >>, << Cue, Name >>,
            << Cue, Worth >>, << Item, Worth >>, << D, Wide >>, << Worth, Item, Cue >>}
Atom(kind, characters) == [kind |-> kind, text |-> characters]
MCAtoms == {Atom("text", << "a", "d" >>), Atom("text", << "K", "t", "d" >>), Atom("text", << "d" >>),
            Atom("number", D), Atom("image", D), Atom("picture", D)}

-----------------------------------------------------------------------------
Spaced == << "a", " ", "a" >>
Quoted == << "a", " ", "sq" >>
MCTaskTexts ==
    {<< << "a" >>, "", << "a" >> >>, << Spaced, "", Spaced >>, << Spaced, "strong", Spaced >>,
     << << "sq" >> \o Spaced \o << "sq" >>, "", Spaced >>,
     << Quoted, "escape", Quoted >>, << Quoted, "weak", Quoted >>}
MCBodies == {<< "a", ";", "(" >>, << "sq" >>}

Cluster(letters) == [long |-> FALSE, letters |-> letters]
Spelled(letters) == [long |-> TRUE, letters |-> letters]
MCOptions ==
    {<< Cluster(<< "i" >>), FALSE >>, << Cluster(<< "i", "u" >>), TRUE >>,
     << Cluster(<< "u", "i" >>), FALSE >>, << Spelled(<< "u" >>), TRUE >>,
     << Spelled(<< "u", "n" >>), TRUE >>, << Spelled(<< "u", "n", "=" >>), FALSE >>}

Step == << "w" >>
MCDisks == {<< << TRUE, << Step >> >>, "always" >>, << << FALSE, << Step >> >>, "hooks" >>,
            << << TRUE, << Step, Step >> >>, "unreadable" >>}

(* The members clients send: of a prompt, a call and its results.  One     *)
(* that is broken may have any of them twice.                              *)
MCMembers ==
    ({"hook_event_name"} \X {"UserPromptSubmit", "PreToolUse", "PostToolUse", "SubagentStop", "other"})
    \cup {<< "session_id", "s" >>, << "session_id", "" >>, << "sessionId", "s" >>, << "tool_name", "Read" >>,
          << "tool_name", "mcp" >>, << "tool_input", "file" >>, << "tool_input", "other" >>,
          << "timestamp", "now" >>, << "permission_mode", "default" >>}

-----------------------------------------------------------------------------
VARIABLE part

allvars == << uvars, exchanges, recvars, spanvars, numvars, timevars, payvars, controlvars, part >>

(* What an algorithm that is not at work is given. *)
Idle == part # "reader" => answer = CHOOSE a \in Answers : TRUE
IdleTexts == part # "numbering" => inText = {}
IdleEvent ==
    /\ part # "event" => ~inbound /\ fails = NoFailure
    /\ part # "reading" => under = Item
IdleDisk == part # "path" => disk = CHOOSE d \in Disks : TRUE

AlgorithmsInit ==
    /\ part \in {"reader", "report", "matches", "digits", "words",
                "found", "source", "text", "numbering", "deadline",
                "reading", "event", "line", "command", "path", "cut"}
    /\ UInit /\ Idle /\ RInit /\ RecognizersInit /\ SpansInit
    /\ NumberingInit /\ IdleTexts /\ DeadlineInit /\ PayloadInit /\ IdleEvent
    /\ ControlInit /\ IdleDisk

AlgorithmsNext ==
    /\ UNCHANGED part
    /\ part = "reader" \/ UNCHANGED uvars
    /\ part = "report" \/ UNCHANGED exchanges
    /\ part \in {"matches", "digits", "words"} \/ UNCHANGED recvars
    /\ part \in {"found", "source", "text"} \/ UNCHANGED spanvars
    /\ part = "numbering" \/ UNCHANGED numvars
    /\ part = "deadline" \/ UNCHANGED timevars
    /\ part \in {"reading", "event"} \/ UNCHANGED payvars
    /\ part \in {"line", "command", "path", "cut"} \/ UNCHANGED controlvars
    /\ \/ part = "reader" /\ UNext
       \/ part = "report" /\ RNext
       \/ part = "matches" /\ MatchPattern
       \/ part = "digits" /\ TypeDigit
       \/ part = "words" /\ Write
       \/ part = "found" /\ Match
       \/ part = "source" /\ Extend
       \/ part = "text" /\ (Lengthen \/ ReadPieces)
       \/ part = "numbering" /\ NumberingNext
       \/ part = "deadline" /\ DeadlineNext
       \/ part = "reading" /\ WriteText
       \/ part = "event" /\ AddAtom
       \/ part = "line" /\ WriteLine
       \/ part = "command" /\ NameWords
       \/ part = "path" /\ TypePath
       \/ part = "cut" /\ ReadMember

(* What the detector finds is sound and whole, in matches and in texts     *)
(* (guard/recognizers.py, guard/analyze.py, guard/normalize.py).           *)
DetectedIsRight ==
    /\ part \in {"matches", "digits", "words"} => MatchesAreSound
    /\ part \in {"found", "source", "text"} => SpansAreWhole

(* What the report says, while it is the report that is at work. *)
ReportTells == part = "report" => ReportAddsUp

(* What leaves a hook has no value left in it, of the texts and the events *)
(* that are being written (events/payload.py).                             *)
EventsAreMasked == part \in {"reading", "event"} => MaskedWhole

(* What turns shim off is seen, of lines, commands, paths and events that  *)
(* are being written (policy.py, hook.py).                                 *)
ControlsAreSeen == part \in {"line", "command", "path", "cut"} => ControlIsSeen

AlgorithmsSpec == AlgorithmsInit /\ [][AlgorithmsNext]_allvars
=============================================================================
