------------------------------ MODULE Control -------------------------------
(***************************************************************************)
(* What shim sees before an agent turns it off: the commands of a shell    *)
(* line (policy.py, _simple_commands), the program a command runs          *)
(* (_control), a VS Code task's words as VS Code quotes them               *)
(* (events/pipeline.py, _task_word) and the files a write tool's path can  *)
(* name (hook.py, _paths and _protected); and what it can tell of an event *)
(* that is cut short or does not parse (hook.py, _prefix_event).           *)
(*                                                                         *)
(* A line is written here from what it means: commands of words, written   *)
(* with every kind of quoting, separator, substitution, redirection and    *)
(* here-document, and the reader must come back to the meaning.  A         *)
(* substitution ends the command it stands in: what follows it is read as  *)
(* a command of its own.  A character is itself as a string, "nl" the end  *)
(* of a line, "tab" a tab, "sq" and "dq" the quotes, "bt" a backtick and   *)
(* "bs" a backslash.                                                       *)
(***************************************************************************)
EXTENDS Integers, Sequences, FiniteSets, SequencesExt, FiniteSetsExt

CONSTANTS
    Quotable,       \* characters of words
    Bodies,         \* the lines of a here-document before its end
    TaskTexts,      \* << text, how it is quoted, what it means >> of a task
    MaxPieces,      \* bound: pieces written of a line
    Options,        \* << option, whether it takes the next word >>
    MaxArguments,   \* bound: words of a command
    PathChars,      \* characters of a path
    MaxPath,        \* bound: characters of a path
    Members,        \* << key, value >> of an event; "other" is no string
    MaxMembers,     \* bound: members of an event
    Disks           \* << a path, whether the file it leads to is a control, the hooks held >>

ASSUME ControlAssumption == {MaxPieces, MaxArguments, MaxPath, MaxMembers} \subseteq Nat

VARIABLES
    line,           \* the shell line so far
    meant,          \* its commands, each the words it has
    writer,         \* where its writer is: pieces, nesting, here-documents, the word
    command,        \* the words of one command, as records
    runs,           \* the control it runs, "" for none, as its writer meant it
    expects,        \* what its next word may be
    spelt,          \* a path, as a tool gives it
    disk,           \* what stands on the disk
    members         \* the members of an event, as far as it was read

controlvars == << line, meant, writer, command, runs, expects, spelt, disk, members >>

-----------------------------------------------------------------------------
(* _skip_heredocs *)

LineEnd(text, i) == CHOOSE e \in i..(Len(text) + 1) :
                    /\ e = Len(text) + 1 \/ text[e] = "nl"
                    /\ \A k \in i..(e - 1) : text[k] # "nl"
Stripped(s) == SubSeq(s, Min({ i \in 1..(Len(s) + 1) : i > Len(s) \/ s[i] # "tab" }), Len(s))

(* The place after the body of one, the end of the text if it has no end. *)
AfterBody(text, i, delimiter) ==
    LET starts == { k \in i..Len(text) : k = i \/ text[k - 1] = "nl" }
        body(k) == SubSeq(text, k, LineEnd(text, k) - 1)
        last == { k \in starts : (IF delimiter.tabs THEN Stripped(body(k)) ELSE body(k)) = delimiter.word }
    IN IF last = {} THEN Len(text) + 1 ELSE LineEnd(text, Min(last)) + 1

SkipHeredocs(text, i, delimiters) ==
    FoldLeft(LAMBDA k, d : AfterBody(text, k, d), i, delimiters)

-----------------------------------------------------------------------------
(* _simple_commands, one character after the other. *)

Here == << "<", "<" >>
HereTabs == << "<", "<", "-" >>

FinishWord(st) ==
    LET ended == [st EXCEPT !.word = << >>, !.started = FALSE, !.redirect = IF st.started THEN << >> ELSE @]
    IN IF ~st.started THEN ended
       ELSE IF st.redirect \in {Here, HereTabs}
       THEN [ended EXCEPT !.delimiters = Append(@, [word |-> st.word, tabs |-> st.redirect = HereTabs])]
       ELSE IF st.redirect # << >> THEN ended
       ELSE [ended EXCEPT !.commands[Len(st.commands)] = Append(@, st.word)]

NextCommand(st) ==
    LET ended == [FinishWord(st) EXCEPT !.redirect = << >>]
    IN IF Last(ended.commands) = << >> THEN ended
       ELSE [ended EXCEPT !.commands = Append(@, << >>)]

Put(st, c) == [st EXCEPT !.word = Append(@, c), !.started = TRUE]

InSingle(st, c) == IF c = "sq" THEN [st EXCEPT !.quote = ""] ELSE [st EXCEPT !.word = Append(@, c)]

Escaped(st, i, following) ==
    LET past == [st EXCEPT !.index = i + 2] IN
    IF following = "nl" THEN past
    ELSE Put(IF st.quote = "dq" /\ following \notin {"$", "bt", "dq", "bs"} THEN Put(past, "bs") ELSE past,
             following)

(* A subshell or a substitution, which the quote it stands in outlives. *)
OpenWithin(st, i, c, opens) ==
    [NextCommand(st) EXCEPT !.closers = Append(@, << IF c = "bt" THEN "bt" ELSE ")", st.quote >>),
                            !.quote = "", !.index = IF opens THEN i + 2 ELSE i + 1]

InDouble(st, i, c, opens) ==
    IF c = "dq" THEN [st EXCEPT !.quote = ""]
    ELSE IF opens \/ c = "bt" THEN OpenWithin(st, i, c, opens)
    ELSE Put(st, c)

(* Mutant: what a substitution stood in is not resumed. *)
MutantClose(st, c) ==
    LET ended == NextCommand(st) IN
    IF ended.closers = << >> \/ Last(ended.closers)[1] # c THEN ended
    ELSE [ended EXCEPT !.closers = Front(@)]

Close(st, c) ==
    LET ended == NextCommand(st) IN
    IF ended.closers = << >> \/ Last(ended.closers)[1] # c THEN ended
    ELSE [ended EXCEPT !.closers = Front(@), !.quote = Last(ended.closers)[2]]

EndOfLine(text, st, i) ==
    LET ended == NextCommand(st) IN
    [ended EXCEPT !.index = SkipHeredocs(text, i + 1, ended.delimiters), !.delimiters = << >>]

(* The descriptor before a redirection is no word of the command. *)
Redirect(text, st, i) ==
    LET descriptor == st.started /\ st.word # << >> /\ Range(st.word) \subseteq {"1", "2"}
        before == FinishWord(IF descriptor THEN [st EXCEPT !.word = << >>, !.started = FALSE] ELSE st)
        next(k) == IF k <= Len(text) THEN text[k] ELSE ""
        arrows == CHOOSE n \in 0..Len(text) :
                      (\A k \in 1..n : next(i + k) \in {"<", ">"}) /\ next(i + n + 1) \notin {"<", ">"}
        mark == IF next(i + arrows + 1) \in {"&", "|", "-"} THEN 1 ELSE 0
    IN [before EXCEPT !.index = i + arrows + mark + 1,
                      !.redirect = SubSeq(text, i, i + arrows + mark)]

Unquoted(text, st, i, c, opens) ==
    CASE c \in {"sq", "dq"} -> [st EXCEPT !.quote = c, !.started = TRUE]
      [] c \in {" ", "tab"} -> FinishWord(st)
      [] c = "#" /\ ~st.started -> [st EXCEPT !.index = LineEnd(text, i)]
      [] opens \/ c = "(" -> OpenWithin(st, i, c, opens)
      [] c = ")" \/ (c = "bt" /\ st.closers # << >> /\ Last(st.closers)[1] = "bt") -> Close(st, c)
      [] c = "bt" -> OpenWithin(st, i, c, FALSE)
      [] c \in {";", "&", "|"} -> NextCommand(st)
      [] c = "nl" -> EndOfLine(text, st, i)
      [] c \in {"<", ">"} -> Redirect(text, st, i)
      [] OTHER -> Put(st, c)

ReadCharacter(text, state, i) ==
    LET st == [state EXCEPT !.index = i + 1]
        c == text[i]
        opens == c = "$" /\ i < Len(text) /\ text[i + 1] = "("
    IN IF st.quote = "sq" THEN InSingle(st, c)
       ELSE IF c = "bs" THEN Escaped(st, i, IF i < Len(text) THEN text[i + 1] ELSE "nl")
       ELSE IF st.quote = "dq" THEN InDouble(st, i, c, opens)
       ELSE Unquoted(text, st, i, c, opens)

SimpleCommands(text) ==
    LET start == [commands |-> << << >> >>, word |-> << >>, started |-> FALSE, quote |-> "",
                  closers |-> << >>, delimiters |-> << >>, redirect |-> << >>, index |-> 1]
        read == FoldLeft(LAMBDA st, i : IF i < st.index THEN st ELSE ReadCharacter(text, st, i),
                         start, [i \in DOMAIN text |-> i])
    IN FinishWord(read).commands

-----------------------------------------------------------------------------
(* _task_word: a string with a space outside quotes is wrapped, one that   *)
(* is wrapped is not, and nothing within is escaped.                       *)

Wrapped(text, quote) == << quote >> \o text \o << quote >>

IsWrapped(text) == Len(text) > 1 /\ text[1] \in {"sq", "dq"} /\ Last(text) = text[1]

SpaceOutsideQuotes(text) ==
    FoldLeft(LAMBDA st, c :
                 IF st.found \/ c = st.quote THEN [st EXCEPT !.quote = ""]
                 ELSE IF st.quote = "" /\ c \in {"sq", "dq"} THEN [st EXCEPT !.quote = c]
                 ELSE [st EXCEPT !.found = st.quote = "" /\ c = " "],
             [quote |-> "", found |-> FALSE], text).found

TaskWord(text, quoting) ==
    CASE quoting = "escape" ->
            FlattenSeq([i \in DOMAIN text |->
                IF text[i] \in {" ", "dq", "sq"} THEN << "bs", text[i] >> ELSE << text[i] >>])
      [] quoting = "weak" -> Wrapped(text, "dq")
      [] quoting = "strong" -> Wrapped(text, "sq")
      [] OTHER -> IF ~IsWrapped(text) /\ SpaceOutsideQuotes(text) THEN Wrapped(text, "sq") ELSE text

-----------------------------------------------------------------------------
(* A shell: what a line that is written means.  "started" says that a word *)
(* is being written, "open" what is to be closed, "pending" which bodies   *)
(* the next line begins with.                                              *)

Appends(piece) ==
    /\ writer.pieces < MaxPieces
    /\ line' = line \o piece
    /\ UNCHANGED << command, runs, expects, spelt, disk, members >>

Wrote(started) == [writer EXCEPT !.pieces = @ + 1, !.started = started]

Means(characters) ==
    LET last == Len(meant) IN
    IF writer.started
    THEN [meant EXCEPT ![last] = [@ EXCEPT ![Len(@)] = @ \o characters]]
    ELSE [meant EXCEPT ![last] = Append(@, characters)]

(* A character: as it is, escaped, or in quotes; and none, in quotes. *)
WriteWord ==
    \E c \in Quotable : \E p \in
        {<< << "bs", c >>, << c >> >>, << << "sq", "sq" >>, << >> >>,
         IF c \in {"$", "bt", "dq", "bs"} THEN << << "dq", "bs", c, "dq" >>, << c >> >>
         ELSE << << "dq", "bs", c, "dq" >>, << "bs", c >> >>}
        \cup (IF c # "sq" THEN {<< << "sq", c, "sq" >>, << c >> >>} ELSE {})
        \cup (IF c = "a" \/ (c = "#" /\ writer.started) THEN {<< << c >>, << c >> >>} ELSE {}) :
            /\ Appends(p[1])
            /\ meant' = Means(p[2]) /\ writer' = Wrote(TRUE)

ContinueLine ==
    /\ Appends(<< "bs", "nl" >>)
    /\ writer' = Wrote(writer.started) /\ UNCHANGED meant

EndWord ==
    /\ writer.started
    /\ \E c \in {" ", "tab"} : Appends(<< c >>)
    /\ writer' = Wrote(FALSE) /\ UNCHANGED meant

WriteTask ==
    /\ ~writer.started
    /\ \E t \in TaskTexts : /\ Appends(TaskWord(t[1], t[2]) \o << " " >>)
                            /\ meant' = Means(t[3])
    /\ writer' = Wrote(FALSE)

(* The word after it is a file, a descriptor or the end of a document, and *)
(* so is the number right before it.                                       *)
WriteRedirection ==
    \E form \in {<< ">", "a" >>, << ">", "&", "1" >>, << "<", " ", "a" >>, Here \o << "e" >>,
                 HereTabs \o << "e" >>} :
    \E number \in IF writer.started THEN {<< >>} ELSE {<< >>, << "2" >>} :
        /\ Appends(number \o form \o << " " >>)
        /\ writer' = [Wrote(FALSE) EXCEPT
               !.pending = @ \o CASE IsPrefix(HereTabs, form) -> << TRUE >>
                                  [] IsPrefix(Here, form) /\ ~IsPrefix(HereTabs, form) -> << FALSE >>
                                  [] OTHER -> << >>]
        /\ UNCHANGED meant

Separate ==
    /\ \E c \in {";", "&", "|"} : Appends(<< c >>)
    /\ meant' = Append(meant, << >>) /\ writer' = Wrote(FALSE)

(* The end of a line, after a comment or not, and the bodies it opens. *)
BreakLine ==
    \E body \in Bodies :
    \E comment \in IF writer.started THEN {<< >>} ELSE {<< >>, << "#", "a", "sq", ";" >>} :
        /\ Appends(comment \o << "nl" >> \o FlattenSeq([i \in DOMAIN writer.pending |->
               body \o << "nl" >> \o IF writer.pending[i] THEN << "tab", "e", "nl" >> ELSE << "e", "nl" >>]))
        /\ meant' = Append(meant, << >>) /\ writer' = [Wrote(FALSE) EXCEPT !.pending = << >>]

OpenCommand ==
    \E piece \in {<< "(" >>, << "$", "(" >>, << "dq", "$", "(" >>, << "bt" >>, << "dq", "bt" >>} :
        /\ Last(piece) = "bt" => \A i \in DOMAIN writer.open : writer.open[i][1] # "bt"
        /\ Appends(piece)
        /\ meant' = Append(IF piece[1] = "dq" THEN Means(<< >>) ELSE meant, << >>)
        /\ writer' = [Wrote(FALSE) EXCEPT
               !.open = Append(@, << IF Last(piece) = "bt" THEN "bt" ELSE ")", piece[1] = "dq" >>)]

(* Where it stood in quotes, the text goes on in them. *)
CloseCommand ==
    /\ writer.open # << >>
    /\ LET last == Last(writer.open) IN
       /\ Appends(<< last[1] >> \o IF last[2] THEN << ";", "dq" >> ELSE << >>)
       /\ meant' = Append(meant, IF last[2] THEN << << ";" >> >> ELSE << >>)
       /\ writer' = [Wrote(last[2]) EXCEPT !.open = Front(@)]

WriteLine ==
    \/ WriteWord \/ ContinueLine \/ EndWord \/ WriteTask \/ WriteRedirection
    \/ Separate \/ BreakLine \/ OpenCommand \/ CloseCommand

-----------------------------------------------------------------------------
(* _control.  A word is what it is to the reader: an assignment, a prefix, *)
(* an option, or a name.                                                   *)

SHIM_CONTROLS == {"config", "revert", "uninstall"}
VALUED == {"a", "C", "P", "S", "u"}
LongNames == {<< "a", "r", "g" >>, << "c", "h" >>, << "s", "p" >>, << "u", "n" >>}

Word(kind, name) == [kind |-> kind, name |-> name]

(* Mutant: a valued letter takes the next word wherever it stands. *)
MutantTakesValue(option) ==
    IF option.long THEN \E name \in LongNames : IsPrefix(option.letters, name)
    ELSE Range(option.letters) \cap VALUED # {}

TakesValue(option) ==
    IF option.long THEN \E name \in LongNames : IsPrefix(option.letters, name)
    ELSE LET valued == { i \in DOMAIN option.letters : option.letters[i] \in VALUED }
         IN valued # {} /\ Min(valued) = Len(option.letters)

Program ==
    FoldLeft(LAMBDA st, i :
                 LET word == command[i] IN
                 IF st.at # 0 THEN st
                 ELSE IF st.next = "value" THEN [st EXCEPT !.next = "options"]
                 ELSE IF st.next = "options" /\ word.kind = "option"
                 THEN [st EXCEPT !.next = IF TakesValue(word.name) THEN "value" ELSE "options"]
                 ELSE IF word.kind \in {"assignment", "prefix"}
                 THEN [st EXCEPT !.next = IF word.kind = "prefix" THEN "options" ELSE "any"]
                 ELSE [st EXCEPT !.at = i],
             [at |-> 0, next |-> "any"], [i \in DOMAIN command |-> i]).at

Controls ==
    LET rest == SubSeq(command, Program + 1, Len(command))
        arguments == IF rest # << >> /\ rest[1].name = "--" THEN Tail(rest) ELSE rest
    IN IF Program = 0 \/ command[Program].name # "shim" \/ arguments = << >>
          \/ arguments[1].name \notin SHIM_CONTROLS THEN ""
       ELSE arguments[1].name

AddWord(word, next, control) ==
    /\ Len(command) < MaxArguments
    /\ command' = Append(command, word) /\ expects' = next /\ runs' = control
    /\ UNCHANGED << line, meant, writer, spelt, disk, members >>

Names == {"shim", "ls"}
Assign == expects \in {"any", "options"} /\ AddWord(Word("assignment", "A"), "any", "")
Precede == expects \in {"any", "options"} /\ AddWord(Word("prefix", "env"), "options", "")
GiveOption ==
    /\ expects = "options"
    /\ \E o \in Options : AddWord(Word("option", o[1]), IF o[2] THEN "value" ELSE "options", "")
GiveValue == expects = "value" /\ \E name \in Names : AddWord(Word("word", name), "options", "")
RunProgram ==
    /\ expects \in {"any", "options"}
    /\ \E name \in Names :
           AddWord(Word("word", name), IF name = "shim" THEN "subcommand" ELSE "nothing", "")
EndOptions == expects = "subcommand" /\ AddWord(Word("word", "--"), "control", "")
Subcommand ==
    /\ expects \in {"subcommand", "control"}
    /\ \E name \in {"config", "stats"} :
           AddWord(Word("word", name), "nothing", IF name \in SHIM_CONTROLS THEN name ELSE "")
Argument == expects = "nothing" /\ AddWord(Word("word", "revert"), "nothing", runs)

NameWords == Assign \/ Precede \/ GiveOption \/ GiveValue \/ RunProgram \/ EndOptions
             \/ Subcommand \/ Argument

-----------------------------------------------------------------------------
(* _paths.  "w" is a letter or a digit, "+" one of + . -, "%" an encoded   *)
(* "?".                                                                    *)

FirstOf(text, set) == Min({ i \in 1..(Len(text) + 1) : i > Len(text) \/ text[i] \in set })
UpTo(text, set) == SubSeq(text, 1, FirstOf(text, set) - 1)
Past(text, set) == SubSeq(text, FirstOf(text, set) + 1, Len(text))
Unescaped(text) == [i \in DOMAIN text |-> IF text[i] = "%" THEN "?" ELSE text[i]]

HoldsScheme(text, between) ==
    \E i, k \in DOMAIN text :
        /\ i < k /\ text[i] = "w" /\ text[k] = ":" /\ \A n \in (i + 1)..(k - 1) : text[n] \in between
        /\ k < Len(text) /\ text[k + 1] # " "

(* Mutant: what comes before the first colon is a scheme, whatever it is. *)
MutantHasScheme(text) == TRUE

HasScheme(text) == UpTo(text, {":"}) # << >> /\ FirstOf(text, {"/", "?", "#"}) > FirstOf(text, {":"})

PathsOf(text) ==
    LET rest == UpTo(IF HasScheme(text) THEN Past(text, {":"}) ELSE text, {"#", "?"})
        host == IF IsPrefix(<< "/", "/" >>, rest) THEN UpTo(SubSeq(rest, 3, Len(rest)), {"/"}) ELSE << >>
        path == IF IsPrefix(<< "/", "/" >>, rest) THEN Past(SubSeq(rest, 3, Len(rest)), {"/"}) ELSE rest
        from == << "/" >>
    IN IF (text # << >> /\ text[1] = "/") \/ ~HoldsScheme(text, {"+"}) THEN {text}
       ELSE {text, from \o Unescaped(path)}
            \cup IF host = << >> THEN {} ELSE {from \o Unescaped(host) \o from \o Unescaped(path)}

(* The folders and the name of a path, from the root or from where it is. *)
Steps(path) ==
    << path # << >> /\ path[1] = "/",
       SelectSeq(FoldLeft(LAMBDA out, c : IF c = "/" THEN Append(out, << >>)
                                          ELSE [out EXCEPT ![Len(out)] = Append(@, c)],
                          << << >> >>, path),
                 LAMBDA step : step # << >>) >>

(* _same_file, through links, and _holds_hooks: a file that cannot be read *)
(* counts, one that is gone does not.                                      *)
Counts(state) == state \in {"always", "hooks", "unreadable"}
Protected(text) == \E p \in PathsOf(text) : Steps(p) = disk[1] /\ Counts(disk[2])

(* VS Code, as the code describes it: a URI's path is what follows its     *)
(* scheme and its host, and the host is a folder in front of it.           *)
AsURI(text) ==
    LET scheme == { k \in DOMAIN text : k > 1 /\ text[k] = ":"
                                       /\ \A n \in 1..(k - 1) : text[n] \notin {":", "/", "?", "#"} }
        rest == SubSeq(text, 1 + (IF scheme = {} THEN 0 ELSE Min(scheme)), Len(text))
        end == Min({ k \in 1..(Len(rest) + 1) : k > Len(rest) \/ rest[k] \in {"?", "#"} })
    IN << "/" >> \o Unescaped(SubSeq(rest, 1, end - 1))

FileWritten(text) ==
    IF text[1] # "/" /\ HoldsScheme(text, {"w", "+"}) THEN Steps(AsURI(text)) ELSE Steps(text)

TypePath ==
    /\ Len(spelt) < MaxPath
    /\ \E c \in PathChars : spelt' = Append(spelt, c)
    /\ UNCHANGED << line, meant, writer, command, runs, expects, disk, members >>

-----------------------------------------------------------------------------
(* _prefix_event: the members that were read before the event ends, or     *)
(* breaks.  The last value of a key counts, but for the event's name: the  *)
(* last prompt's, or the first tool event's when no prompt is named.       *)

PromptEvents == {"UserPromptSubmit", "userPromptTransformed"}
ToolEventNames == {"PreToolUse", "PostToolUse", "PostToolUseFailure", "Stop"}

TextsOf(given, key) == SelectSeq(given, LAMBDA m : m[1] = key /\ m[2] # "other")
LastText(given, key) == IF TextsOf(given, key) = << >> THEN "" ELSE Last(TextsOf(given, key))[2]
Holds(given, key) == \E i \in DOMAIN given : given[i][1] = key

(* Mutant: the last name there is counts. *)
MutantNameIn(given) == LastText(given, "hook_event_name")

NameIn(given) ==
    LET named(of) == SelectSeq(TextsOf(given, "hook_event_name"), LAMBDA m : m[2] \in of)
    IN IF named(PromptEvents) # << >> THEN Last(named(PromptEvents))[2]
       ELSE IF named(ToolEventNames) # << >> THEN named(ToolEventNames)[1][2] ELSE ""

PrefixEvent(given) ==
    [event |-> NameIn(given),
     session |-> IF LastText(given, "session_id") # "" THEN LastText(given, "session_id")
                 ELSE LastText(given, "sessionId"),
     tool |-> LastText(given, "tool_name"), target |-> LastText(given, "tool_input"),
     vscode |-> Holds(given, "timestamp") /\ ~Holds(given, "permission_mode")]

(* _envelope, of an event that parses. *)
Envelope(given) ==
    [event |-> LastText(given, "hook_event_name"),
     session |-> IF TextsOf(given, "session_id") # << >> THEN LastText(given, "session_id")
                 ELSE LastText(given, "sessionId")]

(* _fixed_refusal and _fallback_output. *)
FixedRefusal(client, read) ==
    LET speaks == IF client = "claude" /\ read.vscode THEN "vscode" ELSE client IN
    CASE read.event \in PromptEvents \cup {""} -> "block"
      [] read.event \notin PromptEvents \cup {""} /\ speaks \notin {"claude", "vscode"} -> "silent"
      [] OTHER ->
           CASE read.event = "PreToolUse" -> "deny"
             [] read.event = "PostToolUse" /\ speaks = "claude" /\ read.tool \in {"", "mcp"} -> "withhold"
             [] read.event \in {"PostToolUse", "PostToolUseFailure"}
                  /\ ~(read.event = "PostToolUse" /\ speaks = "claude" /\ read.tool \in {"", "mcp"}) -> "report"
             [] OTHER -> "silent"

ReadMember ==
    /\ Len(members) < MaxMembers
    /\ \E m \in Members : members' = Append(members, m)
    /\ UNCHANGED << line, meant, writer, command, runs, expects, spelt, disk >>

-----------------------------------------------------------------------------
ControlInit ==
    /\ line = << >> /\ meant = << << >> >>
    /\ writer = [pieces |-> 0, started |-> FALSE, open |-> << >>, pending |-> << >>]
    /\ command = << >> /\ runs = "" /\ expects = "any"
    /\ spelt = << >> /\ disk \in Disks /\ members = << >>

-----------------------------------------------------------------------------
(* PROPERTIES *)

(* However a line is quoted, continued, nested, redirected or commented,   *)
(* the reader finds its commands and their words: nothing of a quoted      *)
(* text, a comment, a redirection or a here-document becomes a command,    *)
(* and none is lost in one.                                                *)
LineIsRead ==
    LET commands(c) == SelectSeq(c, LAMBDA read : read # << >>)
    IN commands(SimpleCommands(line)) = commands(meant)

(* The program is found behind assignments, prefixes and their options,    *)
(* and never in what an option takes.                                      *)
ControlIsNamed == Controls = runs

(* The file a tool writes is among those its path is checked as, whether   *)
(* the client reads a path or a URI, so that a control is never missed.    *)
FileIsChecked ==
    spelt # << >> =>
        /\ FileWritten(spelt) \in { Steps(p) : p \in PathsOf(spelt) }
        /\ FileWritten(spelt) = disk[1] /\ Counts(disk[2]) => Protected(spelt)

(* Wherever an event is cut, what is told of it is the event's or nothing; *)
(* one that names a prompt is blocked as a prompt, whatever else it names; *)
(* one that has its name is refused no less for being cut; and one from    *)
(* Claude Code, which gives its permission mode and no time, is never      *)
(* answered as VS Code's, nor VS Code's, which opens with the time, as     *)
(* Claude Code's.                                                          *)
Severity == [silent |-> 0, report |-> 1, withhold |-> 2, deny |-> 2, block |-> 2]
Once(given) == \A i, j \in DOMAIN given : given[i][1] = given[j][1] => i = j
CutIsTold ==
    \A n \in 0..Len(members) :
        LET cut == PrefixEvent(SubSeq(members, 1, n))
            whole == PrefixEvent(members)
            names == { TextsOf(members, "hook_event_name")[i][2] : i \in DOMAIN TextsOf(SubSeq(members, 1, n), "hook_event_name") }
        IN /\ names \cap PromptEvents # {} =>
                  \A client \in {"claude", "codex", "copilot"} :
                      FixedRefusal(client, cut) = "block" /\ FixedRefusal(client, whole) = "block"
           /\ Once(members) =>
                  /\ cut.event \in {"", Envelope(members).event} /\ cut.tool \in {"", whole.tool}
                  /\ ~(Holds(members, "session_id") /\ Holds(members, "sessionId")) =>
                         cut.session \in {"", Envelope(members).session}
                  /\ cut.event # "" /\ (whole.vscode \/ ~cut.vscode) => \A client \in {"claude", "codex", "copilot"} :
                         Severity[FixedRefusal(client, cut)] >= Severity[FixedRefusal(client, whole)]
                  /\ ~Holds(members, "timestamp") => ~cut.vscode
                  /\ n > 0 /\ members[1][1] = "timestamp" /\ ~Holds(members, "permission_mode") => cut.vscode

ControlIsSeen == LineIsRead /\ ControlIsNamed /\ FileIsChecked /\ CutIsTold
=============================================================================
