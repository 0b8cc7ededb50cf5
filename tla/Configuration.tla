---------------------------- MODULE Configuration ----------------------------
(***************************************************************************)
(* What `shim config` makes of the settings (cli/configuration.py): the    *)
(* file as users write it and as it renders it, what a hook reads in it    *)
(* (config.py, guard/entities.py), and the commands one after the other.   *)
(* How the file is replaced is SettingsFile, and where it is SettingsMove. *)
(* A text is one of a few of the kinds the checks tell apart.              *)
(***************************************************************************)
EXTENDS Naturals, Sequences, SequencesExt, Filters

CONSTANTS
    EntityTypes,    \* the types of entities, in their order
    OptIn,          \* those that are off unless the user names them
    Revealable,     \* those that may keep a tail
    NameOfCustom,   \* names a custom entry may have
    Unsound,        \* << "pattern" or "literal", text >>: it does not compile, or is too short
    Slow,           \* the same, of those that backtrack
    Bytes,          \* what a text of a custom entry adds to the file
    MaxBytes,       \* MAX_CONFIG_BYTES, of the texts
    MaxCustom,      \* MAX_CUSTOM_PATTERNS
    Handwritten,    \* the files users leave
    Invocations,    \* the options of a command
    MaxCommands     \* a bound: commands and edits

VARIABLES
    config,     \* the file: "absent", "file" with its document, "torn" (no TOML) or "unsafe" and why
    pinned,     \* SHIM_CONFIG names it
    ran,        \* the last command: its options, what was read before it, what it said
    commands    \* how many there were
configvars == << config, pinned, ran, commands >>

-----------------------------------------------------------------------------
(* A file, and what is read in it. *)

Lacks(why) == [kind |-> "unsafe", why |-> why]
Holds(document) == [kind |-> "file", document |-> document]
NoConfig == [kind |-> "absent"]
Torn == [kind |-> "torn"]

TRANSFORMS == << "json", "html", "whitespace" >>
MODES == {"observe", "warn", "enforce"}
OBSERVE_ONLY == {"model-output", "Stop"}
Yes == << "true" >>
No == << "false" >>

Defaults ==
    [enabled |-> Range(EntityTypes) \ OptIn, modes |-> << >>, tools |-> << >>, ledger |-> FALSE,
     diet |-> {"json"}, custom |-> << >>, reveal |-> << >>, markers |-> "report"]

At(document, key, default) == IF key \in DOMAIN document THEN document[key] ELSE default

(* A list of tables and a table; other types are not told from "torn".     *)
CustomEntries ==
    [name : STRING, kind : {"pattern", "literal"}, text : STRING,
     rest : {"none", "ignore_case", "whole_word", "score", "unknown"}]
IsDocument(document) ==
    LET reveal == At(document, "reveal", << >>) IN
    At(document, "custom", << >>) \in Seq(CustomEntries) /\ reveal = [t \in DOMAIN reveal |-> reveal[t]]
IsFile(file) == file.kind = "file" => IsDocument(file.document)

(* normalize_entities. *)
AreEntities(list) == IsInjective(list) /\ Range(list) \subseteq Range(EntityTypes)

(* compile_custom, with entry_source. *)
IsEntry(e) ==
    /\ e.name \in NameOfCustom /\ << e.kind, e.text >> \notin Unsound
    /\ e.kind = "pattern" => e.rest # "whole_word"
    /\ e.rest # "unknown"
Compiles(custom) ==
    /\ Len(custom) <= MaxCustom
    /\ \A i, j \in DOMAIN custom : custom[i].name = custom[j].name => i = j
    /\ \A i \in DOMAIN custom : IsEntry(custom[i])

(* normalize_reveal. *)
IsReveal(section) == DOMAIN section \subseteq Revealable /\ Range(section) \subseteq 1..4

(* parse_settings and the checks of policy_from_state. *)
Parses(document) ==
    LET modes == At(document, "mode", << >>)
        tools == At(document, "entities", << >>)
        diet == At(document, "diet", Yes) IN
    /\ DOMAIN document \subseteq
           {"enabled_entities", "mode", "entities", "ledger", "diet", "custom", "reveal", "markers"}
    /\ AreEntities(At(document, "enabled_entities", << >>))
    /\ \A key \in DOMAIN modes :
           modes[key] \in MODES /\ (key \in OBSERVE_ONLY => modes[key] = "observe")
    /\ \A tool \in DOMAIN tools : AreEntities(tools[tool])
    /\ At(document, "ledger", "off") \in {"on", "off"}
    /\ diet \in {Yes, No} \/ Range(diet) \subseteq Range(TRANSFORMS)
    /\ Compiles(At(document, "custom", << >>)) /\ IsReveal(At(document, "reveal", << >>))
    /\ At(document, "markers", "report") \in {"report", "note"}

DietOf(value) == IF value = Yes THEN {"json"} ELSE IF value = No THEN {} ELSE Range(value)

Parsed(document) ==
    LET tools == At(document, "entities", << >>) IN
    [enabled |-> IF "enabled_entities" \in DOMAIN document THEN Range(document.enabled_entities)
                 ELSE Defaults.enabled,
     modes |-> At(document, "mode", << >>),
     tools |-> [tool \in DOMAIN tools |-> Range(tools[tool])],
     ledger |-> At(document, "ledger", "off") = "on",
     diet |-> DietOf(At(document, "diet", Yes)),
     custom |-> At(document, "custom", << >>), reveal |-> At(document, "reveal", << >>),
     markers |-> At(document, "markers", "report")]

(* policy_from_state. *)
IsPolicy(file) == file.kind = "absent" \/ (file.kind = "file" /\ Parses(file.document))
PolicyOf(file) == IF file.kind = "absent" THEN Defaults ELSE Parsed(file.document)

(* A hook goes on with it: load_policy refuses a named file that is not there. *)
IsLoaded(file) == IsPolicy(file) /\ ~(pinned /\ file.kind = "absent")

-----------------------------------------------------------------------------
(* render_settings. *)

Ordered(chosen, order) == Without(order, Range(order) \ chosen)

(* Mutant: no diet is an empty section, left out like the others.          *)
MutantIsWritten(diet) == diet \notin {{}, {"json"}}

(* The default diet is left out. *)
IsWritten(diet) == diet # {"json"}

(* The sections there are; what is as shipped is left out. *)
Sections(policy) ==
    { s \in {"enabled_entities", "ledger", "diet", "entities", "mode", "custom", "reveal", "markers"} :
        /\ s = "ledger" => policy.ledger
        /\ s = "diet" => IsWritten(policy.diet)
        /\ s = "entities" => policy.tools # << >>
        /\ s = "mode" => policy.modes # << >>
        /\ s = "custom" => policy.custom # << >>
        /\ s = "reveal" => policy.reveal # << >>
        /\ s = "markers" => policy.markers = "note" }

RenderSettings(policy) ==
    LET text ==
            [enabled_entities |-> Ordered(policy.enabled, EntityTypes), ledger |-> "on",
             diet |-> IF policy.diet = {} THEN No ELSE Ordered(policy.diet, TRANSFORMS),
             entities |-> [tool \in DOMAIN policy.tools |-> Ordered(policy.tools[tool], EntityTypes)],
             mode |-> policy.modes, custom |-> policy.custom, reveal |-> policy.reveal,
             markers |-> policy.markers]
    IN [section \in Sections(policy) |-> text[section]]

SizeOf(policy) ==
    LET size[n \in 0..Len(policy.custom)] ==
            IF n = 0 THEN 0 ELSE size[n - 1] + Bytes[policy.custom[n].text]
    IN size[Len(policy.custom)]

-----------------------------------------------------------------------------
(* The options of a command: what it is to change. *)

Plain ==
    [only |-> {}, enable |-> {}, disable |-> {}, reset |-> FALSE, ledger |-> "", diet |-> "",
     patterns |-> << >>, literals |-> << >>, remove |-> {}, reveal |-> << >>, hide |-> {},
     answer |-> "--yes"]

Options ==
    [only : SUBSET Range(EntityTypes), enable : SUBSET Range(EntityTypes), disable : SUBSET Range(EntityTypes),
     reset : BOOLEAN, ledger : {"", "on", "off"}, diet : {"", "on", "off"},
     patterns : Seq(STRING \X STRING), literals : Seq(STRING \X STRING), remove : SUBSET STRING,
     reveal : Seq(STRING \X Nat), hide : SUBSET STRING, answer : {"--yes", "no", "--json"}]

ASSUME ConfigurationAssumption ==
    /\ EntityTypes \in Seq(STRING) /\ IsInjective(EntityTypes) /\ "CUSTOM" \in Range(EntityTypes)
    /\ OptIn \cup Revealable \subseteq Range(EntityTypes)
    /\ {MaxBytes, MaxCustom, MaxCommands} \subseteq Nat
    /\ \A file \in Handwritten : IsFile(file)
    /\ Invocations \subseteq Options

Changes(o) == \E option \in DOMAIN Plain \ {"reset", "answer"} : o[option] # Plain[option]
Conflict(o) ==
    \/ o.reset /\ Changes(o)
    \/ o.only # {} /\ o.enable \cup o.disable # {}
    \/ o.enable \cap o.disable # {}

(* _with_custom: a name that is there is replaced, and goes last. *)
AddedBy(o) ==
    LET entry(pair, kind) == [name |-> pair[1], kind |-> kind, text |-> pair[2], rest |-> "none"] IN
    [i \in DOMAIN o.patterns |-> entry(o.patterns[i], "pattern")]
    \o [i \in DOMAIN o.literals |-> entry(o.literals[i], "literal")]
Named(names) == { e \in CustomEntries : e.name \in names }
WithAdded(custom, added) ==
    LET entries[n \in 0..Len(added)] ==
            IF n = 0 THEN custom
            ELSE Append(Without(entries[n - 1], Named({added[n].name})), added[n])
    IN entries[Len(added)]
WithCustom(custom, o) == Without(WithAdded(custom, AddedBy(o)), Named(o.remove))
IsSlow(e) == << e.kind, e.text >> \in Slow
CustomFits(custom, o) ==
    /\ \A e \in Range(AddedBy(o)) : IsEntry(e) /\ ~IsSlow(e)
    /\ Compiles(WithCustom(custom, o))

(* _with_reveal: the last length of a type counts. *)
WithReveal(reveal, o) ==
    LET given(t) == { i \in DOMAIN o.reveal : o.reveal[i][1] = t }
        last(t) == CHOOSE i \in given(t) : \A j \in given(t) : j <= i
    IN [t \in (DOMAIN reveal \cup { o.reveal[i][1] : i \in DOMAIN o.reveal }) \ o.hide |->
            IF given(t) = {} THEN reveal[t] ELSE o.reveal[last(t)][2]]

(* Mutant: what is disabled is taken out before a pattern turns CUSTOM on. *)
MutantSelected(enabled, o) ==
    (((IF o.only # {} THEN o.only ELSE enabled) \cup o.enable) \ o.disable)
    \cup (IF AddedBy(o) # << >> THEN {"CUSTOM"} ELSE {})

Selected(enabled, o) ==
    ((IF o.only # {} THEN o.only ELSE enabled) \cup o.enable
     \cup (IF AddedBy(o) # << >> THEN {"CUSTOM"} ELSE {})) \ o.disable

(* The settings to save, or to show. *)
Resulting(policy, o) ==
    IF o.reset THEN Defaults
    ELSE [policy EXCEPT
             !.enabled = Selected(@, o),
             !.ledger = IF o.ledger = "" THEN @ ELSE o.ledger = "on",
             !.diet = IF o.diet = "" THEN @ ELSE IF o.diet = "on" THEN {"json"} ELSE {},
             !.custom = WithCustom(@, o), !.reveal = WithReveal(@, o)]

-----------------------------------------------------------------------------
(* A command. *)

(* settings_check, and whether describe_settings_error names the reset. *)
CheckOf(file) == IF file.kind = "unsafe" THEN "SETTINGS_REFUSED" ELSE "SETTINGS_INVALID"
ResetIsAdvised(file) == file.kind # "unsafe"

(* refusal_fix: chmod mends a mode; the others need something else.        *)
FixOf(why) ==
    CASE why \in {"broken link", "symlink", "hard-linked", "limit"} -> "replace"
      [] why = "owned" -> "chown"
      [] why = "changed" -> "again"
      [] OTHER -> "chmod"

(* Why it ends without a plan, or "". *)
RefusedFor(file, o) ==
    IF Conflict(o) THEN "OPTIONS_CONFLICT"
    ELSE IF o.reset THEN ""
    ELSE IF ~IsPolicy(file) THEN CheckOf(file)
    ELSE IF ~CustomFits(PolicyOf(file).custom, o) THEN "CUSTOM_PATTERN_INVALID"
    ELSE IF ~IsReveal(WithReveal(PolicyOf(file).reveal, o)) THEN "REVEAL_INVALID"
    ELSE ""

(* What becomes of a plan. *)
Planned(file, policy, o) ==
    IF file.kind = "unsafe" \/ ~(SizeOf(policy) <= MaxBytes) THEN "SETTINGS_REFUSED"
    ELSE IF o.answer = "--json" THEN "CONFIRMATION_REQUIRED"
    ELSE IF o.answer = "no" THEN "unchanged"
    ELSE IF file = Holds(RenderSettings(policy)) THEN "matches" ELSE "saved"

Proposed(file, o) == Resulting(IF o.reset THEN Defaults ELSE PolicyOf(file), o)
Outcome(file, o) ==
    IF RefusedFor(file, o) # "" THEN RefusedFor(file, o)
    ELSE IF o.reset \/ Changes(o) THEN Planned(file, Proposed(file, o), o) ELSE "shows"

Report(o, said, shown, file, fix) ==
    [options |-> o, said |-> said, shown |-> shown, found |-> file, fix |-> fix]

Configure(o) ==
    LET said == Outcome(config, o)
        refused == said \notin {"saved", "matches", "shows", "unchanged", "CONFIRMATION_REQUIRED"}
        policy == Proposed(config, o)
        fix == IF said = "SETTINGS_REFUSED" /\ config.kind = "unsafe" THEN FixOf(config.why)
               ELSE IF said = "SETTINGS_INVALID" /\ ResetIsAdvised(config) THEN "reset" ELSE "" IN
    /\ config' = IF said = "saved" THEN Holds(RenderSettings(policy)) ELSE config
    /\ ran' = << IF refused THEN Report(o, said, << >>, config, fix)
                 ELSE Report(o, said, << policy >>, config, fix) >>
    /\ UNCHANGED pinned

(* A user leaves a file of theirs. *)
Leave(file) == config' = file /\ ran' = << >> /\ UNCHANGED pinned

ConfigurationInit == config \in Handwritten /\ pinned \in BOOLEAN /\ ran = << >> /\ commands = 0
ConfigurationNext ==
    \/ /\ commands < MaxCommands /\ commands' = commands + 1
       /\ (\E o \in Invocations : Configure(o)) \/ (\E file \in Handwritten : Leave(file))
    \/ commands = MaxCommands /\ UNCHANGED configvars

ConfigurationSpec == ConfigurationInit /\ [][ConfigurationNext]_configvars

-----------------------------------------------------------------------------
(* Properties. *)

Was(report) == PolicyOf(report.found)
AsSaved == { r \in Range(ran) : r.said \in {"saved", "matches"} /\ ~r.options.reset }

(* What the command shows is what the hooks then read, and a command that  *)
(* does not save leaves the file (render_settings and parse_settings).     *)
ShownIsLoaded ==
    \A r \in Range(ran) :
        /\ r.said \in {"saved", "matches", "shows"} =>
               IsPolicy(config) /\ PolicyOf(config) = r.shown[1]
        /\ r.said # "saved" => config = r.found

(* What a command does not name stays, in its order, however it was        *)
(* written: modes, tools, markers, tails, patterns (configure).            *)
OthersStay ==
    \A r \in AsSaved :
        LET o == r.options
            now == PolicyOf(config)
            before == Was(r)
            touched == { e.name : e \in Range(AddedBy(o)) } \cup o.remove
            tails == { pair[1] : pair \in Range(o.reveal) } \cup o.hide
            untouched(custom) == Without(custom, Named(touched)) IN
        /\ now.modes = before.modes /\ now.tools = before.tools /\ now.markers = before.markers
        /\ o.ledger = "" => now.ledger = before.ledger
        /\ o.diet = "" => now.diet = before.diet
        /\ untouched(now.custom) = untouched(before.custom)
        /\ Restrict(now.reveal, DOMAIN now.reveal \ tails) = Restrict(before.reveal, DOMAIN before.reveal \ tails)
        /\ \A t \in Range(EntityTypes) \ (o.enable \cup o.disable) :
               o.only = {} /\ (t = "CUSTOM" => AddedBy(o) = << >>) =>
                   (t \in now.enabled <=> t \in before.enabled)

(* What it names takes effect: the types, the last entry of a name, which  *)
(* turns CUSTOM on unless the command disables it, with --only too.        *)
NamedTakesEffect ==
    \A r \in AsSaved :
        LET o == r.options
            now == PolicyOf(config)
            added == AddedBy(o)
            last == { i \in DOMAIN added : \A j \in DOMAIN added : j > i => added[j].name # added[i].name } IN
        /\ o.enable \subseteq now.enabled /\ o.disable \cap now.enabled = {}
        /\ o.only # {} => now.enabled \ {"CUSTOM"} = o.only \ {"CUSTOM"}
        /\ added # << >> => ("CUSTOM" \in now.enabled <=> "CUSTOM" \notin o.disable)
        /\ \A i \in last : added[i].name \notin o.remove => added[i] \in Range(now.custom)
        /\ \A e \in Range(now.custom) : e.name \notin o.remove
        /\ o.hide \cap DOMAIN now.reveal = {}

(* No command puts a pattern that backtracks into the file, and each is    *)
(* one file a hook takes: a reset clears what does not parse, whatever is  *)
(* in it, and is advised for nothing else.                                 *)
SavesAreSafe ==
    \A r \in Range(ran) :
        /\ r.said = "saved" => IsLoaded(config) /\ SizeOf(PolicyOf(config)) <= MaxBytes
        /\ r.said = "saved" =>
               \A e \in Range(PolicyOf(config).custom) :
                   IsSlow(e) => IsPolicy(r.found) /\ e \in Range(Was(r).custom)
        /\ r.fix = "reset" <=> r.said = "SETTINGS_INVALID" 
        /\ r.fix = "reset" => Outcome(config, [Plain EXCEPT !.reset = TRUE]) = "saved"
        /\ r.said = "SETTINGS_REFUSED" /\ r.found.kind = "unsafe" =>
               Outcome(config, [Plain EXCEPT !.reset = TRUE]) = "SETTINGS_REFUSED"

(* All of it: `shim config` changes what it was asked, and nothing else.   *)
ConfigIsExact == ShownIsLoaded /\ OthersStay /\ NamedTakesEffect /\ SavesAreSafe

(* The inductive invariant: settings are what parse_settings makes of any  *)
(* file it takes, and what render_settings is given.                       *)
IsSettings(policy) ==
    /\ policy = [enabled |-> policy.enabled, modes |-> policy.modes, tools |-> policy.tools,
                 ledger |-> policy.ledger, diet |-> policy.diet, custom |-> policy.custom,
                 reveal |-> policy.reveal, markers |-> policy.markers]
    /\ policy.enabled \subseteq Range(EntityTypes)
    /\ \A key \in DOMAIN policy.modes :
           policy.modes[key] \in MODES /\ (key \in OBSERVE_ONLY => policy.modes[key] = "observe")
    /\ policy.tools \in [DOMAIN policy.tools -> SUBSET Range(EntityTypes)]
    /\ policy.ledger \in BOOLEAN /\ policy.diet \subseteq Range(TRANSFORMS)
    /\ policy.custom \in Seq(CustomEntries) /\ Compiles(policy.custom)
    /\ IsReveal(policy.reveal) /\ policy.reveal = [t \in DOMAIN policy.reveal |-> policy.reveal[t]]
    /\ policy.markers \in {"report", "note"}

ConfigInv ==
    /\ IsFile(config) /\ (IsPolicy(config) => IsSettings(PolicyOf(config)))
    /\ ConfigIsExact

(* cli/configuration.py:396 "no settings file at ...; shipped defaults     *)
(* apply".  Not so where SHIM_CONFIG names the file: a hook refuses then.  *)
ShownIsInForce == \A r \in Range(ran) : r.said = "shows" => IsLoaded(config)
=============================================================================
