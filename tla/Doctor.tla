------------------------------- MODULE Doctor -------------------------------
(***************************************************************************)
(* `shim doctor` (cli/diagnostics.py, cli/resolution.py), and a user who   *)
(* does what its checks say.  A world is what the command looks at: the    *)
(* client's hook file and Copilot's 0.2.0 file (HookSettings), the shim    *)
(* plugins, whether the hook's command runs, what would run it besides,    *)
(* and the settings.  A check passes, warns or fails; one that is "none"   *)
(* is left out of the list.                                                *)
(***************************************************************************)
EXTENDS HookSettings, Findings

CONSTANTS
    Me,         \* this installation
    Settings,   \* what the settings, the session records and the ledger may be
    NotAsked    \* no world: doctor has not run yet

(* What each of them shows; the features are those that the client's       *)
(* executable tells of.                                                    *)
Shown ==
    { s \in [version : {"tested", "newer", "older", "unknown", "silent", "none"},
             feature : {"on", "off", "silent"}, file : {"read", "absent", "unreadable"},
             entities : BOOLEAN, custom : {"ok", "none", "off", "unsafe"}, weakened : BOOLEAN,
             ledger : {"off", "no file", "private", "unsafe"}, records : BOOLEAN, names : BOOLEAN] :
        s.version = "none" => s.feature = "silent" }

ASSUME DoctorAssumption == Me \in Installers /\ Settings \subseteq Shown

VARIABLE world
docvars == << client, doc, oldFile, world >>

Plugins == {"shim-cli", "shim-guard"}

(* The file may hold this installation's hook already, alone or beside     *)
(* another's.                                                              *)
With(d) == File([e \in Events |-> IF e \in Registered THEN Append(d.of[e], Shim(Me)) ELSE d.of[e]])

DoctorInit == world = NotAsked

RunDoctor ==
    /\ world = NotAsked
    /\ \E plugins \in SUBSET Plugins, gone, runs, skewed \in BOOLEAN,
          source \in {"path", "plugin", "none"}, has \in Settings,
          file \in {doc} \cup IF doc.kind = "file" THEN {With(doc)} ELSE {} :
         /\ skewed => source = "path"
         /\ gone => Shim("other") \in Groups(file)
         /\ world' = [doc |-> file, old |-> oldFile, plugins |-> plugins, gone |-> gone, runs |-> runs,
                      source |-> source, skewed |-> skewed, has |-> has]

-----------------------------------------------------------------------------
(* hooks_on_disk: who runs shim's hook on which event, in which shape.     *)
OnDisk(w) ==
    IF Unusable(w.doc) /\ (w.doc = Broken \/ client = "copilot") THEN {}
    ELSE { h \in UNION { {e} \X DOMAIN w.doc.of[e] : e \in Events } :
             w.doc.of[h[1]][h[2]][1] \in {"shim", "legacy", "mixed"} }
GroupOf(w, h) == w.doc.of[h[1]][h[2]]
Shims(w) == { h \in OnDisk(w) : GroupOf(w, h)[1] # "legacy" }

(* other_installations. *)
Elsewhere(w) == { h \in Shims(w) : GroupOf(w, h)[2] # Me }

(* installed_events; for Copilot, a configuration that passes. *)
Installed(w) ==
    IF w.doc = Broken THEN {}
    ELSE IF client = "copilot" THEN { e \in Registered : w.doc = Added(w.doc, Me) }
    ELSE { e \in Registered : Shim(Me) \in Range(w.doc.of[e]) }

(* _has_legacy_fragment. *)
Has020(w) ==
    IF client = "copilot" THEN w.old = "ours"
    ELSE \E h \in OnDisk(w) : GroupOf(w, h)[1] = "legacy"

(* _hook_state. *)
Cannot(w) == \E h \in Elsewhere(w) : w.gone
HookConfiguration(w, onDisk) ==
    CASE Unusable(w.doc) -> "FAIL"
      [] ~Unusable(w.doc) /\ Added(w.doc, Me) = w.doc -> "PASS"
      [] OTHER -> IF onDisk THEN "none" ELSE IF Cannot(w) THEN "FAIL" ELSE "WARN"

(* _legacy_state: settings and months that still have their old names are  *)
(* a warning.                                                              *)
LegacyNames(w) == IF Has020(w) THEN "FAIL" ELSE IF w.has.names THEN "WARN" ELSE "PASS"

(* _resolution_check: an installed hook counts if the runner ran it. *)
Resolution(w) ==
    IF w.source = "none" THEN IF Installed(w) # {} /\ w.runs THEN "PASS" ELSE "FAIL"
    ELSE IF w.skewed THEN "WARN" ELSE "PASS"

(* Mutant: hooks are counted, whatever event each is on, only for this     *)
(* installation.                                                           *)
MutantInTheFileTwice(w) ==
    \E g, h \in Shims(w) : g # h /\ g[1] = h[1] /\ GroupOf(w, g)[2] = Me /\ GroupOf(w, h)[2] = Me

InTheFileTwice(w) == \E g, h \in Shims(w) : g # h /\ g[1] = h[1]

(* _duplicate_check. *)
DuplicateHooks(w) ==
    CASE InTheFileTwice(w) -> "FAIL"
      [] ~InTheFileTwice(w) /\ client = "copilot" -> "PASS"
      [] ~InTheFileTwice(w) /\ client = "codex" -> "WARN"
      [] OTHER -> IF \/ Cardinality(w.plugins) > 1
                     \/ w.plugins # {} /\ (Installed(w) # {} \/ Shims(w) # {})
                  THEN "FAIL" ELSE "PASS"

(* _coverage_rows: Claude Code's other events are one here. *)
CoverageRows(w) ==
    { [event |-> e, can_mask |-> IF e = "UserPromptSubmit" THEN client = "copilot" ELSE TRUE,
       installed |-> e \in Installed(w)] :
        e \in {"UserPromptSubmit"} \cup IF client = "claude" THEN {"PostToolUse"} ELSE {} }

Coverage(w) == IF \A row \in CoverageRows(w) : row.installed THEN "PASS" ELSE "WARN"

Runner(w) == IF w.runs THEN "PASS" ELSE "FAIL"

(* _client_version: of the client's executable. *)
ClientVersion(s) ==
    CASE s.version = "tested" -> "PASS"
      [] s.version = "newer" -> "WARN"
      [] s.version \in {"none", "silent", "unknown", "older"} -> "FAIL"

(* _codex_hooks_feature. *)
HooksFeature(s) ==
    IF client # "codex" THEN "none"
    ELSE IF s.version # "none" /\ s.feature = "on" THEN "PASS" ELSE "FAIL"

Activation == IF client = "copilot" THEN "PASS" ELSE "WARN"

(* _entity_settings, _custom_patterns, _mode_defaults, _ledger_check and   *)
(* _session_record_check: settings that cannot be read are the first one's *)
(* to tell.                                                                *)
EntitySettings(s) ==
    IF s.file = "unreadable" THEN "FAIL"
    ELSE IF ~s.entities \/ s.file = "absent" THEN "WARN" ELSE "PASS"

CustomPatterns(s) ==
    CASE s.file = "unreadable" -> "none"
      [] s.file # "unreadable" /\ s.custom = "unsafe" -> "FAIL"
      [] s.file # "unreadable" /\ s.custom = "off" -> "WARN"
      [] OTHER -> "PASS"

ModeDefaults(s) == IF s.file = "read" /\ s.weakened THEN "WARN" ELSE "none"

(* ledger.probe: the folder opens, or is made, and the month's file, if    *)
(* there is one, is private and regular.                                   *)
Appendable(s) == s.ledger \in {"no file", "private"}
Ledger(s) == IF s.file # "read" \/ s.ledger = "off" THEN "none"
             ELSE IF Appendable(s) THEN "PASS" ELSE "WARN"
SessionRecord(s) == IF s.records THEN "PASS" ELSE "WARN"

OfSettings(s) ==
    [client |-> ClientVersion(s), entity_settings |-> EntitySettings(s), custom_patterns |-> CustomPatterns(s),
     mode_defaults |-> ModeDefaults(s), ledger |-> Ledger(s), session_record |-> SessionRecord(s)]

OfHooks(w) ==
    [hooks_feature |-> HooksFeature(w.has),
     hook_configuration |-> HookConfiguration(w, Has020(w) \/ Installed(w) # {}),
     legacy_names |-> LegacyNames(w), runner |-> Runner(w), hook_resolution |-> Resolution(w),
     duplicate_hooks |-> DuplicateHooks(w), coverage |-> Coverage(w), hook_activation |-> Activation]

Statuses(checks) == { checks[n] : n \in DOMAIN checks }

(* doctor: what it exits with. *)
Status(w) ==
    LET labels == Statuses(OfHooks(w)) \cup Statuses(OfSettings(w.has)) IN
    IF "FAIL" \in labels THEN "error" ELSE IF "WARN" \in labels THEN "warning" ELSE "ok"

(* The code a check that does not pass has. *)
Codes(w) ==
    LET s == w.has IN
    [client |-> CASE s.version = "none" -> "CLIENT_NOT_FOUND"
                  [] s.version \in {"silent", "unknown"} -> "CLIENT_VERSION_UNKNOWN"
                  [] s.version = "older" -> "CLIENT_TOO_OLD"
                  [] OTHER -> "CLIENT_NEWER_THAN_TESTED",
     hooks_feature |-> IF s.version = "none" \/ s.feature = "silent" THEN "CODEX_HOOKS_UNCHECKED"
                       ELSE "CODEX_HOOKS_DISABLED",
     hook_configuration |-> IF Unusable(w.doc) THEN "CLIENT_SETTINGS_MALFORMED" ELSE "HOOK_NOT_INSTALLED",
     legacy_names |-> "LEGACY_NAMES_PRESENT",
     runner |-> "HOOK_RUNNER_FAILED",
     hook_resolution |-> IF Resolution(w) = "WARN" THEN "ARCHIVE_VERSION_SKEW" ELSE "HOOK_RESOLUTION_FAILED",
     duplicate_hooks |-> IF DuplicateHooks(w) = "WARN" THEN "PLUGIN_NOT_DISCOVERABLE" ELSE "DUPLICATE_HOOKS",
     coverage |-> "HOOK_EVENTS_MISSING",
     hook_activation |-> "HOOK_ACTIVATION_UNVERIFIED",
     entity_settings |-> CASE s.file = "unreadable" -> "SETTINGS_INVALID"
                           [] s.file # "unreadable" /\ ~s.entities -> "DETECTION_DISABLED"
                           [] OTHER -> "SETTINGS_FILE_ABSENT",
     custom_patterns |-> IF s.custom = "unsafe" THEN "CUSTOM_PATTERN_UNSAFE" ELSE "CUSTOM_PATTERNS_INACTIVE",
     mode_defaults |-> "MODE_DEFAULT_WEAKENS",
     ledger |-> "LEDGER_FOLDER_UNSAFE",
     session_record |-> "SESSION_RECORDS_UNWRITABLE"]

ChecksOf(w) ==
    LET hooks == OfHooks(w)
        settings == OfSettings(w.has)
        codes == Codes(w)
        check(n, status) == [name |-> n, status |-> status, code |-> codes[n]] IN
    { c \in { check(n, hooks[n]) : n \in DOMAIN hooks } \cup { check(n, settings[n]) : n \in DOMAIN settings } :
        c.status # "none" }

DoctorFindings(w) == FromChecks(client, ChecksOf(w))

-----------------------------------------------------------------------------
(* What the user is told to run. *)

InstallIsAdvised(w) ==
    \/ HookConfiguration(w, Has020(w) \/ Installed(w) # {}) # "PASS" /\ ~Unusable(w.doc)
       /\ HookConfiguration(w, Has020(w) \/ Installed(w) # {}) # "none"
    \/ Has020(w) \/ InTheFileTwice(w) \/ Coverage(w) = "WARN" \/ Resolution(w) = "FAIL"
BothAreInstalled(w) ==
    client = "claude" /\ ~InTheFileTwice(w) /\ Cardinality(w.plugins) = 1
    /\ (Installed(w) # {} \/ Shims(w) # {})

(* install() refuses a file it cannot use and a hook that does not run,    *)
(* has nothing to do where the file is what it would write, and removes    *)
(* the old file last, if it can.                                           *)
Installs(w) == ~Unusable(w.doc) /\ w.runs /\ Added(w.doc, Me) # w.doc
AfterInstall(w, unlinked) ==
    IF ~Installs(w) THEN w
    ELSE [w EXCEPT !.doc = Added(@, Me), !.old = IF @ = "ours" /\ unlinked THEN "none" ELSE @]
AfterRevert(w) == IF Unusable(w.doc) THEN w ELSE [w EXCEPT !.doc = Removed(@)]

FollowInstall ==
    /\ InstallIsAdvised(world)
    /\ \E unlinked \in BOOLEAN : world' = AfterInstall(world, unlinked)
FollowRevert == BothAreInstalled(world) /\ world' = AfterRevert(world)

(* The plugin of the present name is the one that stays. *)
FollowUninstall ==
    /\ client = "claude" /\ Cardinality(world.plugins) > 1
    /\ world' = [world EXCEPT !.plugins = {"shim-cli"}]

(* The user leaves it there. *)
LeaveIt == UNCHANGED world

Follow == FollowInstall \/ FollowRevert \/ FollowUninstall \/ LeaveIt

DoctorNext ==
    /\ \/ RunDoctor
       \/ world # NotAsked /\ Follow
    /\ UNCHANGED << client, doc, oldFile >>

DoctorSpec == HooksInit /\ DoctorInit /\ [][DoctorNext]_docvars

-----------------------------------------------------------------------------
(* How often an event is inspected. *)
Inspects(w, h) == IF GroupOf(w, h)[2] = Me THEN w.runs ELSE ~w.gone
Inspections(w, e) ==
    IF client = "codex" /\ w.has.feature = "off" THEN 0
    ELSE Cardinality({ h \in Shims(w) : h[1] = e /\ Inspects(w, h) })
         + IF client = "copilot" THEN 0 ELSE Cardinality(w.plugins)

Seen(w) == client # "codex" \/ w.plugins = {}       \* the plugins doctor can see

(* An event that is inspected twice fails the check for duplicates, as far *)
(* as the plugins can be seen; one that nothing inspects does not leave    *)
(* the hook's checks passing; and a hook that runs each registered event   *)
(* once, alone, passes them all but for what only the client knows.  The   *)
(* coverage has a row for every event that install registers a hook for.   *)
InspectionIsTold ==
    LET told == OfHooks(world) IN
    /\ \A e \in Events : (\E row \in CoverageRows(world) : row.event = e) <=> e \in Registered
    /\ Seen(world) /\ (\E e \in Events : Inspections(world, e) > 1) => told.duplicate_hooks = "FAIL"
    /\ (\E e \in Registered : Inspections(world, e) = 0) =>
           \E n \in DOMAIN told \ {"hook_activation", "duplicate_hooks"} : told[n] \in {"WARN", "FAIL"}
    /\ ~Unusable(world.doc) /\ world.runs /\ world.has.feature = "on" /\ world.plugins = {} /\ ~Has020(world) /\ ~world.has.names
         /\ Elsewhere(world) = {} /\ Installed(world) = Registered /\ ~world.skewed
         /\ (\A e \in Events : Inspections(world, e) = IF e \in Registered THEN 1 ELSE 0) =>
           \A n \in DOMAIN told \ {"hook_activation"} :
               told[n] \in {"PASS", "none"} \/ (n = "duplicate_hooks" /\ client = "codex")

(* What is advised helps: after the install, if it had anything to do, the *)
(* hook's checks pass, but for a plugin beside it, that one revert takes   *)
(* care of, and an old file that could not be removed.                     *)
AdviceHelps ==
    InstallIsAdvised(world) /\ Installs(world) =>
        LET then == AfterInstall(world, TRUE)
            told == OfHooks(then) IN
        /\ told.hook_configuration = "PASS" /\ told.coverage = "PASS"
        /\ told.legacy_names # "FAIL" /\ told.hook_resolution # "FAIL"
        /\ told.duplicate_hooks = "FAIL" =>
               /\ client = "claude" /\ world.plugins # {}
               /\ Cardinality(world.plugins) = 1 =>
                     BothAreInstalled(then) /\ OfHooks(AfterRevert(then)).duplicate_hooks = "PASS"

(* Settings that cannot be read are told of once, and by a failure. *)
OneCauseIsToldOnce ==
    world.has.file = "unreadable" =>
        /\ { n \in {"entity_settings", "custom_patterns", "mode_defaults", "ledger"} :
               OfSettings(world.has)[n] # "none" } = {"entity_settings"}
        /\ Status(world) = "error"

(* The settings that let values through. *)
Unmasked(s) ==
    s.file = "unreadable" \/ ~s.entities \/ s.custom = "off" \/ (s.file = "read" /\ s.weakened)

(* Every check that does not pass has a rule and raises one finding, with  *)
(* an id of its own; one is high if and only if doctor exits with an       *)
(* error; events that nothing inspects, or two hooks, and settings that    *)
(* let values through are a matter of privacy; and a healthy install       *)
(* raises what is informational at most (docs/findings.md).                *)
FindingsFit ==
    LET raised == DoctorFindings(world)
        failing == { c \in ChecksOf(world) : c.status # "PASS" } IN
    /\ \A c \in failing : c.code \in DOMAIN DoctorRules \cup DOMAIN UsualRules \cup DOMAIN ExposingRules
    /\ Cardinality({ f.id : f \in raised }) = Cardinality(failing)
    /\ (\E f \in raised : f.severity = "high") <=> Status(world) = "error"
    /\ \/ \E e \in Registered : Inspections(world, e) = 0
       \/ Seen(world) /\ \E e \in Events : Inspections(world, e) > 1
       \/ Unmasked(world.has)
       => \E f \in raised : f.risk = "privacy"
    /\ /\ \A n \in DOMAIN OfSettings(world.has) :
             \/ OfSettings(world.has)[n] \in {"PASS", "none"}
             \/ n = "entity_settings" /\ world.has.entities /\ world.has.file = "absent"
       /\ world.runs /\ ~world.skewed /\ ~world.has.names /\ world.has.feature = "on" /\ world.plugins = {}
       /\ Installed(world) = Registered /\ ~Has020(world) /\ Elsewhere(world) = {}
       /\ HookConfiguration(world, TRUE) = "PASS"
       => \A f \in raised : f.severity = "informational"

(* All four: what doctor says fits what is inspected (doctor).             *)
DoctorIsRight ==
    world # NotAsked => InspectionIsTold /\ AdviceHelps /\ OneCauseIsToldOnce /\ FindingsFit

(* The inductive invariant: what doctor looks at is a file that a client   *)
(* may have, however long its lists, and the rest of what there is.        *)
Worlds ==
    [doc : Docs, old : {"none", "ours", "theirs"}, plugins : SUBSET Plugins, gone : BOOLEAN, runs : BOOLEAN,
     source : {"path", "plugin", "none"}, skewed : BOOLEAN, has : Settings]

DoctorInv ==
    /\ client \in {"claude", "codex", "copilot"} /\ oldFile \in {"none", "ours", "theirs"}
    /\ doc \in Docs /\ (doc.kind = "file" \/ doc.of = NoGroups)
    /\ world # NotAsked => world \in Worlds /\ (world.doc.kind = "file" \/ world.doc.of = NoGroups)

(* "run shim install copilot to rename it" (cli/diagnostics.py:182): the   *)
(* old hook file is not there any more after an install that runs through. *)
RenamesAsAdvised ==
    client = "copilot" /\ Has020(world) /\ ~Unusable(world.doc) /\ world.runs =>
        ~Has020(AfterInstall(world, TRUE))
=============================================================================
