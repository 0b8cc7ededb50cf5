---------------------------- MODULE HookSettings ----------------------------
(***************************************************************************)
(* shim's hooks in a client's settings: `shim install` and `shim revert`   *)
(* (cli/integrations.py, clients/hook_settings.py, clients/*/settings.py). *)
(*                                                                         *)
(* Claude Code and Codex keep hooks of several origins in one file, a list *)
(* of groups per event; Copilot's file is shim's alone, and so was the     *)
(* file 0.2.0 wrote for it.  A command reads the file, plans the whole of  *)
(* what it writes, asks, and writes it only if the file is still the one   *)
(* it read (SettingsFile); for Copilot it then looks at a file and removes *)
(* it in two steps.  Commands of two installations and the user's editor   *)
(* run side by side.                                                       *)
(***************************************************************************)
EXTENDS Naturals, Sequences, FiniteSets, SequencesExt, Filters

CONSTANTS
    Installers,     \* the installations whose `shim install` runs
    Reverters,      \* the runs of `shim revert`
    MaxEdits        \* bound: changes the user's editor makes

Runs == Installers \cup Reverters

ASSUME InstallAssumption ==
    Installers \cap Reverters = {} /\ "none" \notin Runs /\ MaxEdits \in Nat

VARIABLES
    client,     \* whose settings these are
    doc,        \* the hook file: whether there is one, and the groups of each event
    version,    \* which file it is: every write makes another
    oldFile,    \* Copilot's 0.2.0 file: "none", "ours" or "theirs"
    step,       \* what each command does next
    plans,      \* what each command found and would write
    latest,     \* the command that last said its hooks are in, or out
    wiped,      \* a file that was looked at and found empty was another when removed
    edits       \* how often the editor wrote

hookvars == << client, doc, version, oldFile, step, plans, latest, wiped, edits >>

Theirs(n) == << "theirs", n >>
Shim(i) == << "shim", i >>          \* a group that runs shim_cli.hook
Legacy020(i) == << "legacy", i >>   \* a group that runs shim_guard.hook
Mixed == << "mixed", "both" >>      \* shim beside another hook, in one group

(* The events shim registers, and one that only an older release did. *)
Registered == IF client = "claude" THEN {"UserPromptSubmit", "PostToolUse"}
                                   ELSE {"UserPromptSubmit"}
Events == {"UserPromptSubmit", "PostToolUse", "Stopped"}

NoGroups == [e \in Events |-> << >>]

Installations == Installers \cup {"other"}
Foreign == ({"theirs"} \X Nat) \cup {Mixed}
HookGroups == ({"shim", "legacy"} \X Installations) \cup Foreign

(* Mutant: the groups of another installation are someone's own. *)
MutantShimGroups(i) == {"shim", "legacy"} \X {i}

(* shim_hook: shim's whichever installation wrote it. *)
ShimGroups(i) == {"shim", "legacy"} \X Installations
IsShim(g, i) == g \in ShimGroups(i)

File(groups) == [kind |-> "file", of |-> groups]
Absent == [kind |-> "absent", of |-> NoGroups]
Broken == [kind |-> "broken", of |-> NoGroups]
Empty == File(NoGroups)

Groups(d) == UNION { Range(d.of[e]) : e \in Events }
Ours(s, i) == Without(s, HookGroups \ ShimGroups(i))
Others(s) == Without(s, ShimGroups("any"))

(* _load, and _is_shim on a group that runs shim beside another hook. *)
Unusable(d) ==
    \/ d = Broken
    \/ client = "copilot" /\ \E g \in Groups(d) : ~IsShim(g, "any")
    \/ Mixed \in Groups(d)

(* _drop_shim_groups: an event's one exact group stays where it is. *)
Dropped(s, keep, i) ==
    IF keep # << >> /\ Ours(s, i) = keep THEN s ELSE Without(s, ShimGroups(i))

(* add_groups, and Copilot's add_hook, which writes the file whole. *)
Added(d, i) ==
    IF client = "copilot"
    THEN File([NoGroups EXCEPT !["UserPromptSubmit"] = << Shim(i) >>])
    ELSE File([e \in Events |->
            LET kept == Dropped(d.of[e], IF e \in Registered THEN << Shim(i) >> ELSE << >>, i)
            IN IF e \in Registered /\ Shim(i) \notin Range(kept)
               THEN Append(kept, Shim(i)) ELSE kept])

(* remove_groups. *)
Removed(d) ==
    IF d = Absent THEN d ELSE File([e \in Events |-> Dropped(d.of[e], << >>, "any")])

(* existing_hooks: whether install says that it replaces a 0.2.0 hook, and *)
(* that it keeps hooks of others.                                          *)
Announced(d) ==
    [replaced |-> client # "copilot" /\ \E g \in Groups(d) : g[1] = "legacy",
     kept |-> client # "copilot" /\ ~Unusable(d) /\ Groups(Removed(d)) # {}]

-----------------------------------------------------------------------------
(* What a user may have: nothing, a file that does not parse, hooks of     *)
(* their own, those of other installations and releases.                   *)
Lists ==
    { << >>, << Theirs(0) >>, << Shim("other") >>, << Legacy020("other"), Theirs(0) >>,
      << Shim("other"), Theirs(0), Shim("other") >>, << Mixed >> }

Holding(l, m) == File([NoGroups EXCEPT !["UserPromptSubmit"] = l, !["Stopped"] = m])

HooksInit ==
    /\ client \in {"claude", "codex", "copilot"}
    /\ doc \in {Absent, Broken} \cup
              { Holding(l, m) : l \in Lists, m \in { << >>, << Legacy020("other") >> } }
    /\ version = 0
    /\ oldFile \in IF client = "copilot" THEN {"none", "ours", "theirs"} ELSE {"none"}
    /\ step = [c \in Runs |-> "start"]
    /\ plans = [c \in Runs |-> [version |-> 0, expected |-> Absent]]
    /\ latest = "none" /\ wiped = FALSE /\ edits = 0

GoOn(c, point) == step' = [step EXCEPT ![c] = point]
Write(d) == doc' = d /\ version' = version + 1

Wanted(c) == IF c \in Installers THEN Added(doc, c) ELSE Removed(doc)

(* client_plan and what install() and revert() do of it at once: refuse a  *)
(* conflict, report what needs no change, or go on to ask.                 *)
MakePlan(c) ==
    /\ step[c] = "start"
    /\ \/ Unusable(doc) /\ GoOn(c, "refused") /\ UNCHANGED << plans, latest >>
       \/ /\ ~Unusable(doc) /\ Wanted(c) = doc
          /\ latest' = c
          /\ GoOn(c, IF c \in Reverters /\ client = "copilot" /\ oldFile = "ours"
                     THEN "look" ELSE "done")
          /\ UNCHANGED plans
       \/ /\ ~Unusable(doc) /\ Wanted(c) # doc
          /\ plans' = [plans EXCEPT ![c] = [version |-> version, expected |-> Wanted(c)]]
          /\ GoOn(c, "apply") /\ UNCHANGED latest
    /\ UNCHANGED << client, doc, version, oldFile, wiped, edits >>

(* Mutant: a plan is applied to whatever the file has become. *)
MutantAsPlanned(c) == TRUE

(* _require_planned_state. *)
AsPlanned(c) == plans[c].version = version

(* apply(): the file is replaced, or the command reports that it changed,  *)
(* or could not be written.                                                *)
ApplyPlan(c) ==
    /\ step[c] = "apply"
    /\ \/ /\ AsPlanned(c)
          /\ Write(plans[c].expected) /\ latest' = c
          /\ GoOn(c, IF client = "copilot" THEN "look" ELSE "done")
       \/ GoOn(c, "failed") /\ UNCHANGED << doc, version, latest >>
    /\ UNCHANGED << client, oldFile, plans, wiped, edits >>

(* _legacy_copilot_file. *)
LookAtOld(c) ==
    /\ step[c] = "look"
    /\ GoOn(c, IF oldFile = "ours" THEN "unlink" ELSE
               IF c \in Reverters THEN "empty" ELSE "done")
    /\ UNCHANGED << client, doc, version, oldFile, plans, latest, wiped, edits >>

(* _remove_legacy_copilot_file; an unlink that fails is not reported as a  *)
(* removal.                                                                *)
UnlinkOldFile(c) ==
    /\ step[c] = "unlink"
    /\ oldFile' \in {"none", oldFile}
    /\ GoOn(c, IF c \in Reverters THEN "empty" ELSE "done")
    /\ UNCHANGED << client, doc, version, plans, latest, wiped, edits >>

(* _remove_empty_copilot_file: the file is read, *)
LookForEmpty(c) ==
    /\ step[c] = "empty"
    /\ GoOn(c, IF doc = Empty THEN "wipe" ELSE "done")
    /\ UNCHANGED << client, doc, version, oldFile, plans, latest, wiped, edits >>

(* and unlinked, whatever it has become. *)
UnlinkEmpty(c) ==
    /\ step[c] = "wipe" /\ GoOn(c, "done")
    /\ IF doc = Absent THEN UNCHANGED << doc, version, wiped >>
       ELSE Write(Absent) /\ wiped' = (wiped \/ doc # Empty)
    /\ UNCHANGED << client, oldFile, plans, latest, edits >>

(* The user's editor adds a hook, or removes one of the user's own. *)
Edit ==
    /\ edits < MaxEdits /\ edits' = edits + 1
    /\ doc.kind = "file"
    /\ \/ \E e \in Registered : Write([doc EXCEPT !.of[e] = Append(@, Theirs(edits + 1))])
       \/ \E e \in Events, g \in Groups(doc) :
             /\ g[1] = "theirs" /\ g \in Range(doc.of[e])
             /\ Write([doc EXCEPT !.of[e] = Without(@, {g})])
    /\ UNCHANGED << client, oldFile, step, plans, latest, wiped >>

CommandNext(c) ==
    \/ MakePlan(c) \/ ApplyPlan(c)
    \/ LookAtOld(c) \/ UnlinkOldFile(c) \/ LookForEmpty(c) \/ UnlinkEmpty(c)

(* Every command has ended, one way or another. *)
HooksOver ==
    /\ \A c \in Runs : step[c] \in {"done", "refused", "failed"}
    /\ UNCHANGED hookvars

HooksNext == (\E c \in Runs : CommandNext(c)) \/ Edit \/ HooksOver

HooksSpec == HooksInit /\ [][HooksNext]_hookvars

-----------------------------------------------------------------------------
(* Between an install's or a revert's plan and its write, whoever else     *)
(* wrote: the hooks that are not shim's stay, in their order.  A file      *)
(* where shim shares a group with another hook is left alone.              *)
TheirsStay ==
    [][\A c \in Runs : ApplyPlan(c) /\ doc' # doc =>
          /\ ~Unusable(doc)
          /\ \A e \in Events : Others(doc'.of[e]) = Others(doc.of[e])]_hookvars

(* The command that last reported success is the one in force: after an    *)
(* install every registered event runs that installation's hook once, and  *)
(* no other runs shim; after a revert nothing does.                        *)
LatestStands ==
    /\ latest \in Installers /\ ~wiped =>
          /\ doc.kind = "file"
          /\ \A e \in Events :
                Without(doc.of[e], Foreign) = IF e \in Registered THEN << Shim(latest) >> ELSE << >>
    /\ latest \in Reverters =>
          \A g \in Groups(doc) : g[1] \notin {"shim", "legacy"}

(* A reinstall needs no change, and an install and a revert after it leave *)
(* what a revert alone would.                                              *)
InstallIsUndone ==
    ~Unusable(doc) /\ doc # Absent =>
        \A i \in Installers :
            /\ Added(Added(doc, i), i) = Added(doc, i)
            /\ Removed(Added(doc, i)) = Removed(doc)

(* What install announces is what it does: the hooks it says it keeps are  *)
(* all there after it, it keeps none in silence, and no hook of 0.2.0 is.  *)
AnnouncedIsDone ==
    ~Unusable(doc) => \A i \in Installers :
        LET after == Groups(Added(doc, i)) IN
        /\ Announced(doc).kept = (\E g \in after : ~IsShim(g, "any"))
        /\ ~Announced(Added(doc, i)).replaced

(* All three: install and revert mean what they say (client_plan).         *)
InstallsStand == LatestStands /\ InstallIsUndone /\ AnnouncedIsDone

(* The inductive invariant: a plan is for the file that was read, and what *)
(* it would write is right as long as that is the one there.               *)
Docs == [kind : {"file", "absent", "broken"}, of : [Events -> Seq(HookGroups)]]
Steps == {"start", "apply", "look", "unlink", "empty", "wipe", "done", "refused", "failed"}

HooksTypeOK ==
    /\ client \in {"claude", "codex", "copilot"} /\ oldFile \in {"none", "ours", "theirs"}
    /\ doc \in Docs /\ (doc.kind = "file" \/ doc.of = NoGroups)
    /\ version \in Nat /\ edits \in Nat
    /\ step \in [Runs -> Steps] /\ plans \in [Runs -> [version : Nat, expected : Docs]]
    /\ latest \in Runs \cup {"none"} /\ wiped \in BOOLEAN

PlansInv ==
    \A c \in Runs :
        /\ plans[c].version <= version
        /\ step[c] = "apply" /\ plans[c].version = version =>
              ~Unusable(doc) /\ plans[c].expected = Wanted(c)

HooksInv == HooksTypeOK /\ PlansInv /\ LatestStands

(* What revert deletes is Copilot's hook file when "an empty one is litter" *)
(* (cli/integrations.py:439): never one that holds hooks.                  *)
OnlyEmptyIsWiped == ~wiped
=============================================================================
