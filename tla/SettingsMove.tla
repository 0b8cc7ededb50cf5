---------------------------- MODULE SettingsMove ----------------------------
(***************************************************************************)
(* The move of the 0.2.0 settings file (cli/migration.settings) beside     *)
(* hooks that read the settings and fall back to the old file              *)
(* (config.load_policy) and commands that save a change once they moved    *)
(* (cli/configuration.configure).                                          *)
(*                                                                         *)
(* Two commands may run at once, and each may die at any step.  The two    *)
(* folders are on one device, where a move is a rename, or on two, where   *)
(* it is a copy and an unlink.  Reading a file is one step: SettingsFile   *)
(* shows that an inspection returns one version of it.  So is saving: it   *)
(* publishes what it planned on, or fails, as SettingsFile shows.          *)
(*                                                                         *)
(* The content of a file is "old", what the user had; "changed", that with *)
(* a command's change; "empty", a copy begun, which reads as the shipped   *)
(* defaults; or "reset", the defaults with a command's change.             *)
(***************************************************************************)
EXTENDS Naturals

CONSTANTS
    Commands,     \* the commands
    Readers       \* the hooks that read

ASSUME UsersAssumption == Commands \cap Readers = {}

Users == Commands \cup Readers

VARIABLES
    devices,    \* the folders are on "one" device or on "two"
    oldSettings, \* the content at the 0.2.0 path, or "none"
    settings,   \* the content at the new path, or "none"
    at,         \* what each process does next
    planned,    \* what a command found when it planned its save
    said,       \* what each process reports, or runs on
    copiers     \* the commands whose copy is the file at the new path

svars == << devices, oldSettings, settings, at, planned, said, copiers >>

SInit ==
    /\ devices \in {"one", "two"}
    /\ oldSettings = "old" /\ settings \in {"none", "changed"}
    /\ at = [p \in Users |-> "start"]
    /\ planned = [m \in Commands |-> "none"]
    /\ said = [p \in Users |-> "nothing"]
    /\ copiers = {}

Goes(p, point) == at' = [at EXCEPT ![p] = point]
Says(p, what) == said' = [said EXCEPT ![p] = what]

-----------------------------------------------------------------------------
(* migration.settings. *)

(* legacy.is_file(). *)
FindOld(m) ==
    /\ at[m] = "start"
    /\ Goes(m, IF oldSettings = "none" THEN "plan" ELSE "exists")
    /\ UNCHANGED << devices, oldSettings, settings, planned, said, copiers >>

(* Mutant: what is at the new path already does not matter. *)
MutantNewExists(m) ==
    /\ at[m] = "exists" /\ Goes(m, "move")
    /\ UNCHANGED << devices, oldSettings, settings, planned, said, copiers >>

(* target.exists(). *)
NewExists(m) ==
    /\ at[m] = "exists"
    /\ Goes(m, IF settings = "none" THEN "move" ELSE "plan")
    /\ UNCHANGED << devices, oldSettings, settings, planned, said, copiers >>

(* Mutant: the old file is removed before the new one is there. *)
MutantRename(m) ==
    /\ at[m] = "move" /\ devices = "one"
    /\ oldSettings' = "none"
    /\ IF oldSettings = "none" THEN Goes(m, "plan") /\ Says(m, "failed") /\ UNCHANGED settings
       ELSE Goes(m, "unlink") /\ UNCHANGED << settings, said >>
    /\ UNCHANGED << devices, planned, copiers >>

(* os.replace: both names change in one step, or the move fails. *)
Rename(m) ==
    /\ at[m] = "move" /\ devices = "one"
    /\ Goes(m, "plan")
    /\ \/ oldSettings # "none" /\ settings' = oldSettings /\ oldSettings' = "none" /\ Says(m, "moved")
       \/ UNCHANGED << oldSettings, settings >> /\ Says(m, "failed")
    /\ UNCHANGED << devices, planned, copiers >>

(* EXDEV, shutil.copy2: the old file is opened, then the new one with "wb" ... *)
CopyOpen(m) ==
    /\ at[m] = "move" /\ devices = "two"
    /\ \/ oldSettings # "none" /\ Goes(m, "truncate") /\ UNCHANGED said
       \/ Goes(m, "plan") /\ Says(m, "failed")
    /\ UNCHANGED << devices, oldSettings, settings, planned, copiers >>

CopyTruncate(m) ==
    /\ at[m] = "truncate" /\ Goes(m, "copy")
    /\ settings' = "empty" /\ copiers' = copiers \cup {m}
    /\ UNCHANGED << devices, oldSettings, planned, said >>

(* ... and the content is written, if only to a file that a save replaced. *)
CopyWrite(m) ==
    /\ at[m] = "copy" /\ Goes(m, "unlink")
    /\ settings' = IF m \in copiers THEN "old" ELSE settings
    /\ UNCHANGED << devices, oldSettings, planned, said, copiers >>

(* source.unlink(). *)
CopyUnlink(m) ==
    /\ at[m] = "unlink" /\ Goes(m, "plan")
    /\ oldSettings' = "none" /\ Says(m, IF oldSettings = "none" THEN "failed" ELSE "moved")
    /\ UNCHANGED << devices, settings, planned, copiers >>

(* An OSError on the way, no room above all: what was copied stays. *)
CopyFails(m) ==
    /\ at[m] \in {"truncate", "copy", "unlink"}
    /\ Goes(m, "plan") /\ Says(m, "failed")
    /\ UNCHANGED << devices, oldSettings, settings, planned, copiers >>

-----------------------------------------------------------------------------
(* cli/configuration.configure, after the move. *)

(* The file is inspected and the change planned on it. *)
Plan(m) ==
    /\ at[m] = "plan" /\ Goes(m, "save")
    /\ planned' = [planned EXCEPT ![m] = settings]
    /\ UNCHANGED << devices, oldSettings, settings, said, copiers >>

(* The save, on what was planned, or not at all.  With no file, or an      *)
(* empty one, the change is made to the shipped defaults.                  *)
Save(m) ==
    /\ at[m] = "save" /\ Goes(m, "done")
    /\ \/ /\ settings = planned[m]
          /\ settings' = IF settings \in {"old", "changed"} THEN "changed" ELSE "reset"
          /\ copiers' = {}
       \/ UNCHANGED << settings, copiers >>
    /\ UNCHANGED << devices, oldSettings, planned, said >>

CommandDies(m) ==
    /\ at[m] \notin {"done", "dead"} /\ Goes(m, "dead")
    /\ UNCHANGED << devices, oldSettings, settings, planned, said, copiers >>

-----------------------------------------------------------------------------
(* config.load_policy. *)

ReadNew(h) ==
    /\ at[h] = "start"
    /\ IF settings = "none" THEN Goes(h, "fallback") /\ UNCHANGED said
                       ELSE Goes(h, "done") /\ Says(h, settings)
    /\ UNCHANGED << devices, oldSettings, settings, planned, copiers >>

(* No file at the new path: the 0.2.0 file, or the shipped defaults. *)
ReadOldSettings(h) ==
    /\ at[h] = "fallback" /\ Goes(h, "done")
    /\ Says(h, IF oldSettings = "none" THEN "defaults" ELSE oldSettings)
    /\ UNCHANGED << devices, oldSettings, settings, planned, copiers >>

-----------------------------------------------------------------------------
CommandStep(m) ==
    \/ FindOld(m) \/ NewExists(m) \/ Rename(m) \/ CopyOpen(m) \/ CopyTruncate(m)
    \/ CopyWrite(m) \/ CopyUnlink(m) \/ CopyFails(m) \/ Plan(m) \/ Save(m) \/ CommandDies(m)

HookStep(h) == ReadNew(h) \/ ReadOldSettings(h)

Finished(p) == at[p] \in {"done", "dead"}

SettingsOver == (\A p \in Users : Finished(p)) /\ UNCHANGED svars

SNext ==
    \/ \E m \in Commands : CommandStep(m)
    \/ \E h \in Readers : HookStep(h)
    \/ SettingsOver

SSpec == SInit /\ [][SNext]_svars

-----------------------------------------------------------------------------
(* Properties. *)

Contents == {"old", "changed", "empty", "reset"}

STypeOK ==
    /\ devices \in {"one", "two"}
    /\ oldSettings \in {"old", "none"}
    /\ settings \in Contents \cup {"none"}
    /\ at \in [Users -> {"start", "exists", "move", "truncate", "copy", "unlink", "plan",
                         "save", "fallback", "done", "dead"}]
    /\ planned \in [Commands -> Contents \cup {"none"}]
    /\ said \in [Users -> Contents \cup {"nothing", "moved", "failed", "defaults"}]
    /\ copiers \subseteq Commands

(* A move on one device leaves the user's settings whole at one of the two *)
(* paths at every moment, whichever commands race or die; and only after a *)
(* move that failed is a change saved to the shipped defaults instead.     *)
SettingsAreSomewhere ==
    devices = "one" =>
        \/ settings \in {"old", "changed"}
        \/ oldSettings = "old" /\ settings = "none"
        \/ oldSettings = "old" /\ settings = "reset" /\ \E m \in Commands : said[m] = "failed"

(* What is saved at the new path, the user's settings and a change to      *)
(* them, no late move of the old file undoes.  A change that was saved to  *)
(* the shipped defaults, because a move had failed, can go: another        *)
(* command, that saw no file at the new path before, may still move the    *)
(* old one over it (migration.settings, os.replace), and no other step.    *)
Stays ==
    devices = "one" =>
        /\ settings \in {"old", "changed"} => settings' \in {settings, "changed"}
        /\ settings = "reset" /\ settings' # "reset" =>
              /\ settings' = "old" /\ \E m \in Commands : at[m] = "move"
              /\ \E m \in Commands : said[m] = "failed"

ChangeStays == [][Stays]_svars

(* The inductive invariant: on one device there is no copy; what was moved *)
(* is gone from the old path; no move is left to undo a change; and a      *)
(* command that plans on no file has failed to move one.                   *)
Moved(m) == at[m] \in {"plan", "save", "done", "dead"}

MoveInv ==
    devices = "one" =>
        /\ settings # "empty" /\ (settings = "old" => oldSettings = "none")
        /\ \A m \in Commands :
              /\ at[m] \notin {"truncate", "copy", "unlink"}
              /\ settings = "changed" /\ oldSettings = "old" => at[m] # "move"
              /\ settings = "none" /\ at[m] \in {"plan", "save"} => said[m] = "failed"
              /\ said[m] = "failed" => Moved(m)

-----------------------------------------------------------------------------
(* What the documentation says, and the code does not do. *)

(* releases/0.3.0.md: the hook "reads the new location and falls back to   *)
(* the old one".  When a move comes between the two, it finds neither.     *)
ReadsOneOrTheOther == \A h \in Readers : said[h] # "defaults"

(* config.py: "The hook reads the 0.2.0 file until a CLI command moves     *)
(* it".  A command whose copy failed or died has moved nothing, and the    *)
(* hook reads what there is of the copy, now and from then on; and one     *)
(* whose move failed may save its change to the shipped defaults.          *)
ReadsOldUntilMoved ==
    (\A m \in Commands : Finished(m) /\ said[m] # "moved") /\ oldSettings = "old"
        => settings \notin {"empty", "reset"}

=============================================================================
