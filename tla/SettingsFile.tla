---------------------------- MODULE SettingsFile ----------------------------
(***************************************************************************)
(* One settings file that commands change, hooks read and an editor        *)
(* rewrites: settings_files/files.py and plan.py, as cli/configuration.py  *)
(* and cli/integrations.py save with them, and config.py reads.            *)
(*                                                                         *)
(* A command inspects the file, plans, asks, takes the folder's lock,      *)
(* inspects again, writes a copy, inspects once more and publishes the     *)
(* copy with link or rename.  A hook only reads.  The editor knows nothing *)
(* of the lock.  Any system call may fail, a command may be interrupted or *)
(* killed.                                                                 *)
(*                                                                         *)
(* A file is an inode: 0 is the one found first, n > 0 the one the editor  *)
(* made with its nth edit, c the copy that command c writes.  Its content  *)
(* is the set of changes it holds.  A fingerprint is the inode, its links  *)
(* and its stamp, which stands for size, mtime and ctime: a write changes  *)
(* it.  The folder stays the same one.                                     *)
(***************************************************************************)
EXTENDS Naturals

CONSTANTS
    Commands,   \* the commands at work, each with a change of its own
    Hooks,      \* the hooks that read
    Steady,     \* the hook that is known to run
    Edit,       \* what the editor writes
    NoFile,
    Unread,     \* what is known of a file that was not read
    MaxEdits,   \* bound: the steps of the editor
    Reads       \* config._READS

ASSUME NamesAssumption ==
    /\ MaxEdits \in Nat /\ Reads \in Nat \ {0}
    /\ Commands \cap Hooks = {} /\ Commands \cap (0..MaxEdits) = {}
    /\ Steady \in Hooks /\ Edit \notin Commands
    /\ NoFile \notin Commands \cup (0..MaxEdits)

Procs == Commands \cup Hooks
Inodes == Commands \cup (0..MaxEdits)
Content == SUBSET (Commands \cup {Edit})

ASSUME MarksAssumption ==
    NoFile # Unread /\ \A content \in Content : content # NoFile /\ content # Unread

VARIABLES
    target,     \* the inode at the path, or NoFile
    version,    \* the content of each inode
    stamp,      \* how often each inode was written in place
    temp,       \* the commands whose temporary name exists
    lock,       \* the commands that hold the folder's flock
    pc,         \* what each process does next
    look,       \* how far its inspection is
    seen,       \* what the inspection has found: a FileState
    plan,       \* the FileState each command planned from
    tries,      \* the inspections each hook has begun
    outcome,    \* what each process reports
    edits,      \* steps of the editor
    raced,      \* history: the commands the editor slipped past
    deleted     \* history: the file was, at some time, not there

vars == << target, version, stamp, temp, lock, pc, look, seen, plan, tries, outcome,
           edits, raced, deleted >>
files == << target, version, stamp, temp >>
editor == << edits, raced, deleted >>

(* FileState: kind "file" with both halves of what was read, "absent", or  *)
(* one of the reasons it is unsafe.                                        *)
FileState(kind) ==
    [kind |-> kind, ino |-> NoFile, stamp |-> 0, first |-> {}, rest |-> {}]

Links(i) == (IF target = i THEN 1 ELSE 0) + (IF i \in temp THEN 1 ELSE 0)

Init ==
    /\ target \in {NoFile, 0}
    /\ version \in [Inodes -> {{}} \cup {{c} : c \in Commands}]
    /\ \A i \in Inodes \ {0} : version[i] = {}
    /\ stamp = [i \in Inodes |-> 0]
    /\ temp = {} /\ lock = {}
    /\ pc = [p \in Procs |-> "inspect"]
    /\ look = [p \in Procs |-> "stat"]
    /\ seen = [p \in Procs |-> FileState("absent")]
    /\ plan = [c \in Commands |-> FileState("absent")]
    /\ tries = [h \in Hooks |-> 1]
    /\ outcome = [p \in Procs |-> "none"]
    /\ edits = 0 /\ raced = {}
    /\ deleted = IF target = NoFile THEN "yes" ELSE "no"

(* The inspection is done with. *)
Forget(p) ==
    /\ look' = [look EXCEPT ![p] = "stat"]
    /\ seen' = [seen EXCEPT ![p] = FileState("absent")]

Goto(p, point) == pc' = [pc EXCEPT ![p] = point]
Reports(p, what) == outcome' = [outcome EXCEPT ![p] = what]

-----------------------------------------------------------------------------
(* _read_at, for whoever inspects. *)

Looking(p) == pc[p] \in {"inspect", "check", "again"}

Finds(p, state) == seen' = [seen EXCEPT ![p] = state] /\ look' = [look EXCEPT ![p] = "over"]

(* os.stat of the name. *)
LookStat(p) ==
    /\ Looking(p) /\ look[p] = "stat"
    /\ \/ target = NoFile /\ Finds(p, FileState("absent"))
       \/ target # NoFile /\ Links(target) # 1 /\ Finds(p, FileState("linked"))
       \/ /\ target # NoFile /\ Links(target) = 1
          /\ seen' = [seen EXCEPT ![p] =
                [FileState("file") EXCEPT !.ino = target, !.stamp = stamp[target]]]
          /\ look' = [look EXCEPT ![p] = "open"]
    /\ UNCHANGED << files, lock, pc, plan, tries, outcome, editor >>

(* The inode still is what os.stat saw. *)
SameAsSeen(p) ==
    LET i == seen[p].ino IN stamp[i] = seen[p].stamp /\ Links(i) = 1

(* os.open by name, fstat, and the first of the content. *)
LookOpen(p) ==
    /\ Looking(p) /\ look[p] = "open"
    /\ \/ target = NoFile /\ Finds(p, FileState("unread"))
       \/ /\ target # NoFile /\ ~(target = seen[p].ino /\ SameAsSeen(p))
          /\ Finds(p, FileState("changed"))
       \/ /\ target = seen[p].ino /\ SameAsSeen(p)
          /\ seen' = [seen EXCEPT ![p].first = version[target]]
          /\ look' = [look EXCEPT ![p] = "rest"]
    /\ UNCHANGED << files, lock, pc, plan, tries, outcome, editor >>

(* Mutant: the descriptor is not looked at again after the read. *)
MutantLookRest(p) ==
    /\ Looking(p) /\ look[p] = "rest"
    /\ Finds(p, [seen[p] EXCEPT !.rest = version[seen[p].ino]])
    /\ UNCHANGED << files, lock, pc, plan, tries, outcome, editor >>

(* The rest of the content, and the fstat that ends the read. *)
LookRest(p) ==
    /\ Looking(p) /\ look[p] = "rest"
    /\ \/ SameAsSeen(p) /\ Finds(p, [seen[p] EXCEPT !.rest = version[seen[p].ino]])
       \/ ~SameAsSeen(p) /\ Finds(p, FileState("changed"))
    /\ UNCHANGED << files, lock, pc, plan, tries, outcome, editor >>

(* An OSError, or one of the checks of owner, mode, type and size. *)
LookFails(p) ==
    /\ Looking(p) /\ look[p] # "over"
    /\ Finds(p, FileState("unread"))
    /\ UNCHANGED << files, lock, pc, plan, tries, outcome, editor >>

-----------------------------------------------------------------------------
(* config._inspect and load_policy. *)

Publishing == {"linked", "changed"}

(* Mutant: it looks again until the file is safe. *)
MutantLookAgain(h) ==
    /\ pc[h] = "inspect" /\ look[h] = "over" /\ seen[h].kind \in Publishing
    /\ look' = [look EXCEPT ![h] = "stat"]
    /\ tries' = [tries EXCEPT ![h] = (@ % Reads) + 1]
    /\ UNCHANGED << files, lock, pc, seen, plan, outcome, editor >>

(* A save in progress: look again. *)
LookAgain(h) ==
    /\ pc[h] = "inspect" /\ look[h] = "over"
    /\ seen[h].kind \in Publishing /\ tries[h] < Reads
    /\ look' = [look EXCEPT ![h] = "stat"]
    /\ tries' = [tries EXCEPT ![h] = @ + 1]
    /\ UNCHANGED << files, lock, pc, seen, plan, outcome, editor >>

(* policy_from_state. *)
Policy(state) ==
    CASE state.kind = "absent" -> "defaults"
      [] state.kind = "file" -> "settings"
      [] OTHER -> "refused"

LoadPolicy(h) ==
    /\ pc[h] = "inspect" /\ look[h] = "over"
    /\ seen[h].kind \in Publishing => tries[h] = Reads
    /\ Goto(h, "done") /\ Reports(h, Policy(seen[h]))
    /\ UNCHANGED << files, lock, look, seen, plan, tries, editor >>

-----------------------------------------------------------------------------
(* A command, up to the lock. *)

(* plan_change; on an unsafe file the command refuses. *)
MakePlan(c) ==
    /\ pc[c] = "inspect" /\ look[c] = "over"
    /\ plan' = [plan EXCEPT ![c] = seen[c]]
    /\ Forget(c)
    /\ IF seen[c].kind \in {"absent", "file"}
       THEN Goto(c, "confirm") /\ UNCHANGED outcome
       ELSE Goto(c, "done") /\ Reports(c, "refused")
    /\ UNCHANGED << files, lock, tries, editor >>

(* The user is shown the plan, for as long as it takes. *)
Confirm(c) ==
    /\ pc[c] = "confirm"
    /\ \/ Goto(c, "lock") /\ UNCHANGED outcome
       \/ Goto(c, "done") /\ Reports(c, "cancelled")
    /\ UNCHANGED << files, lock, look, seen, plan, tries, editor >>

(* _open_locked_parent: flock, which waits. *)
Lock(c) ==
    /\ pc[c] = "lock" /\ lock = {}
    /\ lock' = {c} /\ Goto(c, "check")
    /\ UNCHANGED << files, look, seen, plan, tries, outcome, editor >>

-----------------------------------------------------------------------------
(* apply and _publish. *)

(* The change is there already: Action.NOOP. *)
Noop(c) == c \in plan[c].first

(* Mutant: any file will do. *)
MutantIsPlanned(c) == seen[c].kind = plan[c].kind

(* _require_planned_state. *)
IsPlanned(c) == seen[c] = plan[c]

(* Under the lock, before anything is written. *)
Check(c) ==
    /\ pc[c] = "check" /\ look[c] = "over"
    /\ Forget(c)
    /\ \/ IsPlanned(c) /\ ~Noop(c) /\ Goto(c, "write") /\ UNCHANGED << lock, outcome >>
       \/ /\ IsPlanned(c) => Noop(c)
          /\ Goto(c, "done") /\ Reports(c, IF IsPlanned(c) THEN "same" ELSE "failed")
          /\ lock' = lock \ {c}
    /\ UNCHANGED << files, plan, tries, editor >>

(* _temporary, and the copy: a name nobody else has, O_EXCL. *)
WriteTemporary(c) ==
    /\ pc[c] = "write"
    /\ temp' = temp \cup {c}
    /\ version' = [version EXCEPT ![c] = plan[c].first \cup {c}]
    /\ Goto(c, "again")
    /\ UNCHANGED << target, stamp, lock, look, seen, plan, tries, outcome, editor >>

(* The file is inspected once more, just before the copy is published. *)
CheckAgain(c) ==
    /\ pc[c] = "again" /\ look[c] = "over"
    /\ Forget(c)
    /\ IF IsPlanned(c) THEN Goto(c, "publish") /\ UNCHANGED outcome
                       ELSE Goto(c, "cleanup") /\ Reports(c, "failed")
    /\ UNCHANGED << files, lock, plan, tries, editor >>

(* Action.CREATE: os.link, which never replaces a file. *)
Create(c) ==
    /\ pc[c] = "publish" /\ plan[c].kind = "absent"
    /\ IF target = NoFile
       THEN target' = c /\ Goto(c, "unlink") /\ UNCHANGED outcome
       ELSE Goto(c, "cleanup") /\ Reports(c, "failed") /\ UNCHANGED target
    /\ UNCHANGED << version, stamp, temp, lock, look, seen, plan, tries, editor >>

(* The first _clean_temporary. *)
Unlink(c) ==
    /\ pc[c] = "unlink"
    /\ temp' = temp \ {c} /\ Goto(c, "verify")
    /\ UNCHANGED << target, version, stamp, lock, look, seen, plan, tries, outcome, editor >>

(* Mutant: the old file is removed before the copy takes its place. *)
MutantUpdate(c) ==
    /\ pc[c] = "publish" /\ plan[c].kind = "file"
    /\ IF target # NoFile
       THEN target' = NoFile /\ UNCHANGED << temp, pc >>
       ELSE target' = c /\ temp' = temp \ {c} /\ Goto(c, "verify")
    /\ UNCHANGED << version, stamp, lock, look, seen, plan, tries, outcome, editor >>

(* Action.UPDATE: os.replace, whatever is there now. *)
Update(c) ==
    /\ pc[c] = "publish" /\ plan[c].kind = "file"
    /\ target' = c /\ temp' = temp \ {c} /\ Goto(c, "verify")
    /\ UNCHANGED << version, stamp, lock, look, seen, plan, tries, outcome, editor >>

(* The path is the copy, by one link. *)
Verify(c) ==
    /\ pc[c] = "verify"
    /\ IF target = c /\ Links(c) = 1
       THEN Goto(c, "sync") /\ UNCHANGED outcome
       ELSE Goto(c, "cleanup") /\ Reports(c, "failed")
    /\ UNCHANGED << files, lock, look, seen, plan, tries, editor >>

(* os.fsync of the folder; it is published, so nothing is cleaned up. *)
Sync(c) ==
    /\ pc[c] = "sync"
    /\ Goto(c, "done") /\ lock' = lock \ {c}
    /\ \/ Reports(c, "saved")
       \/ Reports(c, "failed")
       \/ Reports(c, "interrupted")
    /\ UNCHANGED << files, look, seen, plan, tries, editor >>

(* An OSError in apply: "failed"; the user's Ctrl-C: "interrupted". *)
Fails(c) ==
    /\ pc[c] \in {"lock", "check", "write", "again", "publish", "unlink", "verify"}
    /\ Goto(c, "cleanup") /\ Forget(c)
    /\ \E what \in {"failed", "interrupted"} : Reports(c, what)
    /\ UNCHANGED << files, lock, plan, tries, editor >>

(* The _clean_temporary of the finally clause, which may fail; the lock    *)
(* ends with its descriptor.                                               *)
CleanUp(c) ==
    /\ pc[c] = "cleanup"
    /\ Goto(c, "done") /\ lock' = lock \ {c}
    /\ \/ temp' = temp \ {c}
       \/ UNCHANGED temp
    /\ UNCHANGED << target, version, stamp, look, seen, plan, tries, outcome, editor >>

(* SIGKILL, the machine's end for this process: nothing is cleaned up, the *)
(* kernel drops the lock.                                                  *)
Dies(c) ==
    /\ pc[c] \notin {"done", "dead"}
    /\ Goto(c, "dead") /\ lock' = lock \ {c}
    /\ UNCHANGED << files, look, seen, plan, tries, outcome, editor >>

-----------------------------------------------------------------------------
(* The editor. *)

(* A command that has inspected the file for the last time, and has not    *)
(* published yet.                                                          *)
InGap(c) == pc[c] = "publish" \/ (pc[c] = "again" /\ look[c] = "over")

Edits ==
    /\ edits < MaxEdits
    /\ edits' = edits + 1
    /\ raced' = raced \cup {c \in Commands : InGap(c)}
    /\ UNCHANGED << temp, lock, pc, look, seen, plan, tries, outcome >>

EditInPlace ==
    /\ Edits /\ target # NoFile
    /\ version' = [version EXCEPT ![target] = {Edit}]
    /\ stamp' = [stamp EXCEPT ![target] = @ + 1]
    /\ UNCHANGED << target, deleted >>

EditReplace ==
    /\ Edits
    /\ target' = edits + 1
    /\ version' = [version EXCEPT ![edits + 1] = {Edit}]
    /\ UNCHANGED << stamp, deleted >>

EditDelete ==
    /\ Edits /\ target # NoFile
    /\ target' = NoFile /\ deleted' = "yes"
    /\ UNCHANGED << version, stamp >>

-----------------------------------------------------------------------------
Inspect(p) == LookStat(p) \/ LookOpen(p) \/ LookRest(p) \/ LookFails(p)

HookStep(h) == Inspect(h) \/ LookAgain(h) \/ LoadPolicy(h)

CommandStep(c) ==
    \/ Inspect(c) \/ MakePlan(c) \/ Confirm(c) \/ Lock(c) \/ Check(c) \/ WriteTemporary(c)
    \/ CheckAgain(c) \/ Create(c) \/ Unlink(c) \/ Update(c) \/ Verify(c) \/ Sync(c)
    \/ Fails(c) \/ CleanUp(c)

Over(p) == pc[p] \in {"done", "dead"}

AllOver == (\A p \in Procs : Over(p)) /\ UNCHANGED vars

Next ==
    \/ \E h \in Hooks : HookStep(h)
    \/ \E c \in Commands : CommandStep(c)
    \/ \E c \in Commands : Dies(c)
    \/ EditInPlace \/ EditReplace \/ EditDelete
    \/ AllOver

Spec == Init /\ [][Next]_vars

(* Commands wait for their user, and may be stopped with the lock in hand; *)
(* one hook runs.                                                          *)
FairSpec == Spec /\ WF_vars(HookStep(Steady))

-----------------------------------------------------------------------------
(* Properties. *)

FileStates ==
    [kind : {"absent", "file", "linked", "changed", "unread"},
     ino : Inodes \cup {NoFile}, stamp : 0..MaxEdits, first : Content, rest : Content]

TypeOK ==
    /\ target \in Inodes \cup {NoFile}
    /\ version \in [Inodes -> Content]
    /\ stamp \in [Inodes -> 0..MaxEdits]
    /\ temp \subseteq Commands /\ lock \subseteq Commands
    /\ pc \in [Procs -> {"inspect", "confirm", "lock", "check", "write", "again", "publish",
                         "unlink", "verify", "sync", "cleanup", "done", "dead"}]
    /\ look \in [Procs -> {"stat", "open", "rest", "over"}]
    /\ seen \in [Procs -> FileStates]
    /\ plan \in [Commands -> FileStates]
    /\ tries \in [Hooks -> 1..Reads]
    /\ outcome \in [Procs -> {"none", "refused", "cancelled", "failed", "interrupted",
                              "same", "saved", "defaults", "settings"}]
    /\ edits \in 0..MaxEdits
    /\ raced \subseteq Commands
    /\ deleted \in {"no", "yes"}

(* An inspection that finds a file returns one version of it, never part   *)
(* of one and part of the next, and not part of a save in progress.        *)
ReadsOneVersion ==
    \A p \in Procs : look[p] = "over" /\ seen[p].kind = "file" => seen[p].first = seen[p].rest

(* A save never drops what is in the file: commands that race compose or   *)
(* fail.  Only an editor that writes between the last inspection and the   *)
(* rename is overwritten.                                                  *)
SavesCompose ==
    [][\A c \in Commands :
          target' = c /\ target \notin {c, NoFile} /\ c \notin raced
             => version[target] \subseteq version[c]]_vars

(* While there is a file no hook runs on the shipped defaults, whatever    *)
(* commands replace it with under the hook's eyes.                         *)
NeverDefaults == deleted = "no" => \A h \in Hooks : outcome[h] # "defaults"

(* A hard link at the path, which hooks refuse to read, is a save at work  *)
(* or one that was cut short: no command that succeeded leaves it behind.  *)
LinkedIsCutShort ==
    \A c \in Commands : target = c /\ c \in temp =>
        pc[c] \in {"unlink", "cleanup", "dead"} \/ outcome[c] \in {"failed", "interrupted"}

(* A hook decides by the settings that are at the path: whole, of one      *)
(* version, never by the defaults in their place; and it refuses them for  *)
(* a second link only while a save is at work or was cut short.            *)
ReadsWhatIsThere == ReadsOneVersion /\ NeverDefaults /\ LinkedIsCutShort

(* The register that the files and the processes show (SettingsRegister):  *)
(* a command's copy counts from the step that publishes it, an inspection  *)
(* from its read of the first half.                                        *)
SeenOf(p) ==
    IF p \in Commands /\ ~Looking(p) THEN Unread
    ELSE IF look[p] = "rest" THEN seen[p].first
    ELSE IF look[p] # "over" THEN Unread
    ELSE IF seen[p].kind = "absent" THEN NoFile
    ELSE IF seen[p].kind = "file" /\ seen[p].first = seen[p].rest THEN seen[p].first ELSE Unread

StageOf(c) ==
    IF pc[c] = "inspect" THEN "idle"
    ELSE IF pc[c] \in {"confirm", "lock", "check", "write", "again", "publish"} THEN "planned"
    ELSE IF pc[c] \in {"unlink", "verify", "sync"} THEN "published" ELSE "ended"

PlannedOf(c) ==
    IF StageOf(c) # "planned" THEN Unread
    ELSE IF plan[c].kind = "absent" THEN NoFile ELSE plan[c].first

Value == IF target = NoFile THEN NoFile ELSE version[target]
Views == [p \in Procs |-> SeenOf(p)]
Plans == [c \in Commands |-> PlannedOf(c)]
Stages == [c \in Commands |-> StageOf(c)]

Register == INSTANCE SettingsRegister WITH
    Absent <- NoFile, value <- Value, view <- Views, base <- Plans, stage <- Stages,
    overtaken <- raced

(* Commands, hooks and an editor that share the file share a register: a   *)
(* save (apply of settings_files/files.py) takes place in one step, from   *)
(* what was planned, or not at all, whoever fails or is killed wherever,   *)
(* and keeps what it replaces; what a hook takes for the settings was all  *)
(* at the path at one moment, and the defaults only where no file was.     *)
ActsAsRegister == Register!Spec /\ SavesCompose

(* The hook has a deadline: it ends its inspection whatever commands and   *)
(* the editor do, and never waits for the folder's lock.                   *)
SteadyReads == <>(pc[Steady] = "done")

(* The inductive invariant behind the properties that are proved. *)

(* A command that has not written its copy yet. *)
Early(c) == pc[c] \in {"inspect", "confirm", "lock", "check", "write"}

(* Only one command is between the lock and the end of apply. *)
LockInv ==
    \A c \in Commands :
        pc[c] \in {"check", "write", "again", "publish", "unlink", "verify", "sync"} => lock = {c}

(* A copy is at the path once it is published, and holds until then what   *)
(* was planned; an inode the editor will make is nowhere.                  *)
CopyInv ==
    /\ \A c \in Commands :
          /\ Early(c) \/ pc[c] \in {"again", "publish"} => target # c
          /\ Early(c) => c \notin temp
          /\ pc[c] \in {"again", "publish"} => version[c] = plan[c].first \cup {c}
    /\ \A i \in 1..MaxEdits : i > edits => target # i
    /\ \A i \in Inodes : stamp[i] <= edits

(* What an inspection holds is of an inode that was published by one name. *)
Published(s) ==
    /\ s.ino \in Inodes \ temp /\ s.stamp <= stamp[s.ino]
    /\ s.ino \in Commands => ~Early(s.ino)
    /\ s.ino \in 1..MaxEdits => s.ino <= edits

(* While the stamp is the same the content is. *)
Current(s) == stamp[s.ino] = s.stamp => version[s.ino] = s.first

SeenInv ==
    \A p \in Procs :
        /\ look[p] \in {"open", "rest"} => seen[p].kind = "file"
        /\ seen[p].kind = "file" => Published(seen[p])
        /\ seen[p].kind = "file" /\ look[p] # "open" => Current(seen[p])
        /\ pc[p] = "write" => look[p] = "stat"

PlanInv ==
    \A c \in Commands : plan[c].kind = "file" => Published(plan[c]) /\ Current(plan[c])

(* The file the last inspection saw is the file that is replaced.          *)
IsAtPath(s) == s.kind = "file" => target = s.ino /\ stamp[s.ino] = s.stamp

GapInv ==
    \A c \in Commands : c \notin raced =>
        /\ pc[c] = "again" /\ look[c] = "over" => IsAtPath(seen[c])
        /\ pc[c] = "publish" => IsAtPath(plan[c])

(* A file that nobody deletes is never missed by a hook. *)
PresentInv ==
    deleted = "no" =>
        target # NoFile /\ \A h \in Hooks : look[h] = "over" => seen[h].kind # "absent"

(* A command says how it ended when it ends, and leaves a second link only *)
(* while it publishes, or where it was cut short.                          *)
LinkInv ==
    /\ LinkedIsCutShort
    /\ \A c \in Commands :
          /\ pc[c] = "cleanup" => outcome[c] \in {"failed", "interrupted"}
          /\ pc[c] \notin {"cleanup", "done", "dead"} => outcome[c] = "none"

(* What a step shows the register: there is nothing in a file that is not  *)
(* there, a plan is of a file that can be changed, a command that is not   *)
(* looking has forgotten what it saw, and who has not ended says nothing.  *)
RegisterInv ==
    /\ \A p \in Procs : seen[p].kind = "absent" => seen[p].first = {}
    /\ \A c \in Commands :
          /\ plan[c].kind = "absent" => plan[c].first = {}
          /\ StageOf(c) = "planned" => plan[c].kind \in {"absent", "file"}
          /\ pc[c] \in {"confirm", "lock", "write"} => look[c] = "stat"
    /\ \A h \in Hooks : pc[h] \in {"inspect", "done"} /\ (pc[h] = "inspect" => outcome[h] = "none")

IInv ==
    /\ TypeOK /\ LockInv /\ CopyInv /\ SeenInv /\ PlanInv /\ GapInv /\ PresentInv
    /\ ReadsOneVersion /\ NeverDefaults

-----------------------------------------------------------------------------
(* What the program says, and does not do. *)

(* cli/configuration.py: "Entity settings were unsafe or changed; nothing  *)
(* was saved."  The change may be in force when the folder's fsync or the  *)
(* unlink of the temporary name fails.                                     *)
FailedSavedNothing == \A c \in Commands : outcome[c] = "failed" /\ pc[c] = "done" => target # c

(* config.py: a second link "is a save in progress, not an unsafe file".   *)
(* A command killed between link and unlink leaves one for good.           *)
LinkedIsInProgress ==
    target # NoFile /\ Links(target) > 1 => \E c \in Commands : ~Over(c)

=============================================================================
