------------------------- MODULE SettingsFileProofs -------------------------
(* Proofs of the properties of SettingsFile, for any commands, hooks,      *)
(* editor and number of looks.                                             *)
EXTENDS SettingsFile, TLAPS

(* What an inspection finds when it does not find a file it can read. *)
LEMMA Plain ==
    \A kind \in {"absent", "linked", "changed", "unread"} :
        FileState(kind) \in FileStates /\ FileState(kind).kind = kind
  BY NamesAssumption DEF FileState, FileStates, Inodes, Content

LEMMA Initially == Init => IInv
  <1> SUFFICES ASSUME Init PROVE IInv
    OBVIOUS
  <1>1. TypeOK
    BY NamesAssumption, Plain DEF Init, TypeOK, Procs, Inodes, Content
  <1>2. LockInv /\ CopyInv
    BY NamesAssumption DEF Init, LockInv, CopyInv, Early, Procs, Inodes
  <1>3. SeenInv /\ PlanInv
    BY Plain DEF Init, SeenInv, PlanInv, Procs
  <1>4. GapInv /\ PresentInv /\ ReadsOneVersion /\ NeverDefaults
    BY NamesAssumption DEF Init, GapInv, PresentInv, ReadsOneVersion, NeverDefaults, Procs
  <1> QED BY <1>1, <1>2, <1>3, <1>4 DEF IInv

-----------------------------------------------------------------------------
(* The inspection. *)

(* An inspection that ends with a state that is true of the path.          *)
LEMMA FindsKeeps ==
    ASSUME IInv, NEW p \in Procs, Looking(p), look[p] # "over",
           NEW state \in FileStates, Finds(p, state),
           UNCHANGED << files, lock, pc, plan, tries, outcome, editor >>,
           state.kind = "file" => /\ Published(state) /\ Current(state) /\ IsAtPath(state)
                                  /\ state.first = state.rest,
           deleted = "no" => state.kind # "absent"
    PROVE  IInv'
  <1> USE DEF IInv, files, editor
  <1>1. TypeOK'
    BY DEF TypeOK, Finds
  <1>2. LockInv' /\ CopyInv' /\ PlanInv' /\ NeverDefaults'
    BY DEF LockInv, CopyInv, Early, PlanInv, Published, Current, NeverDefaults
  <1>3. SeenInv'
    BY DEF TypeOK, SeenInv, Finds, Looking, Published, Current, Early
  <1>4. GapInv'
    BY DEF TypeOK, GapInv, Finds, IsAtPath, Procs
  <1>5. PresentInv' /\ ReadsOneVersion'
    BY DEF TypeOK, PresentInv, ReadsOneVersion, Finds, Procs
  <1> QED BY <1>1, <1>2, <1>3, <1>4, <1>5

(* An inspection that goes on. *)
LEMMA SeesKeeps ==
    ASSUME IInv, NEW p \in Procs, Looking(p), NEW state \in FileStates,
           NEW next \in {"open", "rest"},
           seen' = [seen EXCEPT ![p] = state], look' = [look EXCEPT ![p] = next],
           UNCHANGED << files, lock, pc, plan, tries, outcome, editor >>,
           state.kind = "file", Published(state), next = "rest" => Current(state)
    PROVE  IInv'
  <1> USE DEF IInv, files, editor
  <1>1. TypeOK'
    BY DEF TypeOK
  <1>2. LockInv' /\ CopyInv' /\ PlanInv' /\ NeverDefaults'
    BY DEF LockInv, CopyInv, Early, PlanInv, Published, Current, NeverDefaults
  <1>3. SeenInv'
    BY DEF TypeOK, SeenInv, Looking, Published, Current, Early
  <1>4. GapInv' /\ PresentInv' /\ ReadsOneVersion'
    BY DEF TypeOK, GapInv, IsAtPath, PresentInv, ReadsOneVersion, Procs
  <1> QED BY <1>1, <1>2, <1>3, <1>4

LEMMA LookStatKeeps ==
    ASSUME IInv, NEW p \in Procs, LookStat(p) PROVE IInv'
  <1>1. CASE target = NoFile /\ Finds(p, FileState("absent"))
    BY <1>1, Plain, FindsKeeps DEF LookStat, IInv, PresentInv
  <1>2. CASE target # NoFile /\ Finds(p, FileState("linked"))
    BY <1>2, Plain, FindsKeeps DEF LookStat
  <1> DEFINE state == [FileState("file") EXCEPT !.ino = target, !.stamp = stamp[target]]
  <1>3. CASE /\ target # NoFile /\ Links(target) = 1
             /\ seen' = [seen EXCEPT ![p] = state]
             /\ look' = [look EXCEPT ![p] = "open"]
    <2>1. target \in Inodes /\ stamp[target] \in 0..MaxEdits
      BY <1>3 DEF IInv, TypeOK
    <2>2. state \in FileStates /\ state.kind = "file" /\ state.ino = target
            /\ state.stamp = stamp[target]
      BY <2>1 DEF FileState, FileStates, Content
    <2>3. target \notin temp
      BY <1>3 DEF Links
    <2>4. Published(state)
      <3> HIDE DEF state
      <3> QED BY <2>1, <2>2, <2>3, NamesAssumption DEF Published, IInv, TypeOK, CopyInv
    <2> HIDE DEF state
    <2> QED BY <1>3, <2>2, <2>4, SeesKeeps DEF LookStat
  <1> QED BY <1>1, <1>2, <1>3 DEF LookStat

LEMMA LookOpenKeeps ==
    ASSUME IInv, NEW p \in Procs, LookOpen(p) PROVE IInv'
  <1>1. CASE Finds(p, FileState("unread")) \/ Finds(p, FileState("changed"))
    BY <1>1, Plain, FindsKeeps DEF LookOpen
  <1> DEFINE state == [seen[p] EXCEPT !.first = version[target]]
  <1>2. CASE /\ target = seen[p].ino /\ SameAsSeen(p)
             /\ seen' = [seen EXCEPT ![p].first = version[target]]
             /\ look' = [look EXCEPT ![p] = "rest"]
    <2>1. seen[p] \in FileStates /\ seen[p].kind = "file" /\ Published(seen[p])
      BY DEF LookOpen, IInv, TypeOK, SeenInv
    <2>2. version[target] \in Content
      BY <1>2, <2>1 DEF IInv, TypeOK, Published
    <2>3. /\ state \in FileStates /\ state.kind = "file" /\ state.ino = target
          /\ state.stamp = seen[p].stamp /\ state.first = version[target]
      BY <1>2, <2>1, <2>2 DEF FileStates
    <2>4. seen' = [seen EXCEPT ![p] = state]
      BY <1>2 DEF IInv, TypeOK
    <2> HIDE DEF state
    <2>5. Published(state) /\ Current(state)
      BY <1>2, <2>1, <2>3 DEF Published, Current
    <2> QED BY <1>2, <2>3, <2>4, <2>5, SeesKeeps DEF LookOpen
  <1> QED BY <1>1, <1>2 DEF LookOpen

(* The file has the one link, which is not a command's temporary name, so  *)
(* it is at the path; and it has not been written since the first half was *)
(* read.                                                                   *)
LEMMA LookRestKeeps ==
    ASSUME IInv, NEW p \in Procs, LookRest(p) PROVE IInv'
  <1>1. CASE Finds(p, FileState("changed"))
    BY <1>1, Plain, FindsKeeps DEF LookRest
  <1> DEFINE state == [seen[p] EXCEPT !.rest = version[seen[p].ino]]
  <1>2. CASE SameAsSeen(p) /\ Finds(p, state)
    <2>1. /\ seen[p] \in FileStates /\ seen[p].kind = "file"
          /\ Published(seen[p]) /\ Current(seen[p])
      BY DEF LookRest, IInv, TypeOK, SeenInv
    <2>2. version[seen[p].ino] \in Content
      BY <2>1 DEF IInv, TypeOK, Published
    <2>3. /\ state \in FileStates /\ state.kind = "file" /\ state.ino = seen[p].ino
          /\ state.stamp = seen[p].stamp /\ state.first = seen[p].first
          /\ state.rest = version[seen[p].ino]
      BY <2>1, <2>2 DEF FileStates
    <2> HIDE DEF state
    <2>4. Published(state) /\ Current(state) /\ state.first = state.rest
      BY <1>2, <2>1, <2>3 DEF Published, Current, SameAsSeen
    <2>5. IsAtPath(state)
      BY <1>2, <2>1, <2>3 DEF IsAtPath, SameAsSeen, Links, Published
    <2> QED BY <1>2, <2>3, <2>4, <2>5, FindsKeeps DEF LookRest
  <1> QED BY <1>1, <1>2 DEF LookRest

LEMMA LookFailsKeeps ==
    ASSUME IInv, NEW p \in Procs, LookFails(p) PROVE IInv'
  BY Plain, FindsKeeps DEF LookFails

LEMMA InspectKeeps ==
    ASSUME IInv, NEW p \in Procs, Inspect(p) PROVE IInv'
  BY LookStatKeeps, LookOpenKeeps, LookRestKeeps, LookFailsKeeps DEF Inspect

(* A hook that looks again, or decides. *)
LEMMA HookKeeps ==
    ASSUME IInv, NEW h \in Hooks, LookAgain(h) \/ LoadPolicy(h) PROVE IInv'
  <1> USE NamesAssumption DEF IInv, files, editor
  <1>1. TypeOK'
    <2>1. CASE LookAgain(h)
      <3>1. tries[h] + 1 \in 1..Reads
        BY <2>1 DEF TypeOK, LookAgain
      <3> QED BY <2>1, <3>1 DEF TypeOK, LookAgain
    <2>2. CASE LoadPolicy(h)
      BY <2>2 DEF TypeOK, LoadPolicy, Goto, Reports, Policy, Procs
    <2> QED BY <2>1, <2>2
  <1>2. /\ \A c \in Commands : pc'[c] = pc[c] /\ look'[c] = look[c]
        /\ seen' = seen /\ plan' = plan
        /\ UNCHANGED << files, lock, editor >>
    BY DEF LookAgain, LoadPolicy, Goto, TypeOK, Procs
  <1>3. LockInv' /\ CopyInv' /\ PlanInv' /\ GapInv'
    BY <1>2 DEF LockInv, CopyInv, Early, PlanInv, Published, Current, GapInv, IsAtPath
  <1>4. \A p \in Procs : /\ look'[p] \in {look[p], "stat"}
                         /\ look'[p] = "stat" => look[p] = "stat" \/ seen[p].kind # "file"
                         /\ pc'[p] = "write" => pc[p] = "write" /\ look'[p] = look[p]
    BY DEF LookAgain, LoadPolicy, Goto, TypeOK, Procs, Publishing
  <1>5. SeenInv' /\ ReadsOneVersion'
    BY <1>2, <1>4 DEF SeenInv, ReadsOneVersion, Published, Current, Early
  <1>6. PresentInv'
    BY <1>2, <1>4 DEF PresentInv, Procs
  <1>7. NeverDefaults'
    BY DEF LookAgain, LoadPolicy, Reports, Policy, TypeOK, Procs, NeverDefaults, PresentInv
  <1> QED BY <1>1, <1>3, <1>5, <1>6, <1>7

-----------------------------------------------------------------------------
(* The commands. *)

(* A step that may remove the command's temporary name, and leaves the     *)
(* files and the other processes alone.                                    *)
LEMMA QuietKeeps ==
    ASSUME IInv, NEW c \in Commands, TypeOK', LockInv',
           UNCHANGED << target, version, stamp, tries, editor >>, temp' \subseteq temp,
           \A p \in Procs \ {c} : /\ pc'[p] = pc[p] /\ look'[p] = look[p]
                                  /\ seen'[p] = seen[p] /\ outcome'[p] = outcome[p],
           \/ look'[c] = look[c] /\ seen'[c] = seen[c] /\ pc'[c] # "write"
           \/ look'[c] = "stat" /\ seen'[c].kind # "file",
           \/ plan' = plan
           \/ /\ plan' = [plan EXCEPT ![c] = seen[c]]
              /\ look[c] = "over" /\ pc'[c] # "publish",
           pc'[c] # "again",
           pc'[c] = "publish" =>
                pc[c] = "again" /\ plan' = plan /\ (c \notin raced => IsAtPath(plan[c])),
           Early(c)' => Early(c)
    PROVE  IInv'
  <1> USE DEF IInv, editor
  <1>1. CopyInv'
    BY NamesAssumption DEF CopyInv, Early, Procs, TypeOK
  <1>2. \A s : Published(s) => Published(s)'
    BY DEF Published, Early, Procs, TypeOK
  <1>3. \A s : Current(s) => Current(s)'
    BY DEF Current
  <1>4. SeenInv'
    <2> SUFFICES ASSUME NEW p \in Procs
                 PROVE  /\ (look[p] \in {"open", "rest"} => seen[p].kind = "file")'
                        /\ (seen[p].kind = "file" => Published(seen[p]))'
                        /\ (seen[p].kind = "file" /\ look[p] # "open" => Current(seen[p]))'
                        /\ (pc[p] = "write" => look[p] = "stat")'
      BY DEF SeenInv
    <2>1. CASE look'[p] = look[p] /\ seen'[p] = seen[p] /\ (p # c \/ pc'[p] # "write")
      BY <2>1, <1>2, <1>3 DEF SeenInv, Published, Current
    <2>2. CASE look'[p] = "stat" /\ seen'[p].kind # "file"
      BY <2>2
    <2> QED BY <2>1, <2>2
  <1>5. PlanInv'
    <2> SUFFICES ASSUME NEW d \in Commands, plan'[d].kind = "file"
                 PROVE  (Published(plan[d]) /\ Current(plan[d]))'
      BY DEF PlanInv
    <2>1. CASE plan'[d] = plan[d]
      BY <2>1, <1>2, <1>3 DEF PlanInv
    <2>2. CASE d = c /\ plan'[d] = seen[c] /\ look[c] = "over"
      BY <2>2, <1>2, <1>3 DEF SeenInv, Procs
    <2> QED BY <2>1, <2>2 DEF TypeOK
  <1>6. GapInv'
    BY DEF GapInv, IsAtPath, Procs, TypeOK
  <1>7. PresentInv' /\ ReadsOneVersion' /\ NeverDefaults'
    BY NamesAssumption DEF PresentInv, ReadsOneVersion, NeverDefaults, Procs
  <1> QED BY <1>1, <1>4, <1>5, <1>6, <1>7

(* Up to the lock, and while it waits for it. *)
LEMMA BeforeLockKeeps ==
    ASSUME IInv, NEW c \in Commands, MakePlan(c) \/ Confirm(c) \/ Lock(c) PROVE IInv'
  <1>1. CASE MakePlan(c)
    <2>1. TypeOK'
      BY <1>1, Plain DEF IInv, TypeOK, MakePlan, Forget, Goto, Reports, Procs, files, editor
    <2>2. LockInv'
      BY <1>1 DEF IInv, TypeOK, LockInv, MakePlan, Goto, Reports, Procs
    <2>3. /\ UNCHANGED << target, version, stamp, temp, tries, editor >>
          /\ \A p \in Procs \ {c} : /\ pc'[p] = pc[p] /\ look'[p] = look[p]
                                   /\ seen'[p] = seen[p] /\ outcome'[p] = outcome[p]
          /\ look'[c] = "stat" /\ seen'[c].kind # "file"
          /\ plan' = [plan EXCEPT ![c] = seen[c]] /\ look[c] = "over"
          /\ pc[c] = "inspect" /\ pc'[c] \in {"confirm", "done"}
      BY <1>1, Plain DEF IInv, TypeOK, MakePlan, Forget, Goto, Reports, Procs, files
    <2> QED BY <2>1, <2>2, <2>3, QuietKeeps DEF Early
  <1>2. CASE Confirm(c)
    <2>1. TypeOK'
      BY <1>2 DEF IInv, TypeOK, Confirm, Goto, Reports, Procs, files, editor
    <2>2. LockInv'
      BY <1>2 DEF IInv, TypeOK, LockInv, Confirm, Goto, Reports, Procs
    <2> QED
      BY <1>2, <2>1, <2>2, QuietKeeps
         DEF IInv, TypeOK, Confirm, Goto, Reports, Procs, files, Early
  <1>3. CASE Lock(c)
    <2>1. TypeOK'
      BY <1>3 DEF IInv, TypeOK, Lock, Goto, Procs, files, editor
    <2>2. LockInv'
      BY <1>3 DEF IInv, TypeOK, LockInv, Lock, Goto, Procs
    <2> QED
      BY <1>3, <2>1, <2>2, QuietKeeps DEF IInv, TypeOK, Lock, Goto, Procs, files, Early
  <1> QED BY <1>1, <1>2, <1>3

(* What the last inspection found is what was planned, and is at the path. *)
LEMMA ChecksKeep ==
    ASSUME IInv, NEW c \in Commands, Check(c) \/ CheckAgain(c) PROVE IInv'
  <1>1. CASE Check(c)
    <2>1. TypeOK'
      BY <1>1, Plain DEF IInv, TypeOK, Check, Forget, Goto, Reports, Procs, files, editor
    <2>2. LockInv'
      BY <1>1 DEF IInv, TypeOK, LockInv, Check, Goto, Reports, Procs
    <2> QED
      BY <1>1, <2>1, <2>2, Plain, QuietKeeps
         DEF IInv, TypeOK, Check, Forget, Goto, Reports, Procs, files, Early
  <1>2. CASE CheckAgain(c)
    <2>1. TypeOK'
      BY <1>2, Plain DEF IInv, TypeOK, CheckAgain, Forget, Goto, Reports, Procs, files, editor
    <2>2. LockInv'
      BY <1>2 DEF IInv, TypeOK, LockInv, CheckAgain, Goto, Reports, Procs
    <2>3. seen[c] = plan[c] => (c \notin raced => IsAtPath(plan[c]))
      BY <1>2 DEF IInv, GapInv, CheckAgain, IsAtPath
    <2> QED
      BY <1>2, <2>1, <2>2, <2>3, Plain, QuietKeeps
         DEF IInv, TypeOK, CheckAgain, IsPlanned, Forget, Goto, Reports, Procs, files, Early
  <1> QED BY <1>1, <1>2

(* After the change is published, or given up. *)
LEMMA EndKeeps ==
    ASSUME IInv, NEW c \in Commands,
           Unlink(c) \/ Verify(c) \/ Sync(c) \/ Fails(c) \/ CleanUp(c) \/ Dies(c)
    PROVE  IInv'
  <1>1. CASE Unlink(c) \/ Verify(c) \/ Sync(c) \/ CleanUp(c) \/ Dies(c)
    <2>1. TypeOK'
      BY <1>1 DEF IInv, TypeOK, Unlink, Verify, Sync, CleanUp, Dies, Goto, Reports, Procs,
                  files, editor
    <2>2. LockInv'
      BY <1>1 DEF IInv, TypeOK, LockInv, Unlink, Verify, Sync, CleanUp, Dies, Goto, Reports,
                  Procs
    <2> QED
      BY <1>1, <2>1, <2>2, QuietKeeps
         DEF IInv, TypeOK, Unlink, Verify, Sync, CleanUp, Dies, Goto, Reports, Procs, files,
             Early
  <1>2. CASE Fails(c)
    <2>1. TypeOK'
      BY <1>2, Plain DEF IInv, TypeOK, Fails, Forget, Goto, Reports, Procs, files, editor
    <2>2. LockInv'
      BY <1>2 DEF IInv, TypeOK, LockInv, Fails, Goto, Reports, Procs
    <2> QED
      BY <1>2, <2>1, <2>2, Plain, QuietKeeps
         DEF IInv, TypeOK, Fails, Forget, Goto, Reports, Procs, files, Early
  <1> QED BY <1>1, <1>2

(* Nobody has seen the copy before it is published. *)
LEMMA WriteKeeps ==
    ASSUME IInv, NEW c \in Commands, WriteTemporary(c) PROVE IInv'
  <1> USE DEF IInv, editor
  <1>1. TypeOK'
    <2>1. plan[c].first \cup {c} \in Content
      BY DEF TypeOK, FileStates, Content
    <2> QED BY <2>1 DEF TypeOK, WriteTemporary, Goto, Procs, Inodes
  <1>2. /\ pc[c] = "write" /\ pc'[c] = "again" /\ c \in Inodes
        /\ \A p \in Procs \ {c} : pc'[p] = pc[p]
        /\ \A i \in Inodes \ {c} : version'[i] = version[i]
        /\ version'[c] = plan[c].first \cup {c} /\ temp' = temp \cup {c}
        /\ UNCHANGED << target, stamp, lock, look, seen, plan, tries, outcome, editor >>
    BY DEF WriteTemporary, TypeOK, Goto, Procs, Inodes
  <1>3. LockInv'
    BY <1>2 DEF LockInv, Procs
  <1>4. CopyInv'
    BY <1>2 DEF CopyInv, Early, Procs, Inodes
  <1>5. \A s : Published(s) => s.ino # c /\ Published(s)' /\ version'[s.ino] = version[s.ino]
    BY <1>2 DEF Published, Early, Procs
  <1>6. SeenInv'
    BY <1>2, <1>5 DEF SeenInv, Current, Published
  <1>7. PlanInv'
    BY <1>2, <1>5 DEF PlanInv, Current, Published
  <1>8. GapInv'
    BY <1>2 DEF GapInv, IsAtPath, Procs, SeenInv
  <1>9. PresentInv' /\ ReadsOneVersion' /\ NeverDefaults'
    BY <1>2 DEF PresentInv, ReadsOneVersion, NeverDefaults
  <1> QED BY <1>1, <1>3, <1>4, <1>6, <1>7, <1>8, <1>9

(* Only the command that holds the lock publishes. *)
LEMMA PublishKeeps ==
    ASSUME IInv, NEW c \in Commands, Create(c) \/ Update(c) PROVE IInv'
  <1> USE DEF IInv, editor
  <1>1. CASE target' = target /\ Create(c)
    <2>1. TypeOK'
      BY <1>1 DEF TypeOK, Create, Goto, Reports, Procs
    <2>2. LockInv'
      BY <1>1 DEF TypeOK, LockInv, Create, Goto, Reports, Procs
    <2>3. target # NoFile
      BY <1>1, NamesAssumption DEF Create
    <2> QED
      BY <1>1, <2>1, <2>2, <2>3, QuietKeeps
         DEF TypeOK, Create, Goto, Reports, Procs, Early
  <1>2. CASE /\ target' = c /\ pc' = [pc EXCEPT ![c] = pc'[c]] /\ pc'[c] \in {"unlink", "verify"}
             /\ temp' \subseteq temp /\ pc[c] = "publish"
             /\ UNCHANGED << version, stamp, lock, look, seen, plan, tries, outcome, editor >>
    <2>1. TypeOK'
      BY <1>2 DEF TypeOK, Inodes, Procs
    <2>2. \A p \in Procs \ {c} : pc'[p] = pc[p]
      BY <1>2 DEF TypeOK
    <2>3. \A d \in Commands \ {c} : pc[d] \notin {"again", "publish"}
      BY <1>2 DEF LockInv
    <2>4. LockInv'
      BY <1>2, <2>2 DEF LockInv, Procs
    <2>5. CopyInv'
      BY <1>2, <2>2, <2>3, NamesAssumption DEF CopyInv, Early, Procs, TypeOK
    <2>6. \A s : (Published(s) => Published(s)') /\ (Current(s) => Current(s)')
      BY <1>2, <2>2 DEF Published, Current, Early, Procs
    <2>7. SeenInv' /\ PlanInv'
      BY <1>2, <2>2, <2>6 DEF SeenInv, PlanInv, Published, Current
    <2>8. GapInv'
      BY <1>2, <2>2, <2>3 DEF GapInv, Procs
    <2>9. PresentInv' /\ ReadsOneVersion' /\ NeverDefaults'
      BY <1>2, NamesAssumption DEF PresentInv, ReadsOneVersion, NeverDefaults
    <2> QED BY <2>1, <2>4, <2>5, <2>7, <2>8, <2>9
  <1> QED
    BY <1>1, <1>2 DEF Create, Update, Goto, Reports, TypeOK, Procs

-----------------------------------------------------------------------------
(* The editor. *)

LEMMA EditorKeeps ==
    ASSUME IInv, EditInPlace \/ EditReplace \/ EditDelete PROVE IInv'
  <1> USE DEF IInv
  <1>1. /\ edits \in Nat /\ edits < MaxEdits /\ edits' = edits + 1
        /\ raced' = raced \cup {c \in Commands : InGap(c)}
        /\ UNCHANGED << temp, lock, pc, look, seen, plan, tries, outcome >>
    BY NamesAssumption DEF EditInPlace, EditReplace, EditDelete, Edits, TypeOK
  <1>2. LockInv'
    BY <1>1 DEF LockInv
  <1>3. GapInv'
    BY <1>1 DEF GapInv, InGap
  <1>4. ReadsOneVersion'
    BY <1>1 DEF ReadsOneVersion
  <1>5. CASE EditInPlace
    <2>1. /\ target \in Inodes /\ target' = target /\ deleted' = deleted
          /\ version' = [version EXCEPT ![target] = {Edit}]
          /\ stamp' = [stamp EXCEPT ![target] = @ + 1]
      BY <1>5 DEF EditInPlace, TypeOK
    <2>2. \A i \in Inodes : stamp[i] \in Nat /\ stamp[i] <= edits
      BY NamesAssumption DEF TypeOK, CopyInv
    <2>3. TypeOK'
      BY <1>1, <2>1, <2>2, NamesAssumption DEF TypeOK, Content
    <2>4. CopyInv'
      BY <1>1, <2>1, <2>2, NamesAssumption DEF CopyInv, Early, TypeOK, Inodes
    <2>5. \A s \in FileStates : (Published(s) => Published(s)')
      BY <1>1, <2>1, <2>2, NamesAssumption DEF Published, Early, TypeOK, FileStates
    <2>6. \A s \in FileStates : Published(s) /\ Current(s) => Current(s)'
      BY <1>1, <2>1, <2>2, NamesAssumption DEF Published, Current, TypeOK, FileStates
    <2>7. SeenInv' /\ PlanInv'
      BY <1>1, <2>5, <2>6 DEF SeenInv, PlanInv, TypeOK, Published, Current, Early
    <2>8. PresentInv' /\ NeverDefaults'
      BY <1>1, <2>1 DEF PresentInv, NeverDefaults
    <2> QED BY <1>2, <1>3, <1>4, <2>3, <2>4, <2>7, <2>8
  <1>6. CASE EditReplace
    <2>1. /\ edits + 1 \in 1..MaxEdits /\ edits + 1 \in Inodes
          /\ target' = edits + 1 /\ deleted' = deleted /\ stamp' = stamp
          /\ version' = [version EXCEPT ![edits + 1] = {Edit}]
      BY <1>1, <1>6, NamesAssumption DEF EditReplace, Inodes
    <2>2. TypeOK'
      BY <1>1, <2>1, NamesAssumption DEF TypeOK, Content
    <2>3. edits + 1 \notin Commands /\ edits + 1 # NoFile
      BY <2>1, NamesAssumption
    <2>4. CopyInv'
      BY <1>1, <2>1, <2>3, NamesAssumption DEF CopyInv, Early, TypeOK, Inodes
    <2>5. \A s \in FileStates : Published(s) => Published(s)'
      BY <1>1, <2>1, NamesAssumption DEF Published, Early
    <2>6. \A s \in FileStates : Published(s) /\ Current(s) => Current(s)'
      BY <1>1, <2>1, NamesAssumption DEF Published, Current, TypeOK
    <2>7. SeenInv' /\ PlanInv'
      BY <1>1, <2>5, <2>6 DEF SeenInv, PlanInv, TypeOK, Published, Current, Early
    <2>8. PresentInv' /\ NeverDefaults'
      BY <1>1, <2>1, <2>3 DEF PresentInv, NeverDefaults
    <2> QED BY <1>2, <1>3, <1>4, <2>2, <2>4, <2>7, <2>8
  <1>7. CASE EditDelete
    <2>1. target' = NoFile /\ deleted' = "yes" /\ UNCHANGED << version, stamp >>
      BY <1>7 DEF EditDelete
    <2>2. TypeOK'
      BY <1>1, <2>1, NamesAssumption DEF TypeOK
    <2>3. CopyInv'
      BY <1>1, <2>1, NamesAssumption DEF CopyInv, Early, TypeOK, Inodes
    <2>4. SeenInv' /\ PlanInv'
      BY <1>1, <2>1, NamesAssumption DEF SeenInv, PlanInv, Published, Current, Early
    <2>5. PresentInv' /\ NeverDefaults'
      BY <2>1 DEF PresentInv, NeverDefaults
    <2> QED BY <1>2, <1>3, <1>4, <2>2, <2>3, <2>4, <2>5
  <1> QED BY <1>5, <1>6, <1>7

-----------------------------------------------------------------------------
LEMMA Inductive == Spec => []IInv
  <1>1. IInv /\ [Next]_vars => IInv'
    <2>1. ASSUME IInv, AllOver \/ UNCHANGED vars PROVE IInv'
      BY <2>1 DEF AllOver, vars, IInv, TypeOK, LockInv, CopyInv, Early, SeenInv, Published,
                  Current, PlanInv, GapInv, IsAtPath, PresentInv, ReadsOneVersion,
                  NeverDefaults
    <2>2. ASSUME IInv, NEW h \in Hooks, HookStep(h) PROVE IInv'
      BY <2>2, InspectKeeps, HookKeeps DEF HookStep, Procs
    <2>3. ASSUME IInv, NEW c \in Commands, CommandStep(c) \/ Dies(c) PROVE IInv'
      BY <2>3, InspectKeeps, BeforeLockKeeps, ChecksKeep, EndKeeps, WriteKeeps, PublishKeeps
         DEF CommandStep, Procs
    <2> QED BY <2>1, <2>2, <2>3, EditorKeeps DEF Next
  <1> QED BY <1>1, Initially, PTL DEF Spec

(* Every field of the state stays of its type. *)
THEOREM TypeCorrect == Spec => []TypeOK
  BY Inductive, PTL DEF IInv

(* An inspection never returns part of one version and part of another,    *)
(* whatever any number of commands and the editor do under its eyes.       *)
THEOREM OneVersion == Spec => []ReadsOneVersion
  BY Inductive, PTL DEF IInv

(* While nobody deletes the file, no hook takes the shipped defaults.      *)
THEOREM NoDefaults == Spec => []NeverDefaults
  BY Inductive, PTL DEF IInv

(* Saves that race compose or fail. *)
THEOREM Composes == Spec => SavesCompose
  <1> DEFINE A == \A c \in Commands :
                      target' = c /\ target \notin {c, NoFile} /\ c \notin raced
                         => version[target] \subseteq version[c]
  <1>1. IInv /\ [Next]_vars => [A]_vars
    <2> SUFFICES ASSUME IInv, Next, NEW c \in Commands,
                        target' = c, target \notin {c, NoFile}, c \notin raced
                 PROVE  version[target] \subseteq version[c]
      OBVIOUS
    <2>1. Update(c)
      <3>1. ASSUME NEW d \in Commands, CommandStep(d) PROVE Update(c)
        BY <3>1 DEF CommandStep, Inspect, LookStat, LookOpen, LookRest, LookFails, MakePlan,
                    Confirm, Lock, Check, WriteTemporary, CheckAgain, Create, Unlink, Update,
                    Verify, Sync, Fails, CleanUp, files
      <3>2. ASSUME NEW h \in Hooks, HookStep(h) PROVE FALSE
        BY <3>2 DEF HookStep, Inspect, LookStat, LookOpen, LookRest, LookFails, LookAgain,
                    LoadPolicy, files
      <3>3. ASSUME NEW d \in Commands, Dies(d) PROVE FALSE
        BY <3>3 DEF Dies, files
      <3>4. ASSUME EditInPlace \/ EditReplace \/ EditDelete PROVE FALSE
        BY <3>4, NamesAssumption DEF EditInPlace, EditReplace, EditDelete, Edits, IInv, TypeOK
      <3>5. ASSUME AllOver PROVE FALSE
        BY <3>5 DEF AllOver, vars
      <3> QED BY <3>1, <3>2, <3>3, <3>4, <3>5 DEF Next
    <2>2. /\ target = plan[c].ino /\ stamp[target] = plan[c].stamp
          /\ Current(plan[c]) /\ version[c] = plan[c].first \cup {c}
      BY <2>1 DEF IInv, GapInv, IsAtPath, PlanInv, CopyInv, Update
    <2> QED BY <2>2 DEF Current
  <1> QED BY <1>1, Inductive, PTL DEF Spec, SavesCompose

(* Every step keeps the second links where they are explained. *)
LEMMA LinkStep == IInv /\ LinkInv /\ [Next]_vars => LinkInv'
  <1> SUFFICES ASSUME TypeOK, CopyInv, LinkInv, [Next]_vars PROVE LinkInv'
    BY DEF IInv
  <1> USE DEF LinkInv, LinkedIsCutShort
  <1>1. ASSUME NEW h \in Hooks, HookStep(h) PROVE LinkInv'
    BY <1>1, NamesAssumption DEF HookStep, Inspect, LookStat, LookOpen, LookRest, LookFails, LookAgain,
                LoadPolicy, files, Goto, Reports, TypeOK, Procs
  <1>2. ASSUME NEW c \in Commands, Inspect(c) \/ Lock(c)
        PROVE  LinkInv'
    BY <1>2, NamesAssumption DEF Inspect, LookStat, LookOpen, LookRest, LookFails, files, Goto, Lock, TypeOK, Procs
  <1>3. ASSUME NEW c \in Commands, MakePlan(c) \/ Confirm(c) \/ Check(c)
        PROVE  LinkInv'
    BY <1>3 DEF MakePlan, Confirm, Check, files, Goto, Reports, Forget, TypeOK, Procs
  <1>4. ASSUME NEW c \in Commands, WriteTemporary(c) PROVE LinkInv'
    BY <1>4 DEF WriteTemporary, Goto, TypeOK, Procs, CopyInv, Early
  <1>5. ASSUME NEW c \in Commands, CheckAgain(c) \/ Verify(c) \/ Fails(c) PROVE LinkInv'
    BY <1>5 DEF CheckAgain, Verify, Fails, files, Goto, Reports, Forget, TypeOK, Procs
  <1>6. ASSUME NEW c \in Commands, Create(c) \/ Update(c) PROVE LinkInv'
    BY <1>6 DEF Create, Update, Goto, Reports, TypeOK, Procs
  <1>7. ASSUME NEW c \in Commands, Unlink(c) \/ CleanUp(c) \/ Dies(c) PROVE LinkInv'
    BY <1>7 DEF Unlink, CleanUp, Dies, files, Goto, TypeOK, Procs
  <1>8. ASSUME NEW c \in Commands, Sync(c) PROVE LinkInv'
    BY <1>8 DEF Sync, files, Goto, Reports, TypeOK, Procs
  <1>9. ASSUME EditInPlace \/ EditReplace \/ EditDelete PROVE LinkInv'
    <2>1. target' \in Commands => target' = target
      BY <1>9, NamesAssumption DEF EditInPlace, EditReplace, EditDelete, Edits, TypeOK
    <2> QED BY <1>9, <2>1 DEF EditInPlace, EditReplace, EditDelete, Edits
  <1>10. ASSUME AllOver \/ UNCHANGED vars PROVE LinkInv'
    BY <1>10 DEF AllOver, vars
  <1> QED
    BY <1>1, <1>2, <1>3, <1>4, <1>5, <1>6, <1>7, <1>8, <1>9, <1>10 DEF Next, CommandStep

(* Hooks decide by the settings that are there: one version of them, never *)
(* the defaults in their place; and a second link, which they refuse, is a *)
(* save at work or one that was cut short.                                 *)
THEOREM ReadsThem == Spec => []ReadsWhatIsThere
  <1>1. Init => LinkInv
    BY NamesAssumption DEF Init, LinkInv, LinkedIsCutShort, Procs
  <1>2. IInv /\ LinkInv => ReadsWhatIsThere
    BY DEF IInv, LinkInv, ReadsWhatIsThere
  <1> QED BY <1>1, <1>2, LinkStep, Inductive, PTL DEF Spec

-----------------------------------------------------------------------------
(* The settings file is a register: SettingsRegister. *)

AllInv == IInv /\ LinkInv /\ RegisterInv

LEMMA RegisterInitially == Init => RegisterInv
  BY NamesAssumption DEF Init, RegisterInv, Procs, FileState, StageOf

(* The steps keep what the register is shown of them. *)
LEMMA RegisterKept == IInv /\ RegisterInv /\ [Next]_vars => RegisterInv'
  <1> SUFFICES ASSUME IInv, RegisterInv, [Next]_vars PROVE RegisterInv'
    OBVIOUS
  <1>0. TypeOK
    BY DEF IInv
  <1> USE DEF RegisterInv, StageOf
  <1>1. ASSUME NEW h \in Hooks, LookAgain(h) \/ LoadPolicy(h) PROVE RegisterInv'
    BY <1>0, <1>1, NamesAssumption DEF LookAgain, LoadPolicy, files, Goto, Reports, TypeOK, Procs
  <1>2. ASSUME NEW p \in Procs, Inspect(p) PROVE RegisterInv'
    <2>1. /\ UNCHANGED << pc, plan, outcome >> /\ pc[p] \in {"inspect", "check", "again"}
          /\ \A q \in Procs \ {p} : seen'[q] = seen[q] /\ look'[q] = look[q]
      BY <1>0, <1>2 DEF Inspect, LookStat, LookOpen, LookRest, LookFails, Looking, Finds, TypeOK
    <2>2. seen'[p].kind = "absent" => seen'[p].first = {}
      <3>1. \A kind : FileState(kind).kind = kind /\ FileState(kind).first = {}
        BY DEF FileState
      <3>2. seen[p] \in FileStates /\ (look[p] \in {"open", "rest"} => seen[p].kind = "file")
        BY <1>0, <1>2 DEF TypeOK, IInv, SeenInv
      <3>3. CASE LookStat(p)
        <4>1. CASE target # NoFile /\ Links(target) = 1 /\ seen' = [seen EXCEPT ![p] =
                      [FileState("file") EXCEPT !.ino = target, !.stamp = stamp[target]]]
          <5>1. seen'[p].kind = "file"
            BY <1>0, <4>1 DEF TypeOK, FileState
          <5> QED BY <5>1
        <4> QED BY <1>0, <3>1, <3>3, <4>1 DEF LookStat, Finds, TypeOK
      <3>4. CASE LookOpen(p)
        BY <1>0, <3>1, <3>2, <3>4 DEF LookOpen, Finds, TypeOK, FileStates
      <3>5. CASE LookRest(p)
        BY <1>0, <3>1, <3>2, <3>5 DEF LookRest, Finds, TypeOK, FileStates
      <3>6. CASE LookFails(p)
        BY <1>0, <3>1, <3>6 DEF LookFails, Finds, TypeOK
      <3> QED BY <1>2, <3>3, <3>4, <3>5, <3>6 DEF Inspect
    <2> QED BY <2>1, <2>2, NamesAssumption DEF Procs
  <1>3. ASSUME NEW c \in Commands, MakePlan(c) \/ Confirm(c) \/ Lock(c) \/ Check(c)
        PROVE  RegisterInv'
    BY <1>0, <1>3, NamesAssumption
       DEF MakePlan, Confirm, Lock, Check, files, Goto, Reports, Forget, TypeOK, Procs, FileState
  <1>4. ASSUME NEW c \in Commands,
               WriteTemporary(c) \/ CheckAgain(c) \/ Create(c) \/ Unlink(c) \/ Update(c)
        PROVE  RegisterInv'
    BY <1>0, <1>4, NamesAssumption
       DEF WriteTemporary, CheckAgain, Create, Unlink, Update, files, Goto, Reports, Forget, TypeOK,
           Procs, FileState
  <1>5. ASSUME NEW c \in Commands, Verify(c) \/ Sync(c) \/ Fails(c) \/ CleanUp(c) \/ Dies(c)
        PROVE  RegisterInv'
    BY <1>0, <1>5, NamesAssumption
       DEF Verify, Sync, Fails, CleanUp, Dies, files, Goto, Reports, Forget, TypeOK, Procs, FileState
  <1>6. ASSUME EditInPlace \/ EditReplace \/ EditDelete \/ AllOver \/ UNCHANGED vars
        PROVE  RegisterInv'
    BY <1>6 DEF EditInPlace, EditReplace, EditDelete, Edits, AllOver, vars
  <1> QED
    BY <1>1, <1>2, <1>3, <1>4, <1>5, <1>6 DEF Next, HookStep, CommandStep, Procs

LEMMA AllInvariant == Spec => []AllInv
  <1>1. Init => LinkInv
    BY NamesAssumption DEF Init, LinkInv, LinkedIsCutShort, Procs
  <1> QED BY <1>1, LinkStep, RegisterInitially, RegisterKept, Inductive, PTL DEF Spec, AllInv

(* What a step of one process leaves of the others. *)
Elsewhere(p) ==
    /\ \A q \in Procs \ {p} : pc'[q] = pc[q] /\ look'[q] = look[q] /\ seen'[q] = seen[q]
    /\ \A c \in Commands \ {p} : plan'[c] = plan[c]

LEMMA OthersAreSame ==
    ASSUME NEW p \in Procs, Elsewhere(p)
    PROVE  /\ \A q \in Procs \ {p} : SeenOf(q)' = SeenOf(q)
           /\ \A c \in Commands \ {p} : StageOf(c)' = StageOf(c) /\ PlannedOf(c)' = PlannedOf(c)
  BY DEF Elsewhere, SeenOf, StageOf, PlannedOf, Looking, Procs

(* A look: one process sees all that is there, or nothing. *)
LEMMA IsALook ==
    ASSUME NEW p \in Procs, Elsewhere(p), outcome[p] = "none",
           SeenOf(p)' \in {Value, Unread},
           p \in Commands => StageOf(p)' = StageOf(p) /\ PlannedOf(p)' = PlannedOf(p),
           Value' = Value, UNCHANGED << outcome, raced >>
    PROVE  Register!Next
  <1>1. Views' = [Views EXCEPT ![p] = SeenOf(p)']
    BY OthersAreSame DEF Views
  <1>2. Plans' = Plans /\ Stages' = Stages
    BY OthersAreSame DEF Plans, Stages
  <1>3. Register!Look(p)
    BY <1>1, <1>2 DEF Register!Look
  <1> QED BY <1>3 DEF Register!Next, Procs

(* An end of a command. *)
LEMMA IsAnEnd ==
    ASSUME NEW c \in Commands, Elsewhere(c), StageOf(c) # "ended", StageOf(c)' = "ended",
           NEW what \in {"none", "refused", "cancelled", "same", "saved", "failed", "interrupted"},
           outcome' = [outcome EXCEPT ![c] = what],
           what = "refused" => StageOf(c) = "idle",
           what = "cancelled" => StageOf(c) = "planned",
           what = "same" => /\ StageOf(c) = "planned" /\ SeenOf(c) = PlannedOf(c)
                            /\ PlannedOf(c) # NoFile /\ c \in PlannedOf(c),
           what = "saved" => StageOf(c) = "published",
           Value' = Value, UNCHANGED raced
    PROVE  Register!Next
  <1>1. SeenOf(c)' = Unread /\ PlannedOf(c)' = Unread
    BY DEF SeenOf, PlannedOf, StageOf, Looking
  <1>2. /\ Views' = [Views EXCEPT ![c] = Unread] /\ Plans' = [Plans EXCEPT ![c] = Unread]
        /\ Stages' = [Stages EXCEPT ![c] = "ended"]
    BY <1>1, OthersAreSame DEF Views, Plans, Stages, Procs
  <1>3. Stages[c] = StageOf(c) /\ Views[c] = SeenOf(c) /\ Plans[c] = PlannedOf(c)
    BY DEF Views, Plans, Stages, Procs
  <1>4. Register!End(c)
    BY <1>2, <1>3 DEF Register!End
  <1> QED BY <1>4 DEF Register!Next

(* A step nobody else can tell from none. *)
LEMMA IsAStutter ==
    ASSUME NEW p \in Procs, Elsewhere(p), SeenOf(p)' = SeenOf(p),
           p \in Commands => StageOf(p)' = StageOf(p) /\ PlannedOf(p)' = PlannedOf(p),
           Value' = Value, UNCHANGED << outcome, raced >>
    PROVE  UNCHANGED Register!vars
  <1>1. Views' = Views /\ Plans' = Plans /\ Stages' = Stages
    BY OthersAreSame DEF Views, Plans, Stages
  <1> QED BY <1>1 DEF Register!vars

-----------------------------------------------------------------------------
LEMMA InspectionIsALook ==
    ASSUME AllInv, NEW p \in Procs, Inspect(p)
    PROVE  Register!Next \/ UNCHANGED Register!vars
  <1>0. TypeOK /\ seen[p] \in FileStates /\ outcome[p] = "none" /\ Looking(p)
    BY DEF AllInv, IInv, TypeOK, LinkInv, RegisterInv, Inspect, LookStat, LookOpen, LookRest, LookFails,
           Looking, Procs
  <1>1. /\ Elsewhere(p) /\ Looking(p)'
        /\ UNCHANGED << pc, plan, outcome, raced, target, version, Value >>
    BY <1>0 DEF Inspect, LookStat, LookOpen, LookRest, LookFails, Finds, TypeOK, Elsewhere, files,
                editor, Looking, Value
  <1>2. p \in Commands => StageOf(p)' = StageOf(p) /\ PlannedOf(p)' = PlannedOf(p)
    BY <1>1 DEF StageOf, PlannedOf
  <1>3. SUFFICES SeenOf(p)' \in {Value, Unread, SeenOf(p)}
    BY <1>0, <1>1, <1>2, IsALook, IsAStutter
  <1>4. \A kind : FileState(kind).kind = kind
    BY DEF FileState
  <1>5. CASE LookStat(p)
    BY <1>0, <1>1, <1>4, <1>5 DEF LookStat, Finds, TypeOK, SeenOf, Value
  <1>6. CASE LookOpen(p)
    <2>1. target = seen[p].ino => target # NoFile
      BY <1>0, <1>6, NamesAssumption DEF LookOpen, AllInv, IInv, SeenInv, Published, Inodes
    <2> QED BY <1>0, <1>1, <1>4, <1>6, <2>1 DEF LookOpen, Finds, TypeOK, SeenOf, Value, FileStates
  <1>7. CASE LookRest(p)
    <2>1. seen[p].kind = "file" /\ Current(seen[p])
      BY <1>0, <1>7 DEF LookRest, AllInv, IInv, SeenInv
    <2>2. SeenOf(p) = seen[p].first
      BY <1>0, <1>7 DEF LookRest, SeenOf
    <2> QED BY <1>0, <1>1, <1>4, <1>7, <2>1, <2>2
            DEF LookRest, Finds, TypeOK, SeenOf, FileStates, SameAsSeen, Current
  <1>8. CASE LookFails(p)
    BY <1>0, <1>1, <1>4, <1>8 DEF LookFails, Finds, TypeOK, SeenOf
  <1> QED BY <1>5, <1>6, <1>7, <1>8 DEF Inspect

LEMMA HookIsShown ==
    ASSUME AllInv, NEW h \in Hooks, LookAgain(h) \/ LoadPolicy(h)
    PROVE  Register!Next \/ UNCHANGED Register!vars
  <1>0. TypeOK /\ h \in Procs /\ h \notin Commands /\ outcome[h] = "none" /\ seen[h] \in FileStates
    BY NamesAssumption DEF AllInv, IInv, TypeOK, RegisterInv, LookAgain, LoadPolicy, Procs
  <1>1. Elsewhere(h) /\ UNCHANGED << raced, target, version, Value >>
    BY <1>0 DEF LookAgain, LoadPolicy, Goto, TypeOK, Elsewhere, files, editor, Value
  <1>2. CASE LookAgain(h)
    <2>1. SeenOf(h)' = Unread
      BY <1>0, <1>2 DEF LookAgain, SeenOf, TypeOK
    <2> QED BY <1>0, <1>1, <1>2, <2>1, IsALook DEF LookAgain
  <1>3. CASE LoadPolicy(h)
    <2>1. /\ SeenOf(h)' = SeenOf(h)
          /\ SeenOf(h) = IF seen[h].kind = "absent" THEN NoFile
                         ELSE IF seen[h].kind = "file" THEN seen[h].first ELSE Unread
      BY <1>0, <1>3 DEF LoadPolicy, SeenOf, AllInv, IInv, ReadsOneVersion
    <2>2. /\ Policy(seen[h]) \in {"settings", "defaults", "refused"}
          /\ Policy(seen[h]) = "settings" => seen[h].kind = "file"
          /\ Policy(seen[h]) = "defaults" => seen[h].kind = "absent"
      BY DEF Policy
    <2>3. seen[h].first \notin {NoFile, Unread}
      BY <1>0, MarksAssumption DEF FileStates
    <2>4. Views' = Views /\ Plans' = Plans /\ Stages' = Stages
      BY <1>0, <1>1, <2>1, OthersAreSame DEF Views, Plans, Stages
    <2>5. Views[h] = SeenOf(h)
      BY <1>0 DEF Views
    <2>6. Register!Decide(h)
      BY <1>0, <1>1, <1>3, <2>1, <2>2, <2>3, <2>4, <2>5 DEF LoadPolicy, Reports, Register!Decide
    <2> QED BY <2>6 DEF Register!Next
  <1> QED BY <1>2, <1>3

(* A command's other steps disturb nobody, and publish or not.             *)
LEMMA CommandFrame ==
    ASSUME TypeOK, NEW c \in Commands, CommandStep(c) \/ Dies(c)
    PROVE  /\ c \in Procs /\ Elsewhere(c) /\ UNCHANGED raced
           /\ Create(c) \/ Update(c) \/ WriteTemporary(c) \/ Value' = Value
  <1>0. c \in Procs
    BY DEF Procs
  <1>1. CASE Inspect(c)
    BY <1>0, <1>1 DEF Inspect, LookStat, LookOpen, LookRest, LookFails, Finds, TypeOK, Elsewhere, files,
                editor, Value
  <1>2. CASE MakePlan(c) \/ Confirm(c) \/ Lock(c) \/ Check(c) \/ CheckAgain(c) \/ Verify(c)
    BY <1>0, <1>2 DEF MakePlan, Confirm, Lock, Check, CheckAgain, Verify, Forget, Goto, TypeOK, Elsewhere,
                files, editor, Value
  <1>3. CASE WriteTemporary(c) \/ Create(c) \/ Update(c)
    BY <1>0, <1>3 DEF WriteTemporary, Create, Update, Goto, TypeOK, Elsewhere, editor
  <1>4. CASE Unlink(c) \/ Sync(c) \/ Fails(c) \/ CleanUp(c) \/ Dies(c)
    BY <1>0, <1>4 DEF Unlink, Sync, Fails, CleanUp, Dies, Forget, Goto, TypeOK, Elsewhere, files, editor,
                Value
  <1> QED BY <1>1, <1>2, <1>3, <1>4 DEF CommandStep

LEMMA PlanIsShown ==
    ASSUME AllInv, NEW c \in Commands, MakePlan(c) \/ Confirm(c) \/ Lock(c)
    PROVE  Register!Next \/ UNCHANGED Register!vars
  <1>0. /\ TypeOK /\ c \in Procs /\ Elsewhere(c) /\ Value' = Value /\ UNCHANGED raced
        /\ outcome[c] = "none" /\ seen[c] \in FileStates
    BY NamesAssumption, CommandFrame
       DEF AllInv, IInv, TypeOK, LinkInv, MakePlan, Confirm, Lock, Create, Update, WriteTemporary,
           CommandStep, Procs
  <1>1. CASE MakePlan(c) /\ seen[c].kind \in {"absent", "file"}
    <2>1. /\ StageOf(c) = "idle" /\ StageOf(c)' = "planned" /\ SeenOf(c)' = Unread
          /\ plan'[c] = seen[c]
      BY <1>0, <1>1 DEF MakePlan, Goto, TypeOK, StageOf, SeenOf, Looking
    <2>2. SeenOf(c) = IF seen[c].kind = "absent" THEN NoFile ELSE seen[c].first
      BY <1>0, <1>1 DEF MakePlan, SeenOf, Looking, AllInv, IInv, ReadsOneVersion
    <2>3. PlannedOf(c)' = SeenOf(c) /\ SeenOf(c) # Unread
      BY <1>0, <1>1, <2>1, <2>2, MarksAssumption DEF PlannedOf, FileStates
    <2>4. /\ Views' = [Views EXCEPT ![c] = Unread] /\ Plans' = [Plans EXCEPT ![c] = SeenOf(c)]
          /\ Stages' = [Stages EXCEPT ![c] = "planned"]
      BY <1>0, <2>1, <2>3, OthersAreSame DEF Views, Plans, Stages
    <2>5. Stages[c] = "idle" /\ Views[c] = SeenOf(c)
      BY <1>0, <2>1 DEF Views, Stages
    <2>6. UNCHANGED outcome
      BY <1>1 DEF MakePlan
    <2>7. Register!Plan(c)
      BY <1>0, <2>3, <2>4, <2>5, <2>6 DEF Register!Plan
    <2> QED BY <2>7 DEF Register!Next
  <1>2. CASE MakePlan(c) /\ seen[c].kind \notin {"absent", "file"}
    <2>1. /\ StageOf(c) = "idle" /\ StageOf(c)' = "ended"
          /\ outcome' = [outcome EXCEPT ![c] = "refused"]
      BY <1>0, <1>2 DEF MakePlan, Goto, Reports, TypeOK, StageOf
    <2> QED BY <1>0, <2>1, IsAnEnd
  <1>3. CASE Confirm(c)
    <2>1. /\ StageOf(c) = "planned" /\ SeenOf(c) = Unread /\ SeenOf(c)' = Unread
          /\ UNCHANGED plan
      BY <1>0, <1>3 DEF Confirm, Goto, TypeOK, StageOf, SeenOf, Looking
    <2>2. CASE Goto(c, "lock") /\ UNCHANGED outcome
      <3>1. StageOf(c)' = "planned"
        BY <1>0, <2>2 DEF Goto, TypeOK, StageOf
      <3>2. PlannedOf(c)' = PlannedOf(c)
        BY <2>1, <3>1 DEF PlannedOf
      <3> QED BY <1>0, <2>1, <2>2, <3>1, <3>2, IsAStutter
    <2>3. CASE Goto(c, "done") /\ Reports(c, "cancelled")
      <3>1. StageOf(c)' = "ended"
        BY <1>0, <2>3 DEF Goto, TypeOK, StageOf
      <3> QED BY <1>0, <2>1, <2>3, <3>1, IsAnEnd DEF Reports
    <2> QED BY <1>3, <2>2, <2>3 DEF Confirm
  <1>4. CASE Lock(c)
    <2>1. /\ StageOf(c) = "planned" /\ StageOf(c)' = "planned" /\ SeenOf(c) = Unread
          /\ UNCHANGED << plan, outcome >>
      BY <1>0, <1>4 DEF Lock, Goto, TypeOK, StageOf, SeenOf, Looking
    <2>2. SeenOf(c)' = Unread
      BY <1>0, <1>4 DEF Lock, AllInv, RegisterInv, SeenOf
    <2>3. PlannedOf(c)' = PlannedOf(c)
      BY <2>1 DEF PlannedOf
    <2> QED BY <1>0, <2>1, <2>2, <2>3, IsAStutter
  <1> QED BY <1>1, <1>2, <1>3, <1>4

LEMMA ChecksAreShown ==
    ASSUME AllInv, NEW c \in Commands, Check(c) \/ CheckAgain(c)
    PROVE  Register!Next \/ UNCHANGED Register!vars
  <1>0. /\ TypeOK /\ c \in Procs /\ Elsewhere(c) /\ Value' = Value /\ UNCHANGED << raced, plan >>
        /\ outcome[c] = "none" /\ plan[c] \in FileStates /\ StageOf(c) = "planned"
        /\ look[c] = "over" /\ Looking(c)
    BY NamesAssumption, CommandFrame
       DEF AllInv, IInv, TypeOK, LinkInv, Check, CheckAgain, Create, Update, WriteTemporary,
           CommandStep, Procs, StageOf, Looking
  <1>1. CASE pc'[c] \in {"write", "publish"}
    <2>1. UNCHANGED outcome
      BY <1>0, <1>1 DEF Check, CheckAgain, Goto, TypeOK
    <2>2. StageOf(c)' = "planned" /\ SeenOf(c)' = Unread
      BY <1>1 DEF StageOf, SeenOf, Looking
    <2>3. PlannedOf(c)' = PlannedOf(c)
      BY <1>0, <2>2 DEF PlannedOf
    <2> QED BY <1>0, <2>1, <2>2, <2>3, IsALook
  <1>2. CASE pc'[c] \notin {"write", "publish"}
    <2>1. StageOf(c)' = "ended"
      BY <1>0, <1>2 DEF Check, CheckAgain, Goto, TypeOK, StageOf
    <2>2. \/ outcome' = [outcome EXCEPT ![c] = "failed"]
          \/ Check(c) /\ IsPlanned(c) /\ Noop(c) /\ outcome' = [outcome EXCEPT ![c] = "same"]
      BY <1>0, <1>2 DEF Check, CheckAgain, Goto, Reports, TypeOK
    <2>3. CASE outcome' = [outcome EXCEPT ![c] = "failed"]
      BY <1>0, <2>1, <2>3, IsAnEnd
    <2>4. CASE IsPlanned(c) /\ Noop(c) /\ outcome' = [outcome EXCEPT ![c] = "same"]
      <3>1. plan[c].kind = "file" /\ seen[c] = plan[c] /\ c \in plan[c].first
        BY <1>0, <2>4 DEF AllInv, RegisterInv, IsPlanned, Noop
      <3>2. PlannedOf(c) = plan[c].first
        BY <1>0, <3>1 DEF PlannedOf
      <3>3. SeenOf(c) = plan[c].first
        BY <1>0, <3>1 DEF SeenOf, AllInv, IInv, ReadsOneVersion
      <3>4. plan[c].first # NoFile
        BY <1>0, MarksAssumption DEF FileStates
      <3> QED BY <1>0, <2>1, <2>4, <3>1, <3>2, <3>3, <3>4, IsAnEnd
    <2> QED BY <2>2, <2>3, <2>4
  <1> QED BY <1>1, <1>2

(* The copy is nowhere before it is published, and then it is the file.    *)
LEMMA WriteIsNotShown ==
    ASSUME AllInv, NEW c \in Commands, WriteTemporary(c)
    PROVE  UNCHANGED Register!vars
  <1>0. /\ TypeOK /\ c \in Procs /\ Elsewhere(c) /\ UNCHANGED << raced, plan, outcome >>
    BY CommandFrame DEF AllInv, IInv, WriteTemporary, CommandStep
  <1>1. target # c /\ look[c] = "stat"
    BY DEF WriteTemporary, AllInv, IInv, CopyInv, Early, RegisterInv
  <1>2. Value' = Value
    BY <1>0, <1>1 DEF WriteTemporary, TypeOK, Value
  <1>3. StageOf(c) = "planned" /\ StageOf(c)' = "planned"
    BY <1>0 DEF WriteTemporary, Goto, TypeOK, StageOf
  <1>4. SeenOf(c)' = SeenOf(c) /\ PlannedOf(c)' = PlannedOf(c)
    BY <1>0, <1>1, <1>3 DEF WriteTemporary, Goto, TypeOK, SeenOf, PlannedOf, Looking
  <1> QED BY <1>0, <1>2, <1>3, <1>4, IsAStutter

LEMMA PublishIsASave ==
    ASSUME AllInv, NEW c \in Commands, Create(c) \/ Update(c)
    PROVE  Register!Next
  <1>0. /\ TypeOK /\ c \in Procs /\ Elsewhere(c) /\ UNCHANGED << raced, plan, version >>
        /\ outcome[c] = "none" /\ plan[c] \in FileStates /\ StageOf(c) = "planned"
        /\ pc[c] = "publish" /\ SeenOf(c) = Unread /\ c # NoFile /\ target # c
    BY NamesAssumption, CommandFrame
       DEF AllInv, IInv, TypeOK, LinkInv, Create, Update, CommandStep, editor, Procs, StageOf, SeenOf,
           Looking, CopyInv
  <1>1. CASE target' = c
    <2>1. /\ pc'[c] \in {"unlink", "verify"} /\ UNCHANGED outcome
          /\ plan[c].kind = "absent" => target = NoFile
      BY <1>0, <1>1, NamesAssumption DEF Create, Update, Goto, TypeOK
    <2>2. /\ StageOf(c)' = "published" /\ PlannedOf(c)' = Unread /\ SeenOf(c)' = Unread
      BY <2>1 DEF StageOf, PlannedOf, SeenOf, Looking
    <2>3. /\ Views' = Views /\ Plans' = [Plans EXCEPT ![c] = Unread]
          /\ Stages' = [Stages EXCEPT ![c] = "published"]
      BY <1>0, <2>2, OthersAreSame DEF Views, Plans, Stages
    <2>4. Stages[c] = "planned" /\ Plans[c] = PlannedOf(c)
      BY <1>0 DEF Plans, Stages
    <2>5. Value' = plan[c].first \cup {c}
      BY <1>0, <1>1 DEF Value, AllInv, IInv, CopyInv
    <2>6. CASE plan[c].kind = "absent"
      <3>1. PlannedOf(c) = NoFile /\ Value = NoFile /\ Value' = {c}
        BY <1>0, <2>1, <2>5, <2>6 DEF PlannedOf, Value, AllInv, RegisterInv
      <3>2. Register!Save(c)
        BY <1>0, <2>1, <2>3, <2>4, <3>1 DEF Register!Save
      <3> QED BY <3>2 DEF Register!Next
    <2>7. CASE plan[c].kind # "absent"
      <3>1. plan[c].kind = "file" /\ PlannedOf(c) = plan[c].first /\ plan[c].first # NoFile
        BY <1>0, <2>7, MarksAssumption DEF AllInv, RegisterInv, PlannedOf, FileStates
      <3>2. c \in raced \/ Value = plan[c].first
        <4>1. c \notin raced => target = plan[c].ino /\ Current(plan[c]) /\ stamp[target] = plan[c].stamp
                                /\ plan[c].ino \in Inodes
          BY <1>0, <3>1 DEF AllInv, IInv, GapInv, IsAtPath, PlanInv, Published
        <4> QED BY <4>1, NamesAssumption DEF Current, Value, Inodes
      <3>3. Register!Save(c)
        BY <1>0, <2>1, <2>3, <2>4, <2>5, <3>1, <3>2 DEF Register!Save
      <3> QED BY <3>3 DEF Register!Next
    <2> QED BY <2>6, <2>7
  <1>2. CASE target' # c
    <2>1. /\ target' = target /\ pc'[c] = "cleanup" /\ outcome' = [outcome EXCEPT ![c] = "failed"]
      BY <1>0, <1>2 DEF Create, Update, Goto, Reports, TypeOK
    <2>2. StageOf(c)' = "ended" /\ Value' = Value
      BY <1>0, <2>1 DEF StageOf, Value
    <2> QED BY <1>0, <2>1, <2>2, IsAnEnd
  <1> QED BY <1>1, <1>2

LEMMA EndIsShown ==
    ASSUME AllInv, NEW c \in Commands,
           Unlink(c) \/ Verify(c) \/ Sync(c) \/ Fails(c) \/ CleanUp(c) \/ Dies(c)
    PROVE  Register!Next \/ UNCHANGED Register!vars
  <1>0. /\ TypeOK /\ c \in Procs /\ Elsewhere(c) /\ Value' = Value /\ UNCHANGED << raced, plan >>
    <2>1. TypeOK /\ c \in Procs /\ Elsewhere(c)
      BY CommandFrame DEF AllInv, IInv, CommandStep
    <2>2. UNCHANGED << raced, plan, target, version >>
      BY DEF Unlink, Verify, Sync, Fails, CleanUp, Dies, files, editor
    <2> QED BY <2>1, <2>2 DEF Value
  <1>1. pc[c] \notin {"cleanup", "done", "dead"} => outcome[c] = "none"
    BY DEF AllInv, LinkInv
  <1>2. CASE Unlink(c) \/ (Verify(c) /\ pc'[c] = "sync") \/ CleanUp(c) \/ (Dies(c) /\ pc[c] = "cleanup")
    <2>1. StageOf(c)' = StageOf(c) /\ ~Looking(c) /\ ~Looking(c)' /\ UNCHANGED outcome
      BY <1>0, <1>2 DEF Unlink, Verify, CleanUp, Dies, Goto, TypeOK, StageOf, Looking
    <2>2. SeenOf(c)' = SeenOf(c) /\ PlannedOf(c)' = PlannedOf(c)
      BY <1>0, <2>1 DEF SeenOf, PlannedOf
    <2> QED BY <1>0, <2>1, <2>2, IsAStutter
  <1>3. CASE (Verify(c) /\ pc'[c] # "sync") \/ Sync(c)
    <2>1. /\ StageOf(c) = "published" /\ StageOf(c)' = "ended"
          /\ \E what \in {"saved", "failed", "interrupted"} : outcome' = [outcome EXCEPT ![c] = what]
      BY <1>0, <1>3 DEF Verify, Sync, Goto, Reports, TypeOK, StageOf
    <2> QED BY <1>0, <2>1, IsAnEnd
  <1>4. CASE Fails(c)
    <2>1. /\ StageOf(c) # "ended" /\ StageOf(c)' = "ended"
          /\ \E what \in {"failed", "interrupted"} : outcome' = [outcome EXCEPT ![c] = what]
      BY <1>0, <1>4 DEF Fails, Goto, Reports, TypeOK, StageOf
    <2> QED BY <1>0, <2>1, IsAnEnd
  <1>5. CASE Dies(c) /\ pc[c] # "cleanup"
    <2>1. StageOf(c) # "ended" /\ StageOf(c)' = "ended"
      BY <1>0, <1>5 DEF Dies, Goto, TypeOK, StageOf
    <2>2. outcome' = [outcome EXCEPT ![c] = "none"]
      BY <1>0, <1>1, <1>5 DEF Dies, TypeOK
    <2> QED BY <1>0, <2>1, <2>2, IsAnEnd
  <1> QED BY <1>2, <1>3, <1>4, <1>5

LEMMA EditIsShown ==
    ASSUME AllInv, EditInPlace \/ EditReplace \/ EditDelete
    PROVE  Register!Next
  <1>0. TypeOK /\ edits < MaxEdits /\ edits \in Nat /\ edits + 1 \in Inodes /\ edits + 1 # NoFile
    BY NamesAssumption DEF AllInv, IInv, TypeOK, EditInPlace, EditReplace, EditDelete, Edits, Inodes
  <1>1. UNCHANGED << pc, look, seen, plan, outcome >> /\ raced' = raced \cup {c \in Commands : InGap(c)}
    BY DEF EditInPlace, EditReplace, EditDelete, Edits
  <1>2. Views' = Views /\ Plans' = Plans /\ Stages' = Stages
    BY <1>1 DEF Views, Plans, Stages, SeenOf, PlannedOf, StageOf, Looking
  <1>3. Value' \in {NoFile, {Edit}}
    BY <1>0 DEF EditInPlace, EditReplace, EditDelete, Value, TypeOK
  <1>4. {c \in Commands : InGap(c)} \in SUBSET {c \in Commands : Stages[c] = "planned"}
    BY DEF InGap, Stages, StageOf
  <1>5. Register!EditorWrites
    BY <1>1, <1>2, <1>3, <1>4 DEF Register!EditorWrites
  <1> QED BY <1>5 DEF Register!Next

LEMMA RegisterStep == AllInv /\ [Next]_vars => [Register!Next]_(Register!vars)
  <1> SUFFICES ASSUME AllInv, [Next]_vars PROVE Register!Next \/ UNCHANGED Register!vars
    OBVIOUS
  <1>1. ASSUME NEW h \in Hooks, HookStep(h) PROVE Register!Next \/ UNCHANGED Register!vars
    BY <1>1, InspectionIsALook, HookIsShown DEF HookStep, Procs
  <1>2. ASSUME NEW c \in Commands, CommandStep(c) \/ Dies(c)
        PROVE  Register!Next \/ UNCHANGED Register!vars
    BY <1>2, InspectionIsALook, PlanIsShown, ChecksAreShown, WriteIsNotShown, PublishIsASave, EndIsShown
       DEF CommandStep, Procs
  <1>3. ASSUME AllOver \/ UNCHANGED vars PROVE UNCHANGED Register!vars
    BY <1>3 DEF AllOver, vars, Register!vars, Views, Plans, Stages, Value, SeenOf, PlannedOf, StageOf,
                Looking
  <1> QED BY <1>1, <1>2, <1>3, EditIsShown DEF Next

LEMMA RegisterBegins == Init => Register!Init
  <1> SUFFICES ASSUME Init PROVE Register!Init
    OBVIOUS
  <1>1. Value \in {NoFile, {}} \cup {{c} : c \in Commands}
    BY NamesAssumption DEF Init, Value, Inodes
  <1>2. /\ Views = [p \in Commands \cup Hooks |-> Unread] /\ Plans = [c \in Commands |-> Unread]
        /\ Stages = [c \in Commands |-> "idle"]
    BY DEF Init, Views, Plans, Stages, SeenOf, PlannedOf, StageOf, Procs
  <1> QED BY <1>1, <1>2 DEF Init, Register!Init, Procs

(* However commands, hooks and an editor meet at the path, whatever fails  *)
(* and whoever is killed, the settings file is a register that a save      *)
(* changes in one step, from what it planned, or not at all, and of which  *)
(* a hook takes what was all there at one moment.                          *)
THEOREM IsARegister == Spec => ActsAsRegister
  <1>1. Spec => Register!Spec
    BY RegisterBegins, RegisterStep, AllInvariant, PTL DEF Spec, Register!Spec
  <1> QED BY <1>1, Composes DEF ActsAsRegister

=============================================================================
