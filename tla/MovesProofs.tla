---------------------------- MODULE MovesProofs -----------------------------
(***************************************************************************)
(* Proofs about the files commands change: SettingsMove and LedgerMove, for*)
(* any commands, hooks and cap, and Retention, for any calendar, days,     *)
(* hooks and cap.                                                          *)
(***************************************************************************)
EXTENDS SettingsMove, LedgerMove, Retention, SequenceTheorems,
        WellFoundedInduction, TLAPS

-----------------------------------------------------------------------------
(* SettingsMove. *)

SettingsInv == STypeOK /\ MoveInv /\ SettingsAreSomewhere

LEMMA SettingsInitially == SInit => SettingsInv
  BY DEF SInit, SettingsInv, STypeOK, MoveInv, SettingsAreSomewhere, Contents, Users

(* Looking for the old file and for the new one. *)
LEMMA LookKeeps ==
    ASSUME SettingsInv, NEW m \in Commands, FindOld(m) \/ NewExists(m) PROVE SettingsInv'
  BY DEF SettingsInv, STypeOK, MoveInv, SettingsAreSomewhere, Contents, Users, Moved, FindOld, NewExists,
         Goes

LEMMA RenameKeeps ==
    ASSUME SettingsInv, NEW m \in Commands, Rename(m) PROVE SettingsInv'
  <1> USE DEF SettingsInv
  <1>1. STypeOK'
    BY DEF STypeOK, Contents, Users, Rename, Goes, Says
  <1>2. CASE oldSettings # "none" /\ settings' = oldSettings /\ oldSettings' = "none" /\ Says(m, "moved")
    BY <1>1, <1>2 DEF STypeOK, MoveInv, SettingsAreSomewhere, Users, Moved, Rename, Goes, Says
  <1>3. CASE UNCHANGED << oldSettings, settings >> /\ Says(m, "failed")
    BY <1>1, <1>3 DEF STypeOK, MoveInv, SettingsAreSomewhere, Users, Moved, Rename, Goes, Says
  <1> QED BY <1>2, <1>3 DEF Rename

(* A copy is made on two devices only. *)
LEMMA CopyKeeps ==
    ASSUME SettingsInv, NEW m \in Commands,
           CopyOpen(m) \/ CopyTruncate(m) \/ CopyWrite(m) \/ CopyUnlink(m) \/ CopyFails(m)
    PROVE  SettingsInv'
  <1>1. devices = "two" /\ devices' = "two"
    BY DEF SettingsInv, STypeOK, MoveInv, CopyOpen, CopyTruncate, CopyWrite, CopyUnlink, CopyFails
  <1>2. STypeOK'
    BY DEF SettingsInv, STypeOK, Contents, Users, CopyOpen, CopyTruncate, CopyWrite, CopyUnlink,
           CopyFails, Goes, Says
  <1> QED BY <1>1, <1>2 DEF SettingsInv, MoveInv, SettingsAreSomewhere

LEMMA SaveKeeps ==
    ASSUME SettingsInv, NEW m \in Commands, Plan(m) \/ Save(m) \/ CommandDies(m) PROVE SettingsInv'
  <1> USE DEF SettingsInv
  <1>1. CASE Plan(m) \/ CommandDies(m)
    BY <1>1 DEF STypeOK, MoveInv, SettingsAreSomewhere, Contents, Users, Moved, Plan, CommandDies, Goes
  <1>2. CASE Save(m)
    <2>1. STypeOK'
      BY <1>2 DEF STypeOK, Contents, Users, Save, Goes
    <2> QED
      BY <1>2, <2>1 DEF STypeOK, MoveInv, SettingsAreSomewhere, Contents, Users, Moved, Save, Goes
  <1> QED BY <1>1, <1>2

LEMMA HookKeeps ==
    ASSUME SettingsInv, NEW h \in Readers, HookStep(h) PROVE SettingsInv'
  <1>1. \A m \in Commands : at'[m] = at[m] /\ said'[m] = said[m]
    BY UsersAssumption DEF SettingsInv, STypeOK, Users, HookStep, ReadNew, ReadOldSettings, Goes, Says
  <1>2. STypeOK'
    BY DEF SettingsInv, STypeOK, Contents, Users, HookStep, ReadNew, ReadOldSettings, Goes, Says
  <1>3. UNCHANGED << devices, oldSettings, settings >>
    BY DEF HookStep, ReadNew, ReadOldSettings
  <1> QED BY <1>1, <1>2, <1>3 DEF SettingsInv, MoveInv, SettingsAreSomewhere, Moved

LEMMA SettingsInductive == SSpec => []SettingsInv
  <1>1. SettingsInv /\ [SNext]_svars => SettingsInv'
    <2>1. ASSUME SettingsInv, SettingsOver \/ UNCHANGED svars PROVE SettingsInv'
      BY <2>1 DEF SettingsInv, STypeOK, MoveInv, SettingsAreSomewhere, Moved, SettingsOver, svars
    <2> QED
      BY <2>1, LookKeeps, RenameKeeps, CopyKeeps, SaveKeeps, HookKeeps DEF SNext, CommandStep
  <1> QED BY <1>1, SettingsInitially, PTL DEF SSpec

(* Every field of the state stays of its type. *)
THEOREM SettingsTyped == SSpec => []STypeOK
  BY SettingsInductive, PTL DEF SettingsInv

(* On one device the user's settings are whole at one of the two paths     *)
(* after every step of any number of commands, that race, fail and die.    *)
THEOREM NeverLost == SSpec => []SettingsAreSomewhere
  BY SettingsInductive, PTL DEF SettingsInv

(* No late move undoes a change that was saved on the user's settings, nor *)
(* brings the old ones back over them; one saved on the shipped defaults,  *)
(* because a move had failed, gives way only to another's late move.       *)
THEOREM NeverUndone == SSpec => ChangeStays
  <1>1. SettingsInv /\ [SNext]_svars => [Stays]_svars
    <2> SUFFICES ASSUME SettingsInv, SNext, devices = "one" PROVE Stays
      BY DEF Stays
    <2>1. ASSUME NEW m \in Commands, CommandStep(m) PROVE Stays
      <3>1. settings' = settings \/ Rename(m) \/ Save(m)
        BY <2>1 DEF SettingsInv, MoveInv, CommandStep, FindOld, NewExists, CopyOpen,
                    CopyTruncate, CopyWrite, CopyUnlink, CopyFails, Plan, CommandDies
      <3>2. CASE settings' = settings
        BY <3>2 DEF Stays
      <3>3. CASE Rename(m)
        BY <3>3 DEF SettingsInv, STypeOK, MoveInv, SettingsAreSomewhere, Rename, Stays
      <3>4. CASE Save(m)
        BY <3>4 DEF Save, Stays
      <3> QED BY <3>1, <3>2, <3>3, <3>4
    <2>2. ASSUME NEW h \in Readers, HookStep(h) PROVE Stays
      BY <2>2 DEF HookStep, ReadNew, ReadOldSettings, Stays
    <2> QED BY <2>1, <2>2 DEF SNext, SettingsOver, svars, Stays
  <1> QED BY <1>1, SettingsInductive, PTL DEF SSpec, ChangeStays

-----------------------------------------------------------------------------
(* LedgerMove. *)

LEMMA AppendKeepsWhatIsThere ==
    ASSUME NEW S, NEW s \in Seq(S), NEW r \in S
    PROVE  /\ Append(s, r) \in Seq(S)
           /\ \A e : Contains(s, e) => Contains(Append(s, r), e)
  BY AppendProperties, LenProperties DEF Contains

LEMMA ConcatKeepsWhatIsThere ==
    ASSUME NEW S, NEW s \in Seq(S), NEW t \in Seq(S)
    PROVE  /\ s \o t \in Seq(S)
           /\ \A e : Contains(s, e) \/ Contains(t, e) => Contains(s \o t, e)
  <1>1. /\ s \o t \in Seq(S) /\ Len(s \o t) = Len(s) + Len(t)
        /\ \A i \in 1..Len(s) : (s \o t)[i] = s[i]
        /\ \A j \in 1..Len(t) : (s \o t)[Len(s) + j] = t[j]
        /\ Len(s) \in Nat /\ Len(t) \in Nat
    BY ConcatProperties, LenProperties
  <1>2. ASSUME NEW e, NEW i \in 1..Len(s), s[i] = e PROVE Contains(s \o t, e)
    BY <1>1, <1>2 DEF Contains
  <1>3. ASSUME NEW e, NEW j \in 1..Len(t), t[j] = e PROVE Contains(s \o t, e)
    <2>1. Len(s) + j \in 1..Len(s \o t)
      BY <1>1
    <2> QED BY <1>1, <1>3, <2>1 DEF Contains
  <1> QED BY <1>1, <1>2, <1>3 DEF Contains

(* Every field stays of its type, and no file loses a record it holds.     *)
LEMMA TypeKept ==
    ASSUME TypeOK, Next PROVE TypeOK' /\ \A i \in Inodes : \A r \in Records :
                                           Contains(lines[i], r) => Contains(lines'[i], r)
  <1>1. CASE lines' = lines
    <2>1. ASSUME NEW h \in Hooks, HookOpen(h) \/ HookAppend(h) PROVE TypeOK'
      <3>1. CASE HookOpen(h)
        BY <1>1, <3>1 DEF TypeOK, HookOpen, OpenNew, Goto, Procs, Inodes
      <3>2. CASE HookAppend(h)
        BY <1>1, <3>2 DEF TypeOK, HookAppend, Goto, Tells, Procs
      <3> QED BY <2>1, <3>1, <3>2
    <2>2. ASSUME NEW m \in Movers, Find(m) \/ Exists(m) \/ Dies(m) PROVE TypeOK'
      <3>1. {h \in Hooks : InMonth(h)} \in SUBSET Hooks
        OBVIOUS
      <3>2. CASE Exists(m)
        BY <1>1, <3>1, <3>2 DEF TypeOK, Exists, Sees, Goto, Procs
      <3>3. CASE Find(m) \/ Dies(m)
        BY <1>1, <3>3 DEF TypeOK, Find, Dies, Goto, Procs
      <3> QED BY <2>2, <3>2, <3>3
    <2>3. ASSUME NEW m \in Movers, Replace(m) \/ UnlinkOld(m) \/ Merge(m) PROVE TypeOK'
      BY <1>1, <2>3 DEF TypeOK, Replace, UnlinkOld, Merge, Goto, Tells, Procs, Inodes
    <2>4. ASSUME NEW m \in Movers, ReadOld(m) \/ OpenMonth(m) PROVE TypeOK'
      <3>1. CASE ReadOld(m)
        <4>1. old # NoFile => lines[old] \in Seq(Records)
          BY DEF TypeOK, Inodes
        <4> QED BY <1>1, <3>1, <4>1 DEF TypeOK, ReadOld, Goto, Procs
      <3>2. CASE OpenMonth(m)
        BY <1>1, <3>2 DEF TypeOK, OpenMonth, OpenNew, Goto, Procs, Inodes
      <3> QED BY <2>4, <3>1, <3>2
    <2>5. ASSUME Purge \/ AllOver PROVE TypeOK'
      BY <1>1, <2>5 DEF TypeOK, Purge, AllOver, vars
    <2> QED BY <1>1, <2>1, <2>2, <2>3, <2>4, <2>5 DEF Next, MoverStep
  <1>2. ASSUME NEW h \in Hooks, HookAppend(h), lines' # lines
        PROVE  /\ TypeOK'
               /\ \A i \in Inodes, r \in Records : Contains(lines[i], r) => Contains(lines'[i], r)
    <2>1. lines' = [lines EXCEPT ![opened[h]] = Append(lines[opened[h]], h)] /\ h \in Records
      BY <1>2 DEF HookAppend, TypeOK, Records
    <2>2. ASSUME NEW i \in Inodes
          PROVE  /\ Append(lines[i], h) \in Seq(Records)
                 /\ \A r \in Records : Contains(lines[i], r) => Contains(Append(lines[i], h), r)
      BY <2>1, AppendKeepsWhatIsThere DEF TypeOK
    <2>3. lines' \in [Inodes -> Seq(Records)]
      BY <2>1, <2>2 DEF TypeOK
    <2>4. TypeOK'
      BY <1>2, <2>3 DEF TypeOK, HookAppend, Goto, Tells, Procs
    <2> QED BY <2>1, <2>2, <2>4 DEF TypeOK
  <1>3. ASSUME NEW m \in Movers, Merge(m), lines' # lines
        PROVE  /\ TypeOK'
               /\ \A i \in Inodes, r \in Records : Contains(lines[i], r) => Contains(lines'[i], r)
    <2>1. lines' = [lines EXCEPT ![opened[m]] = lines[opened[m]] \o blob[m]]
      BY <1>3 DEF Merge, TypeOK
    <2>2. ASSUME NEW i \in Inodes
          PROVE  /\ lines[i] \o blob[m] \in Seq(Records)
                 /\ \A r \in Records : Contains(lines[i], r) => Contains(lines[i] \o blob[m], r)
      BY ConcatKeepsWhatIsThere DEF TypeOK
    <2>3. lines' \in [Inodes -> Seq(Records)]
      BY <2>1, <2>2 DEF TypeOK
    <2>4. TypeOK'
      BY <1>3, <2>3 DEF TypeOK, Merge, Goto, Procs
    <2> QED BY <2>1, <2>2, <2>4 DEF TypeOK
  <1>4. \/ lines' = lines
        \/ \E h \in Hooks : HookAppend(h)
        \/ \E m \in Movers : Merge(m)
    BY DEF Next, MoverStep, HookOpen, Find, Exists, Replace, ReadOld, OpenMonth, UnlinkOld,
           Dies, Purge, AllOver, vars
  <1> QED BY <1>1, <1>2, <1>3, <1>4

-----------------------------------------------------------------------------
(* The inductive invariant: the month that a mover merges into is at the   *)
(* new path, unless the whole old month is by now.                         *)

MergeInv ==
    \A m \in Movers :
        /\ pc[m] = "replace" => before[m] = {}
        /\ pc[m] \in {"open", "merge"} => Contains(blob[m], Past)
        /\ pc[m] \in {"merge", "unlink"} =>
               /\ opened[m] \in Inodes
               /\ purged = "no" => new = Legacy \/ new = opened[m]
        /\ pc[m] = "unlink" => Contains(lines[opened[m]], Past)

LedgerInv == TypeOK /\ MergeInv /\ Contains(lines[Legacy], Past) /\ PastIsKept

LEMMA LedgerInitially == Init => LedgerInv
  <1> SUFFICES ASSUME Init PROVE LedgerInv
    OBVIOUS
  <1>1. Past \in Records /\ << Past >> \in Seq(Records) /\ << >> \in Seq(Records)
    BY DEF Records
  <1>2. TypeOK
    BY <1>1 DEF Init, TypeOK, Procs, Inodes
  <1>3. Contains(lines[Legacy], Past)
    BY DEF Init, Inodes, Contains
  <1>4. MergeInv /\ PastIsKept
    BY <1>3, NamesAssumption DEF Init, MergeInv, PastIsKept, Procs
  <1> QED BY <1>2, <1>3, <1>4 DEF LedgerInv

LEMMA LedgerInvKept ==
    ASSUME LedgerInv, Next PROVE LedgerInv'
  <1> USE DEF LedgerInv
  <1>1. TypeOK' /\ \A i \in Inodes : Contains(lines[i], Past) => Contains(lines'[i], Past)
    BY TypeKept DEF Records
  <1>2. Contains(lines'[Legacy], Past)
    BY <1>1 DEF Inodes
  <1>3. PastIsKept <=> \/ purged = "yes" \/ old = Legacy \/ new = Legacy
                       \/ new # NoFile /\ Contains(lines[new], Past)
    BY NamesAssumption DEF PastIsKept, InMonth, TypeOK
  <1>4. PastIsKept' <=> \/ purged' = "yes" \/ old' = Legacy \/ new' = Legacy
                        \/ new' # NoFile /\ Contains(lines'[new'], Past)
    BY <1>1, <1>2, NamesAssumption DEF PastIsKept, InMonth, TypeOK
  <1>5. ASSUME NEW p \in Procs, OpenNew(p), UNCHANGED << old, lines, purged >>
        PROVE  /\ PastIsKept' /\ new' \in Inodes
               /\ new # NoFile => new' = new
               /\ \A q \in Procs : opened'[q] = IF q = p THEN new' ELSE opened[q]
    BY <1>3, <1>4, <1>5 DEF OpenNew, TypeOK, Inodes
  <1>6. ASSUME NEW h \in Hooks, HookOpen(h) \/ HookAppend(h) PROVE LedgerInv'
    <2>1. /\ \A m \in Movers : pc'[m] = pc[m] /\ opened'[m] = opened[m]
          /\ UNCHANGED << old, blob, before, purged >>
      BY <1>6, NamesAssumption DEF HookOpen, HookAppend, OpenNew, Goto, TypeOK, Procs
    <2>2. PastIsKept'
      BY <1>1, <1>3, <1>4, <1>5, <1>6 DEF HookOpen, HookAppend, Procs, TypeOK
    <2>3. new # NoFile => new' = new
      BY <1>6 DEF HookOpen, HookAppend, OpenNew
    <2>4. ASSUME NEW m \in Movers, pc[m] \in {"merge", "unlink"}, purged = "no"
          PROVE  new' = Legacy \/ new' = opened[m]
      BY <2>3, <2>4, NamesAssumption DEF MergeInv, Inodes, Procs
    <2>5. ASSUME NEW m \in Movers, pc[m] = "unlink" PROVE Contains(lines'[opened[m]], Past)
      BY <1>1, <2>5 DEF MergeInv
    <2>6. MergeInv'
      BY <2>1, <2>4, <2>5 DEF MergeInv
    <2> QED BY <1>1, <1>2, <2>2, <2>6
  <1>7. ASSUME NEW m \in Movers, Find(m) \/ Exists(m) \/ ReadOld(m) \/ Dies(m) PROVE LedgerInv'
    <2>1. /\ \A n \in Movers \ {m} : pc'[n] = pc[n] /\ blob'[n] = blob[n] /\ before'[n] = before[n]
          /\ pc'[m] \in {"done", "dead", "exists", "replace", "read", "open"}
          /\ UNCHANGED << old, new, lines, opened, purged >>
      BY <1>7 DEF Find, Exists, Sees, ReadOld, Dies, Goto, TypeOK, Procs
    <2>2. PastIsKept'
      BY <1>3, <1>4, <2>1
    <2>3. pc'[m] = "replace" => before'[m] = {}
      BY <1>7 DEF Find, Exists, Sees, InMonth, ReadOld, Dies, Goto, TypeOK, Procs
    <2>4. pc'[m] = "open" => Contains(blob'[m], Past)
      BY <1>7 DEF Find, Exists, ReadOld, Dies, Goto, TypeOK, Procs
    <2>5. MergeInv'
      BY <2>1, <2>3, <2>4 DEF MergeInv
    <2> QED BY <1>1, <1>2, <2>2, <2>5
  <1>8. ASSUME NEW m \in Movers, Replace(m) PROVE LedgerInv'
    <2>1. PastIsKept'
      BY <1>3, <1>4, <1>8 DEF Replace, TypeOK
    <2>2. MergeInv'
      BY <1>8 DEF MergeInv, Replace, Goto, TypeOK, Procs
    <2> QED BY <1>1, <1>2, <2>1, <2>2
  <1>9. ASSUME NEW m \in Movers, OpenMonth(m) PROVE LedgerInv'
    <2>1. /\ PastIsKept' /\ new' \in Inodes /\ opened'[m] = new' /\ pc'[m] = "merge"
          /\ new # NoFile => new' = new
          /\ \A n \in Movers \ {m} : pc'[n] = pc[n] /\ opened'[n] = opened[n]
          /\ UNCHANGED << lines, blob, before, purged >> /\ pc[m] = "open"
      BY <1>5, <1>9 DEF OpenMonth, Goto, TypeOK, Procs
    <2>2. MergeInv'
      BY <2>1, NamesAssumption DEF MergeInv, Inodes, Procs
    <2> QED BY <1>1, <1>2, <2>1, <2>2
  <1>10. ASSUME NEW m \in Movers, Merge(m) PROVE LedgerInv'
    <2>1. /\ \A n \in Movers \ {m} : pc'[n] = pc[n]
          /\ pc'[m] \in {"unlink", "done"} /\ pc[m] = "merge"
          /\ UNCHANGED << old, new, opened, blob, before, purged >>
      BY <1>10 DEF Merge, Goto, TypeOK, Procs
    <2>2. PastIsKept'
      BY <1>1, <1>3, <1>4, <2>1 DEF TypeOK
    <2>3. pc'[m] = "unlink" => Contains(lines'[opened[m]], Past)
      <3> SUFFICES ASSUME pc'[m] = "unlink" PROVE Contains(lines'[opened[m]], Past)
        OBVIOUS
      <3>1. opened[m] \in Inodes /\ Contains(blob[m], Past)
        BY <2>1 DEF MergeInv
      <3>2. lines'[opened[m]] = lines[opened[m]] \o blob[m]
        BY <1>10, <3>1 DEF Merge, Goto, TypeOK, Procs
      <3> QED BY <3>1, <3>2, ConcatKeepsWhatIsThere DEF TypeOK
    <2>4. MergeInv'
      BY <1>1, <2>1, <2>3 DEF MergeInv
    <2> QED BY <1>1, <1>2, <2>2, <2>4
  <1>11. ASSUME NEW m \in Movers, UnlinkOld(m) PROVE LedgerInv'
    <2>1. /\ opened[m] \in Inodes /\ Contains(lines[opened[m]], Past)
          /\ purged = "no" => new = Legacy \/ new = opened[m]
          /\ UNCHANGED << new, lines, purged >>
      BY <1>11 DEF UnlinkOld, MergeInv
    <2>2. PastIsKept'
      BY <1>4, <2>1, NamesAssumption DEF Inodes, Procs, TypeOK
    <2>3. MergeInv'
      BY <1>11 DEF MergeInv, UnlinkOld, Goto, TypeOK, Procs
    <2> QED BY <1>1, <1>2, <2>2, <2>3
  <1>12. CASE Purge
    BY <1>1, <1>2, <1>4, <1>12 DEF Purge, MergeInv
  <1>13. CASE AllOver
    BY <1>13 DEF AllOver, vars, MergeInv, PastIsKept, InMonth, TypeOK
  <1> QED
    BY <1>6, <1>7, <1>8, <1>9, <1>10, <1>11, <1>12, <1>13 DEF Next, MoverStep

LEMMA LedgerInductive == Spec => []LedgerInv
  <1>1. ASSUME LedgerInv, UNCHANGED vars PROVE LedgerInv'
    BY <1>1 DEF vars, LedgerInv, MergeInv, PastIsKept, InMonth, TypeOK
  <1>2. LedgerInv /\ [Next]_vars => LedgerInv'
    BY <1>1, LedgerInvKept
  <1> QED BY <1>2, LedgerInitially, PTL DEF Spec

(* Every field of the state stays of its type. *)
THEOREM LedgerTyped == Spec => []TypeOK
  BY LedgerInductive, PTL DEF LedgerInv

(* What 0.2.0 wrote is in the old month or in the new one until the user   *)
(* purges, whichever of any number of commands race, fail or die.          *)
THEOREM NothingLost == Spec => []PastIsKept
  BY LedgerInductive, PTL DEF LedgerInv

(* Only a purge or a late rename takes a hook's record out of the month.   *)
THEOREM LeavesByRename == Spec => KeptLeavesByRename
  <1>1. LedgerInv /\ [Next]_vars =>
          [\A h \in Hooks :
              InMonth(h) /\ ~InMonth(h)' =>
                 purged' # purged \/ \E m \in Movers : pc[m] = "replace" /\ h \notin before[m]]_vars
    <2> SUFFICES ASSUME LedgerInv, Next, NEW h \in Hooks, InMonth(h), ~InMonth(h)', purged' = purged
                 PROVE  \E m \in Movers : pc[m] = "replace" /\ h \notin before[m]
      OBVIOUS
    <2>1. new \in Inodes /\ Contains(lines'[new], h)
      BY TypeKept DEF LedgerInv, TypeOK, InMonth, Records
    <2>2. new' # new
      BY <2>1, NamesAssumption DEF InMonth, Inodes, Procs
    <2>3. PICK m \in Movers : Replace(m)
      BY <2>1, <2>2, NamesAssumption
         DEF Next, MoverStep, HookOpen, HookAppend, OpenNew, Find, Exists, ReadOld, OpenMonth,
             Merge, UnlinkOld, Dies, Purge, AllOver, vars, InMonth
    <2> QED BY <2>3 DEF LedgerInv, MergeInv, Replace
  <1> QED BY <1>1, LedgerInductive, PTL DEF Spec, KeptLeavesByRename

-----------------------------------------------------------------------------
(* Retention. *)

(* A set of numbers has a least one. *)
LEMMA LeastOf ==
    ASSUME NEW S, S \subseteq Nat, S # {}
    PROVE  Min(S) \in S
<1> DEFINE R == {ss \in Nat \X Nat : ss[1] < ss[2]}
<1>1. IsWellFoundedOn(R, Nat)
    BY NatLessThanWellFounded DEF OpToRel
<1>2. \E x \in S : \A y \in S : << y, x >> \notin R
  <2> HIDE DEF R
  <2> QED
      BY <1>1, WFMin
<1>3. PICK x \in S : \A y \in S : << y, x >> \notin R
    BY <1>2
<1>4. ASSUME NEW y \in S
      PROVE  x <= y
  <2>1. x \in Nat /\ y \in Nat
      OBVIOUS
  <2>2. y < x => << y, x >> \in R
      BY <2>1
  <2>3. QED
      BY <1>3, <2>1, <2>2
<1>5. QED
    BY <1>4 DEF Min

LEMMA Calendar ==
    /\ Len(FirstDay) \in Nat /\ Len(FirstDay) > 2
    /\ \A m \in 1..Len(FirstDay) : FirstDay[m] \in Nat
    /\ \A m \in 1..(Len(FirstDay) - 1) :
          m \in Nat /\ m + 1 \in 1..Len(FirstDay)
          /\ FirstDay[m + 1] <= FirstDay[m] + 31 /\ FirstDay[m] + 28 <= FirstDay[m + 1]
    /\ \A m, n \in 1..Len(FirstDay) : m < n => FirstDay[m] < FirstDay[n]
    /\ Months \subseteq Nat /\ 1 \in Months
<1>1. FirstDay \in Seq(Nat) /\ Len(FirstDay) > 2
    BY CalendarAssumption
<1>2. Len(FirstDay) \in Nat /\ \A m \in 1..Len(FirstDay) : FirstDay[m] \in Nat
    BY <1>1, LenProperties, ElementOfSeq
<1>3. ASSUME NEW m \in 1..(Len(FirstDay) - 1)
      PROVE  m \in Nat /\ m + 1 \in 1..Len(FirstDay) /\ m \in 1..Len(FirstDay)
    BY <1>1, <1>2
<1>4. ASSUME NEW m \in 1..(Len(FirstDay) - 1)
      PROVE  FirstDay[m + 1] <= FirstDay[m] + 31 /\ FirstDay[m] + 28 <= FirstDay[m + 1]
  <2>1. FirstDay[m + 1] - FirstDay[m] \in 28..31
      BY CalendarAssumption
  <2>2. FirstDay[m + 1] \in Nat /\ FirstDay[m] \in Nat
      BY <1>2, <1>3
  <2>3. QED
      BY <2>1, <2>2
<1>5. QED
    BY <1>1, <1>2, <1>3, <1>4, CalendarAssumption DEF Months

(* A day is in one month. *)
LEMMA OneMonth ==
    ASSUME NEW day \in Nat, NEW m \in 1..(Len(FirstDay) - 1), IsIn(day, m)
    PROVE  MonthOf(day) = m
<1>1. ASSUME NEW a \in 1..(Len(FirstDay) - 1), NEW b \in 1..(Len(FirstDay) - 1), a < b,
             IsIn(day, a), IsIn(day, b)
      PROVE  FALSE
  <2>1. /\ a \in Nat /\ b \in Nat /\ Len(FirstDay) \in Nat
        /\ a + 1 \in 1..Len(FirstDay) /\ b \in 1..Len(FirstDay)
      BY Calendar
  <2>2. FirstDay[a + 1] \in Nat /\ FirstDay[b] \in Nat
      BY <2>1, Calendar
  <2>3. FirstDay[a + 1] <= FirstDay[b]
    <3>1. CASE a + 1 = b
        BY <2>2, <3>1
    <3>2. CASE a + 1 # b
      <4>1. a + 1 < b
          BY <1>1, <2>1, <3>2
      <4>2. QED
          BY SMTT(30), <2>1, <2>2, <4>1, Calendar
    <3>3. QED
        BY <3>1, <3>2
  <2>4. day < FirstDay[a + 1] /\ FirstDay[b] <= day
      BY <1>1 DEF IsIn
  <2>5. QED
      BY <2>2, <2>3, <2>4
<1>2. \A n \in 1..(Len(FirstDay) - 1) : IsIn(day, n) => n = m
  <2>1. ASSUME NEW n \in 1..(Len(FirstDay) - 1), IsIn(day, n), n # m
        PROVE  FALSE
    <3>1. n \in Nat /\ m \in Nat
        BY Calendar
    <3>2. n < m \/ m < n
        BY <2>1, <3>1
    <3>3. QED
        BY <1>1, <2>1, <3>2
  <2>2. QED
      BY <2>1
<1>3. QED
    BY <1>2 DEF MonthOf

(* _month_end gives the first day of the next month. *)
LEMMA EndIsNext ==
    ASSUME NEW m \in Months
    PROVE  MonthEnd(m) = FirstDay[m + 1] /\ FirstDay[m + 1] \in Nat
<1>1. /\ m \in Nat /\ Len(FirstDay) \in Nat /\ m + 1 \in Nat
      /\ m \in 1..(Len(FirstDay) - 1) /\ m + 1 \in 1..(Len(FirstDay) - 1)
    BY Calendar DEF Months
<1>2. /\ m \in 1..Len(FirstDay) /\ m + 1 \in 1..Len(FirstDay) /\ m + 1 + 1 \in 1..Len(FirstDay)
    BY <1>1
<1>3. FirstDay[m] \in Nat /\ FirstDay[m + 1] \in Nat /\ FirstDay[m + 1 + 1] \in Nat
    BY <1>2, Calendar
<1>4. /\ FirstDay[m + 1] <= FirstDay[m] + 31 /\ FirstDay[m] + 28 <= FirstDay[m + 1]
      /\ FirstDay[m + 1] + 28 <= FirstDay[m + 1 + 1]
    BY <1>1, Calendar
<1>5. IsIn(FirstDay[m] + 31, m + 1) /\ FirstDay[m] + 31 \in Nat
    BY <1>3, <1>4 DEF IsIn
<1>6. MonthOf(FirstDay[m] + 31) = m + 1
    BY <1>1, <1>5, OneMonth
<1>7. QED
    BY <1>3, <1>6 DEF MonthEnd

LEMMA MonthOfDay ==
    ASSUME NEW day \in Days
    PROVE  MonthOf(day) \in Months /\ IsIn(day, MonthOf(day)) /\ day \in Nat
<1>1. PICK m \in Months : IsIn(day, m)
    BY RetentionAssumption
<1>2. m \in 1..(Len(FirstDay) - 1) /\ day \in Nat
    BY Calendar, RetentionAssumption DEF Months
<1>3. QED
    BY <1>1, <1>2, OneMonth

(* The month a keeper that is about to remove one is at. *)
LEMMA AtMonth ==
    ASSUME RetentionTypeOK, NEW c \in Keepers, left[c] # {}
    PROVE  Min(left[c]) \in left[c] /\ Min(left[c]) \in Months
<1>1. left[c] \subseteq Months /\ Months \subseteq Nat
    BY Calendar DEF RetentionTypeOK
<1>2. QED
    BY <1>1, LeastOf

(* What a hook's write does to the months. *)
LEMMA WriteMonths ==
    ASSUME RetentionTypeOK, UnderWayInv, NEW h \in Writers, WriteMonth(h)
    PROVE  /\ Mine(h) \in Months /\ moment[h] \in Nat /\ moment[h] < FirstDay[Mine(h) + 1]
           /\ months' \in [Months -> [made : Nat, lines : Seq(Nat)]]
           /\ \A n \in Months : months'[n].made = months[n].made
           /\ \A n \in Months :
                 \/ months'[n] = months[n]
                 \/ /\ n = Mine(h) /\ Len(months[n].lines) < Room
                    /\ months'[n].lines = Append(months[n].lines, moment[h])
<1>1. Mine(h) \in Months /\ moment[h] \in Nat /\ moment[h] < FirstDay[Mine(h) + 1]
    BY MonthOfDay DEF UnderWayInv, Mine, WriteMonth, IsIn
<1>2. months[Mine(h)].lines \in Seq(Nat)
    BY <1>1 DEF RetentionTypeOK
<1>3. Append(months[Mine(h)].lines, moment[h]) \in Seq(Nat)
    BY <1>1, <1>2
<1> DEFINE Changed(g) ==
               /\ g \in [Months -> [made : Nat, lines : Seq(Nat)]]
               /\ \A n \in Months : g[n].made = months[n].made
               /\ \A n \in Months :
                     \/ g[n] = months[n]
                     \/ /\ n = Mine(h) /\ Len(months[n].lines) < Room
                        /\ g[n].lines = Append(months[n].lines, moment[h])
<1>4. ASSUME UNCHANGED months
      PROVE  Changed(months')
    BY <1>4 DEF RetentionTypeOK
<1>5. ASSUME Len(months[Mine(h)].lines) < Room,
             months' = [months EXCEPT ![Mine(h)].lines = Append(months[Mine(h)].lines, moment[h])]
      PROVE  Changed(months')
  <2>1. PICK m \in Months : m = Mine(h)
      BY <1>1
  <2>2. PICK s \in Seq(Nat) : s = Append(months[Mine(h)].lines, moment[h])
      BY <1>3
  <2>3. months' = [n \in Months |-> IF n = m THEN [months[n] EXCEPT !.lines = s] ELSE months[n]]
      BY <1>5, <2>1, <2>2 DEF RetentionTypeOK
  <2>4. \A n \in Months : months[n] \in [made : Nat, lines : Seq(Nat)]
      BY DEF RetentionTypeOK
  <2>5. \A n \in Months : [months[n] EXCEPT !.lines = s] \in [made : Nat, lines : Seq(Nat)]
      BY <2>4
  <2>6. months' \in [Months -> [made : Nat, lines : Seq(Nat)]]
      BY <2>3, <2>4, <2>5
  <2>7. QED
      BY <1>5, <2>1, <2>2, <2>3, <2>4, <2>6
<1>6. Changed(months')
    BY <1>4, <1>5 DEF WriteMonth
<1>7. QED
    BY <1>1, <1>6

(* One lemma for each part of the invariant. *)

LEMMA RetentionTypeKept ==
    ASSUME RetentionInv, [RetentionNext]_retvars
    PROVE  RetentionTypeOK'
<1> USE RetentionAssumption DEF RetentionTypeOK, Turn, Reports, Keepers, Points
<1>1. RetentionTypeOK
    BY DEF RetentionInv
<1>2. CASE Tomorrow
    BY <1>1, <1>2 DEF Tomorrow, ledgerFiles
<1>3. CASE ReadMonth
    BY SMTT(30), <1>1, <1>3 DEF ReadMonth, ledgerFiles, Visited
<1>4. CASE SayShown
    BY <1>1, <1>4 DEF SayShown, ledgerFiles
<1>5. CASE PurgeSays
    BY <1>1, <1>5 DEF PurgeSays, ledgerFiles
<1>6. CASE AllDone
    BY <1>1, <1>6 DEF AllDone, retvars
<1>7. ASSUME NEW c \in Keepers, ListFiles(c)
      PROVE  RetentionTypeOK'
    BY <1>1, <1>7 DEF ListFiles, ledgerFiles, Retained
<1>8. ASSUME NEW c \in Keepers, UnlinkLost(c)
      PROVE  RetentionTypeOK'
  <2>1. lost' \subseteq Months
      BY <1>1, <1>8 DEF UnlinkLost
  <2>2. does' \in [Keepers -> Points] /\ does'[Show] = does[Show]
      BY <1>1, <1>8 DEF UnlinkLost
  <2>3. left' \in [Keepers -> SUBSET Months]
      BY <1>1, <1>8 DEF UnlinkLost, Visited
  <2>4. UNCHANGED << today, months, made, moment, holds, result, listed >>
      BY <1>8 DEF UnlinkLost
  <2>5. QED
      BY <1>1, <2>1, <2>2, <2>3, <2>4
<1>9. ASSUME NEW c \in Keepers, UnlinkMonth(c)
      PROVE  RetentionTypeOK'
  <2>1. NoMonth \in [made : Nat, lines : Seq(Nat)]
      BY DEF NoMonth
  <2>2. months' \in [Months -> [made : Nat, lines : Seq(Nat)]]
      BY <1>1, <1>9, <2>1 DEF UnlinkMonth
  <2>3. does' \in [Keepers -> Points] /\ does'[Show] = does[Show]
      BY <1>1, <1>9 DEF UnlinkMonth
  <2>4. left' \in [Keepers -> SUBSET Months]
      BY <1>1, <1>9 DEF UnlinkMonth, Visited
  <2>5. UNCHANGED << today, lost, made, moment, holds, result, listed >>
      BY <1>9 DEF UnlinkMonth
  <2>6. QED
      BY <1>1, <2>2, <2>3, <2>4, <2>5
<1>10. ASSUME NEW h \in Writers, OpenThisMonth(h)
       PROVE  RetentionTypeOK'
  <2>1. [made |-> made + 1, lines |-> << >>] \in [made : Nat, lines : Seq(Nat)]
      BY <1>1
  <2>2. months' \in [Months -> [made : Nat, lines : Seq(Nat)]] /\ made' \in Nat
    <3>1. CASE There(Mine(h))
        BY <1>1, <1>10, <3>1 DEF OpenThisMonth
    <3>2. CASE ~There(Mine(h))
      <4>1. made' = made + 1 /\ months' = [months EXCEPT ![Mine(h)] = [made |-> made + 1, lines |-> << >>]]
          BY <1>10, <3>2 DEF OpenThisMonth
      <4>2. QED
          BY <1>1, <2>1, <4>1
    <3>3. QED
        BY <3>1, <3>2
  <2>3. does' \in [Keepers -> Points] /\ does'[Show] = does[Show]
      BY <1>1, <1>10 DEF OpenThisMonth
  <2>4. Mine(h) \in Months
      BY <1>10, MonthOfDay DEF RetentionInv, UnderWayInv, Mine, OpenThisMonth
  <2>5. holds' \in [Writers -> Nat]
      BY <1>1, <1>10, <2>2, <2>4 DEF OpenThisMonth
  <2>6. UNCHANGED << today, lost, moment, left, result, listed >>
      BY <1>10 DEF OpenThisMonth
  <2>7. QED
      BY <1>1, <2>2, <2>3, <2>5, <2>6
<1>11. ASSUME NEW h \in Writers, WriteMonth(h)
       PROVE  RetentionTypeOK'
  <2>1. UnderWayInv
      BY DEF RetentionInv
  <2>2. Mine(h) \in Months
      BY <1>1, <1>11, <2>1, WriteMonths
  <2>3. months' \in [Months -> [made : Nat, lines : Seq(Nat)]]
      BY <1>1, <1>11, <2>1, WriteMonths
  <2>4. does' \in [Keepers -> Points] /\ does'[Show] = does[Show]
      BY <1>1, <1>11 DEF WriteMonth
  <2>5. lost' \subseteq Months /\ result' \in [Keepers -> {"nothing", "kept", "refused", "raised", "deleted", "short", "whole"}]
      BY <1>1, <1>11, <2>2 DEF WriteMonth
  <2>6. UNCHANGED << today, made, moment, left, holds, listed >>
      BY <1>11 DEF WriteMonth
  <2>7. QED
      BY <1>1, <2>3, <2>4, <2>5, <2>6
<1>12. ASSUME NEW h \in Writers, CannotOpen(h)
       PROVE  RetentionTypeOK'
  <2>1. Mine(h) \in Months
      BY <1>12, MonthOfDay DEF RetentionInv, UnderWayInv, Mine, CannotOpen
  <2>2. does' \in [Keepers -> Points] /\ does'[Show] = does[Show]
      BY <1>1, <1>12 DEF CannotOpen
  <2>3. lost' \subseteq Months /\ result' \in [Keepers -> {"nothing", "kept", "refused", "raised", "deleted", "short", "whole"}]
      BY <1>1, <1>12, <2>1 DEF CannotOpen
  <2>4. UNCHANGED << today, months, made, moment, left, holds, listed >>
      BY <1>12 DEF CannotOpen
  <2>5. QED
      BY <1>1, <2>2, <2>3, <2>4
<1>13. ASSUME NEW c \in Keepers, Stops(c)
       PROVE  RetentionTypeOK'
    BY <1>1, <1>13 DEF Stops
<1>14. CASE UNCHANGED retvars
    BY <1>1, <1>14 DEF retvars
<1>15. QED
    BY <1>2, <1>3, <1>4, <1>5, <1>6, <1>7, <1>8, <1>9, <1>10, <1>11, <1>12, <1>13, <1>14 DEF RetentionNext

LEMMA UnderWayKept ==
    ASSUME RetentionInv, [RetentionNext]_retvars
    PROVE  UnderWayInv'
<1> USE RetentionAssumption DEF RetentionTypeOK, UnderWayInv, Turn, Keepers
<1>1. RetentionTypeOK /\ UnderWayInv
    BY DEF RetentionInv
<1>2. CASE Tomorrow
    BY <1>1, <1>2 DEF Tomorrow
<1>3. CASE ReadMonth
    BY <1>1, <1>3 DEF ReadMonth, Visited
<1>4. CASE SayShown
    BY <1>1, <1>4 DEF SayShown
<1>5. CASE PurgeSays
    BY <1>1, <1>5 DEF PurgeSays
<1>6. CASE AllDone
    BY <1>1, <1>6 DEF AllDone, retvars
<1>7. ASSUME NEW c \in Keepers, ListFiles(c)
      PROVE  UnderWayInv'
    BY <1>1, <1>7 DEF ListFiles
<1>8. ASSUME NEW c \in Keepers, UnlinkLost(c)
      PROVE  UnderWayInv'
    BY <1>1, <1>8 DEF UnlinkLost, Visited
<1>9. ASSUME NEW c \in Keepers, UnlinkMonth(c)
      PROVE  UnderWayInv'
    BY <1>1, <1>9 DEF UnlinkMonth, Visited
<1>10. ASSUME NEW h \in Writers, OpenThisMonth(h)
       PROVE  UnderWayInv'
    BY <1>1, <1>10 DEF OpenThisMonth
<1>11. ASSUME NEW h \in Writers, WriteMonth(h)
       PROVE  UnderWayInv'
    BY <1>1, <1>11 DEF WriteMonth
<1>12. ASSUME NEW h \in Writers, CannotOpen(h)
       PROVE  UnderWayInv'
    BY <1>1, <1>12 DEF CannotOpen
<1>13. ASSUME NEW c \in Keepers, Stops(c)
       PROVE  UnderWayInv'
    BY <1>1, <1>13 DEF Stops
<1>14. CASE UNCHANGED retvars
    BY <1>1, <1>14 DEF retvars
<1>15. QED
    BY <1>2, <1>3, <1>4, <1>5, <1>6, <1>7, <1>8, <1>9, <1>10, <1>11, <1>12, <1>13, <1>14 DEF RetentionNext

LEMMA FilesKept ==
    ASSUME RetentionInv, [RetentionNext]_retvars
    PROVE  FilesInv'
<1> USE RetentionAssumption DEF Turn, Keepers
<1>1. RetentionTypeOK /\ FilesInv /\ UnderWayInv
    BY DEF RetentionInv
<1>2. ASSUME UNCHANGED << months, made, holds, short, moment >>,
             \A h \in Writers : does'[h] = "write" => does[h] = "write"
      PROVE  FilesInv'
    BY <1>1, <1>2 DEF FilesInv, Retained, There, Mine
<1>3. CASE Tomorrow
    BY <1>2, <1>3 DEF Tomorrow, ledgerFiles
<1>4. CASE ReadMonth
    BY <1>1, <1>2, <1>4 DEF ReadMonth, ledgerFiles, RetentionTypeOK
<1>5. CASE SayShown
    BY <1>1, <1>2, <1>5 DEF SayShown, ledgerFiles, RetentionTypeOK
<1>6. CASE PurgeSays
    BY <1>1, <1>2, <1>6 DEF PurgeSays, ledgerFiles, RetentionTypeOK
<1>7. CASE AllDone
    BY <1>2, <1>7 DEF AllDone, retvars
<1>8. ASSUME NEW c \in Keepers, ListFiles(c)
      PROVE  FilesInv'
  <2>1. \A h \in Writers : does'[h] = "write" => does[h] = "write" /\ h # c
      BY <1>1, <1>8 DEF ListFiles, RetentionTypeOK
  <2>2. \A h \in Writers : h # c => moment'[h] = moment[h]
      BY <1>1, <1>8 DEF ListFiles, RetentionTypeOK
  <2>3. UNCHANGED << months, made, holds, short >>
      BY <1>8 DEF ListFiles, ledgerFiles
  <2>4. QED
      BY <1>1, <2>1, <2>2, <2>3 DEF FilesInv, Retained, There, Mine
<1>9. ASSUME NEW c \in Keepers, UnlinkLost(c)
      PROVE  FilesInv'
    BY <1>1, <1>2, <1>9 DEF UnlinkLost, RetentionTypeOK
<1>10. ASSUME NEW c \in Keepers, UnlinkMonth(c)
       PROVE  FilesInv'
  <2>1. \A m \in Months : months'[m] = months[m] \/ months'[m].made = 0
      BY <1>1, <1>10 DEF UnlinkMonth, RetentionTypeOK, NoMonth
  <2>2. \A h \in Writers : does'[h] = "write" => does[h] = "write"
      BY <1>1, <1>10 DEF UnlinkMonth, RetentionTypeOK
  <2>3. UNCHANGED << made, holds, short, moment >>
      BY <1>10 DEF UnlinkMonth
  <2>4. made \in Nat /\ \A m \in Months : months[m].made \in Nat
      BY <1>1 DEF RetentionTypeOK
  <2>5. \A m \in Retained' : m \in Retained /\ months'[m] = months[m]
      BY <2>1 DEF Retained, There
  <2>6. (\A m \in Months : months[m].made <= made)'
      BY <1>1, <2>1, <2>3, <2>4 DEF FilesInv
  <2>7. QED
      BY <1>1, <2>2, <2>3, <2>5, <2>6 DEF FilesInv, Mine
<1>11. ASSUME NEW h \in Writers, OpenThisMonth(h)
       PROVE  FilesInv'
  <2>1. Mine(h) \in Months /\ Mine(h)' = Mine(h)
      BY <1>1, <1>11, MonthOfDay DEF UnderWayInv, Mine, OpenThisMonth
  <2>2. \A g \in Writers : g # h => holds'[g] = holds[g] /\ does'[g] = does[g]
      BY <1>1, <1>11 DEF OpenThisMonth, RetentionTypeOK
  <2>3. UNCHANGED << short, moment >>
      BY <1>11 DEF OpenThisMonth
  <2>4. CASE There(Mine(h))
    <3>1. UNCHANGED << months, made >> /\ holds'[h] = months[Mine(h)].made
        BY <1>1, <1>11, <2>4 DEF OpenThisMonth, RetentionTypeOK
    <3>2. holds'[h] \in 1..made /\ Mine(h) \in Retained
        BY <1>1, <2>1, <2>4, <3>1 DEF FilesInv, There, RetentionTypeOK, Retained
    <3>3. QED
      <4>1. Retained' = Retained /\ \A n \in Months : months'[n] = months[n]
          BY <3>1 DEF Retained, There
      <4>2. ASSUME NEW g \in Writers, does'[g] = "write"
            PROVE  /\ holds'[g] \in 1..made'
                   /\ \A m \in Retained' : months'[m].made = holds'[g] => m = Mine(g)'
        <5>1. CASE g = h
            BY <1>1, <2>1, <2>4, <3>1, <3>2, <4>1, <5>1 DEF FilesInv
        <5>2. CASE g # h
          <6>1. holds'[g] = holds[g] /\ does[g] = "write" /\ Mine(g)' = Mine(g)
              BY <2>2, <2>3, <4>2, <5>2 DEF Mine
          <6>2. QED
              BY <1>1, <3>1, <4>1, <6>1 DEF FilesInv
        <5>3. QED
            BY <5>1, <5>2
      <4>3. QED
          BY <1>1, <2>3, <3>1, <4>1, <4>2 DEF FilesInv
  <2>5. CASE ~There(Mine(h))
    <3>1. made' = made + 1 /\ holds'[h] = made + 1 /\ months'[Mine(h)].made = made + 1
        BY <1>1, <1>11, <2>1, <2>5 DEF OpenThisMonth, RetentionTypeOK
    <3>2. \A m \in Months : m # Mine(h) => months'[m] = months[m]
        BY <1>1, <1>11, <2>1, <2>5 DEF OpenThisMonth, RetentionTypeOK
    <3>3. \A m \in Months : months[m].made \in Nat /\ months[m].made <= made
        BY <1>1 DEF FilesInv, RetentionTypeOK
    <3>4. made \in Nat
        BY <1>1 DEF RetentionTypeOK
    <3>5. (\A m \in Months : months[m].made <= made)'
        BY <3>1, <3>2, <3>3, <3>4
    <3>6. (\A m, n \in Retained : months[m].made = months[n].made => m = n)'
        BY <1>1, <3>1, <3>2, <3>3, <3>4 DEF FilesInv, Retained, There
    <3>7. ASSUME NEW g \in Writers, does'[g] = "write"
          PROVE  /\ holds'[g] \in 1..made'
                 /\ \A m \in Retained' : months'[m].made = holds'[g] => m = Mine(g)'
      <4>1. CASE g = h
          BY <2>1, <3>1, <3>2, <3>3, <3>4, <4>1 DEF Retained
      <4>2. CASE g # h
        <5>1. holds'[g] = holds[g] /\ holds[g] \in 1..made /\ Mine(g)' = Mine(g)
              /\ \A m \in Retained : months[m].made = holds[g] => m = Mine(g)
            BY <1>1, <2>2, <2>3, <3>7, <4>2 DEF FilesInv, Mine
        <5>2. QED
            BY <3>1, <3>2, <3>4, <5>1 DEF Retained, There
      <4>3. QED
          BY <4>1, <4>2
    <3>8. short' \subseteq 1..made'
        BY <1>1, <2>3, <3>1, <3>4 DEF FilesInv
    <3>9. QED
        BY <3>5, <3>6, <3>7, <3>8 DEF FilesInv
  <2>6. QED
      BY <2>4, <2>5
<1>12. ASSUME NEW h \in Writers, WriteMonth(h)
       PROVE  FilesInv'
  <2>1. \A m \in Months : months'[m].made = months[m].made
      BY <1>1, <1>12, WriteMonths
  <2>2. \A g \in Writers : does'[g] = "write" => does[g] = "write"
      BY <1>1, <1>12 DEF WriteMonth, RetentionTypeOK
  <2>3. UNCHANGED << made, moment, holds >>
      BY <1>12 DEF WriteMonth
  <2>4. short' \subseteq 1..made
      BY <1>1, <1>12 DEF WriteMonth, FilesInv
  <2>5. QED
      BY <1>1, <2>1, <2>2, <2>3, <2>4 DEF FilesInv, Retained, There, Mine
<1>13. ASSUME NEW h \in Writers, CannotOpen(h)
       PROVE  FilesInv'
  <2>1. /\ UNCHANGED << months, made, holds, moment >>
        /\ short' = short \cup ({months[Mine(h)].made} \ {0})
      BY <1>13 DEF CannotOpen
  <2>2. \A g \in Writers : does'[g] = "write" => does[g] = "write"
      BY <1>1, <1>13 DEF CannotOpen, RetentionTypeOK
  <2>3. Mine(h) \in Months
      BY <1>1, <1>13, MonthOfDay DEF UnderWayInv, Mine, CannotOpen
  <2>4. months[Mine(h)].made \in Nat /\ months[Mine(h)].made <= made /\ made \in Nat
      BY <1>1, <2>3 DEF FilesInv, RetentionTypeOK
  <2>5. {months[Mine(h)].made} \ {0} \subseteq 1..made
      BY <2>4
  <2>6. short' \subseteq 1..made
      BY <1>1, <2>1, <2>5 DEF FilesInv
  <2>7. QED
      BY <1>1, <2>1, <2>2, <2>6 DEF FilesInv, Retained, There, Mine
<1>14. ASSUME NEW c \in Keepers, Stops(c)
       PROVE  FilesInv'
    BY <1>1, <1>2, <1>14 DEF Stops, RetentionTypeOK
<1>15. CASE UNCHANGED retvars
    BY <1>2, <1>15 DEF retvars
<1>16. QED
    BY <1>3, <1>4, <1>5, <1>6, <1>7, <1>8, <1>9, <1>10, <1>11, <1>12, <1>13, <1>14, <1>15 DEF RetentionNext

LEMMA DatesKept ==
    ASSUME RetentionInv, [RetentionNext]_retvars
    PROVE  DatesInv'
<1> USE RetentionAssumption DEF Keepers
<1>1. RetentionTypeOK /\ DatesInv /\ UnderWayInv
    BY DEF RetentionInv
<1>2. ASSUME UNCHANGED << months, early >>, \A h \in Writers : left'[h] \subseteq left[h], today' = today
      PROVE  DatesInv'
    BY <1>1, <1>2 DEF DatesInv
<1>3. CASE Tomorrow
  <2>1. /\ today \in Nat /\ today' \in Nat /\ today <= today'
        /\ UNCHANGED << months, early, left >>
      BY <1>1, <1>3 DEF Tomorrow, ledgerFiles, RetentionTypeOK
  <2>2. \A h \in Writers : \A m \in left[h] : FirstDay[m + 1] \in Nat
      BY <1>1, EndIsNext DEF RetentionTypeOK
  <2>3. \A h \in Writers : \A m \in left[h] : FirstDay[m + 1] + RETENTION_DAYS <= today'
      BY <1>1, <2>1, <2>2 DEF DatesInv, RETENTION_DAYS
  <2>4. QED
      BY <1>1, <2>1, <2>3 DEF DatesInv
<1>4. CASE ReadMonth
    BY <1>1, <1>2, <1>4 DEF ReadMonth, ledgerFiles, RetentionTypeOK, Visited
<1>5. CASE SayShown
    BY <1>2, <1>5 DEF SayShown, ledgerFiles
<1>6. CASE PurgeSays
    BY <1>2, <1>6 DEF PurgeSays, ledgerFiles
<1>7. CASE AllDone
    BY <1>2, <1>7 DEF AllDone, retvars
<1>8. ASSUME NEW c \in Keepers, ListFiles(c)
      PROVE  DatesInv'
  <2>1. UNCHANGED << months, early, today >>
      BY <1>8 DEF ListFiles, ledgerFiles
  <2>2. ASSUME NEW h \in Writers, NEW m \in left'[h]
        PROVE  FirstDay[m + 1] + RETENTION_DAYS <= today
    <3>1. CASE h = c
      <4>1. m \in Months /\ MonthEnd(m) + RETENTION_DAYS <= today
          BY <1>1, <1>8, <2>2, <3>1 DEF ListFiles, RetentionTypeOK, Retained
      <4>2. QED
          BY <4>1, EndIsNext
    <3>2. CASE h # c
        BY <1>1, <1>8, <2>2, <3>2 DEF ListFiles, RetentionTypeOK, DatesInv
    <3>3. QED
        BY <3>1, <3>2
  <2>3. QED
      BY <1>1, <2>1, <2>2 DEF DatesInv
<1>9. ASSUME NEW c \in Keepers, UnlinkLost(c)
      PROVE  DatesInv'
  <2>1. UNCHANGED << months, early >> /\ today' = today
      BY <1>9 DEF UnlinkLost
  <2>2. PICK m : left' = left \/ left' = [left EXCEPT ![c] = left[c] \ {m}]
      BY <1>9 DEF UnlinkLost, Visited
  <2>3. \A h \in Keepers : left'[h] = left[h] \/ left'[h] = left[h] \ {m}
      BY <1>1, <2>2 DEF RetentionTypeOK
  <2>4. QED
      BY <1>2, <2>1, <2>3
<1>10. ASSUME NEW c \in Keepers, UnlinkMonth(c)
       PROVE  DatesInv'
  <2>1. left[c] # {} /\ today' = today
      BY <1>1, <1>10 DEF UnlinkMonth, UnderWayInv
  <2>2. PICK m \in Months : m = Min(left[c]) /\ m \in left[c]
      BY <1>1, <2>1, AtMonth
  <2>3. \A h \in Writers : left'[h] \subseteq left[h]
      BY <1>1, <1>10 DEF UnlinkMonth, RetentionTypeOK, Visited
  <2>4. \A n \in Months : months'[n] = months[n] \/ months'[n].lines = << >>
      BY <1>1, <1>10 DEF UnlinkMonth, RetentionTypeOK, NoMonth
  <2>5. ASSUME c \in Writers, NEW d \in Range(months[m].lines), today < d + RETENTION_DAYS
        PROVE  FALSE
    <3>1. months[m].lines \in Seq(Nat)
        BY <1>1 DEF RetentionTypeOK
    <3>2. PICK i \in DOMAIN months[m].lines : months[m].lines[i] = d
        BY <2>5 DEF Range
    <3>3. d < FirstDay[m + 1] /\ FirstDay[m + 1] + RETENTION_DAYS <= today
        BY <1>1, <2>2, <2>5, <3>2 DEF DatesInv
    <3>4. d \in Nat /\ FirstDay[m + 1] \in Nat /\ today \in Nat
        BY SMTT(30), <1>1, <3>1, <3>2, EndIsNext DEF RetentionTypeOK
    <3>5. QED
        BY <2>5, <3>3, <3>4 DEF RETENTION_DAYS
  <2>6. ~early'
      BY <1>1, <1>10, <2>2, <2>5 DEF UnlinkMonth, DatesInv
  <2>7. \A n \in Months : \A i \in DOMAIN months'[n].lines : months'[n].lines[i] < FirstDay[n + 1]
      BY <1>1, <2>4 DEF DatesInv
  <2>8. QED
      BY <1>1, <2>1, <2>3, <2>6, <2>7 DEF DatesInv
<1>11. ASSUME NEW h \in Writers, OpenThisMonth(h)
       PROVE  DatesInv'
  <2>1. UNCHANGED << early, left, today >>
      BY <1>11 DEF OpenThisMonth
  <2>2. \A n \in Months : months'[n] = months[n] \/ months'[n].lines = << >>
    <3>1. CASE There(Mine(h))
        BY <1>11, <3>1 DEF OpenThisMonth
    <3>2. CASE ~There(Mine(h))
      <4>1. months' = [months EXCEPT ![Mine(h)] = [made |-> made', lines |-> << >>]]
          BY <1>11, <3>2 DEF OpenThisMonth
      <4>2. QED
          BY <1>1, <4>1 DEF RetentionTypeOK
    <3>3. QED
        BY <3>1, <3>2
  <2>3. \A n \in Months : \A i \in DOMAIN months'[n].lines : months'[n].lines[i] < FirstDay[n + 1]
      BY <1>1, <2>2 DEF DatesInv
  <2>4. QED
      BY <1>1, <2>1, <2>3 DEF DatesInv
<1>12. ASSUME NEW h \in Writers, WriteMonth(h)
       PROVE  DatesInv'
  <2>1. UNCHANGED << early, left, today >>
      BY <1>12 DEF WriteMonth
  <2>2. ASSUME NEW n \in Months, NEW i \in DOMAIN months'[n].lines
        PROVE  months'[n].lines[i] < FirstDay[n + 1]
    <3>1. CASE months'[n] = months[n]
        BY <1>1, <2>2, <3>1 DEF DatesInv
    <3>2. CASE n = Mine(h) /\ months'[n].lines = Append(months[n].lines, moment[h])
      <4>1. months[n].lines \in Seq(Nat) /\ moment[h] < FirstDay[n + 1] /\ moment[h] \in Nat
          BY <1>1, <1>12, <3>2, WriteMonths DEF RetentionTypeOK
      <4>2. i \in 1..(Len(months[n].lines) + 1)
          BY <2>2, <3>2, <4>1
      <4>3. CASE i = Len(months[n].lines) + 1
          BY <3>2, <4>1, <4>3
      <4>4. CASE i # Len(months[n].lines) + 1
        <5>1. i \in DOMAIN months[n].lines /\ months'[n].lines[i] = months[n].lines[i]
            BY <3>2, <4>1, <4>2, <4>4
        <5>2. QED
            BY <1>1, <5>1 DEF DatesInv
      <4>5. QED
          BY <4>3, <4>4
    <3>3. QED
        BY <1>1, <1>12, <3>1, <3>2, WriteMonths
  <2>3. QED
      BY <1>1, <2>1, <2>2 DEF DatesInv
<1>13. ASSUME NEW h \in Writers, CannotOpen(h)
       PROVE  DatesInv'
    BY <1>2, <1>13 DEF CannotOpen
<1>14. ASSUME NEW c \in Keepers, Stops(c)
       PROVE  DatesInv'
    BY <1>2, <1>14 DEF Stops
<1>15. CASE UNCHANGED retvars
    BY <1>2, <1>15 DEF retvars
<1>16. QED
    BY <1>3, <1>4, <1>5, <1>6, <1>7, <1>8, <1>9, <1>10, <1>11, <1>12, <1>13, <1>14, <1>15 DEF RetentionNext

LEMMA ShortKept ==
    ASSUME RetentionInv, [RetentionNext]_retvars
    PROVE  ShortInv'
<1> USE RetentionAssumption DEF Keepers
<1>1. RetentionTypeOK /\ ShortInv /\ UnderWayInv /\ FilesInv
    BY DEF RetentionInv
<1>2. ASSUME UNCHANGED << months, short, spared, lost >>,
             \A c \in Keepers \ {Show} : does[c] = "month" => does'[c] = "month" /\ left'[c] = left[c]
      PROVE  ShortInv'
    BY <1>1, <1>2 DEF ShortInv, Retained, There
<1>3. CASE Tomorrow
    BY <1>2, <1>3 DEF Tomorrow, ledgerFiles
<1>4. CASE ReadMonth
    BY <1>1, <1>2, <1>4 DEF ReadMonth, ledgerFiles, RetentionTypeOK, Visited, Turn
<1>5. CASE SayShown
    BY <1>1, <1>2, <1>5 DEF SayShown, ledgerFiles, RetentionTypeOK, Turn
<1>6. CASE PurgeSays
    BY <1>1, <1>2, <1>6 DEF PurgeSays, ledgerFiles, RetentionTypeOK, Turn
<1>7. CASE AllDone
    BY <1>2, <1>7 DEF AllDone, retvars
<1>8. ASSUME NEW c \in Keepers, ListFiles(c)
      PROVE  ShortInv'
    BY <1>1, <1>2, <1>8 DEF ListFiles, ledgerFiles, RetentionTypeOK, Turn
<1>9. ASSUME NEW c \in Keepers, UnlinkLost(c)
      PROVE  ShortInv'
  <2>1. UNCHANGED << months, short, spared >>
      BY <1>9 DEF UnlinkLost
  <2>2. CASE lost' = lost
    <3>1. \A g \in Keepers \ {Show} : does[g] = "month" => does'[g] = "month" /\ left'[g] = left[g]
        BY <1>1, <1>9 DEF UnlinkLost, RetentionTypeOK, Visited, Turn
    <3>2. QED
        BY <1>2, <2>1, <2>2, <3>1
  <2>3. CASE lost' # lost
    <3>1. /\ c # Show /\ lost' = lost \ {Min(left[c])} /\ left' = left
          /\ does' = [does EXCEPT ![c] = "month"]
        BY <1>9, <2>3 DEF UnlinkLost, Turn
    <3>2. \A g \in Keepers \ {Show} : does[g] = "month" => does'[g] = "month"
        BY <1>1, <3>1 DEF RetentionTypeOK
    <3>3. does'[c] = "month"
        BY <1>1, <3>1 DEF RetentionTypeOK
    <3>4. QED
        BY <1>1, <2>1, <3>1, <3>2, <3>3 DEF ShortInv, Retained, There
  <2>4. QED
      BY <2>2, <2>3
<1>10. ASSUME NEW c \in Keepers, UnlinkMonth(c)
       PROVE  ShortInv'
  <2>1. UNCHANGED << short, lost >> /\ spared \subseteq spared'
      BY <1>10 DEF UnlinkMonth
  <2>2. PICK m : m = Min(left[c])
      OBVIOUS
  <2>3. \A g \in Keepers \ {Show} : g # c => does'[g] = does[g] /\ left'[g] = left[g]
      BY <1>1, <1>10 DEF UnlinkMonth, RetentionTypeOK, Visited, Turn
  <2>4. \A n \in Retained' : n \in Retained /\ months'[n] = months[n]
      BY SMTT(30), <1>1, <1>10 DEF UnlinkMonth, RetentionTypeOK, NoMonth, Retained, There
  <2>5. m \in Retained' => months[m].made \in spared'
      BY <1>1, <1>10, <2>2 DEF UnlinkMonth, RetentionTypeOK, NoMonth, Retained, There
  <2>6. ASSUME NEW n \in Retained', months'[n].made \in short' \ spared'
        PROVE  \/ n \in lost' \/ Len(months'[n].lines) = Room
               \/ \E g \in Keepers \ {Show} : does'[g] = "month" /\ n = Min(left'[g])
    <3>1. n \in Retained /\ months'[n] = months[n] /\ n # m
        BY <2>4, <2>5, <2>6
    <3>2. \/ n \in lost \/ Len(months[n].lines) = Room
          \/ \E g \in Keepers \ {Show} : does[g] = "month" /\ n = Min(left[g])
        BY <1>1, <2>1, <2>6, <3>1 DEF ShortInv
    <3>3. QED
        BY <2>1, <2>2, <2>3, <3>1, <3>2
  <2>7. QED
      BY <2>6 DEF ShortInv
<1>11. ASSUME NEW h \in Writers, OpenThisMonth(h)
       PROVE  ShortInv'
  <2>1. UNCHANGED << short, spared, lost, left >>
      BY <1>11 DEF OpenThisMonth
  <2>2. \A c \in Keepers \ {Show} : does[c] = "month" => does'[c] = "month"
      BY <1>1, <1>11 DEF OpenThisMonth, RetentionTypeOK, Turn
  <2>3. made + 1 \notin short
      BY <1>1 DEF FilesInv, RetentionTypeOK
  <2>4. \A n \in Months : months'[n] = months[n] \/ months'[n].made = made + 1
    <3>1. CASE There(Mine(h))
        BY <1>11, <3>1 DEF OpenThisMonth
    <3>2. CASE ~There(Mine(h))
      <4>1. months' = [months EXCEPT ![Mine(h)] = [made |-> made + 1, lines |-> << >>]]
          BY <1>11, <3>2 DEF OpenThisMonth
      <4>2. QED
          BY <1>1, <4>1 DEF RetentionTypeOK
    <3>3. QED
        BY <3>1, <3>2
  <2>5. QED
      BY <1>1, <2>1, <2>2, <2>3, <2>4 DEF ShortInv, Retained, There
<1>12. ASSUME NEW h \in Writers, WriteMonth(h)
       PROVE  ShortInv'
  <2>1. UNCHANGED << spared, left >> /\ lost \subseteq lost'
      BY <1>12 DEF WriteMonth
  <2>2. \A c \in Keepers \ {Show} : does[c] = "month" => does'[c] = "month"
      BY <1>1, <1>12 DEF WriteMonth, RetentionTypeOK, Turn
  <2>3. /\ \A n \in Months : months'[n].made = months[n].made
        /\ \A n \in Months : months'[n] = months[n] \/ Len(months[n].lines) < Room
        /\ Mine(h) \in Months
      BY <1>1, <1>12, WriteMonths
  <2>4. ASSUME NEW n \in Retained', months'[n].made \in short' \ spared'
        PROVE  \/ n \in lost' \/ Len(months'[n].lines) = Room
               \/ \E g \in Keepers \ {Show} : does'[g] = "month" /\ n = Min(left'[g])
    <3>1. n \in Retained /\ months'[n].made = months[n].made
        BY <2>3 DEF Retained, There
    <3>2. CASE months[n].made \in short
      <4>1. \/ n \in lost \/ Len(months[n].lines) = Room
            \/ \E g \in Keepers \ {Show} : does[g] = "month" /\ n = Min(left[g])
          BY <1>1, <2>1, <2>4, <3>1, <3>2 DEF ShortInv
      <4>2. Len(months[n].lines) = Room => months'[n] = months[n]
        <5>1. Room \in Nat /\ n \in Months
            BY <3>1 DEF Retained
        <5>2. QED
            BY <2>3, <5>1
      <4>3. QED
          BY <2>1, <2>2, <4>1, <4>2
    <3>3. CASE months[n].made \notin short
      <4>1. months[n].made = holds[h] /\ UNCHANGED months
          BY <1>12, <2>4, <3>1, <3>3 DEF WriteMonth
      <4>2. n = Mine(h)
          BY <1>1, <1>12, <3>1, <4>1 DEF FilesInv, WriteMonth
      <4>3. Len(months[n].lines) = Room \/ n \in lost'
          BY <1>12, <2>4, <3>1, <3>3, <4>2 DEF WriteMonth
      <4>4. QED
          BY <4>1, <4>3
    <3>4. QED
        BY <3>2, <3>3
  <2>5. QED
      BY <2>4 DEF ShortInv
<1>13. ASSUME NEW h \in Writers, CannotOpen(h)
       PROVE  ShortInv'
  <2>1. /\ UNCHANGED << months, spared, left >>
        /\ lost' = lost \cup {Mine(h)} /\ short' = short \cup ({months[Mine(h)].made} \ {0})
      BY <1>13 DEF CannotOpen
  <2>2. \A c \in Keepers \ {Show} : does[c] = "month" => does'[c] = "month"
      BY <1>1, <1>13 DEF CannotOpen, RetentionTypeOK, Turn
  <2>3. Mine(h) \in Months
      BY <1>1, <1>13, MonthOfDay DEF UnderWayInv, Mine, CannotOpen
  <2>4. ASSUME NEW n \in Retained, months[n].made = months[Mine(h)].made
        PROVE  n = Mine(h)
      BY <1>1, <2>3, <2>4 DEF FilesInv, Retained, There
  <2>5. QED
      BY <1>1, <2>1, <2>2, <2>4 DEF ShortInv, Retained, There
<1>14. ASSUME NEW c \in Keepers, Stops(c)
       PROVE  ShortInv'
  <2>1. UNCHANGED << months, short, lost, left >> /\ spared \subseteq spared'
      BY <1>14 DEF Stops
  <2>2. \A g \in Keepers \ {Show} : g # c => does'[g] = does[g]
      BY <1>1, <1>14 DEF Stops, RetentionTypeOK, Turn
  <2>3. does[c] = "month" => months[Min(left[c])].made \in spared'
      BY <1>14 DEF Stops
  <2>4. ASSUME NEW n \in Retained, months[n].made \in short \ spared'
        PROVE  \/ n \in lost \/ Len(months[n].lines) = Room
               \/ \E g \in Keepers \ {Show} : does'[g] = "month" /\ n = Min(left[g])
    <3>1. \/ n \in lost \/ Len(months[n].lines) = Room
          \/ \E g \in Keepers \ {Show} : does[g] = "month" /\ n = Min(left[g])
        BY <1>1, <2>1, <2>4 DEF ShortInv
    <3>2. QED
        BY <2>2, <2>3, <2>4, <3>1
  <2>5. QED
      BY <2>1, <2>4 DEF ShortInv, Retained, There
<1>15. CASE UNCHANGED retvars
    BY <1>2, <1>15 DEF retvars
<1>16. QED
    BY <1>3, <1>4, <1>5, <1>6, <1>7, <1>8, <1>9, <1>10, <1>11, <1>12, <1>13, <1>14, <1>15 DEF RetentionNext

LEMMA ShowKept ==
    ASSUME RetentionInv, [RetentionNext]_retvars
    PROVE  ShowInv'
<1> USE RetentionAssumption DEF Keepers
<1>1. RetentionTypeOK /\ ShowInv /\ UnderWayInv /\ FilesInv /\ made \in Nat
    BY DEF RetentionInv, RetentionTypeOK
(* Most steps change nothing `ledger show` looks at, and at most add to,   *)
(* remove or make files.                                                   *)
<1>2. ASSUME UNCHANGED << shown, listed >>, made' \in Nat, made <= made',
             does'[Show] = does[Show], left'[Show] = left[Show], result'[Show] = result[Show],
             \A m \in Months : \/ months'[m].made \notin 1..made
                              \/ /\ months'[m].made = months[m].made
                                 /\ DOMAIN months[m].lines \subseteq DOMAIN months'[m].lines
      PROVE  ShowInv'
  <2>1. \A m \in Months : listed'[m].made <= made'
      BY <1>1, <1>2 DEF ShowInv, RetentionTypeOK
  <2>2. ASSUME does'[Show] \in {"reads", "capped"} \/ result'[Show] \in {"short", "whole"},
               NEW m \in Retained', months'[m].made = listed'[m].made, NEW i \in DOMAIN listed'[m].lines
        PROVE  /\ i \in DOMAIN months'[m].lines
               /\ << months'[m].made, i >> \in shown' \/ (does'[Show] = "reads" /\ m \in left'[Show])
    <3>1. m \in Months /\ months'[m].made # 0
        BY DEF Retained, There
    <3>2. months'[m].made \in 1..made
        BY <1>1, <1>2, <2>2, <3>1 DEF ShowInv, RetentionTypeOK
    <3>3. m \in Retained /\ months[m].made = listed[m].made /\ months'[m].made = months[m].made
        BY <1>2, <2>2, <3>1, <3>2 DEF Retained, There
    <3>4. /\ i \in DOMAIN months[m].lines
          /\ << months[m].made, i >> \in shown \/ (does[Show] = "reads" /\ m \in left[Show])
        BY <1>1, <1>2, <2>2, <3>3 DEF ShowInv
    <3>5. QED
        BY <1>2, <3>1, <3>2, <3>3, <3>4
  <2>3. result'[Show] # "nothing" => does'[Show] = "done"
      BY <1>1, <1>2 DEF ShowInv
  <2>4. QED
      BY <2>1, <2>2, <2>3 DEF ShowInv
<1>3. CASE Tomorrow
    BY <1>1, <1>2, <1>3 DEF Tomorrow, ledgerFiles
<1>4. CASE ReadMonth
  <2>1. UNCHANGED << months, made, listed, result >> /\ does[Show] = "reads"
      BY <1>4 DEF ReadMonth, ledgerFiles
  <2>2. CASE left[Show] = {}
    <3>1. shown' = shown /\ does'[Show] = "capped"
        BY <1>1, <1>4, <2>2 DEF ReadMonth, Turn, RetentionTypeOK
    <3>2. QED
        BY <1>1, <2>1, <2>2, <3>1 DEF ShowInv, Retained, There
  <2>3. CASE left[Show] # {}
    <3>1. PICK m : m = Min(left[Show])
        OBVIOUS
    <3>2. /\ does' = does /\ left'[Show] = left[Show] \ {m}
          /\ shown' = shown \cup {<< months[m].made, i >> : i \in DOMAIN months[m].lines}
        BY <1>1, <1>4, <2>3, <3>1 DEF ReadMonth, Visited, RetentionTypeOK
    <3>3. QED
        BY <1>1, <2>1, <3>2 DEF ShowInv, Retained, There
  <2>4. QED
      BY <2>2, <2>3
<1>5. CASE SayShown
  <2>1. UNCHANGED << months, made, listed, shown, left >> /\ does[Show] = "capped"
      BY <1>5 DEF SayShown, ledgerFiles
  <2>2. does'[Show] = "done"
      BY <1>1, <1>5 DEF SayShown, Turn, RetentionTypeOK
  <2>3. QED
      BY <1>1, <2>1, <2>2 DEF ShowInv, Retained, There
<1>6. CASE PurgeSays
  <2>1. UNCHANGED << months, made, listed, shown, left >>
      BY <1>6 DEF PurgeSays, ledgerFiles
  <2>2. does'[Show] = does[Show] /\ result'[Show] = result[Show]
      BY <1>1, <1>6 DEF PurgeSays, Turn, Reports, RetentionTypeOK
  <2>3. QED
      BY <1>1, <1>2, <2>1, <2>2
<1>7. CASE AllDone
    BY <1>1, <1>2, <1>7 DEF AllDone, retvars
<1>8. ASSUME NEW c \in Keepers, ListFiles(c)
      PROVE  ShowInv'
  <2>1. UNCHANGED << months, made, shown, result >>
      BY <1>8 DEF ListFiles, ledgerFiles
  <2>2. CASE c = Show
    <3>1. listed' = months /\ does'[Show] = "reads" /\ left'[Show] = Retained
        BY <1>1, <1>8, <2>2 DEF ListFiles, Turn, RetentionTypeOK
    <3>2. result[Show] = "nothing"
        BY <1>1, <1>8, <2>2 DEF ListFiles, ShowInv
    <3>3. QED
        BY <1>1, <2>1, <3>1, <3>2 DEF ShowInv, FilesInv, Retained, There
  <2>3. CASE c # Show
    <3>1. listed' = listed /\ does'[Show] = does[Show] /\ left'[Show] = left[Show]
        BY <1>1, <1>8, <2>3 DEF ListFiles, Turn, RetentionTypeOK
    <3>2. QED
        BY <1>1, <1>2, <2>1, <3>1
  <2>4. QED
      BY <2>2, <2>3
<1>9. ASSUME NEW c \in Keepers, UnlinkLost(c)
      PROVE  ShowInv'
  <2>1. UNCHANGED << months, made, shown, result, listed >> /\ c # Show
      BY <1>9 DEF UnlinkLost
  <2>2. does'[Show] = does[Show] /\ left'[Show] = left[Show]
      BY <1>1, <1>9 DEF UnlinkLost, Visited, Turn, RetentionTypeOK
  <2>3. QED
      BY <1>1, <1>2, <2>1, <2>2
<1>10. ASSUME NEW c \in Keepers, UnlinkMonth(c)
       PROVE  ShowInv'
  <2>1. UNCHANGED << made, shown, result, listed >> /\ c # Show
      BY <1>1, <1>10 DEF UnlinkMonth, RetentionTypeOK
  <2>2. does'[Show] = does[Show] /\ left'[Show] = left[Show]
      BY <1>1, <1>10, <2>1 DEF UnlinkMonth, Visited, Turn, RetentionTypeOK
  <2>3. \A m \in Months : months'[m] = months[m] \/ months'[m].made = 0
      BY <1>1, <1>10 DEF UnlinkMonth, RetentionTypeOK, NoMonth
  <2>4. \A m \in Months : \/ months'[m].made \notin 1..made
                           \/ /\ months'[m].made = months[m].made
                              /\ DOMAIN months[m].lines \subseteq DOMAIN months'[m].lines
      BY <1>1, <2>3
  <2>5. QED
      BY <1>1, <1>2, <2>1, <2>2, <2>4
<1>11. ASSUME NEW h \in Writers, OpenThisMonth(h)
       PROVE  ShowInv'
  <2>1. UNCHANGED << left, shown, result, listed >> /\ h # Show
      BY <1>11 DEF OpenThisMonth
  <2>2. does'[Show] = does[Show]
      BY <1>1, <1>11, <2>1 DEF OpenThisMonth, Turn, RetentionTypeOK
  <2>3. CASE There(Mine(h))
    <3>1. UNCHANGED << months, made >>
        BY <1>11, <2>3 DEF OpenThisMonth
    <3>2. QED
        BY <1>1, <1>2, <2>1, <2>2, <3>1
  <2>4. CASE ~There(Mine(h))
    <3>1. made' = made + 1 /\ months' = [months EXCEPT ![Mine(h)] = [made |-> made + 1, lines |-> << >>]]
        BY <1>11, <2>4 DEF OpenThisMonth
    <3>2. \A m \in Months : months'[m] = months[m] \/ months'[m].made = made + 1
        BY <1>1, <3>1 DEF RetentionTypeOK
    <3>3. \A m \in Months : \/ months'[m].made \notin 1..made
                             \/ /\ months'[m].made = months[m].made
                                /\ DOMAIN months[m].lines \subseteq DOMAIN months'[m].lines
        BY <1>1, <3>2
    <3>4. made' \in Nat /\ made <= made'
        BY <1>1, <3>1
    <3>5. QED
        BY <1>2, <2>1, <2>2, <3>3, <3>4
  <2>5. QED
      BY <2>3, <2>4
<1>12. ASSUME NEW h \in Writers, WriteMonth(h)
       PROVE  ShowInv'
  <2>1. UNCHANGED << made, left, shown, listed >> /\ h # Show
      BY <1>12 DEF WriteMonth
  <2>2. does'[Show] = does[Show] /\ result'[Show] = result[Show]
      BY <1>1, <1>12, <2>1 DEF WriteMonth, Turn, Reports, RetentionTypeOK
  <2>3. ASSUME NEW m \in Months
        PROVE  /\ months'[m].made = months[m].made
               /\ DOMAIN months[m].lines \subseteq DOMAIN months'[m].lines
    <3>1. months'[m].made = months[m].made
        BY <1>1, <1>12, WriteMonths
    <3>2. CASE months'[m] = months[m]
        BY <3>1, <3>2
    <3>3. CASE m = Mine(h) /\ months'[m].lines = Append(months[m].lines, moment[h])
      <4>1. months[m].lines \in Seq(Nat) /\ moment[h] \in Nat
          BY <1>1, <1>12, WriteMonths DEF RetentionTypeOK
      <4>2. DOMAIN months'[m].lines = 1..(Len(months[m].lines) + 1)
          BY <3>3, <4>1
      <4>3. DOMAIN months[m].lines = 1..Len(months[m].lines) /\ Len(months[m].lines) \in Nat
          BY <4>1, LenProperties
      <4>4. QED
          BY <3>1, <4>2, <4>3
    <3>4. QED
        BY <1>1, <1>12, <3>2, <3>3, WriteMonths
  <2>4. QED
      BY <1>1, <1>2, <2>1, <2>2, <2>3
<1>13. ASSUME NEW h \in Writers, CannotOpen(h)
       PROVE  ShowInv'
  <2>1. UNCHANGED << months, made, left, shown, listed >> /\ h # Show
      BY <1>13 DEF CannotOpen
  <2>2. does'[Show] = does[Show] /\ result'[Show] = result[Show]
      BY <1>1, <1>13, <2>1 DEF CannotOpen, Turn, Reports, RetentionTypeOK
  <2>3. QED
      BY <1>1, <1>2, <2>1, <2>2
<1>14. ASSUME NEW c \in Keepers, Stops(c)
       PROVE  ShowInv'
  <2>1. UNCHANGED << months, made, left, shown, listed >> /\ does[c] # "done"
      BY <1>14 DEF Stops
  <2>2. CASE c = Show
    <3>1. does'[Show] = "done" /\ result[Show] = "nothing" /\ result'[Show] \in {"nothing", "raised"}
        BY <1>1, <1>14, <2>1, <2>2 DEF Stops, Turn, Reports, RetentionTypeOK, ShowInv
    <3>2. QED
        BY <1>1, <2>1, <3>1 DEF ShowInv
  <2>3. CASE c # Show
    <3>1. does'[Show] = does[Show] /\ result'[Show] = result[Show]
        BY <1>1, <1>14, <2>3 DEF Stops, Turn, Reports, RetentionTypeOK
    <3>2. QED
        BY <1>1, <1>2, <2>1, <3>1
  <2>4. QED
      BY <2>2, <2>3
<1>15. CASE UNCHANGED retvars
    BY <1>1, <1>2, <1>15 DEF retvars
<1>16. QED
    BY <1>3, <1>4, <1>5, <1>6, <1>7, <1>8, <1>9, <1>10, <1>11, <1>12, <1>13, <1>14, <1>15 DEF RetentionNext

LEMMA RetentionInitially == RetentionInit => RetentionInv
<1> SUFFICES ASSUME RetentionInit
             PROVE  RetentionInv
    OBVIOUS
<1> USE RetentionAssumption DEF Keepers
<1>1. /\ 1 \in Months /\ Months \subseteq Nat /\ \A m \in Months : FirstDay[m + 1] \in Nat
    BY Calendar, EndIsNext
<1>2. FirstDay[1 + 1] - 1 \in Nat
  <2>1. 1 \in 1..(Len(FirstDay) - 1) /\ 1 \in 1..Len(FirstDay)
      BY Calendar
  <2>2. FirstDay[1] + 28 <= FirstDay[1 + 1] /\ FirstDay[1] \in Nat /\ FirstDay[1 + 1] \in Nat
      BY <1>1, <2>1, Calendar
  <2>3. QED
      BY <2>2
<1>3. << FirstDay[1 + 1] - 1 >> \in Seq(Nat)
    BY <1>2
<1>4. /\ months \in [Months -> [made : Nat, lines : Seq(Nat)]] /\ listed = months /\ made = 1
      /\ \A m \in Months : IF m = 1 THEN months[m].made = 1 /\ months[m].lines = << FirstDay[1 + 1] - 1 >>
                             ELSE months[m].made = 0 /\ months[m].lines = << >>
    BY <1>3 DEF RetentionInit, NoMonth
<1>5. Min(Days) \in Days
    BY LeastOf
<1>6. RetentionTypeOK
    BY <1>1, <1>4, <1>5 DEF RetentionInit, RetentionTypeOK, Points
<1>7. UnderWayInv
    BY DEF RetentionInit, UnderWayInv
<1>8. FilesInv
    BY <1>1, <1>4 DEF RetentionInit, FilesInv, Retained, There
<1>9. DatesInv
  <2>1. \A m \in Months : \A i \in DOMAIN months[m].lines : m = 1 /\ months[m].lines[i] = FirstDay[1 + 1] - 1
      BY <1>4
  <2>2. \A m \in Months : \A i \in DOMAIN months[m].lines : months[m].lines[i] < FirstDay[m + 1]
      BY <1>1, <1>2, <2>1
  <2>3. QED
      BY <2>2 DEF RetentionInit, DatesInv
<1>10. ShortInv
    BY <1>4 DEF RetentionInit, ShortInv, Retained, There
<1>11. ShowInv
    BY <1>1, <1>4 DEF RetentionInit, ShowInv
<1>12. QED
    BY <1>6, <1>7, <1>8, <1>9, <1>10, <1>11 DEF RetentionInv

(* The retention is typed, files keep their numbers, and the parts of the  *)
(* invariant hold together.                                                *)
THEOREM RetentionInvariant == RetentionSpec => []RetentionInv
<1>1. RetentionInv /\ [RetentionNext]_retvars => RetentionInv'
    BY RetentionTypeKept, UnderWayKept, FilesKept, DatesKept, ShortKept, ShowKept DEF RetentionInv
<1>2. QED
    BY <1>1, RetentionInitially, PTL DEF RetentionSpec

(* Whatever hooks, `ledger purge` and `ledger show` do at once, on whatever *)
(* days: no record goes before it is thirty days old, a short month says so *)
(* until a keeper comes to it, and `ledger show` shows what it found        *)
(* (session/ledger.py prune, purge, capped, entries).                       *)
THEOREM RetentionKept == RetentionSpec => []RetentionHolds
<1>1. ASSUME RetentionInv
      PROVE  RetentionHolds
  <2>1. RetentionTypeOK /\ UnderWayInv /\ DatesInv /\ ShortInv /\ ShowInv
      BY <1>1 DEF RetentionInv
  <2>2. ASSUME NEW m \in Retained, months[m].made \in short \ spared
        PROVE  Capped \/ Going(m)
    <3>1. CASE m \in lost \/ Len(months[m].lines) = Room
        BY <3>1 DEF Capped
    <3>2. ASSUME NEW c \in Keepers \ {Show}, does[c] = "month", m = Min(left[c])
          PROVE  Going(m)
      <4>1. left[c] # {}
          BY <2>1, <3>2 DEF UnderWayInv
      <4>2. m \in left[c]
          BY <2>1, <3>2, <4>1, AtMonth
      <4>3. QED
          BY <3>2, <4>2 DEF Going
    <3>3. QED
        BY <2>1, <2>2, <3>1, <3>2 DEF ShortInv
  <2>3. result[Show] \in {"short", "whole"} => \A m \in Retained : months[m].made = listed[m].made =>
            \A i \in DOMAIN listed[m].lines :
                << months[m].made, i >> \in shown \/ (does[Show] = "reads" /\ m \in left[Show])
      BY <2>1 DEF ShowInv
  <2>4. result[Show] # "nothing" => does[Show] = "done"
      BY <2>1 DEF ShowInv
  <2>5. QED
      BY <2>1, <2>2, <2>3, <2>4 DEF RetentionHolds, DatesInv
<1>2. QED
    BY <1>1, RetentionInvariant, PTL

=============================================================================
