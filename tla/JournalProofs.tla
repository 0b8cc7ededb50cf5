---------------------------- MODULE JournalProofs ----------------------------
(***************************************************************************)
(* Proofs about Journal, for any writers, readers, line size and cap.      *)
(***************************************************************************)
EXTENDS Journal, SequenceTheorems, TLAPS

Unit == Writers \X (1..MaxEntry)

(* A write puts the next units of a line behind everything in the file.    *)
LEMMA WriteAppends ==
    ASSUME NEW w \in Writers, TypeOK, WriteInv, pc[w] = "write",
           NEW to \in (sent[w] + 1)..length[w],
           file' = file \o Units(w, sent[w] + 1, to)
    PROVE  /\ file' \in Seq(Unit)
           /\ Len(file') = Len(file) + (to - sent[w])
           /\ \A i \in 1..Len(file) : file'[i] = file[i]
           /\ \A k \in 1..(to - sent[w]) : file'[Len(file) + k] = << w, sent[w] + k >>
<1> DEFINE new == Units(w, sent[w] + 1, to)
<1>1. /\ sent[w] \in Nat /\ length[w] \in Nat /\ length[w] <= MaxEntry
      /\ file \in Seq(Unit)
    BY SizesAssumption DEF TypeOK, WriteInv, WriterInv, AtWork, InFile, Unit
<1>2. new = [k \in 1..(to - sent[w]) |-> << w, sent[w] + k >>]
    BY SMTT(30), <1>1 DEF Units
<1>3. \A k \in 1..(to - sent[w]) : << w, sent[w] + k >> \in Unit
    BY SMTT(30), <1>1, SizesAssumption DEF Unit
<1>4. new \in Seq(Unit) /\ Len(new) = to - sent[w]
  <2>1. to - sent[w] \in Nat
      BY <1>1
  <2>2. new \in [1..(to - sent[w]) -> Unit]
      BY <1>2, <1>3
  <2> HIDE DEF new, Unit
  <2>a. \A n \in Nat : [1..n -> Unit] \subseteq Seq(Unit)
      BY SeqDef
  <2>3. new \in Seq(Unit)
      BY <2>1, <2>2, <2>a
  <2>4. DOMAIN new = 1..(to - sent[w])
      BY <2>2
  <2>5. Len(new) \in Nat /\ DOMAIN new = 1..Len(new)
      BY <2>3, LenProperties
  <2>6. QED
      BY <2>1, <2>3, <2>4, <2>5
<1> HIDE DEF new, Unit
<1>5. file' = file \o new
    BY DEF new
<1>6. /\ file \o new \in Seq(Unit) /\ Len(file \o new) = Len(file) + Len(new)
      /\ \A i \in 1..(Len(file) + Len(new)) :
            (file \o new)[i] = IF i <= Len(file) THEN file[i] ELSE new[i - Len(file)]
    BY <1>1, <1>4, ConcatProperties
<1>7. Len(file) \in Nat
    BY <1>1, LenProperties
<1>8. \A i \in 1..Len(file) : file'[i] = file[i]
    BY <1>1, <1>4, <1>5, <1>6, <1>7
<1>9. \A k \in 1..(to - sent[w]) : file'[Len(file) + k] = << w, sent[w] + k >>
  <2> SUFFICES ASSUME NEW k \in 1..(to - sent[w])
               PROVE  file'[Len(file) + k] = << w, sent[w] + k >>
      OBVIOUS
  <2>1. file'[Len(file) + k] = new[Len(file) + k - Len(file)]
      BY <1>1, <1>4, <1>5, <1>6, <1>7, SMTT(60)
  <2>2. Len(file) + k - Len(file) = k
      BY <1>7
  <2>3. QED
      BY <1>2, <2>1, <2>2
<1>10. QED
    BY <1>4, <1>5, <1>6, <1>8, <1>9

(* What a failed append leaves is the file as it found it.                 *)
LEMMA TruncateCuts ==
    ASSUME NEW w \in Writers, TypeOK, WriteInv, pc[w] = "truncate",
           file' = SubSeq(file, 1, before[w])
    PROVE  /\ file' \in Seq(Unit)
           /\ Len(file') = before[w] /\ before[w] <= Len(file)
           /\ \A i \in 1..before[w] : file'[i] = file[i]
<1>1. /\ before[w] \in Nat /\ sent[w] \in Nat /\ file \in Seq(Unit)
      /\ Len(file) = before[w] + sent[w]
    BY SizesAssumption DEF TypeOK, WriteInv, WriterInv, AtWork, InFile, Unit
<1>2. \A i \in 1..before[w] : file[i] \in Unit
    BY <1>1, ElementOfSeq
<1> HIDE DEF Unit
<1>3. /\ file' \in Seq(Unit)
      /\ Len(file') = IF 1 <= before[w] THEN before[w] - 1 + 1 ELSE 0
      /\ \A i \in 1..(before[w] - 1 + 1) : file'[i] = file[1 + i - 1]
    BY <1>1, <1>2, SubSeqProperties
<1>4. QED
    BY <1>1, <1>3

(* Every step keeps every variable in its type. *)
LEMMA TypeStep ==
    TypeOK /\ WriteInv /\ [Next]_vars => TypeOK'
<1> SUFFICES ASSUME TypeOK, WriteInv, [Next]_vars
             PROVE  TypeOK'
    OBVIOUS
<1> USE SizesAssumption DEF Procs, Goto, Unlock, Ends, TypeOK
<1>1. ASSUME NEW w \in Writers, WriterStep(w)
      PROVE  TypeOK'
  <2>1. CASE GiveUp(w)
      BY <2>1 DEF GiveUp
  <2>2. CASE OpenToAppend(w)
      BY <2>2 DEF OpenToAppend
  <2>3. CASE LockToAppend(w)
      BY <2>3 DEF LockToAppend
  <2>4. CASE LockFails(w)
      BY <2>4 DEF LockFails
  <2>5. CASE Stat(w)
    <3>1. Len(file) \in 0..Limit
        BY LenProperties DEF WriteInv
    <3>2. QED
        BY <2>5, <3>1 DEF Stat
  <2>6. CASE Write(w)
    <3>1. PICK to \in (sent[w] + 1)..length[w] :
             /\ file' = file \o Units(w, sent[w] + 1, to)
             /\ sent' = [sent EXCEPT ![w] = to]
             /\ Goto(w, IF to = length[w] THEN "wrote" ELSE "write")
        BY <2>6 DEF Write
    <3>2. pc[w] = "write"
        BY <2>6 DEF Write
    <3>3. file' \in Seq(Writers \X (1..MaxEntry))
        BY <3>1, <3>2, WriteAppends DEF Unit
    <3>4. to \in 0..MaxEntry
        BY <3>2 DEF WriteInv, WriterInv, InFile
    <3>5. QED
        BY <2>6, <3>1, <3>3, <3>4 DEF Write
  <2>7. CASE WriteFails(w)
      BY <2>7 DEF WriteFails
  <2>8. CASE Truncate(w)
    <3>1. file' \in Seq(Writers \X (1..MaxEntry))
        BY <2>8, TruncateCuts DEF Truncate, Unit
    <3>2. QED
        BY <2>8, <3>1 DEF Truncate
  <2>9. CASE Return(w)
      BY <2>9 DEF Return
  <2>10. CASE MarkLost(w)
      BY <2>10 DEF MarkLost
  <2>11. QED
      BY <1>1, <2>1, <2>2, <2>3, <2>4, <2>5, <2>6, <2>7, <2>8, <2>9, <2>10 DEF WriterStep
<1>2. ASSUME NEW r \in Readers, ReaderStep(r)
      PROVE  TypeOK'
  <2>1. CASE OpenToRead(r)
      BY <2>1 DEF OpenToRead
  <2>2. CASE LockToRead(r)
      BY <2>2 DEF LockToRead
  <2>3. CASE ReadFails(r)
      BY <2>3 DEF ReadFails
  <2>4. CASE ReadChunk(r)
    <3>1. PICK to \in (Len(got[r]) + 1)..Len(file) :
             got' = [got EXCEPT ![r] = @ \o SubSeq(file, Len(@) + 1, to)]
        BY <2>4 DEF ReadChunk
    <3>2. SubSeq(file, Len(got[r]) + 1, to) \in Seq(Unit)
        BY <3>1, LenProperties, ElementOfSeq, SubSeqProperties DEF Unit
    <3>3. got[r] \o SubSeq(file, Len(got[r]) + 1, to) \in Seq(Unit)
        BY <3>2, ConcatProperties DEF Unit
    <3>4. QED
        BY <2>4, <3>1, <3>3 DEF ReadChunk, Unit
  <2>5. CASE ReadEnds(r)
      BY <2>5 DEF ReadEnds
  <2>6. QED
      BY <1>2, <2>1, <2>2, <2>3, <2>4, <2>5 DEF ReaderStep
<1>3. ASSUME NEW p \in Procs, Dies(p)
      PROVE  TypeOK'
    BY <1>3 DEF Dies
<1>4. CASE UNCHANGED vars
    BY <1>4 DEF vars
<1>5. QED
    BY <1>1, <1>2, <1>3, <1>4 DEF Next, AllOver

(* Every step keeps the lock's exclusion. *)
LEMMA LockStep ==
    TypeOK /\ LockInv /\ [Next]_vars => LockInv'
<1> SUFFICES ASSUME TypeOK, LockInv, [Next]_vars
             PROVE  LockInv'
    OBVIOUS
<1> USE SizesAssumption DEF Procs, Goto, Unlock, Ends, TypeOK, LockInv, InFile
<1>1. ASSUME NEW w \in Writers, WriterStep(w)
      PROVE  LockInv'
  <2>1. CASE GiveUp(w)
      BY <2>1 DEF GiveUp
  <2>2. CASE OpenToAppend(w)
      BY <2>2 DEF OpenToAppend
  <2>3. CASE LockToAppend(w)
      BY <2>3 DEF LockToAppend, IsFree
  <2>4. CASE LockFails(w)
      BY <2>4 DEF LockFails
  <2>5. CASE Stat(w)
    <3>1. UNCHANGED << length, file, sent, lost, got >>
        BY <2>5 DEF Stat
    <3>2. CASE Goto(w, "write") /\ UNCHANGED << locked, outcome >>
      <4>1. locked' = locked /\ \A v \in Writers : v # w => pc'[v] = pc[v]
          BY <3>2
      <4>2. locked[w] = "EX"
          BY <2>5 DEF Stat
      <4> QED
          BY <4>1, <4>2
    <3>3. CASE Goto(w, "done") /\ Unlock(w)
      <4>1. \A p \in Procs : locked'[p] = IF p = w THEN "none" ELSE locked[p]
          BY <3>3
      <4>2. \A v \in Writers : pc'[v] = IF v = w THEN "done" ELSE pc[v]
          BY <3>3
      <4> QED
          BY <4>1, <4>2
    <3> QED
        BY <2>5, <3>2, <3>3 DEF Stat
  <2>6. CASE Write(w)
      BY <2>6 DEF Write
  <2>7. CASE WriteFails(w)
      BY <2>7 DEF WriteFails
  <2>8. CASE Truncate(w)
      BY <2>8 DEF Truncate
  <2>9. CASE Return(w)
      BY <2>9 DEF Return
  <2>10. CASE MarkLost(w)
      BY <2>10 DEF MarkLost
  <2>11. QED
      BY <1>1, <2>1, <2>2, <2>3, <2>4, <2>5, <2>6, <2>7, <2>8, <2>9, <2>10 DEF WriterStep
<1>2. ASSUME NEW r \in Readers, ReaderStep(r)
      PROVE  LockInv'
  <2>1. CASE OpenToRead(r)
      BY <2>1 DEF OpenToRead
  <2>2. CASE LockToRead(r)
      BY <2>2 DEF LockToRead, IsFree
  <2>3. CASE ReadFails(r)
      BY <2>3 DEF ReadFails
  <2>4. CASE ReadChunk(r)
      BY <2>4 DEF ReadChunk
  <2>5. CASE ReadEnds(r)
      BY <2>5 DEF ReadEnds
  <2>6. QED
      BY <1>2, <2>1, <2>2, <2>3, <2>4, <2>5 DEF ReaderStep
<1>3. ASSUME NEW p \in Procs, Dies(p)
      PROVE  LockInv'
    BY <1>3 DEF Dies
<1>4. CASE UNCHANGED vars
    BY <1>4 DEF vars
<1>5. QED
    BY <1>1, <1>2, <1>3, <1>4 DEF Next, AllOver

(* The same, of the action. *)
LEMMA WriteDoes ==
    ASSUME NEW w \in Writers, TypeOK, WriteInv, Write(w)
    PROVE  \E to \in (sent[w] + 1)..length[w] :
             /\ sent' = [sent EXCEPT ![w] = to]
             /\ Goto(w, IF to = length[w] THEN "wrote" ELSE "write")
             /\ Len(file') = Len(file) + (to - sent[w])
             /\ \A i \in 1..Len(file) : file'[i] = file[i]
             /\ \A k \in 1..(to - sent[w]) : file'[Len(file) + k] = << w, sent[w] + k >>
<1>1. pc[w] = "write"
    BY DEF Write
<1>2. PICK to \in (sent[w] + 1)..length[w] :
         /\ file' = file \o Units(w, sent[w] + 1, to)
         /\ sent' = [sent EXCEPT ![w] = to]
         /\ Goto(w, IF to = length[w] THEN "wrote" ELSE "write")
    BY DEF Write
<1>3. /\ Len(file') = Len(file) + (to - sent[w])
      /\ \A i \in 1..Len(file) : file'[i] = file[i]
      /\ \A k \in 1..(to - sent[w]) : file'[Len(file) + k] = << w, sent[w] + k >>
    BY <1>1, <1>2, WriteAppends
<1> QED
    BY <1>2, <1>3

(* Every step keeps what the writer at work has put in the file, and the  *)
(* room it has there.                                                      *)
LEMMA WriteStep ==
    TypeOK /\ LockInv /\ WriteInv /\ [Next]_vars => WriteInv'
<1> SUFFICES ASSUME TypeOK, LockInv, WriteInv, [Next]_vars
             PROVE  WriteInv'
    OBVIOUS
<1> USE SizesAssumption DEF Procs, Goto, Unlock, Ends, TypeOK, LockInv, WriteInv, WriterInv, InFile
<1>0. UNCHANGED << length, file, before, sent >> =>
         \A v \in Writers : AtWork(v) => AtWork(v)'
    BY DEF AtWork
<1>1. ASSUME NEW w \in Writers, WriterStep(w)
      PROVE  WriteInv'
  <2>1. CASE GiveUp(w)
      BY <1>0, <2>1 DEF GiveUp
  <2>2. CASE OpenToAppend(w)
      BY <1>0, <2>2 DEF OpenToAppend
  <2>3. CASE LockToAppend(w)
      BY <1>0, <2>3 DEF LockToAppend
  <2>4. CASE LockFails(w)
      BY <1>0, <2>4 DEF LockFails
  <2>5. CASE Stat(w)
    <3>1. Len(file) \in Nat
        BY LenProperties
    <3>a. pc[w] = "stat"
        BY <2>5 DEF Stat
    <3>b. locked[w] = "EX" /\ \A v \in Writers : v # w => locked[v] = "none"
        BY <3>a
    <3>c. \A v \in Writers : v # w => pc[v] \notin InFile
        BY <3>b
    <3>2. CASE Fits(w)
      <4>1. AtWork(w)'
          BY <2>5, <3>1, <3>2 DEF Stat, Fits, AtWork
      <4>2. QED
          BY <2>5, <3>1, <3>2, <3>c, <4>1 DEF Stat
    <3>3. CASE ~Fits(w)
      <4>a. pc' = [pc EXCEPT ![w] = "done"]
          BY <2>5, <3>3 DEF Stat
      <4>1. \A v \in Writers : pc'[v] \notin InFile
          BY <3>c, <4>a
      <4>2. QED
          BY <2>5, <3>1, <3>3, <4>1 DEF Stat
    <3>4. QED
        BY <3>2, <3>3
  <2>6. CASE Write(w)
    <3> HIDE DEF Procs, Goto, Unlock, Ends, TypeOK, LockInv, WriteInv, WriterInv, InFile
    <3>1. PICK to \in (sent[w] + 1)..length[w] :
             /\ sent' = [sent EXCEPT ![w] = to]
             /\ Goto(w, IF to = length[w] THEN "wrote" ELSE "write")
             /\ Len(file') = Len(file) + (to - sent[w])
             /\ \A i \in 1..Len(file) : file'[i] = file[i]
             /\ \A k \in 1..(to - sent[w]) : file'[Len(file) + k] = << w, sent[w] + k >>
        BY <2>6, WriteDoes
    <3>2. pc[w] = "write"
        BY <2>6 DEF Write
    <3>3. /\ Len(file') = Len(file) + (to - sent[w])
          /\ \A i \in 1..Len(file) : file'[i] = file[i]
          /\ \A k \in 1..(to - sent[w]) : file'[Len(file) + k] = << w, sent[w] + k >>
        BY <3>1
    <3> USE DEF Procs, Goto, Unlock, Ends, TypeOK, LockInv, WriteInv, WriterInv, InFile
    <3>4. Len(file) \in Nat
        BY LenProperties
    <3>5. UNCHANGED << length, locked, before, lost, outcome, got >>
        BY <2>6 DEF Write
    <3>a. Len(file) = before[w] + sent[w] /\ before[w] + length[w] <= Limit
        BY <3>2 DEF AtWork
    <3>b. sent'[w] = to /\ before'[w] = before[w] /\ to <= length[w]
        BY <3>1, <3>5
    <3>6. Len(file') = before'[w] + sent'[w] /\ Len(file') <= Limit
        BY <3>3, <3>4, <3>a, <3>b, SMTT(60)
    <3>7. \A k \in 1..sent'[w] : file'[before'[w] + k] = << w, k >>
      <4> SUFFICES ASSUME NEW k \in 1..to
                   PROVE  file'[before[w] + k] = << w, k >>
          BY <3>1, <3>5
      <4>1. CASE k <= sent[w]
        <5>1. AtWork(w) /\ before[w] \in Nat /\ sent[w] \in Nat
            BY <3>2
        <5>2. k \in 1..sent[w]
            BY <4>1, <5>1
        <5> HIDE DEF TypeOK, LockInv, WriteInv, WriterInv
        <5>3. before[w] + k \in 1..Len(file)
            BY <5>1, <5>2 DEF AtWork
        <5>4. file[before[w] + k] = << w, k >>
            BY <5>1, <5>2 DEF AtWork
        <5>5. QED
            BY <3>3, <5>3, <5>4
      <4>2. CASE k > sent[w]
        <5>1. k - sent[w] \in 1..(to - sent[w])
            BY <4>2, SMTT(60)
        <5>2. file'[Len(file) + (k - sent[w])] = << w, sent[w] + (k - sent[w]) >>
            BY <3>3, <5>1
        <5>3. Len(file) + (k - sent[w]) = before[w] + k /\ sent[w] + (k - sent[w]) = k
            BY <3>2, <3>4, SMTT(60) DEF AtWork
        <5>4. QED
            BY <5>2, <5>3
      <4>3. QED
          BY <4>1, <4>2, SMTT(60)
    <3>8. \A v \in Writers : v # w => pc[v] \notin InFile
        BY <3>2
    <3>9. \A v \in Writers : v # w => pc'[v] = pc[v] /\ sent'[v] = sent[v]
        BY <3>1
    <3>10. pc'[w] = "write" => sent'[w] < length'[w]
        BY <3>1, <3>5
    <3>11. pc'[w] = "wrote" => sent'[w] = length'[w]
        BY <3>1, <3>5
    <3>12. pc'[w] \in InFile
        BY <3>1
    <3>13. AtWork(w)'
        BY <3>1, <3>2, <3>5, <3>6, <3>7 DEF AtWork
    <3>14. QED
        BY <3>2, <3>5, <3>6, <3>8, <3>9, <3>10, <3>11, <3>12, <3>13, SMTT(60)
  <2>7. CASE WriteFails(w)
      BY <1>0, <2>7 DEF WriteFails
  <2>8. CASE Truncate(w)
    <3>1. /\ Len(file') = before[w] /\ before[w] <= Len(file)
          /\ \A i \in 1..before[w] : file'[i] = file[i]
        BY <2>8, TruncateCuts DEF Truncate
    <3>2. Len(file) \in Nat
        BY LenProperties
    <3>3. \A v \in Writers : v # w => pc[v] \notin InFile
        BY <2>8 DEF Truncate
    <3>4. QED
        BY <2>8, <3>1, <3>2, <3>3 DEF Truncate
  <2>9. CASE Return(w)
      BY <1>0, <2>9 DEF Return
  <2>10. CASE MarkLost(w)
      BY <1>0, <2>10 DEF MarkLost
  <2>11. QED
      BY <1>1, <2>1, <2>2, <2>3, <2>4, <2>5, <2>6, <2>7, <2>8, <2>9, <2>10 DEF WriterStep
<1>2. ASSUME NEW r \in Readers, ReaderStep(r)
      PROVE  WriteInv'
  <2>1. CASE OpenToRead(r)
      BY <1>0, <2>1 DEF OpenToRead
  <2>2. CASE LockToRead(r)
      BY <1>0, <2>2 DEF LockToRead
  <2>3. CASE ReadFails(r)
      BY <1>0, <2>3 DEF ReadFails
  <2>4. CASE ReadChunk(r)
      BY <1>0, <2>4 DEF ReadChunk
  <2>5. CASE ReadEnds(r)
      BY <1>0, <2>5 DEF ReadEnds
  <2>6. QED
      BY <1>2, <2>1, <2>2, <2>3, <2>4, <2>5 DEF ReaderStep
<1>3. ASSUME NEW p \in Procs, Dies(p)
      PROVE  WriteInv'
    BY <1>0, <1>3 DEF Dies
<1>4. CASE UNCHANGED vars
    BY <1>0, <1>4 DEF vars
<1>5. QED
    BY <1>1, <1>2, <1>3, <1>4 DEF Next, AllOver

(* Every step keeps the kept lines below what a writer may take back. *)
LEMMA KeptStep ==
    TypeOK /\ LockInv /\ WriteInv /\ KeptInv /\ [Next]_vars => KeptInv'
<1> SUFFICES ASSUME TypeOK, LockInv, WriteInv, KeptInv, [Next]_vars
             PROVE  KeptInv'
    OBVIOUS
<1> USE SizesAssumption DEF Procs, Goto, Unlock, Ends, TypeOK
<1>0. ASSUME UNCHANGED << length, file, before >>,
             \A v \in Writers : pc'[v] \in InFile => pc[v] \in InFile,
             NEW w \in Writers, outcome[w] = "kept"
      PROVE  \E at \in 0..Limit : StandsAt(w, at)'
  <2>1. PICK at \in 0..Limit : StandsAt(w, at)
      BY <1>0 DEF KeptInv
  <2>2. StandsAt(w, at)'
      BY <1>0, <2>1 DEF StandsAt, HasLineAt
  <2>3. QED
      BY <2>2
<1>1. ASSUME NEW w \in Writers, WriterStep(w)
      PROVE  KeptInv'
  <2>1. CASE GiveUp(w)
      BY <1>0, <2>1 DEF GiveUp, KeptInv, InFile
  <2>2. CASE OpenToAppend(w)
      BY <1>0, <2>2 DEF OpenToAppend, KeptInv, InFile
  <2>3. CASE LockToAppend(w)
      BY <1>0, <2>3 DEF LockToAppend, KeptInv, InFile
  <2>4. CASE LockFails(w)
      BY <1>0, <2>4 DEF LockFails, KeptInv, InFile
  <2>5. CASE Stat(w)
    <3>1. Len(file) \in Nat
        BY LenProperties
    <3>2. ASSUME NEW v \in Writers, outcome'[v] = "kept"
          PROVE  \E at \in 0..Limit : StandsAt(v, at)'
      <4>1. outcome[v] = "kept"
          BY <2>5, <3>2 DEF Stat
      <4>2. PICK at \in 0..Limit : StandsAt(v, at)
          BY <4>1 DEF KeptInv
      <4>3. StandsAt(v, at)'
          BY <2>5, <3>1, <4>2 DEF Stat, StandsAt, HasLineAt, InFile
      <4>4. QED
          BY <4>3
    <3>3. QED
        BY <3>2 DEF KeptInv
  <2>6. CASE Write(w)
    <3>1. PICK to \in (sent[w] + 1)..length[w] :
             /\ file' = file \o Units(w, sent[w] + 1, to)
             /\ sent' = [sent EXCEPT ![w] = to]
             /\ Goto(w, IF to = length[w] THEN "wrote" ELSE "write")
        BY <2>6 DEF Write
    <3>2. pc[w] = "write"
        BY <2>6 DEF Write
    <3>3. /\ Len(file') = Len(file) + (to - sent[w])
          /\ \A i \in 1..Len(file) : file'[i] = file[i]
          /\ \A k \in 1..(to - sent[w]) : file'[Len(file) + k] = << w, sent[w] + k >>
        BY <3>1, <3>2, WriteAppends
    <3>4. Len(file) \in Nat
        BY LenProperties
    <3>5. UNCHANGED << length, locked, before, lost, outcome, got >>
        BY <2>6 DEF Write
    <3>6. ASSUME NEW v \in Writers, outcome'[v] = "kept"
          PROVE  \E at \in 0..Limit : StandsAt(v, at)'
      <4>1. PICK at \in 0..Limit : StandsAt(v, at)
          BY <3>5, <3>6 DEF KeptInv
      <4>2. Len(file) <= Len(file')
          BY <3>1, <3>3, <3>4
      <4>3. HasLineAt(file, v, at)'
        <5> SUFFICES ASSUME NEW k \in 1..length[v]
                     PROVE  file'[at + k] = << v, k >>
            BY <3>5 DEF HasLineAt
        <5>1. file[at + k] = << v, k >> /\ at + length[v] <= Len(file)
            BY <4>1 DEF StandsAt, HasLineAt
        <5>2. length[v] \in Nat /\ at \in Nat
            OBVIOUS
        <5> HIDE DEF TypeOK
        <5>3. at + k \in 1..Len(file)
            BY <3>4, <5>1, <5>2
        <5>4. QED
            BY <3>3, <5>1, <5>3
      <4>4. \A u \in Writers : pc'[u] \in InFile => pc[u] \in InFile
          BY <3>1, <3>2 DEF InFile
      <4>5. at + length[v] <= Len(file')
        <5>1. at + length[v] <= Len(file)
            BY <4>1 DEF StandsAt
        <5>2. length[v] \in Nat /\ at \in Nat /\ Len(file') \in Nat
            BY <3>3
        <5> HIDE DEF TypeOK
        <5> QED
            BY <3>4, <4>2, <5>1, <5>2
      <4>6. StandsAt(v, at)'
          BY <3>5, <4>1, <4>3, <4>4, <4>5 DEF StandsAt
      <4>7. QED
          BY <4>6
    <3>7. QED
        BY <3>6 DEF KeptInv
  <2>7. CASE WriteFails(w)
      BY <1>0, <2>7 DEF WriteFails, KeptInv, InFile
  <2>8. CASE Truncate(w)
    <3>1. /\ Len(file') = before[w] /\ before[w] <= Len(file)
          /\ \A i \in 1..before[w] : file'[i] = file[i]
        BY <2>8, TruncateCuts DEF Truncate
    <3>2. Len(file) \in Nat
        BY LenProperties
    <3>3. ASSUME NEW v \in Writers, outcome'[v] = "kept"
          PROVE  \E at \in 0..Limit : StandsAt(v, at)'
      <4>1. PICK at \in 0..Limit : StandsAt(v, at)
          BY <2>8, <3>3 DEF KeptInv, Truncate
      <4>2. at + length[v] <= before[w]
          BY <2>8, <4>1 DEF StandsAt, Truncate, InFile
      <4>3. HasLineAt(file, v, at)'
        <5> SUFFICES ASSUME NEW k \in 1..length[v]
                     PROVE  file'[at + k] = << v, k >>
            BY <2>8 DEF HasLineAt, Truncate
        <5>1. file[at + k] = << v, k >>
            BY <4>1 DEF StandsAt, HasLineAt
        <5>2. at + k \in 1..before[w]
            BY <4>2
        <5>3. QED
            BY <3>1, <5>1, <5>2
      <4>4. \A u \in Writers : pc'[u] \in InFile => pc[u] \in InFile
          BY <2>8 DEF InFile, Truncate
      <4>5. StandsAt(v, at)'
          BY <2>8, <3>1, <4>1, <4>2, <4>3, <4>4 DEF StandsAt, Truncate
      <4>6. QED
          BY <4>5
    <3>4. QED
        BY <3>3 DEF KeptInv
  <2>9. CASE Return(w)
    <3>1. ASSUME NEW v \in Writers, outcome'[v] = "kept"
          PROVE  \E at \in 0..Limit : StandsAt(v, at)'
      <4>1. CASE v # w \/ outcome[v] = "kept"
        <5>1. outcome[v] = "kept" /\ UNCHANGED << length, file, before >>
            BY <2>9, <3>1, <4>1 DEF Return
        <5>2. \A u \in Writers : pc'[u] \in InFile => pc[u] \in InFile
            BY <2>9 DEF Return, InFile
        <5>3. QED
            BY <1>0, <5>1, <5>2
      <4>2. CASE v = w
        <5>1. AtWork(w) /\ sent[w] = length[w]
            BY <2>9 DEF Return, WriteInv, WriterInv, InFile
        <5>2. \A u \in Writers : pc'[u] \notin InFile
            BY <2>9 DEF Return, LockInv, InFile
        <5>3. before[w] \in 0..Limit /\ UNCHANGED << length, file, before >>
            BY <2>9 DEF Return
        <5>4. HasLineAt(file, w, before[w])'
            BY <5>1, <5>3 DEF HasLineAt, AtWork
        <5>5. StandsAt(w, before[w])'
          <6>1. before[w] + length[w] <= Len(file)
              BY <5>1, LenProperties DEF AtWork
          <6>2. QED
              BY <5>2, <5>3, <5>4, <6>1 DEF StandsAt
        <5>6. QED
            BY <4>2, <5>3, <5>5
      <4>3. QED
          BY <4>1, <4>2
    <3>2. QED
        BY <3>1 DEF KeptInv
  <2>10. CASE MarkLost(w)
      BY <1>0, <2>10 DEF MarkLost, KeptInv, InFile
  <2>11. QED
      BY <1>1, <2>1, <2>2, <2>3, <2>4, <2>5, <2>6, <2>7, <2>8, <2>9, <2>10 DEF WriterStep
<1>2. ASSUME NEW r \in Readers, ReaderStep(r)
      PROVE  KeptInv'
  <2>1. CASE OpenToRead(r)
      BY <1>0, <2>1 DEF OpenToRead, KeptInv, InFile
  <2>2. CASE LockToRead(r)
      BY <1>0, <2>2 DEF LockToRead, KeptInv, InFile
  <2>3. CASE ReadFails(r)
      BY <1>0, <2>3 DEF ReadFails, KeptInv, InFile
  <2>4. CASE ReadChunk(r)
      BY <1>0, <2>4 DEF ReadChunk, KeptInv, InFile
  <2>5. CASE ReadEnds(r)
      BY <1>0, <2>5 DEF ReadEnds, KeptInv, InFile
  <2>6. QED
      BY <1>2, <2>1, <2>2, <2>3, <2>4, <2>5 DEF ReaderStep
<1>3. ASSUME NEW p \in Procs, Dies(p)
      PROVE  KeptInv'
    BY <1>0, <1>3 DEF Dies, KeptInv, InFile
<1>4. CASE UNCHANGED vars
    BY <1>0, <1>4 DEF vars, KeptInv, InFile
<1>5. QED
    BY <1>1, <1>2, <1>3, <1>4 DEF Next, AllOver

(* Every step keeps a log that refused a record at its cap. *)
LEMMA LossStep ==
    TypeOK /\ LockInv /\ WriteInv /\ LossInv /\ [Next]_vars => LossInv'
<1> SUFFICES ASSUME TypeOK, LockInv, WriteInv, LossInv, [Next]_vars
             PROVE  LossInv'
    OBVIOUS
<1> USE SizesAssumption DEF Procs, Goto, Unlock, Ends, TypeOK, LossInv, InFile
<1>1. ASSUME NEW w \in Writers, WriterStep(w)
      PROVE  LossInv'
  <2>1. CASE GiveUp(w)
      BY <2>1 DEF GiveUp
  <2>2. CASE OpenToAppend(w)
      BY <2>2 DEF OpenToAppend
  <2>3. CASE LockToAppend(w)
      BY <2>3 DEF LockToAppend
  <2>4. CASE LockFails(w)
      BY <2>4 DEF LockFails
  <2>5. CASE Stat(w)
    <3>1. Len(file) \in Nat /\ length[w] <= MaxEntry
        BY <2>5, LenProperties DEF Stat, WriteInv, WriterInv
    <3>2. CASE Fits(w)
        BY <2>5, <3>1, <3>2 DEF Stat
    <3>3. CASE ~Fits(w)
      <4>1. \A v \in Writers : pc'[v] \notin InFile
          BY <2>5, <3>3 DEF Stat, LockInv
      <4>2. Full(Len(file))
          BY <3>1, <3>3 DEF Fits, Full
      <4>3. QED
          BY <2>5, <3>3, <4>1, <4>2 DEF Stat
    <3>4. QED
        BY <3>2, <3>3
  <2>6. CASE Write(w)
    <3>1. PICK to \in (sent[w] + 1)..length[w] :
             /\ file' = file \o Units(w, sent[w] + 1, to)
             /\ sent' = [sent EXCEPT ![w] = to]
             /\ Goto(w, IF to = length[w] THEN "wrote" ELSE "write")
        BY <2>6 DEF Write
    <3>2. pc[w] = "write"
        BY <2>6 DEF Write
    <3>3. /\ Len(file') = Len(file) + (to - sent[w])
          /\ \A i \in 1..Len(file) : file'[i] = file[i]
          /\ \A k \in 1..(to - sent[w]) : file'[Len(file) + k] = << w, sent[w] + k >>
        BY <3>1, <3>2, WriteAppends
    <3>4. Len(file) \in Nat
        BY LenProperties
    <3>5. UNCHANGED << length, locked, before, lost, outcome, got >>
        BY <2>6 DEF Write
    <3>6. Full(Len(file)) => Full(Len(file'))
        BY <3>1, <3>3, <3>4 DEF Full
    <3>7. QED
        BY <3>1, <3>2, <3>5, <3>6
  <2>7. CASE WriteFails(w)
      BY <2>7 DEF WriteFails
  <2>8. CASE Truncate(w)
    <3>1. /\ Len(file') = before[w] /\ before[w] <= Len(file)
          /\ \A i \in 1..before[w] : file'[i] = file[i]
        BY <2>8, TruncateCuts DEF Truncate
    <3>2. Len(file) \in Nat
        BY LenProperties
    <3>3. QED
        BY <2>8, <3>1 DEF Truncate
  <2>9. CASE Return(w)
      BY <2>9 DEF Return
  <2>10. CASE MarkLost(w)
      BY <2>10 DEF MarkLost
  <2>11. QED
      BY <1>1, <2>1, <2>2, <2>3, <2>4, <2>5, <2>6, <2>7, <2>8, <2>9, <2>10 DEF WriterStep
<1>2. ASSUME NEW r \in Readers, ReaderStep(r)
      PROVE  LossInv'
  <2>1. CASE OpenToRead(r)
      BY <2>1 DEF OpenToRead
  <2>2. CASE LockToRead(r)
      BY <2>2 DEF LockToRead
  <2>3. CASE ReadFails(r)
      BY <2>3 DEF ReadFails
  <2>4. CASE ReadChunk(r)
      BY <2>4 DEF ReadChunk
  <2>5. CASE ReadEnds(r)
      BY <2>5 DEF ReadEnds
  <2>6. QED
      BY <1>2, <2>1, <2>2, <2>3, <2>4, <2>5 DEF ReaderStep
<1>3. ASSUME NEW p \in Procs, Dies(p)
      PROVE  LossInv'
    BY <1>3 DEF Dies
<1>4. CASE UNCHANGED vars
    BY <1>4 DEF vars
<1>5. QED
    BY <1>1, <1>2, <1>3, <1>4 DEF Next, AllOver

(* Where a unit of a stretch of units is. *)
LEMMA Between ==
    ASSUME NEW b \in Nat, NEW n \in Nat, NEW size \in Nat, b + n <= size, NEW k \in 1..n
    PROVE  b + k \in 1..size /\ b < b + k /\ b + k <= b + n
OBVIOUS

(* A place past the end of the file as it was, of one that grew. *)
LEMMA PastTheEnd ==
    ASSUME NEW l \in Nat, NEW m \in Nat, NEW b \in Nat, NEW n \in Nat, NEW t \in Nat,
           t > n, l = b + n, m = b + t, NEW i \in 1..m, i \notin 1..l
    PROVE  i \in Nat /\ i <= l + (t - n) /\ i > l /\ b < i /\ i <= b + t
  OBVIOUS

(* And where one behind the first n is. *)
LEMMA Behind ==
    ASSUME NEW n \in Nat, NEW from \in Nat, NEW to \in Nat, NEW i \in Nat,
           i <= n + (to - from), i > n
    PROVE  i - n \in 1..(to - from) /\ i = n + (i - n)
OBVIOUS

(* The owner of a unit is a writer. *)
LEMMA Owned ==
    ASSUME TypeOK, NEW i \in 1..Len(file)
    PROVE  file[i] \in Unit /\ file[i][1] \in Writers /\ i \in Nat /\ Len(file) \in Nat
<1>1. file \in Seq(Unit)
    BY DEF TypeOK, Unit
<1>2. file[i] \in Unit /\ Len(file) \in Nat
    BY <1>1, ElementOfSeq, LenProperties
<1>3. QED
    BY <1>2 DEF Unit

(* The file below the writer at work is of others. *)
LEMMA BelowTheWriter ==
    ASSUME TypeOK, WriteInv, LinesInv, NEW w \in Writers, pc[w] \in InFile,
           NEW i \in 1..before[w]
    PROVE  /\ i \in 1..Len(file)
           /\ file[i][1] # w
           /\ before[file[i][1]] + sent[file[i][1]] <= before[w]
<1> DEFINE v == file[i][1]
<1>1. /\ before[w] \in Nat /\ sent[w] \in Nat /\ Len(file) = before[w] + sent[w]
      /\ \A k \in 1..sent[w] : file[before[w] + k] = << w, k >>
  <2>1. AtWork(w)
      BY DEF WriteInv, WriterInv
  <2>2. before[w] \in Nat /\ sent[w] \in Nat
      BY DEF TypeOK
  <2>3. QED
      BY <2>1, <2>2 DEF AtWork
<1>2. i \in 1..Len(file)
    BY <1>1
<1>3. v \in Writers
    BY <1>2, Owned
<1>4. UnitInv(i)
    BY <1>2 DEF LinesInv
<1>5. v # w
    BY <1>1, <1>4 DEF UnitInv
<1>6. before[v] \in Nat /\ sent[v] \in Nat /\ before[v] < i /\ before[v] + sent[v] <= Len(file)
    BY <1>3, <1>4 DEF UnitInv, Stands, TypeOK
<1>7. ASSUME before[v] + sent[v] > before[w]
      PROVE  FALSE
  <2> DEFINE k == before[w] + 1 - before[v]
  <2>1. k \in 1..sent[v]
      BY <1>1, <1>6, <1>7
  <2>2. file[before[v] + k] = << v, k >>
      BY <1>4, <2>1 DEF UnitInv, Stands
  <2>3. before[v] + k = before[w] + 1
      BY SMTT(30), <1>1, <1>6
  <2>4. 1 \in 1..sent[w]
      BY <1>1, <1>6, <1>7
  <2>5. file[before[w] + 1] = << w, 1 >>
      BY <1>1, <2>4
  <2>6. QED
      BY <1>5, <2>2, <2>3, <2>5
<1>8. QED
    BY <1>1, <1>2, <1>5, <1>6, <1>7

(* Every step keeps each writer's units together, from where it began, and *)
(* leaves all of its line or none once it is out of the file.              *)
LEMMA LinesStep ==
    TypeOK /\ LockInv /\ WriteInv /\ LinesInv /\ [Next]_vars => LinesInv'
<1> SUFFICES ASSUME TypeOK, LockInv, WriteInv, LinesInv, [Next]_vars
             PROVE  LinesInv'
    OBVIOUS
<1> DEFINE Known == InFile \cup {"mark", "done", "dead"}
<1> USE SizesAssumption DEF Procs, Goto, Unlock, Ends
<1>0. ASSUME UNCHANGED << length, file, before, sent >>,
             \A v \in Writers : outcome'[v] = "kept" => pc'[v] = "done",
             \A v \in Writers : pc[v] \in Known =>
                /\ pc'[v] \in Known
                /\ pc'[v] \in {"mark", "done"} => pc[v] \in {"wrote", "mark", "done"}
      PROVE  LinesInv'
  <2>1. ASSUME NEW i \in 1..Len(file)
        PROVE  UnitInv(i)'
    <3>1. file[i][1] \in Writers /\ UnitInv(i)
        BY Owned DEF LinesInv
    <3>2. pc[file[i][1]] = "wrote" => sent[file[i][1]] = length[file[i][1]]
        BY <3>1 DEF WriteInv, WriterInv
    <3>3. QED
        BY <1>0, <3>1, <3>2 DEF UnitInv, Stands
  <2>2. QED
      BY <1>0, <2>1 DEF LinesInv
<1>a. \A v \in Writers : outcome[v] = "kept" => pc[v] = "done"
    BY DEF LinesInv
<1> USE <1>a DEF TypeOK
<1>1. ASSUME NEW w \in Writers, WriterStep(w)
      PROVE  LinesInv'
  <2>1. CASE GiveUp(w)
      BY <1>0, <2>1 DEF GiveUp, InFile
  <2>2. CASE OpenToAppend(w)
      BY <1>0, <2>2 DEF OpenToAppend, InFile
  <2>3. CASE LockToAppend(w)
      BY <1>0, <2>3 DEF LockToAppend, InFile
  <2>4. CASE LockFails(w)
      BY <1>0, <2>4 DEF LockFails, InFile
  <2>5. CASE Stat(w)
    <3>1. pc[w] = "stat" /\ UNCHANGED << length, file, sent >>
        BY <2>5 DEF Stat
    <3>2. \A v \in Writers : v # w => pc'[v] = pc[v] /\ before'[v] = before[v]
        BY <2>5 DEF Stat
    <3>3. \A v \in Writers : outcome'[v] = "kept" => pc'[v] = "done"
        BY <2>5 DEF Stat
    <3>4. ASSUME NEW i \in 1..Len(file)
          PROVE  UnitInv(i)'
      <4>1. file[i][1] \in Writers /\ UnitInv(i)
          BY Owned DEF LinesInv
      <4>2. file[i][1] # w
          BY <3>1, <4>1 DEF UnitInv, InFile
      <4>3. QED
          BY <3>1, <3>2, <4>1, <4>2 DEF UnitInv, Stands
    <3>5. QED
        BY <3>1, <3>3, <3>4 DEF LinesInv
  <2>6. CASE Write(w)
    <3>1. PICK to \in (sent[w] + 1)..length[w] :
             /\ sent' = [sent EXCEPT ![w] = to]
             /\ Goto(w, IF to = length[w] THEN "wrote" ELSE "write")
             /\ Len(file') = Len(file) + (to - sent[w])
             /\ \A i \in 1..Len(file) : file'[i] = file[i]
             /\ \A k \in 1..(to - sent[w]) : file'[Len(file) + k] = << w, sent[w] + k >>
        BY <2>6, WriteDoes
    <3>2. pc[w] = "write" /\ UNCHANGED << length, before, outcome >>
        BY <2>6 DEF Write
    <3>3. \A v \in Writers : v # w => pc'[v] = pc[v] /\ sent'[v] = sent[v]
        BY <3>1
    <3>4. /\ sent'[w] = to /\ pc'[w] \in {"write", "wrote"}
        BY <3>1
    <3>5. AtWork(w)'
      <4>1. WriteInv'
          BY WriteStep
      <4>2. QED
          BY <3>4, <4>1 DEF WriteInv, WriterInv, InFile
    <3>6. /\ Len(file) \in Nat /\ Len(file) = before[w] + sent[w] /\ before[w] \in Nat
          /\ sent[w] \in Nat
        BY <3>2, LenProperties DEF WriteInv, WriterInv, AtWork, InFile
    <3>11. Len(file') \in Nat /\ Len(file') = before[w] + to
      <4> HIDE DEF TypeOK
      <4> QED
          BY <3>1, <3>6
    <3>12. Stands(w)'
        BY SMTT(30), <3>2, <3>4, <3>5, <3>11 DEF AtWork, Stands
    <3>7. ASSUME NEW i \in 1..Len(file')
          PROVE  UnitInv(i)'
      <4>1. CASE i \in 1..Len(file) /\ file[i][1] # w
        <5>1. file[i][1] \in Writers /\ UnitInv(i) /\ file'[i] = file[i]
            BY <3>1, <4>1, Owned DEF LinesInv
        <5> DEFINE v == file[i][1]
        <5>2. before[v] \in Nat /\ sent[v] \in Nat /\ before[v] + sent[v] <= Len(file)
            BY SMTT(30), <5>1 DEF UnitInv, Stands
        <5>3. \A k \in 1..sent[v] : before[v] + k \in 1..Len(file)
            BY <3>6, <5>2, Between
        <5>4. \A k \in 1..sent[v] : file'[before[v] + k] = << v, k >>
            BY <3>1, <5>1, <5>3 DEF UnitInv, Stands
        <5>5. Len(file) <= Len(file')
            BY SMTT(30), <3>1, <3>6
        <5>6. before[v] + sent[v] <= Len(file')
          <6>1. Len(file') \in Nat
              BY <3>1, <3>6
          <6> HIDE DEF TypeOK, v
          <6>2. QED
              BY <3>6, <5>2, <5>5, <6>1
        <5>7. before'[v] = before[v] /\ sent'[v] = sent[v] /\ pc'[v] = pc[v] /\ length'[v] = length[v]
            BY <3>2, <3>3, <4>1, <5>1
        <5>8. Stands(v)'
            BY <5>1, <5>4, <5>6, <5>7 DEF Stands
        <5>9. QED
            BY <5>1, <5>7, <5>8 DEF UnitInv
      <4>2. CASE i \in 1..Len(file) /\ file[i][1] = w
        <5>1. UnitInv(i) /\ file'[i] = file[i]
            BY <3>1, <4>2 DEF LinesInv
        <5>2. before[w] < i /\ i <= before[w] + to
            BY <3>1, <3>6, <4>2, <5>1 DEF UnitInv
        <5>3. Stands(w)'
            BY <3>12
        <5>4. QED
            BY <3>2, <3>4, <4>2, <5>1, <5>2, <5>3 DEF UnitInv, InFile
      <4>3. CASE i \notin 1..Len(file)
        <5> DEFINE k == i - Len(file)
        <5>0. /\ i \in Nat /\ to \in Nat /\ i <= Len(file) + (to - sent[w]) /\ i > Len(file)
              /\ before[w] < i /\ i <= before[w] + to
          <6>1. to \in Nat /\ to > sent[w]
            <7>1. length[w] \in Nat
                BY DEF TypeOK
            <7>2. QED
                BY <3>6, <7>1
          <6> HIDE DEF TypeOK
          <6>2. QED
              BY SMTT(30), <3>6, <3>11, <4>3, <6>1, PastTheEnd
        <5>1. k \in 1..(to - sent[w]) /\ i = Len(file) + k
          <6>1. sent[w] \in Nat /\ Len(file) \in Nat
              BY <3>6
          <6> HIDE DEF TypeOK
          <6>2. QED
              BY <5>0, <6>1, Behind
        <5>2. file'[i] = << w, sent[w] + k >>
            BY <3>1, <5>1
        <5>3. Stands(w)'
            BY <3>12
        <5>4. file'[i][1] = w
            BY <5>2
        <5>5. before'[w] < i /\ i <= before'[w] + sent'[w]
          <6> HIDE DEF TypeOK
          <6> QED
              BY <3>2, <3>4, <5>0
        <5>6. pc'[w] \in InFile /\ pc'[w] \notin {"mark", "done"}
            BY <3>4 DEF InFile
        <5>7. QED
          <6> HIDE DEF TypeOK
          <6> QED
              BY <5>3, <5>4, <5>5, <5>6 DEF UnitInv
      <4>4. QED
          BY <4>1, <4>2, <4>3
    <3>8. \A v \in Writers : sent'[v] <= length'[v]
        BY <3>1, <3>2, <3>3, <3>4 DEF LinesInv
    <3>9. \A v \in Writers : outcome'[v] = "kept" => pc'[v] = "done"
        BY <3>2, <3>3
    <3>10. QED
        BY <3>7, <3>8, <3>9 DEF LinesInv
  <2>7. CASE WriteFails(w)
      BY <1>0, <2>7 DEF WriteFails, InFile
  <2>8. CASE Truncate(w)
    <3>1. /\ Len(file') = before[w] /\ before[w] <= Len(file)
          /\ \A i \in 1..before[w] : file'[i] = file[i]
        BY <2>8, TruncateCuts DEF Truncate
    <3>2. pc[w] = "truncate" /\ UNCHANGED << length, before, sent, outcome >>
        BY <2>8 DEF Truncate
    <3>3. \A v \in Writers : v # w => pc'[v] = pc[v]
        BY <2>8 DEF Truncate
    <3>4. ASSUME NEW i \in 1..Len(file')
          PROVE  UnitInv(i)'
      <4>1. i \in 1..before[w] /\ file'[i] = file[i]
          BY <3>1
      <4> DEFINE v == file[i][1]
      <4>2. i \in 1..Len(file) /\ v # w /\ before[v] + sent[v] <= before[w]
          BY <3>2, <4>1, BelowTheWriter DEF InFile
      <4>3. v \in Writers /\ UnitInv(i)
          BY <4>2, Owned DEF LinesInv
      <4>4. before[v] \in Nat /\ sent[v] \in Nat /\ before[w] \in Nat
          BY <4>3
      <4>5. \A k \in 1..sent[v] : before[v] + k \in 1..before[w]
          BY <4>2, <4>4, Between
      <4>6. \A k \in 1..sent[v] : file'[before[v] + k] = << v, k >>
          BY <3>1, <4>3, <4>5 DEF UnitInv, Stands
      <4>7. before'[v] = before[v] /\ sent'[v] = sent[v] /\ pc'[v] = pc[v] /\ length'[v] = length[v]
          BY <3>2, <3>3, <4>2, <4>3
      <4>8. Stands(v)'
        <5>1. v' = v /\ before'[v] + sent'[v] <= Len(file')
            BY <3>1, <4>1, <4>2, <4>7
        <5>2. \A k \in 1..sent'[v] : file'[before'[v] + k] = << v, k >>
            BY <4>6, <4>7
        <5> HIDE DEF v
        <5>3. QED
            BY <5>1, <5>2 DEF Stands
      <4>9. QED
          BY <4>1, <4>3, <4>7, <4>8 DEF UnitInv
    <3>5. \A v \in Writers : outcome'[v] = "kept" => pc'[v] = "done"
        BY <3>2, <3>3
    <3>6. QED
        BY <3>2, <3>4, <3>5 DEF LinesInv
  <2>9. CASE Return(w)
      BY <1>0, <2>9 DEF Return, InFile
  <2>10. CASE MarkLost(w)
      BY <1>0, <2>10 DEF MarkLost, InFile
  <2>11. QED
      BY <1>1, <2>1, <2>2, <2>3, <2>4, <2>5, <2>6, <2>7, <2>8, <2>9, <2>10 DEF WriterStep
<1>2. ASSUME NEW r \in Readers, ReaderStep(r)
      PROVE  LinesInv'
  <2>1. CASE OpenToRead(r)
      BY <1>0, <2>1 DEF OpenToRead, InFile
  <2>2. CASE LockToRead(r)
      BY <1>0, <2>2 DEF LockToRead, InFile
  <2>3. CASE ReadFails(r)
      BY <1>0, <2>3 DEF ReadFails, InFile
  <2>4. CASE ReadChunk(r)
      BY <1>0, <2>4 DEF ReadChunk, InFile
  <2>5. CASE ReadEnds(r)
      BY <1>0, <2>5 DEF ReadEnds, InFile
  <2>6. QED
      BY <1>2, <2>1, <2>2, <2>3, <2>4, <2>5 DEF ReaderStep
<1>3. ASSUME NEW p \in Procs, Dies(p)
      PROVE  LinesInv'
    BY <1>0, <1>3 DEF Dies, InFile
<1>4. CASE UNCHANGED vars
    BY <1>0, <1>4 DEF vars, InFile
<1>5. QED
    BY <1>1, <1>2, <1>3, <1>4 DEF Next, AllOver

(* A writer that has all of its line in a file has its line there. *)
LEMMA StandsWhole ==
    ASSUME TypeOK, NEW w \in Writers, Stands(w), sent[w] = length[w]
    PROVE  /\ HasLineAt(file, w, before[w]) /\ before[w] \in 0..(Len(file) - length[w])
           /\ HasLine(file, w)
<1>1. Len(file) \in Nat /\ before[w] \in Nat /\ length[w] \in Nat /\ sent[w] \in Nat
    BY LenProperties, SizesAssumption DEF TypeOK
<1>2. before[w] \in 0..(Len(file) - length[w])
    BY <1>1 DEF Stands
<1>3. HasLineAt(file, w, before[w])
    BY DEF Stands, HasLineAt
<1>4. QED
    BY <1>2, <1>3 DEF HasLine

(* A chunk that is read continues what was read as the file does. *)
LEMMA ChunkReads ==
    ASSUME TypeOK, NEW r \in Readers, ReadChunk(r),
           \A i \in 1..Len(got[r]) : got[r][i] = file[i]
    PROVE  /\ got' = [got EXCEPT ![r] = got'[r]]
           /\ Len(got'[r]) <= Len(file)
           /\ \A i \in 1..Len(got'[r]) : got'[r][i] = file[i]
<1> DEFINE g == got[r]
           n == Len(got[r])
<1>1. PICK to \in (n + 1)..Len(file) :
         got' = [got EXCEPT ![r] = @ \o SubSeq(file, Len(@) + 1, to)]
    BY DEF ReadChunk
<1> DEFINE new == SubSeq(file, n + 1, to)
<1>2. g \in Seq(Unit) /\ file \in Seq(Unit)
    BY DEF TypeOK, Unit
<1>3. got'[r] = g \o new /\ got' = [got EXCEPT ![r] = got'[r]]
    BY <1>1 DEF TypeOK
<1>4. n \in Nat /\ Len(file) \in Nat
    BY <1>2, LenProperties
<1>5. to \in Nat /\ n < to /\ to <= Len(file)
    BY <1>1, <1>4
<1>6. n + 1 \in Int /\ to \in Int /\ \A i \in (n + 1)..to : file[i] \in Unit
    BY <1>2, <1>4, <1>5, ElementOfSeq
<1> HIDE DEF Unit
<1>7. /\ new \in Seq(Unit) /\ Len(new) = to - n
      /\ \A i \in 1..(to - n) : new[i] = file[n + i]
  <2>1. /\ SubSeq(file, n + 1, to) \in Seq(Unit)
        /\ Len(SubSeq(file, n + 1, to)) = IF n + 1 <= to THEN to - (n + 1) + 1 ELSE 0
        /\ \A i \in 1..(to - (n + 1) + 1) : SubSeq(file, n + 1, to)[i] = file[(n + 1) + i - 1]
    <3> HIDE DEF n
    <3>1. QED
        BY <1>6, SubSeqProperties
  <2> HIDE DEF n
  <2>2. to - (n + 1) + 1 = to - n /\ n + 1 <= to
      BY <1>4, <1>5
  <2>3. \A i \in 1..(to - n) : (n + 1) + i - 1 = n + i
      BY <1>4, <1>5
  <2>4. QED
      BY <2>1, <2>2, <2>3
<1>8. /\ Len(g \o new) = n + Len(new)
      /\ \A i \in 1..(n + Len(new)) : (g \o new)[i] = IF i <= n THEN g[i] ELSE new[i - n]
  <2>2. Len(g) = n
      OBVIOUS
  <2> DEFINE both == g \o new
  <2> HIDE DEF g, new
  <2>1. /\ Len(both) = Len(g) + Len(new)
        /\ \A i \in 1..(Len(g) + Len(new)) : both[i] = IF i <= Len(g) THEN g[i] ELSE new[i - Len(g)]
      BY <1>2, <1>7, ConcatProperties
  <2> HIDE DEF n, both
  <2>3. QED
      BY <2>1, <2>2 DEF both
<1> HIDE DEF n, g, new
<1>9. Len(g \o new) = to
    BY <1>4, <1>5, <1>7, <1>8
<1>10. ASSUME NEW i \in 1..to
       PROVE  (g \o new)[i] = file[i]
  <2>1. (g \o new)[i] = IF i <= n THEN g[i] ELSE new[i - n]
      BY <1>4, <1>5, <1>7, <1>8
  <2>2. CASE i <= n
    <3>1. i \in 1..n
        BY <1>4, <2>2
    <3>2. QED
        BY <2>1, <2>2, <3>1 DEF g, n
  <2>3. CASE ~(i <= n)
    <3>1. i - n \in 1..(to - n) /\ n + (i - n) = i
        BY <1>4, <1>5, <2>3
    <3>2. QED
        BY <1>7, <2>1, <2>3, <3>1
  <2>4. QED
      BY <2>2, <2>3
<1>11. QED
    BY <1>3, <1>5, <1>9, <1>10

(* Every step keeps a reader under its lock at the beginning of the file,  *)
(* and what it has read whole.                                             *)
LEMMA ReadStep ==
    TypeOK /\ LockInv /\ WriteInv /\ LinesInv /\ ReadInv /\ [Next]_vars => ReadInv'
<1> SUFFICES ASSUME TypeOK, LockInv, WriteInv, LinesInv, ReadInv, [Next]_vars
             PROVE  ReadInv'
    OBVIOUS
<1> USE SizesAssumption DEF Procs, Goto, Unlock
<1>a. ASSUME NEW r \in Readers, NEW i \in 1..Len(got[r])
      PROVE  got[r][i][1] \in Writers
  <2>1. got[r] \in Seq(Unit)
      BY DEF TypeOK, Unit
  <2>2. got[r][i] \in Unit
      BY <2>1, ElementOfSeq
  <2>3. QED
      BY <2>2 DEF Unit
<1>e. ASSUME NEW r \in Readers, UNCHANGED length, got'[r] = got[r], NEW i \in 1..Len(got[r])
      PROVE  HasLine(got[r], got[r][i][1])' <=> HasLine(got[r], got[r][i][1])
    BY <1>e DEF HasLine, HasLineAt
<1>b. ASSUME NEW r \in Readers, UNCHANGED << length, got >>,
             pc'[r] = pc[r], locked'[r] = locked[r], file' = file \/ pc[r] # "read",
             \A v \in Writers : pc[v] = "dead" => pc'[v] = "dead"
      PROVE  ReaderInv(r)'
  <2>1. ReaderInv(r)
      BY DEF ReadInv
  <2>2. pc[r] = "read" => file' = file
      BY <1>b
  <2>3. (pc[r] = "read" => /\ locked[r] = "SH" /\ Len(got[r]) <= Len(file)
                            /\ \A i \in 1..Len(got[r]) : got[r][i] = file[i])'
      BY <1>b, <2>1, <2>2 DEF ReaderInv
  <2>4. ASSUME pc'[r] = "done", NEW i \in 1..Len(got[r])
        PROVE  HasLine(got[r], got[r][i][1])' \/ pc'[got[r][i][1]] = "dead"
      BY <1>a, <1>b, <1>e, <2>1, <2>4 DEF ReaderInv
  <2>5. QED
      BY <1>b, <2>1, <2>3, <2>4 DEF ReaderInv
<1>c. \A r \in Readers : pc[r] = "read" => \A v \in Writers : locked[v] # "EX"
    BY DEF ReadInv, ReaderInv, LockInv
<1>d. \A r \in Readers, w \in Writers : r # w
    OBVIOUS
<1>f. Len(file) \in Nat /\ \A w \in Writers : before[w] \in Nat /\ length[w] \in Nat
    BY LenProperties DEF TypeOK
<1>1. ASSUME NEW w \in Writers, WriterStep(w), NEW r \in Readers
      PROVE  ReaderInv(r)'
  <2> USE DEF TypeOK, Ends
  <2>1. CASE GiveUp(w)
      BY <1>b, <1>d, <2>1 DEF GiveUp
  <2>2. CASE OpenToAppend(w)
      BY <1>b, <1>d, <2>2 DEF OpenToAppend
  <2>3. CASE LockToAppend(w)
      BY <1>b, <1>d, <2>3 DEF LockToAppend
  <2>4. CASE LockFails(w)
      BY <1>b, <1>d, <2>4 DEF LockFails
  <2>5. CASE Stat(w)
    <3>1. /\ UNCHANGED << length, file, got >>
          /\ \A q \in Procs : q # w => pc'[q] = pc[q] /\ locked'[q] = locked[q]
        BY <2>5 DEF Stat
    <3>2. pc[w] # "dead"
        BY <2>5 DEF Stat
    <3>3. QED
        BY <1>b, <1>d, <3>1, <3>2
  <2>6. CASE Write(w)
    <3>1. pc[r] # "read"
        BY <1>c, <2>6 DEF Write, LockInv, InFile
    <3>2. \A q \in Procs : q # w => pc'[q] = pc[q]
        BY <2>6 DEF Write
    <3>3. QED
        BY <1>b, <1>d, <2>6, <3>1, <3>2 DEF Write
  <2>7. CASE WriteFails(w)
      BY <1>b, <1>d, <2>7 DEF WriteFails
  <2>8. CASE Truncate(w)
    <3>1. pc[r] # "read"
        BY <1>c, <2>8 DEF Truncate, LockInv, InFile
    <3>2. QED
        BY <1>b, <1>d, <2>8, <3>1 DEF Truncate
  <2>9. CASE Return(w)
      BY <1>b, <1>d, <2>9 DEF Return
  <2>10. CASE MarkLost(w)
      BY <1>b, <1>d, <2>10 DEF MarkLost
  <2>11. QED
      BY <1>1, <2>1, <2>2, <2>3, <2>4, <2>5, <2>6, <2>7, <2>8, <2>9, <2>10 DEF WriterStep
<1>2. ASSUME NEW r \in Readers, ReaderStep(r), NEW q \in Readers
      PROVE  ReaderInv(q)'
  <2> USE DEF TypeOK
  <2>a. \A v \in Writers : pc'[v] = pc[v]
      BY <1>2, <1>d DEF ReaderStep, OpenToRead, LockToRead, ReadFails, ReadChunk, ReadEnds
  <2>b. UNCHANGED << length, file >>
      BY <1>2 DEF ReaderStep, OpenToRead, LockToRead, ReadFails, ReadChunk, ReadEnds
  <2>c. ReaderInv(q) /\ ReaderInv(r)
      BY DEF ReadInv
  <2>1. CASE OpenToRead(r)
    <3>1. CASE q = r
        BY <2>1, <2>c, <3>1 DEF OpenToRead, ReaderInv
    <3>2. CASE q # r
        BY <1>b, <2>1, <2>a, <3>2 DEF OpenToRead
    <3>3. QED
        BY <3>1, <3>2
  <2>2. CASE LockToRead(r)
    <3>1. CASE q = r
      <4>1. got[r] = << >> /\ got'[r] = << >> /\ pc'[r] = "read" /\ locked'[r] = "SH"
          BY <2>2, <2>c DEF LockToRead, ReaderInv
      <4>2. Len(got'[r]) = 0 /\ Len(file) \in Nat
          BY <4>1, EmptySeq, LenProperties
      <4>3. QED
          BY <2>b, <3>1, <4>1, <4>2 DEF ReaderInv
    <3>2. CASE q # r
        BY <1>b, <2>2, <2>a, <3>2 DEF LockToRead
    <3>3. QED
        BY <3>1, <3>2
  <2>3. CASE ReadFails(r)
    <3>1. CASE q = r
        BY <2>3, <3>1 DEF ReadFails, ReaderInv
    <3>2. CASE q # r
        BY <1>b, <2>3, <2>a, <3>2 DEF ReadFails
    <3>3. QED
        BY <3>1, <3>2
  <2>4. CASE ReadChunk(r)
    <3>1. CASE q = r
      <4>1. pc[r] = "read" /\ pc'[r] = "read" /\ locked'[r] = locked[r]
          BY <2>4 DEF ReadChunk
      <4>2. /\ locked[r] = "SH"
            /\ \A i \in 1..Len(got[r]) : got[r][i] = file[i]
          BY <2>c, <4>1 DEF ReaderInv
      <4>3. /\ Len(got'[r]) <= Len(file)
            /\ \A i \in 1..Len(got'[r]) : got'[r][i] = file[i]
          BY <2>4, <4>2, ChunkReads
      <4>4. QED
          BY <2>b, <3>1, <4>1, <4>2, <4>3 DEF ReaderInv
    <3>2. CASE q # r
      <4>1. got'[q] = got[q]
          BY <2>4, <3>2 DEF ReadChunk
      <4>2. pc' = pc /\ locked' = locked
          BY <2>4 DEF ReadChunk
      <4>3. (pc[q] = "read" => /\ locked[q] = "SH" /\ Len(got[q]) <= Len(file)
                                /\ \A i \in 1..Len(got[q]) : got[q][i] = file[i])'
          BY <2>b, <2>c, <4>1, <4>2 DEF ReaderInv
      <4>4. ASSUME pc'[q] = "done", NEW i \in 1..Len(got[q])
            PROVE  HasLine(got[q], got[q][i][1])' \/ pc'[got[q][i][1]] = "dead"
          BY <1>e, <2>b, <2>c, <4>1, <4>2, <4>4 DEF ReaderInv
      <4>5. QED
          BY <2>c, <4>1, <4>2, <4>3, <4>4 DEF ReaderInv
    <3>3. QED
        BY <3>1, <3>2
  <2>5. CASE ReadEnds(r)
    <3>1. CASE q = r
      <4>1. /\ pc[r] = "read" /\ pc'[r] = "done" /\ got' = got
            /\ Len(got[r]) = Len(file)
            /\ \A i \in 1..Len(file) : got[r][i] = file[i]
        <5>1. pc[r] = "read" /\ pc'[r] = "done" /\ got' = got /\ Len(got[r]) >= Len(file)
            BY <2>5 DEF ReadEnds
        <5>2. Len(got[r]) \in Nat /\ Len(file) \in Nat
            BY LenProperties
        <5>3. QED
            BY <2>c, <5>1, <5>2 DEF ReaderInv
      <4>2. ASSUME NEW i \in 1..Len(file)
            PROVE  HasLine(got[r], file[i][1]) \/ pc[file[i][1]] = "dead"
        <5> DEFINE w == file[i][1]
        <5>1. w \in Writers /\ UnitInv(i)
            BY Owned DEF LinesInv
        <5>2. pc[w] \notin InFile
            BY <1>c, <4>1, <5>1 DEF LockInv
        <5>3. CASE pc[w] \in {"mark", "done"}
          <6>1. sent[w] = length[w] /\ Stands(w)
              BY <5>1, <5>3 DEF UnitInv
          <6>2. /\ HasLineAt(file, w, before[w])
                /\ before[w] \in 0..(Len(file) - length[w])
              BY <5>1, <6>1, StandsWhole
          <6>3. before[w] \in Nat /\ length[w] \in Nat /\ Len(file) \in Nat
              BY <1>f, <5>1
          <6> HIDE DEF w, TypeOK
          <6>4. before[w] + length[w] <= Len(file)
              BY <6>2, <6>3
          <6>5. \A k \in 1..length[w] : before[w] + k \in 1..Len(file)
              BY <6>3, <6>4, Between
          <6>6. HasLineAt(got[r], w, before[w])
              BY <4>1, <6>2, <6>5 DEF HasLineAt
          <6>7. QED
              BY <4>1, <6>2, <6>6 DEF HasLine, w
        <5>4. QED
            BY <5>1, <5>2, <5>3 DEF UnitInv
      <4>3. \A i \in 1..Len(file) : pc[file[i][1]] = "dead" => pc'[file[i][1]] = "dead"
          BY <2>a, Owned
      <4>4. ASSUME NEW i \in 1..Len(got[r])
            PROVE  HasLine(got[r], got[r][i][1])' \/ pc'[got[r][i][1]] = "dead"
          BY <1>e, <2>b, <4>1, <4>2, <4>3
      <4>5. QED
          BY <3>1, <4>1, <4>4 DEF ReaderInv
    <3>2. CASE q # r
        BY <1>b, <2>5, <2>a, <3>2 DEF ReadEnds
    <3>3. QED
        BY <3>1, <3>2
  <2>6. QED
      BY <1>2, <2>1, <2>2, <2>3, <2>4, <2>5 DEF ReaderStep
<1>3. ASSUME NEW p \in Procs, Dies(p), NEW r \in Readers
      PROVE  ReaderInv(r)'
  <2>1. CASE p = r
      BY <1>3, <2>1 DEF Dies, TypeOK, ReaderInv
  <2>2. CASE p # r
      BY <1>3, <1>b, <2>2 DEF Dies, TypeOK
  <2>3. QED
      BY <2>1, <2>2
<1>4. CASE UNCHANGED vars
    BY <1>b, <1>4 DEF vars, ReadInv
<1>5. QED
    BY <1>1, <1>2, <1>3, <1>4 DEF Next, AllOver, ReadInv

(* The inductive invariant, and what follows from it. *)
THEOREM Invariant == Spec => []IInv
<1>1. Init => IInv
  <2> SUFFICES ASSUME Init PROVE IInv
      OBVIOUS
  <2> USE SizesAssumption DEF Init, Procs, InFile
  <2>1. file \in Seq(Unit) /\ Len(file) = 0
      BY EmptySeq
  <2>2. TypeOK
    <3>1. got \in [Readers -> Seq(Writers \X (1..MaxEntry))]
        BY EmptySeq
    <3>2. QED
        BY <2>1, <3>1 DEF TypeOK, Unit
  <2>3. LockInv
      BY DEF LockInv
  <2>4. WriteInv
      BY <2>1 DEF WriteInv, WriterInv
  <2>5. KeptInv /\ LossInv
      BY DEF KeptInv, LossInv
  <2>6. LinesInv
      BY <2>1, <2>2 DEF LinesInv, TypeOK
  <2>7. ReadInv
      BY DEF ReadInv, ReaderInv
  <2>8. QED
      BY <2>2, <2>3, <2>4, <2>5, <2>6, <2>7 DEF IInv
<1>2. IInv /\ [Next]_vars => IInv'
    BY TypeStep, LockStep, WriteStep, KeptStep, LossStep, LinesStep, ReadStep DEF IInv
<1>3. QED
    BY <1>1, <1>2, PTL DEF Spec

(* Every variable keeps its type. *)
THEOREM TypeCorrect == Spec => []TypeOK
<1>1. IInv => TypeOK
    BY DEF IInv
<1>2. QED
    BY <1>1, Invariant, PTL

(* However appends race, short writes fail and processes die, the file of  *)
(* spool.append never outgrows its limit.                                  *)
THEOREM Bounded == Spec => []WithinLimit
<1>1. IInv => WithinLimit
    BY DEF IInv, WriteInv, WithinLimit
<1>2. QED
    BY <1>1, Invariant, PTL

(* A record append() returned True for is in the file, whole, for good.    *)
THEOREM KeptForGood == Spec => []KeptStays
<1>1. IInv => KeptStays
  <2> SUFFICES ASSUME IInv, NEW w \in Writers, outcome[w] = "kept"
               PROVE  HasLine(file, w)
      BY DEF KeptStays
  <2>1. PICK at \in 0..Limit : StandsAt(w, at)
      BY DEF IInv, KeptInv
  <2>2. length[w] \in Nat /\ Len(file) \in Nat
      BY LenProperties, SizesAssumption DEF IInv, TypeOK
  <2>3. at \in 0..(Len(file) - length[w])
      BY <2>1, <2>2, SizesAssumption DEF StandsAt
  <2>4. QED
      BY <2>1, <2>3 DEF StandsAt, HasLine
<1>2. QED
    BY <1>1, Invariant, PTL

LEMMA Sizes ==
    ASSUME TypeOK, NEW w \in Writers
    PROVE  /\ before[w] \in Nat /\ sent[w] \in Nat /\ length[w] \in Nat
           /\ length[w] > 0 /\ Len(file) \in Nat
<1>1. Len(file) \in Nat
    BY LenProperties DEF TypeOK
<1>2. QED
    BY <1>1, SizesAssumption DEF TypeOK

(* A line that stands in the file behind the last unit of another: that     *)
(* unit is a newline, or its writer was cut short.                         *)
LEMMA LineBefore ==
    ASSUME IInv, NEW w \in Writers, NEW at \in 1..Limit, StandsAt(w, at)
    PROVE  LET v == file[at][1] IN
             \/ IsNewline(file[at])
             \/ v \in Writers /\ pc[v] = "dead" /\ sent[v] > 0 /\ ~HasLine(file, v)
<1> USE SizesAssumption DEF IInv
<1> DEFINE v == file[at][1]
<1>1. /\ length[w] \in Nat /\ length[w] > 0 /\ Len(file) \in Nat /\ at \in Nat
      /\ at + length[w] <= Len(file) /\ HasLineAt(file, w, at)
    BY Sizes DEF StandsAt
<1>2. at \in 1..Len(file) /\ at + 1 \in 1..Len(file) /\ file[at + 1] = << w, 1 >>
    BY <1>1 DEF HasLineAt
<1>3. v \in Writers /\ UnitInv(at)
    BY <1>2, Owned DEF LinesInv
<1>4. before[v] \in Nat /\ sent[v] \in Nat /\ length[v] \in Nat /\ before[v] < at
    BY <1>3, Sizes DEF UnitInv
<1>5. ASSUME NEW j \in 1..Len(file), file[j][1] = v
      PROVE  file[j] = << v, j - before[v] >> /\ j - before[v] <= sent[v] /\ j - before[v] >= 1
  <2>1. UnitInv(j)
      BY DEF LinesInv
  <2>2. before[v] < j /\ j <= before[v] + sent[v] /\ Stands(v)
      BY <1>5, <2>1 DEF UnitInv
  <2> HIDE DEF v
  <2>3. j - before[v] \in 1..sent[v] /\ before[v] + (j - before[v]) = j
      BY <1>4, <2>2
  <2>4. file[before[v] + (j - before[v])] = << v, j - before[v] >>
      BY <2>2, <2>3 DEF Stands
  <2>5. QED
      BY <2>3, <2>4
<1>6. at = before[v] + sent[v]
  <2>1. SUFFICES ASSUME at < before[v] + sent[v]
                 PROVE  FALSE
      BY <1>3, <1>4 DEF UnitInv
  <2> DEFINE k == at + 1 - before[v]
  <2>2. k \in 1..sent[v] /\ before[v] + k = at + 1 /\ k > 1
    <3> HIDE DEF v
    <3> QED
        BY SMTT(30), <1>1, <1>4, <2>1
  <2>3. file[at + 1] = << v, k >>
      BY <1>3, <2>2 DEF UnitInv, Stands
  <2>4. QED
      BY <1>2, <2>2, <2>3
<1>7. file[at] = << v, sent[v] >> /\ sent[v] > 0
  <2>1. file[at] = << v, at - before[v] >>
      BY <1>2, <1>5
  <2>2. QED
      BY <1>1, <1>4, <1>6, <2>1
<1>8. CASE sent[v] = length[v]
    BY <1>7, <1>8 DEF IsNewline
<1>9. CASE sent[v] # length[v]
  <2>1. pc[v] \notin InFile
    <3>1. pc[v] \in InFile => at + length[w] <= before[v]
        BY <1>3 DEF StandsAt
    <3>2. QED
        BY <1>1, <1>4, <3>1
  <2>2. pc[v] = "dead"
      BY <1>3, <1>9, <2>1 DEF UnitInv
  <2>3. sent[v] < length[v]
      BY <1>3, <1>4, <1>9 DEF LinesInv
  <2>4. ~HasLine(file, v)
    <3>1. SUFFICES ASSUME NEW a \in 0..(Len(file) - length[v]), HasLineAt(file, v, a)
                   PROVE  FALSE
        BY DEF HasLine
    <3> DEFINE j == a + length[v]
    <3>2. length[v] \in 1..length[v] /\ j \in 1..Len(file)
      <4> HIDE DEF v
      <4> QED
          BY <1>1, <1>4, <2>3
    <3>3. file[j] = << v, length[v] >>
        BY <3>1, <3>2 DEF HasLineAt
    <3>4. length[v] = j - before[v] /\ j - before[v] <= sent[v]
      <4>1. file[j][1] = v /\ file[j][2] = length[v]
          BY <3>3
      <4> HIDE DEF v, j
      <4>2. file[j] = << v, j - before[v] >> /\ j - before[v] <= sent[v]
          BY <1>5, <3>2, <4>1
      <4>3. QED
          BY <4>1, <4>2
    <3>5. QED
        BY <1>4, <2>3, <3>4
  <2>5. QED
      BY <1>3, <1>7, <2>2, <2>4
<1>10. QED
    BY <1>8, <1>9

(* A line its writer was told is kept is one spool._parse finds, unless a  *)
(* writer that died left part of a line before it.                         *)
THEOREM KeptCounted == Spec => []KeptIsCounted
<1>1. IInv => KeptIsCounted
  <2> SUFFICES ASSUME IInv, NEW w \in Writers, outcome[w] = "kept", ~Parses(file, w)
               PROVE  \E v \in Writers : pc[v] = "dead" /\ sent[v] > 0 /\ ~HasLine(file, v)
      BY DEF KeptIsCounted
  <2>1. PICK at \in 0..Limit : StandsAt(w, at)
      BY DEF IInv, KeptInv
  <2>2. length[w] \in Nat /\ Len(file) \in Nat
      BY LenProperties, SizesAssumption DEF IInv, TypeOK
  <2>3. at \in 0..(Len(file) - length[w]) /\ HasLineAt(file, w, at)
      BY <2>1, <2>2, SizesAssumption DEF StandsAt
  <2>4. at # 0 /\ ~IsNewline(file[at])
      BY <2>3 DEF Parses
  <2>5. at \in 1..Limit
      BY <2>4, SizesAssumption
  <2>6. QED
      BY <2>1, <2>4, <2>5, LineBefore
<1>2. QED
    BY <1>1, Invariant, PTL

(* The file holds part of a line only of a writer at work or dead.         *)
LEMMA Torn == IInv => TornOnlyByTheDead
<1> SUFFICES ASSUME IInv, NEW i \in 1..Len(file),
                    pc[file[i][1]] \notin {"write", "truncate", "dead"}
             PROVE  HasLine(file, file[i][1])
    BY DEF TornOnlyByTheDead
<1>1. file[i][1] \in Writers /\ UnitInv(i)
    BY Owned DEF IInv, LinesInv
<1>2. Stands(file[i][1]) /\ sent[file[i][1]] = length[file[i][1]]
    BY <1>1 DEF IInv, UnitInv, InFile, WriteInv, WriterInv
<1>3. QED
    BY <1>1, <1>2, StandsWhole DEF IInv

(* However appends race, fail and are cut short, and whatever summaries    *)
(* read meanwhile: every line is whole but that of a writer at work or     *)
(* dead, in the file and in what a reader got of it; and a line known to   *)
(* be kept stays, and is found by spool._parse but for a dead writer.      *)
THEOREM WholeLines == Spec => []LinesAreWhole
<1>1. IInv => TornOnlyByTheDead /\ ReadsWholeLines
  <2>1. IInv => ReadsWholeLines
      BY DEF IInv, ReadInv, ReaderInv, ReadsWholeLines
  <2>2. QED
      BY <2>1, Torn
<1>2. TornOnlyByTheDead /\ KeptStays /\ KeptIsCounted /\ ReadsWholeLines <=> LinesAreWhole
    BY DEF LinesAreWhole
<1>3. QED
    BY <1>1, <1>2, Invariant, KeptForGood, KeptCounted, PTL

(* A record that was refused at the cap, or marked lost, is told of: no    *)
(* later append that takes its line back makes the log look complete.      *)
THEOREM LossTold == Spec => []LossIsTold
<1>1. IInv => LossIsTold
    BY DEF IInv, LossInv, LossIsTold, AtCap, Full
<1>2. QED
    BY <1>1, Invariant, PTL

(* Both: the cap of spool.append holds, and what it costs is told. *)
THEOREM LimitTold == Spec => []LimitIsTold
  BY Bounded, LossTold, PTL DEF LimitIsTold

-----------------------------------------------------------------------------
(* The journal implements AppendLog. *)

(* What is settled: the file below the writer at work, who is alone. *)
LEMMA SettledIs ==
    LockInv =>
      /\ \A w \in Writers : pc[w] \in InFile => Settled = before[w]
      /\ (\A w \in Writers : pc[w] \notin InFile) => Settled = Len(file)
<1>1. ASSUME LockInv, NEW w \in Writers, pc[w] \in InFile
      PROVE  Settled = before[w]
  <2>1. \A v \in Writers : pc[v] \in InFile => v = w
      BY <1>1 DEF LockInv, Procs
  <2>2. (CHOOSE v \in Writers : pc[v] \in InFile) = w
      BY <1>1, <2>1
  <2>3. QED
      BY <1>1, <2>2 DEF Settled
<1>2. ASSUME \A w \in Writers : pc[w] \notin InFile
      PROVE  Settled = Len(file)
    BY <1>2 DEF Settled
<1>3. QED
    BY <1>1, <1>2

(* A step that changes nothing below leaves the same lines. *)
LEMMA SameLines ==
    ASSUME TypeOK, length' = length, Settled \in 0..Len(file), Settled' = Settled,
           \A i \in 1..Settled : file'[i] = file[i]
    PROVE  Lines' = Lines
<1>1. Len(file) \in Nat
    BY LenProperties DEF TypeOK
<1>2. ASSUME NEW i \in 1..Settled
      PROVE  LineEndsBy(Settled, i)' <=> LineEndsBy(Settled, i)
  <2> DEFINE w == file[i][1]
  <2>1. i \in 1..Len(file) /\ i \in Nat /\ Settled \in Nat
      BY <1>1
  <2>2. w \in Writers /\ file'[i] = file[i]
      BY <2>1, Owned
  <2>3. length[w] \in Nat
      BY <2>2, Sizes
  <2> HIDE DEF w
  <2>4. CASE i - 1 + length[w] <= Settled
    <3>1. \A k \in 1..length[w] : i - 1 + k \in 1..Settled
        BY <2>1, <2>3, <2>4
    <3>2. \A k \in 1..length[w] : file'[i - 1 + k] = file[i - 1 + k]
        BY <3>1
    <3>3. QED
        BY <2>2, <3>2 DEF LineEndsBy, HasLineAt, w
  <2>5. CASE ~(i - 1 + length[w] <= Settled)
      BY <2>2, <2>5 DEF LineEndsBy, w
  <2>6. QED
      BY <2>4, <2>5
<1>3. QED
    BY <1>2 DEF Lines, LinesWithin

(* A line begins where its writer found the end of the file, and all of it *)
(* is there.                                                               *)
LEMMA LineIs ==
    ASSUME TypeOK, LinesInv, NEW size \in 0..Len(file), NEW i \in 1..size, LineEndsBy(size, i)
    PROVE  LET v == file[i][1] IN
           /\ v \in Writers /\ i - 1 = before[v] /\ before[v] + length[v] <= size
           /\ \A k \in 1..length[v] : file[before[v] + k] = << v, k >>
<1> DEFINE v == file[i][1]
<1>1. Len(file) \in Nat /\ i \in 1..Len(file) /\ i \in Nat /\ size \in Nat
    BY LenProperties DEF TypeOK
<1>2. v \in Writers /\ UnitInv(i)
    BY <1>1, Owned DEF LinesInv
<1>3. before[v] \in Nat /\ sent[v] \in Nat /\ length[v] \in Nat /\ length[v] > 0
    BY <1>2, Sizes
<1>4. /\ i - 1 + length[v] <= size
      /\ \A k \in 1..length[v] : file[i - 1 + k] = << v, k >>
    BY DEF LineEndsBy, HasLineAt
<1>5. before[v] < i /\ i <= before[v] + sent[v] /\ Stands(v)
    BY <1>2 DEF UnitInv
<1>6. file[i] = << v, 1 >>
  <2>1. 1 \in 1..length[v] /\ i - 1 + 1 = i
    <3> HIDE DEF v
    <3> QED
        BY <1>1, <1>3
  <2>2. file[i - 1 + 1] = << v, 1 >>
      BY <1>4, <2>1
  <2>3. QED
      BY <2>1, <2>2
<1>7. file[i] = << v, i - before[v] >>
  <2>1. i - before[v] \in 1..sent[v] /\ before[v] + (i - before[v]) = i
    <3> HIDE DEF v
    <3> QED
        BY <1>1, <1>3, <1>5
  <2>2. file[before[v] + (i - before[v])] = << v, i - before[v] >>
      BY <1>5, <2>1 DEF Stands
  <2>3. QED
      BY <2>1, <2>2
<1>8. i - before[v] = 1
    BY <1>6, <1>7
<1> HIDE DEF v
<1>9. i - 1 = before[v]
    BY <1>1, <1>3, <1>8
<1>10. QED
    BY <1>2, <1>4, <1>9 DEF v

(* A writer that leaves the file adds its line, when all of it is there,   *)
(* behind every other; and nothing when it is not.                         *)
LEMMA Release ==
    ASSUME TypeOK, WriteInv, LinesInv, NEW w \in Writers, pc[w] \in InFile
    PROVE  LET line == [at |-> before[w], of |-> w]
               old == LinesWithin(before[w]) IN
           /\ \A other \in old : other.of # w /\ other.at < before[w]
           /\ LinesWithin(Len(file)) =
                IF sent[w] = length[w] THEN old \cup {line} ELSE old
<1> DEFINE line == [at |-> before[w], of |-> w]
           b == before[w]
           n == Len(file)
           old == LinesWithin(b)
           new == LinesWithin(n)
<1>1. /\ b \in Nat /\ sent[w] \in Nat /\ length[w] \in Nat /\ length[w] > 0
      /\ n \in Nat /\ n = b + sent[w]
      /\ \A k \in 1..sent[w] : file[b + k] = << w, k >>
    BY Sizes DEF WriteInv, WriterInv, AtWork
<1>2. b \in 0..n /\ n \in 0..n
    BY <1>1
<1>3. ASSUME NEW i \in (b + 1)..n
      PROVE  file[i][1] = w
  <2> HIDE DEF b, n
  <2>1. i - b \in 1..sent[w] /\ b + (i - b) = i
      BY <1>1
  <2>2. file[i] = << w, i - b >>
      BY <1>1, <2>1
  <2>3. QED
      BY <2>2
<1>4. ASSUME NEW i \in 1..b, LineEndsBy(b, i)
      PROVE  file[i][1] # w /\ i - 1 < b /\ i \in 1..n /\ LineEndsBy(n, i)
  <2>1. file[i][1] # w /\ i \in 1..n
      BY BelowTheWriter
  <2>2. file[i][1] \in Writers
      BY <2>1, Owned
  <2>3. length[file[i][1]] \in Nat
      BY <2>2, Sizes
  <2>4. i - 1 < b /\ i - 1 + length[file[i][1]] <= n
    <3>1. i - 1 + length[file[i][1]] <= b
        BY <1>4 DEF LineEndsBy
    <3> HIDE DEF b, n
    <3>2. QED
        BY <1>1, <2>3, <3>1
  <2>5. QED
      BY <1>4, <2>1, <2>4 DEF LineEndsBy
<1>5. ASSUME NEW i \in 1..n, LineEndsBy(n, i), file[i][1] # w
      PROVE  i \in 1..b /\ LineEndsBy(b, i)
  <2> DEFINE v == file[i][1]
             j == i - 1 + length[v]
  <2>1. /\ v \in Writers /\ i - 1 = before[v] /\ before[v] + length[v] <= n
        /\ \A k \in 1..length[v] : file[before[v] + k] = << v, k >>
      BY <1>2, <1>5, LineIs
  <2>2. length[v] \in Nat /\ length[v] > 0 /\ before[v] \in Nat
      BY <2>1, Sizes
  <2>3. i \in 1..b
      BY <1>1, <1>3, <1>5
  <2>4. length[v] \in 1..length[v] /\ j = before[v] + length[v] /\ j \in 1..n
    <3> HIDE DEF v, n
    <3> QED
        BY <1>1, <2>1, <2>2
  <2>5. file[j] = << v, length[v] >>
      BY <2>1, <2>4
  <2>6. j <= b
    <3>1. j \notin (b + 1)..n
        BY <1>3, <1>5, <2>5
    <3> HIDE DEF j, b, n
    <3>2. QED
        BY <1>1, <2>4, <3>1
  <2>7. QED
      BY <1>5, <2>3, <2>6 DEF LineEndsBy
<1>6. ASSUME NEW i \in 1..n, LineEndsBy(n, i), file[i][1] = w
      PROVE  i - 1 = b /\ sent[w] = length[w]
  <2>1. i - 1 = b /\ b + length[w] <= n
      BY <1>2, <1>6, LineIs
  <2>2. sent[w] <= length[w]
      BY DEF LinesInv
  <2> HIDE DEF b, n
  <2>3. QED
      BY <1>1, <2>1, <2>2
<1>7. ASSUME sent[w] = length[w]
      PROVE  \E i \in 1..n : LineEndsBy(n, i) /\ file[i][1] = w /\ i - 1 = b
  <2>0. PICK i : i = b + 1
      OBVIOUS
  <2>1. i \in 1..n /\ i - 1 = b /\ i = b + 1 /\ 1 \in 1..sent[w] /\ b + length[w] <= n
    <3> HIDE DEF b, n
    <3> QED
        BY <1>1, <1>7, <2>0
  <2>2. file[i][1] = w
      BY <1>1, <2>1
  <2>3. HasLineAt(file, w, b)
      BY <1>1, <1>7 DEF HasLineAt
  <2> HIDE DEF b, n
  <2>4. LineEndsBy(n, i)
      BY <2>1, <2>2, <2>3 DEF LineEndsBy
  <2>5. QED
      BY <2>1, <2>2, <2>4
<1>8. \A other \in old : other.of # w /\ other.at < b
    BY <1>4 DEF LinesWithin
<1> HIDE DEF b, n
<1>9. old \subseteq new
    BY <1>4 DEF LinesWithin
<1>10. ASSUME NEW other \in new
       PROVE  other \in old \/ (sent[w] = length[w] /\ other = line)
  <2>1. PICK i \in 1..n : LineEndsBy(n, i) /\ other = [at |-> i - 1, of |-> file[i][1]]
      BY <1>10 DEF LinesWithin
  <2>2. CASE file[i][1] # w
      BY <1>5, <2>1, <2>2 DEF LinesWithin
  <2>3. CASE file[i][1] = w
      BY <1>6, <2>1, <2>3 DEF b
  <2>4. QED
      BY <2>2, <2>3
<1>11. ASSUME sent[w] = length[w]
       PROVE  line \in new
  <2>1. PICK i \in 1..n : LineEndsBy(n, i) /\ file[i][1] = w /\ i - 1 = b
      BY <1>7, <1>11
  <2>2. line = [at |-> i - 1, of |-> file[i][1]]
      BY <2>1 DEF b
  <2> HIDE DEF line
  <2>3. QED
      BY <2>1, <2>2 DEF LinesWithin
<1> HIDE DEF old, new, line
<1>12. new = IF sent[w] = length[w] THEN old \cup {line} ELSE old
    BY <1>9, <1>10, <1>11
<1>13. QED
    BY <1>8, <1>12 DEF old, new, line, b, n

Kept == {w \in Writers : outcome[w] = "kept"}

(* Every step adds a line to the log, or leaves it as it is. *)
LEMMA LogStep ==
    IInv /\ IInv' /\ [Next]_vars => [Log!Next]_<< Lines, Kept >>
<1> SUFFICES ASSUME IInv, IInv', [Next]_vars
             PROVE  Log!Next \/ (Lines' = Lines /\ Kept' = Kept)
    BY DEF Kept
<1>1. TypeOK /\ LockInv /\ WriteInv /\ LinesInv /\ LockInv'
    BY DEF IInv
<1>2. /\ \A w \in Writers : pc[w] \in InFile => Settled = before[w]
      /\ (\A w \in Writers : pc[w] \notin InFile) => Settled = Len(file)
    BY <1>1, SettledIs
<1>3. /\ \A w \in Writers : pc'[w] \in InFile => Settled' = before'[w]
      /\ (\A w \in Writers : pc'[w] \notin InFile) => Settled' = Len(file')
  <2>1. (LockInv =>
           /\ \A w \in Writers : pc[w] \in InFile => Settled = before[w]
           /\ (\A w \in Writers : pc[w] \notin InFile) => Settled = Len(file))'
      BY SettledIs, PTL
  <2>2. QED
      BY <1>1, <2>1 DEF InFile
<1>4. Settled \in 0..Len(file) /\ Len(file) \in Nat
  <2>1. Len(file) \in Nat
      BY <1>1, LenProperties DEF TypeOK
  <2>2. ASSUME NEW w \in Writers, pc[w] \in InFile
        PROVE  before[w] \in 0..Len(file)
    <3>1. before[w] \in Nat /\ sent[w] \in Nat /\ Len(file) = before[w] + sent[w]
        BY <1>1, <2>2, Sizes DEF WriteInv, WriterInv, AtWork
    <3>2. QED
        BY <2>1, <3>1
  <2>3. QED
      BY <1>2, <2>1, <2>2
<1>5. ASSUME UNCHANGED << length, file, before, Kept >>,
             \A w \in Writers : pc'[w] \in InFile <=> pc[w] \in InFile
      PROVE  Lines' = Lines /\ Kept' = Kept
  <2>1. Settled' = Settled
      BY <1>2, <1>3, <1>5
  <2>2. QED
      BY <1>1, <1>4, <1>5, <2>1, SameLines
<1>6. ASSUME NEW w \in Writers, pc[w] \in InFile, UNCHANGED << length, file, before >>,
             \A v \in Writers : pc'[v] \notin InFile,
             Kept' = Kept \/ (sent[w] = length[w] /\ Kept' = Kept \cup {w})
      PROVE  Log!Next \/ (Lines' = Lines /\ Kept' = Kept)
  <2> DEFINE line == [at |-> before[w], of |-> w]
  <2>1. Lines = LinesWithin(before[w])
      BY <1>2, <1>6 DEF Lines
  <2>2. Lines' = LinesWithin(Len(file))
      BY <1>3, <1>6 DEF Lines, LinesWithin, LineEndsBy, HasLineAt
  <2>3. /\ \A other \in Lines : other.of # w /\ other.at < before[w]
        /\ Lines' = IF sent[w] = length[w] THEN Lines \cup {line} ELSE Lines
      BY <1>1, <1>6, <2>1, <2>2, Release
  <2>4. CASE sent[w] = length[w]
    <3>1. PICK new : new = line
        OBVIOUS
    <3>2. new.of = w /\ new.at = before[w]
        BY <3>1
    <3> HIDE DEF line
    <3>3. new \notin Lines /\ Lines' = Lines \cup {new}
        BY <2>3, <2>4, <3>1, <3>2
    <3>4. Log!AddLine(new)
        BY <1>6, <2>3, <3>2, <3>3 DEF Log!AddLine, Log!InLog, Kept
    <3>5. QED
        BY <3>3, <3>4 DEF Log!Next
  <2>5. CASE sent[w] # length[w]
      BY <1>6, <2>3, <2>5
  <2>6. QED
      BY <2>4, <2>5
<1>k. \A w \in Writers : outcome[w] = "kept" => pc[w] = "done"
    BY <1>1 DEF LinesInv
<1> USE <1>k DEF Goto, Unlock, Ends, Procs
<1>7. ASSUME NEW w \in Writers, WriterStep(w)
      PROVE  Log!Next \/ (Lines' = Lines /\ Kept' = Kept)
  <2> USE <1>1 DEF TypeOK
  <2>1. CASE GiveUp(w)
    <3>1. UNCHANGED << length, file, before, Kept >>
        BY <2>1 DEF GiveUp, Kept
    <3>2. \A v \in Writers : pc'[v] \in InFile <=> pc[v] \in InFile
        BY <2>1 DEF GiveUp, InFile
    <3>3. QED
        BY <1>5, <3>1, <3>2
  <2>2. CASE OpenToAppend(w)
      BY <1>5, <2>2 DEF OpenToAppend, InFile, Kept
  <2>3. CASE LockToAppend(w)
      BY <1>5, <2>3 DEF LockToAppend, InFile, Kept
  <2>4. CASE LockFails(w)
      BY <1>5, <2>4 DEF LockFails, InFile, Kept
  <2>5. CASE Stat(w)
    <3>1. \A v \in Writers : pc[v] \notin InFile
        BY <2>5 DEF Stat, LockInv, InFile
    <3>2. Settled = Len(file)
        BY <1>2, <3>1
    <3>3. Settled' = Len(file) /\ file' = file /\ length' = length
      <4>1. CASE pc'[w] = "write"
          BY <1>3, <2>5, <4>1 DEF Stat, InFile
      <4>2. CASE pc'[w] = "done"
        <5>1. \A v \in Writers : pc'[v] \notin InFile
            BY <2>5, <3>1, <4>2 DEF Stat, InFile
        <5>2. QED
            BY <1>3, <2>5, <5>1 DEF Stat
      <4>3. QED
          BY <2>5, <4>1, <4>2 DEF Stat
    <3>4. Kept' = Kept
        BY <2>5 DEF Stat, Kept
    <3>5. QED
        BY <1>4, <3>2, <3>3, <3>4, SameLines
  <2>6. CASE Write(w)
    <3>1. pc[w] = "write" /\ UNCHANGED << length, before, outcome >>
        BY <2>6 DEF Write
    <3>2. /\ pc'[w] \in {"write", "wrote"}
          /\ \A i \in 1..Len(file) : file'[i] = file[i]
      <4>1. PICK to \in (sent[w] + 1)..length[w] :
               /\ Goto(w, IF to = length[w] THEN "wrote" ELSE "write")
               /\ \A i \in 1..Len(file) : file'[i] = file[i]
          BY <2>6, WriteDoes
      <4>2. QED
          BY <4>1
    <3>3. Settled = before[w] /\ Settled' = before[w]
        BY <1>2, <1>3, <3>1, <3>2 DEF InFile
    <3>4. \A i \in 1..Settled : file'[i] = file[i]
        BY <1>4, <3>2
    <3>5. QED
        BY <1>4, <3>1, <3>3, <3>4, SameLines DEF Kept
  <2>7. CASE WriteFails(w)
      BY <1>5, <2>7 DEF WriteFails, InFile, Kept
  <2>8. CASE Truncate(w)
    <3>1. pc[w] = "truncate" /\ UNCHANGED << length, before, outcome >>
        BY <2>8 DEF Truncate
    <3>2. Len(file') = before[w] /\ \A i \in 1..before[w] : file'[i] = file[i]
        BY <2>8, TruncateCuts DEF Truncate
    <3>3. \A v \in Writers : pc'[v] \notin InFile
        BY <2>8 DEF Truncate, LockInv, InFile
    <3>4. Settled = before[w] /\ Settled' = before[w]
        BY <1>2, <1>3, <3>1, <3>2, <3>3 DEF InFile
    <3>5. QED
        BY <1>4, <3>1, <3>2, <3>4, SameLines DEF Kept
  <2>9. CASE Return(w)
    <3>1. pc[w] = "wrote" /\ sent[w] = length[w] /\ UNCHANGED << length, file, before >>
        BY <2>9 DEF Return, WriteInv, WriterInv
    <3>2. \A v \in Writers : pc'[v] \notin InFile
        BY <2>9 DEF Return, LockInv, InFile
    <3>3. Kept' = Kept \/ Kept' = Kept \cup {w}
        BY <2>9 DEF Return, Kept
    <3>4. QED
        BY <1>6, <3>1, <3>2, <3>3 DEF InFile
  <2>10. CASE MarkLost(w)
    <3>1. UNCHANGED << length, file, before, Kept >>
        BY <2>10 DEF MarkLost, Kept
    <3>2. \A v \in Writers : pc'[v] \in InFile <=> pc[v] \in InFile
        BY <2>10 DEF MarkLost, InFile
    <3>3. QED
        BY <1>5, <3>1, <3>2
  <2>11. QED
      BY <1>7, <2>1, <2>2, <2>3, <2>4, <2>5, <2>6, <2>7, <2>8, <2>9, <2>10 DEF WriterStep
<1>8. ASSUME NEW r \in Readers, ReaderStep(r)
      PROVE  Lines' = Lines /\ Kept' = Kept
  <2>1. UNCHANGED << length, file, before, outcome >>
      BY <1>8 DEF ReaderStep, OpenToRead, LockToRead, ReadFails, ReadChunk, ReadEnds
  <2>2. \A v \in Writers : pc'[v] = pc[v]
      BY <1>1, <1>8, SizesAssumption
      DEF TypeOK, ReaderStep, OpenToRead, LockToRead, ReadFails, ReadChunk, ReadEnds
  <2>3. QED
      BY <1>5, <2>1, <2>2 DEF Kept
<1>9. ASSUME NEW p \in Procs, Dies(p)
      PROVE  Log!Next \/ (Lines' = Lines /\ Kept' = Kept)
  <2>1. UNCHANGED << length, file, before, outcome >> /\ Kept' = Kept
      BY <1>9 DEF Dies, Kept
  <2>2. pc' = [pc EXCEPT ![p] = "dead"]
      BY <1>9 DEF Dies
  <2>3. CASE p \in Writers /\ pc[p] \in InFile
    <3>1. \A v \in Writers : pc'[v] \notin InFile
        BY <1>1, <2>2, <2>3 DEF TypeOK, LockInv, InFile
    <3>2. QED
        BY <1>6, <2>1, <2>3, <3>1
  <2>4. CASE ~(p \in Writers /\ pc[p] \in InFile)
    <3>1. \A v \in Writers : pc'[v] \in InFile <=> pc[v] \in InFile
        BY <1>1, <2>2, <2>4 DEF TypeOK, InFile
    <3>2. QED
        BY <1>5, <2>1, <3>1
  <2>5. QED
      BY <2>3, <2>4
<1>10. CASE UNCHANGED vars
    BY <1>5, <1>10 DEF vars, Kept
<1>11. QED
    BY <1>7, <1>8, <1>9, <1>10 DEF Next, AllOver

(* However hooks race, fail and die, the session's log is an append-only   *)
(* log of whole lines, in which a record known to be kept is.              *)
THEOREM AppendOnly == Spec => ImplementsAppendLog
<1>1. Init => Log!Init
  <2> SUFFICES ASSUME Init
               PROVE  Lines = {} /\ Kept = {}
      BY DEF Log!Init, Kept
  <2>1. Len(file) = 0
      BY EmptySeq DEF Init
  <2>2. \A w \in Writers : pc[w] \notin InFile
      BY DEF Init, InFile, Procs
  <2>3. Settled = 0
      BY <2>1, <2>2 DEF Settled
  <2>4. QED
      BY <2>3 DEF Init, Kept, Lines, LinesWithin
<1>2. IInv /\ IInv' /\ [Next]_vars => [Log!Next]_<< Lines, {w \in Writers : outcome[w] = "kept"} >>
    BY LogStep DEF Kept
<1>3. QED
    BY <1>1, <1>2, Invariant, PTL DEF Spec, ImplementsAppendLog, Log!Spec

=============================================================================
