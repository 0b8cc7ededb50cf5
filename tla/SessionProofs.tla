---------------------------- MODULE SessionProofs ----------------------------
(***************************************************************************)
(* Proofs about a hook's work on one session: Numbering, for any types,    *)
(* values and placeholders in the texts; Deadline, for any two deadlines;  *)
(* Names, for any hooks, runs and cap; StopHook, for any hooks, any cap    *)
(* and any base the mark is written in; Summary, for any types, any        *)
(* numbers found and any records, as many as there are.                    *)
(***************************************************************************)
EXTENDS Names, StopHook, Numbering, Deadline, Summary,
        FiniteSetTheorems, SequenceTheorems, WellFoundedInduction, TLAPS

-----------------------------------------------------------------------------
(* A value that is given the next number keeps the numbering a bijection.  *)
LEMMA MaskStep ==
    ASSUME NumberingInv, NEW k \in Kinds, NEW v \in Values, Mask(k, v)
    PROVE  NumberingInv'
<1> DEFINE D == DOMAIN given[k]
           next == floors[k] + Cardinality(D) + 1
           new == [w \in D \cup {v} |-> IF w = v THEN next ELSE given[k][w]]
<1>1. /\ v \notin D /\ given' = [given EXCEPT ![k] = new]
      /\ inText' = inText /\ floors' = floors
    BY DEF Mask
<1>2. NumberingOf(k)
    BY DEF NumberingInv
<1>3. IsFiniteSet(D) /\ Cardinality(D) \in Nat /\ floors[k] \in Nat
    BY <1>2, FS_CardinalityType DEF NumberingOf
<1>4. IsFiniteSet(D \cup {v}) /\ Cardinality(D \cup {v}) = Cardinality(D) + 1
    BY <1>1, <1>3, FS_AddElement
<1>5. given'[k] = new /\ DOMAIN new = D \cup {v}
    BY <1>1 DEF NumberingInv
<1>6. IssuedNumbers(k)' = (floors[k] + 1)..next /\ IssuedNumbers(k) = (floors[k] + 1)..(next - 1)
  <2>1. Cardinality(DOMAIN given'[k]) = Cardinality(D) + 1
      BY <1>4, <1>5
  <2>2. IssuedNumbers(k)' = (floors[k] + 1)..(floors[k] + (Cardinality(D) + 1))
      BY <1>1, <2>1 DEF IssuedNumbers
  <2>3. /\ floors[k] + (Cardinality(D) + 1) = next
        /\ floors[k] + Cardinality(D) = next - 1
    <3> HIDE DEF D
    <3> QED
        BY <1>3
  <2>4. QED
      BY <2>2, <2>3 DEF IssuedNumbers
<1>7. /\ new[v] = next /\ \A w \in D : new[w] = given[k][w] /\ new[w] \in (floors[k] + 1)..(next - 1)
    BY <1>1, <1>2, <1>6 DEF NumberingOf
<1>8. next \in Nat /\ \A w \in D : new[w] # next
  <2>1. next \in Nat /\ floors[k] < next
    <3> HIDE DEF D
    <3> QED
        BY <1>3
  <2> HIDE DEF D, next, new
  <2>2. QED
      BY <1>3, <1>7, <2>1
<1> HIDE DEF D, next, new
<1>9. NumberingOf(k)'
  <2>1. floors'[k] \in Nat /\ IsFloor(k, floors[k])'
      BY <1>1, <1>2 DEF NumberingOf, IsFloor
  <2>2. \A w \in D \cup {v} : new[w] \in (floors[k] + 1)..next
    <3>1. floors[k] < next
      <4> USE DEF next
      <4> QED
          BY <1>3
    <3>2. QED
        BY <1>3, <1>7, <1>8, <3>1
  <2>3. ASSUME NEW n \in (floors[k] + 1)..next
        PROVE  \E w \in D \cup {v} : new[w] = n
    <3>1. CASE n = next
        BY <1>7, <3>1
    <3>2. CASE n # next
      <4>1. n \in IssuedNumbers(k)
          BY <1>3, <1>6, <1>8, <3>2
      <4>2. PICK w \in D : given[k][w] = n
          BY <1>2, <4>1 DEF NumberingOf, D
      <4>3. QED
          BY <1>7, <4>2
    <3>3. QED
        BY <3>1, <3>2
  <2>4. \A w, x \in D \cup {v} : new[w] = new[x] => w = x
    <3>1. \A w, x \in D : given[k][w] = given[k][x] => w = x
        BY <1>2 DEF NumberingOf, D
    <3>2. QED
        BY <1>7, <1>8, <3>1
  <2>5. QED
      BY <1>4, <1>5, <1>6, <2>1, <2>2, <2>3, <2>4 DEF NumberingOf
<1>10. ASSUME NEW j \in Kinds, j # k
       PROVE  NumberingOf(j)'
  <2>1. given'[j] = given[j] /\ NumberingOf(j)
      BY <1>1, <1>10 DEF NumberingInv
  <2>2. QED
      BY <1>1, <2>1 DEF NumberingOf, IsFloor, IssuedNumbers
<1>11. DOMAIN given' = Kinds /\ given' = [j \in Kinds |-> given'[j]]
    BY <1>1 DEF NumberingInv
<1>12. QED
    BY <1>1, <1>9, <1>10, <1>11 DEF NumberingInv

THEOREM NumberingInvariant == NumberingSpec => []NumberingInv
<1>1. NumberingInit => NumberingInv
  <2> SUFFICES ASSUME NumberingInit PROVE NumberingInv
      OBVIOUS
  <2>1. ASSUME NEW k \in Kinds
        PROVE  NumberingOf(k)
    <3>1. floors[k] \in Nat /\ IsFloor(k, floors[k]) /\ DOMAIN given[k] = {}
        BY NumberingAssumption DEF NumberingInit
    <3>2. Cardinality(DOMAIN given[k]) = 0 /\ IsFiniteSet(DOMAIN given[k])
        BY <3>1, FS_EmptySet
    <3>3. IssuedNumbers(k) = {}
        BY <3>1, <3>2 DEF IssuedNumbers
    <3>4. QED
        BY <3>1, <3>2, <3>3 DEF NumberingOf
  <2>2. QED
      BY <2>1 DEF NumberingInit, NumberingInv
<1>2. NumberingInv /\ [NumberingNext]_numvars => NumberingInv'
  <2>1. ASSUME NumberingInv, UNCHANGED numvars
        PROVE  NumberingInv'
      BY <2>1 DEF numvars, NumberingInv, NumberingOf, IsFloor, IssuedNumbers
  <2>2. QED
      BY <2>1, MaskStep DEF NumberingNext
<1>3. QED
    BY <1>1, <1>2, PTL DEF NumberingSpec

(* In every event, for any texts: a value keeps its number, no two share   *)
(* one, the session is given the numbers that were issued, and none stands *)
(* in a text already, unless the texts hold one of _MAX_FLOOR or more.     *)
THEOREM UniqueNames == NumberingSpec => []NamesAreUnique
<1>1. NumberingInv => NamesAreUnique
  <2> SUFFICES ASSUME NumberingInv, NEW k \in Kinds
               PROVE  /\ \A v, w \in DOMAIN given[k] : given[k][v] = given[k][w] => v = w
                      /\ Numbers(k) = IssuedNumbers(k)
                      /\ ~Huge(k) => \A n \in Numbers(k) : << k, n >> \notin inText
      BY DEF NamesAreUnique
  <2>1. NumberingOf(k)
      BY DEF NumberingInv
  <2>2. Numbers(k) = IssuedNumbers(k)
      BY <2>1 DEF Numbers, NumberingOf
  <2>3. ASSUME ~Huge(k), NEW n \in IssuedNumbers(k), << k, n >> \in inText
        PROVE  FALSE
    <3>1. n \in 1..MaxNumber
        BY <2>3 DEF NumberingInv
    <3>2. n < MaxFloor
        BY <2>3, <3>1, NumberingAssumption DEF Huge
    <3>3. n <= floors[k] /\ floors[k] \in Nat
        BY <2>1, <2>3, <3>1, <3>2 DEF NumberingOf, IsFloor
    <3>4. Cardinality(DOMAIN given[k]) \in Nat
        BY <2>1, FS_CardinalityType DEF NumberingOf
    <3>5. QED
        BY <3>1, <3>3, <3>4 DEF IssuedNumbers
  <2>4. QED
      BY <2>1, <2>2, <2>3 DEF NumberingOf
<1>2. QED
    BY <1>1, NumberingInvariant, PTL

-----------------------------------------------------------------------------
THEOREM DeadlineInvariant == DeadlineSpec => []DeadlineInv
<1> USE DeadlineAssumption
<1>1. DeadlineInit => DeadlineInv
  <2> SUFFICES ASSUME DeadlineInit PROVE DeadlineInv
      OBVIOUS
  <2>1. running \in BOOLEAN /\ ~running
      BY Zenon DEF DeadlineInit
  <2>2. now = 0 /\ timer = HookSeconds /\ previous = 0 /\ began = 0 /\ ended = "no"
      BY DEF DeadlineInit
  <2>3. QED
      BY <2>1, <2>2 DEF DeadlineInv
<1>2. DeadlineInv /\ [DeadlineNext]_timevars => DeadlineInv'
  <2> SUFFICES ASSUME DeadlineInv, [DeadlineNext]_timevars PROVE DeadlineInv'
      OBVIOUS
  <2>1. CASE BeginAnalysis
      BY <2>1 DEF BeginAnalysis, DeadlineInv, Delay, Outer
  <2>2. CASE EndAnalysis
    <3>1. Remaining = HookSeconds - now /\ now < HookSeconds
        BY <2>2 DEF EndAnalysis, DeadlineInv, Remaining, Delay, Outer
    <3>2. running' \in BOOLEAN /\ ~running'
        BY <2>2, Zenon DEF EndAnalysis
    <3>3. QED
        BY <2>2, <3>1, <3>2 DEF EndAnalysis, DeadlineInv, NotNegative
  <2>3. CASE Tick
    <3>1. CASE timer # 1
      <4>1. timer > 0 /\ timer' = timer - 1 /\ UNCHANGED << running, ended, previous, began >>
          BY <2>3, <3>1 DEF Tick, DeadlineInv, NotNegative
      <4>2. now' = now + 1 /\ ended = "no"
          BY <2>3 DEF Tick
      <4>3. now + 1 < HookSeconds
          BY <3>1, <4>1, <4>2 DEF DeadlineInv, Delay, Outer
      <4>4. QED
          BY <3>1, <4>1, <4>2, <4>3 DEF DeadlineInv, Delay
    <3>2. CASE timer = 1 /\ running /\ ~Outer(previous)
      <4>1. /\ running' = FALSE /\ ended' = "no" /\ ended = "no" /\ now' = now + 1
            /\ UNCHANGED << previous, began >>
            /\ timer' = NotNegative(previous - AnalysisSeconds)
          BY <2>3, <3>2 DEF Tick, Delay
      <4>2. previous = HookSeconds - began /\ now + 1 = began + AnalysisSeconds /\ previous > AnalysisSeconds
          BY <3>2 DEF DeadlineInv, Delay, Outer
      <4>3. running' \in BOOLEAN /\ ~running'
          BY <4>1, Zenon
      <4>4. QED
          BY <4>1, <4>2, <4>3 DEF DeadlineInv, NotNegative
    <3>3. CASE timer = 1 /\ ~(running /\ ~Outer(previous))
      <4>1. /\ running' = FALSE /\ ended' = "hook" /\ ended = "no" /\ now' = now + 1
            /\ UNCHANGED << previous, began >> /\ timer' = 0
          BY <2>3, <3>3 DEF Tick
      <4>2. now + 1 = HookSeconds
          BY <3>3, <4>1 DEF DeadlineInv, Delay, Outer
      <4>3. running' \in BOOLEAN /\ ~running'
          BY <4>1, Zenon
      <4>4. QED
          BY <4>1, <4>2, <4>3 DEF DeadlineInv
    <3>4. QED
        BY <3>1, <3>2, <3>3
  <2>4. CASE UNCHANGED timevars
      BY <2>4 DEF timevars, DeadlineInv, Delay, Outer
  <2>5. QED
      BY <2>1, <2>2, <2>3, <2>4 DEF DeadlineNext
<1>3. QED
    BY <1>1, <1>2, PTL DEF DeadlineSpec

(* For any two deadlines and any analyses: the hook's alarm comes when it  *)
(* was set to, and no analysis outruns its own deadline or the hook's.     *)
THEOREM KeptAlarm == DeadlineSpec => []AlarmIsKept
<1>1. DeadlineInv => AlarmIsKept
    BY DeadlineAssumption DEF DeadlineInv, AlarmIsKept, Delay, Outer
<1>2. QED
    BY <1>1, DeadlineInvariant, PTL

-----------------------------------------------------------------------------
USE DEF Whole

NamesInv == TypeOK /\ HandedInv

(* What an append does to the lines that are there: nothing. *)
LEMMA AddsKeeps ==
    ASSUME TypeOK, NEW h \in Hooks, NEW parts \in 1..Whole, Adds(h, parts)
    PROVE  /\ kept' \in [1..2 -> Seq(Runs \X (1..Whole))]
           /\ \A n \in 1..2 : \A r \in Runs : IsThere(r, kept[n]) => IsThere(r, kept'[n])
           /\ parts = Whole => IsThere(run[h], kept'[opened[h]])
  <1> DEFINE line == << run[h], parts >>
  <1>1. line \in Runs \X (1..Whole) /\ opened[h] \in 1..2
    BY DEF TypeOK, Procs
  <1>2. /\ kept[opened[h]] \in Seq(Runs \X (1..Whole))
        /\ kept' = [kept EXCEPT ![opened[h]] = Append(@, line)]
    BY <1>1 DEF TypeOK, Adds
  <1>3. kept'[opened[h]] = Append(kept[opened[h]], line)
    BY <1>1, <1>2 DEF TypeOK
  <1> DEFINE s == kept[opened[h]]
             t == kept'[opened[h]]
  <1>4. /\ t \in Seq(Runs \X (1..Whole)) /\ Len(t) = Len(s) + 1
        /\ \A i \in 1..Len(s) : t[i] = s[i]
        /\ t[Len(s) + 1] = line
        /\ DOMAIN s = 1..Len(s) /\ DOMAIN t = 1..Len(t) /\ Len(s) \in Nat
    <2> HIDE DEF line
    <2> QED BY <1>1, <1>2, <1>3, AppendProperties, LenProperties
  <1>5. kept' \in [1..2 -> Seq(Runs \X (1..Whole))]
    BY <1>1, <1>2, <1>3, <1>4 DEF TypeOK
  <1>6. ASSUME NEW r \in Runs, IsThere(r, s) PROVE IsThere(r, t)
    <2>1. PICK i \in DOMAIN s : s[i][1] = r /\ s[i][2] >= 3
      BY <1>6 DEF IsThere
    <2>2. i \in DOMAIN t /\ t[i] = s[i]
      BY <1>4
    <2> QED BY <2>1, <2>2 DEF IsThere
  <1>7. \A n \in 1..2 : n # opened[h] => kept'[n] = kept[n]
    BY <1>2 DEF TypeOK
  <1>8. parts = Whole => IsThere(run[h], t)
    <2>1. Len(s) + 1 \in DOMAIN t
      BY <1>4
    <2>2. t[Len(s) + 1][1] = run[h] /\ t[Len(s) + 1][2] = parts
      BY <1>4
    <2> QED BY <2>1, <2>2 DEF IsThere
  <1> QED BY <1>5, <1>6, <1>7, <1>8

(* What spool.issued returns is there. *)
LEMMA IssuedIsThere ==
    ASSUME NEW lines, NEW r \in Issued(lines) PROVE IsThere(r, lines)
  <1>1. PICK i \in DOMAIN lines : lines[i][2] >= 3 /\ r = lines[i][1]
    BY DEF Issued
  <1> QED BY <1>1 DEF IsThere

(* Where no line hides behind part of another, what is there is issued. *)
LEMMA ThereIsIssued ==
    ASSUME TypeOK, ~Hidden, Readable(kept[1]), NEW r \in Runs, IsThere(r, kept[1])
    PROVE  r \in Issued(kept[1])
  <1> DEFINE s == kept[1]
  <1>1. /\ s \in Seq(Runs \X (1..Whole)) /\ DOMAIN s = 1..Len(s) /\ Len(s) \in Nat
        /\ \A i \in 1..Len(s) : s[i][2] \in 1..Whole
    <2>1. s \in Seq(Runs \X (1..Whole))  BY DEF TypeOK
    <2>2. DOMAIN s = 1..Len(s) /\ Len(s) \in Nat  BY <2>1, LenProperties
    <2>3. \A i \in 1..Len(s) : s[i] \in Runs \X (1..Whole)  BY <2>1, ElementOfSeq
    <2> QED BY <2>1, <2>2, <2>3
  <1>2. PICK i \in DOMAIN s : s[i][1] = r /\ s[i][2] >= 3
    BY DEF IsThere
  <1>3. i > 1 => s[i - 1][2] = Whole
    <2>1. SUFFICES ASSUME i > 1 PROVE s[i - 1][2] = Whole
      OBVIOUS
    <2>2. i - 1 \in DOMAIN s /\ i - 1 # Len(s)
      BY <1>1, <1>2, <2>1
    <2>3. s[i - 1][2] # 1
      BY <2>2 DEF Hidden
    <2> QED BY <2>2, <2>3 DEF Readable
  <1> QED BY <1>2, <1>3 DEF Issued

(* The fields of the state are what they are meant to be, and what was     *)
(* handed over is there, at every step.                                    *)
LEMMA Inductive == Spec => []NamesInv
  <1>1. Init => NamesInv
    BY EmptySeq DEF Init, NamesInv, TypeOK, HandedInv, Procs
  <1>2. NamesInv /\ [Next]_vars => NamesInv'
    <2> SUFFICES ASSUME NamesInv, [Next]_vars PROVE NamesInv'
      OBVIOUS
    <2> USE DEF NamesInv
    <2>1. ASSUME NEW h \in Hooks, Keep(h) PROVE NamesInv'
      <3>1. TypeOK'
        BY <2>1 DEF TypeOK, Keep, Answers, Goto, Procs
      <3>2. CASE run[h] \in Issued(kept[Current])
        <4>1. IsThere(run[h], kept[Current])
          BY <3>2, IssuedIsThere DEF Current
        <4> QED BY <2>1, <3>1, <4>1 DEF TypeOK, HandedInv, Keep, Answers, Goto, Procs, Current
      <3>3. CASE run[h] \notin Issued(kept[Current])
        BY <2>1, <3>1, <3>3 DEF TypeOK, HandedInv, Keep, Answers, Goto, Procs
      <3> QED BY <3>2, <3>3
    <2>2. ASSUME NEW h \in Hooks, Open(h) PROVE NamesInv'
      BY <2>2 DEF TypeOK, HandedInv, Open, Goto, Procs, Current
    <2>3. ASSUME NEW h \in Hooks, AppendLine(h) PROVE NamesInv'
      <3>1. Adds(h, Whole)
        BY <2>3 DEF AppendLine
      <3>2. TypeOK'
        BY <2>3, <3>1, AddsKeeps DEF TypeOK, AppendLine, Answers, Goto, Procs
      <3>3. \A g \in Hooks : run[g] \in Runs
        BY DEF TypeOK, Procs
      <3>4. cleared = "no" => IsThere(run[h], kept'[1])
        BY <3>1, AddsKeeps DEF HandedInv
      <3>5. \A g \in Hooks : IsThere(run[g], kept[1]) => IsThere(run[g], kept'[1])
        BY <3>1, <3>3, AddsKeeps
      <3> QED BY <2>3, <3>2, <3>4, <3>5 DEF TypeOK, HandedInv, AppendLine, Answers, Goto, Procs
    <2>4. ASSUME NEW h \in Hooks, AppendRefused(h) \/ AppendFails(h) PROVE NamesInv'
      BY <2>4 DEF TypeOK, HandedInv, AppendRefused, AppendFails, Answers, Goto, Procs
    <2>5. ASSUME NEW h \in Hooks, AppendDies(h) PROVE NamesInv'
      <3>1. PICK parts \in 1..Whole : Adds(h, parts)
        BY <2>5 DEF AppendDies
      <3>2. TypeOK'
        BY <2>5, <3>1, AddsKeeps DEF TypeOK, AppendDies, Goto, Procs
      <3>3. \A g \in Hooks : IsThere(run[g], kept[1]) => IsThere(run[g], kept'[1])
        BY <3>1, AddsKeeps DEF TypeOK, Procs
      <3> QED BY <2>5, <3>2, <3>3 DEF HandedInv, AppendDies
    <2>6. ASSUME NEW c \in Checkers, Check(c) PROVE NamesInv'
      BY <2>6, NamesAssumption DEF TypeOK, HandedInv, Check, Answers, Goto, Procs
    <2>7. CASE Clear
      BY <2>7 DEF TypeOK, HandedInv, Clear
    <2>8. CASE AllOver \/ UNCHANGED vars
      BY <2>8 DEF TypeOK, HandedInv, AllOver, vars
    <2> QED
      BY <2>1, <2>2, <2>3, <2>4, <2>5, <2>6, <2>7, <2>8 DEF Next, HookStep
  <1> QED BY <1>1, <1>2, PTL DEF Spec

(* Every field of the state stays of its type. *)
THEOREM TypeCorrect == Spec => []TypeOK
  BY Inductive, PTL DEF NamesInv

(* Every name the model was handed in this session is one that             *)
(* spool.issued returns, or it raises, for any number of hooks that race,  *)
(* fail and die, save behind a line that stopped within its first field.   *)
THEOREM KnownOrRaises == Spec => []HandedIsKnown
  <1>1. NamesInv => HandedIsKnown
    BY ThereIsIssued DEF NamesInv, HandedInv, HandedIsKnown, Handed
  <1> QED BY <1>1, Inductive, PTL

(* A write that holds a name the model was handed before is refused, or    *)
(* the names could not be read and it is refused for that.                 *)
THEOREM WriteBackRefused == Spec => NoWriteBack
  <1> DEFINE Step ==
        \A c \in Checkers :
          outcome[c] = "none" /\ outcome'[c] = "written" /\ cleared = "no" /\ ~Hidden
             => ~Handed(run[c])
  <1>1. NamesInv /\ [Next]_vars => [Step]_vars
    <2> SUFFICES ASSUME NamesInv, Next, NEW c \in Checkers, outcome[c] = "none",
                        outcome'[c] = "written", cleared = "no", ~Hidden, Handed(run[c])
                 PROVE  FALSE
      OBVIOUS
    <2>1. /\ c \in Procs /\ c \notin Hooks /\ run[c] \in Runs
          /\ IsThere(run[c], kept[1])
      BY NamesAssumption DEF NamesInv, TypeOK, HandedInv, Handed, Procs
    <2>2. Check(c)
      BY <2>1 DEF Next, HookStep, Keep, Open, AppendLine, AppendRefused, AppendFails,
                  AppendDies, Check, Clear, AllOver, Answers, Goto, vars, NamesInv, TypeOK
    <2>3. Readable(kept[1]) /\ run[c] \notin Issued(kept[1])
      BY <2>1, <2>2 DEF Check, Answers, Current, NamesInv, TypeOK
    <2> QED BY <2>1, <2>3, ThereIsIssued DEF NamesInv
  <1> QED BY <1>1, Inductive, PTL DEF Spec, NoWriteBack

-----------------------------------------------------------------------------
(* StopHook. *)

Marks == [digits : Seq(Nat), capped : BOOLEAN]

(* A count is read back from the digits it was written in. *)
LEMMA CountOfDigits ==
    ASSUME NEW n \in Nat, NEW c \in BOOLEAN
    PROVE  /\ Digits(n) \in Seq(Nat) /\ Len(Digits(n)) > 0
           /\ Count([digits |-> Digits(n), capped |-> c]) = n
  <1> DEFINE q == n \div Base
             r == n % Base
  <1>1. q \in Nat /\ r \in Nat /\ q * Base + r = n
    BY StopAssumption
  <1>2. CASE n < Base
    BY <1>2 DEF Digits, Count
  <1>3. CASE ~(n < Base)
    <2>1. Digits(n) = << q, r >>
      BY <1>3 DEF Digits
    <2> HIDE DEF q, r
    <2> QED BY <1>1, <2>1 DEF Count
  <1> QED BY <1>2, <1>3

(* What is written over a mark is a mark. *)
LEMMA OverIsMark ==
    ASSUME NEW m \in Marks, NEW n \in Marks
    PROVE  Over(m, n) \in Marks
  <1> DEFINE tail == SubSeq(m.digits, Len(n.digits) + 1, Len(m.digits))
  <1>1. m.digits \in Seq(Nat) /\ n.digits \in Seq(Nat) /\ Len(m.digits) \in Nat /\ Len(n.digits) \in Nat
    BY LenProperties DEF Marks
  <1>2. \A i \in (Len(n.digits) + 1)..Len(m.digits) : m.digits[i] \in Nat
    BY <1>1, ElementOfSeq
  <1>3. tail \in Seq(Nat)
    BY <1>1, <1>2, SubSeqProperties
  <1>4. n.digits \o tail \in Seq(Nat)
    <2> HIDE DEF tail
    <2> QED BY <1>1, <1>3, ConcatProperties
  <1>5. << >> \in Seq(Nat)
    BY EmptySeq
  <1>6. m.capped \in BOOLEAN
    BY DEF Marks
  <1>7. /\ [digits |-> n.digits \o tail, capped |-> m.capped] \in Marks
        /\ [digits |-> << >>, capped |-> FALSE] \in Marks
    <2> HIDE DEF tail
    <2> QED BY <1>4, <1>5, <1>6 DEF Marks
  <1> QED BY <1>7 DEF Over

LEMMA MarkedIsMark ==
    ASSUME StopTypeOK, NEW s \in Stops
    PROVE  /\ Marked(s) \in Marks
           /\ Count(Marked(s)) = Len(read[s].records)
           /\ Marked(s).capped = read[s].capped
  <1>1. read[s].records \in Seq(Recorders) /\ read[s].capped \in BOOLEAN
    BY DEF StopTypeOK
  <1>2. Len(read[s].records) \in Nat
    BY <1>1, LenProperties
  <1> QED BY <1>1, <1>2, CountOfDigits DEF Marked, Marks

(* A count of digits that are numbers is one. *)
LEMMA CountIsNat == ASSUME NEW m \in Marks PROVE Count(m) \in Nat
  <1>0. m.digits \in Seq(Nat)
    BY DEF Marks
  <1>1. Len(m.digits) \in Nat
    BY <1>0, LenProperties
  <1>5. \A i \in 1..Len(m.digits) : m.digits[i] \in Nat
    BY <1>0, ElementOfSeq
  <1>2. CASE Len(m.digits) = 0  BY <1>2 DEF Count
  <1>3. CASE Len(m.digits) = 1  BY <1>1, <1>3, <1>5 DEF Count
  <1>4. CASE Len(m.digits) > 1
    <2>1. m.digits[1] \in Nat /\ m.digits[2] \in Nat
      BY <1>1, <1>4, <1>5
    <2> QED BY <1>1, <1>4, <2>1, StopAssumption DEF Count
  <1>6. Len(m.digits) = 0 \/ Len(m.digits) = 1 \/ Len(m.digits) > 1
    <2> DEFINE n == Len(m.digits)
    <2>1. n \in Nat  BY <1>1
    <2> HIDE DEF n
    <2>2. n = 0 \/ n = 1 \/ n > 1  BY <2>1
    <2> QED BY <2>2 DEF n
  <1> QED BY <1>2, <1>3, <1>4, <1>6

(* What a Stop has read stays of its type. *)
Reads == [records : Seq(Recorders), capped : BOOLEAN, opened : Nat]

LEMMA ReadsKept ==
    ASSUME NEW rd \in [Stops -> Reads], NEW s \in Stops
    PROVE  /\ \A l \in Seq(Recorders) : [rd EXCEPT ![s].records = l] \in [Stops -> Reads]
           /\ \A b \in BOOLEAN : [rd EXCEPT ![s].capped = b] \in [Stops -> Reads]
           /\ \A n \in Nat : [rd EXCEPT ![s].opened = n] \in [Stops -> Reads]
  BY DEF Reads

(* The logs an append leaves. *)
LEMMA LogsAppended ==
    ASSUME StopTypeOK, NEW k \in 1..Len(logs), NEW r \in Recorders,
           logs' = [logs EXCEPT ![k] = Append(@, r)]
    PROVE  /\ logs' \in Seq(Seq(Recorders)) /\ Len(logs') = Len(logs)
           /\ logs'[k] = Append(logs[k], r)
           /\ \A j \in 1..Len(logs) : j # k => logs'[j] = logs[j]
  <1>1. logs \in Seq(Seq(Recorders)) /\ logs[k] \in Seq(Recorders)
    BY ElementOfSeq DEF StopTypeOK
  <1>2. Append(logs[k], r) \in Seq(Recorders)
    BY <1>1, AppendProperties
  <1>3. logs' = [logs EXCEPT ![k] = Append(logs[k], r)]
    OBVIOUS
  <1> DEFINE a == Append(logs[k], r)
  <1>4. a \in Seq(Recorders) /\ logs' = [logs EXCEPT ![k] = a]
    BY <1>2, <1>3
  <1> HIDE DEF a
  <1>5. /\ logs' \in Seq(Seq(Recorders)) /\ Len(logs') = Len(logs)
        /\ \A j \in 1..Len(logs) : logs'[j] = IF j = k THEN a ELSE logs[j]
    <2> DEFINE Q == Seq(Recorders)
    <2>1. logs \in Seq(Q) /\ a \in Q
      BY <1>1, <1>4
    <2> HIDE DEF Q
    <2>2. /\ [logs EXCEPT ![k] = a] \in Seq(Q) /\ Len([logs EXCEPT ![k] = a]) = Len(logs)
          /\ \A j \in 1..Len(logs) : [logs EXCEPT ![k] = a][j] = IF j = k THEN a ELSE logs[j]
      BY <2>1, ExceptSeq
    <2> QED BY <1>4, <2>2 DEF Q
  <1> QED BY <1>5 DEF a

(* Every field of the state stays of its type. *)
LEMMA StopTypeKept ==
    ASSUME StopTypeOK, [StopNext]_stopvars PROVE StopTypeOK'
  <1> USE DEF StopTypeOK, At, Actors, Reading
  <1>0. UNCHANGED stopvars => StopTypeOK'
    BY DEF stopvars
  <1>1. ASSUME NEW r \in Recorders, OpenLog(r) PROVE StopTypeOK'
    BY <1>1, LenProperties DEF OpenLog
  <1>2. ASSUME NEW r \in Recorders, Append1(r) PROVE StopTypeOK'
    <2>1. held[r] \in 1..Len(logs)
      OBVIOUS
    <2>2. logs' \in Seq(Seq(Recorders)) /\ Len(logs') = Len(logs)
      BY <1>2, <2>1, LogsAppended DEF Append1
    <2>3. /\ at' \in [Actors \cup {"end"} -> Reading \cup {"start", "append", "quiet", "shown", "failed", "lost", "done"}]
          /\ missing' \in BOOLEAN
          /\ UNCHANGED << held, mark, marks, holder, read, told, warned, gone, damaged >>
      BY <1>2 DEF Append1
    <2> QED BY <2>2, <2>3
  <1>3. ASSUME NEW s \in Stops, ReadRecords(s) PROVE StopTypeOK'
    <2>1. Log \in Seq(Recorders)
      BY ElementOfSeq, LenProperties DEF Log, Last
    <2>2. read' \in [Stops -> [records : Seq(Recorders), capped : BOOLEAN, opened : Nat]]
      <3>1. CASE UNCHANGED read
        BY <3>1
      <3>2. CASE read' = [read EXCEPT ![s].records = Log]
        BY <2>1, <3>2, ReadsKept DEF Reads
      <3> QED BY <1>3, <3>1, <3>2 DEF ReadRecords
    <2> QED BY <1>3, <2>2 DEF ReadRecords
  <1>4. ASSUME NEW s \in Stops, ReadCapped(s) PROVE StopTypeOK'
    <2>1. PICK b \in BOOLEAN : read' = [read EXCEPT ![s].capped = b]
      <3>1. (missing \/ Len(Log) + 2 > LogCap) \in BOOLEAN
        OBVIOUS
      <3> QED BY <1>4, <3>1, Zenon DEF ReadCapped
    <2>2. read' \in [Stops -> [records : Seq(Recorders), capped : BOOLEAN, opened : Nat]]
      BY <2>1, ReadsKept DEF Reads
    <2> QED BY <1>4, <2>2 DEF ReadCapped
  <1>5. ASSUME NEW s \in Stops, ReadMark(s) PROVE StopTypeOK'
    BY <1>5 DEF ReadMark
  <1>6. ASSUME NEW s \in Stops, OpenMark(s) PROVE StopTypeOK'
    <2>1. read' = [read EXCEPT ![s].opened = marks] /\ marks \in Nat
      BY <1>6 DEF OpenMark
    <2>2. read' \in [Stops -> [records : Seq(Recorders), capped : BOOLEAN, opened : Nat]]
      BY <2>1, ReadsKept DEF Reads
    <2> QED BY <1>6, <2>2 DEF OpenMark
  <1>7. ASSUME NEW s \in Stops, WriteMark(s) PROVE StopTypeOK'
    <2>1. mark \in Marks /\ Over(mark, Marked(s)) \in Marks
      BY OverIsMark, MarkedIsMark DEF Marks
    <2>2. mark' \in Marks /\ holder' \in Stops \cup {"none"}
      BY <1>7, <2>1 DEF WriteMark
    <2>3. mark' \in [digits : Seq(Nat), capped : BOOLEAN]
      BY <2>2 DEF Marks
    <2>4. at' \in [Actors \cup {"end"} -> Reading \cup {"start", "append", "quiet", "shown", "failed", "lost", "done"}]
      BY <1>7 DEF WriteMark
    <2> QED BY <1>7, <2>2, <2>3, <2>4 DEF WriteMark
  <1>8. ASSUME NEW s \in Stops, CutMark(s) PROVE StopTypeOK'
    <2>1. Marked(s) \in Marks
      BY MarkedIsMark
    <2> QED BY <1>8, <2>1 DEF CutMark, Marks
  <1>9. ASSUME NEW s \in Stops, Show(s) PROVE StopTypeOK'
    BY <1>9 DEF Show
  <1>10. ASSUME NEW s \in Stops, StopEnds(s) PROVE StopTypeOK'
    <2>1. Range(read[s].records) \subseteq Recorders
      BY LenProperties, ElementOfSeq DEF Range
    <2>2. (damaged \/ (holder = s /\ mark # Marked(s))) \in BOOLEAN
      OBVIOUS
    <2>3. /\ gone'.records \subseteq Recorders
          /\ gone'.capped \in BOOLEAN
      BY <1>10, <2>1 DEF StopEnds
    <2>4. damaged' \in BOOLEAN
      BY <1>10, <2>2, Zenon DEF StopEnds
    <2> QED BY <1>10, <2>3, <2>4 DEF StopEnds
  <1>11. CASE RemoveLog
    <2>1. /\ << >> \in Seq(Recorders)
          /\ logs' = Append(logs, << >>)
      BY <1>11, EmptySeq DEF RemoveLog
    <2>2. logs' \in Seq(Seq(Recorders)) /\ Len(logs') = Len(logs) + 1 /\ Len(logs) \in Nat
      BY <2>1, AppendProperties, LenProperties
    <2> QED BY <1>11, <2>2 DEF RemoveLog
  <1>12. CASE RemoveMark
    BY <1>12, EmptySeq DEF RemoveMark
  <1>13. CASE RemoveLost
    BY <1>13 DEF RemoveLost
  <1> QED
    BY <1>0, <1>1, <1>2, <1>3, <1>4, <1>5, <1>6, <1>7, <1>8, <1>9, <1>10, <1>11, <1>12, <1>13
    DEF StopNext

(* What is announced, told apart. *)
LEMMA WhatIsAnnounced ==
    \A x : x \in Announced <=>
        \/ x \in told \/ x \in gone.records
        \/ \E s \in Stops : at[s] \in {"cut", "show"} /\ x \in Range(read[s].records)
  BY DEF Announced

(* What was announced stays so: a Stop that has marked goes on to show, or *)
(* is gone with it.                                                        *)
LEMMA AnnouncedStays ==
    ASSUME StopTypeOK, [StopNext]_stopvars
    PROVE  Announced \subseteq Announced' /\ (AnnouncedCapped => AnnouncedCapped')
  <1> DEFINE Marked1(s) == at[s] \in {"cut", "show"}
             Stays == /\ told \subseteq told' /\ gone.records \subseteq gone'.records
                      /\ (warned => warned') /\ (gone.capped => gone'.capped)
                      /\ \A s \in Stops : Marked1(s) =>
                            \/ Marked1(s)' /\ read'[s] = read[s]
                            \/ /\ Range(read[s].records) \subseteq told' \cup gone'.records
                               /\ read[s].capped => warned' \/ gone'.capped
  <1>1. Stays
    <2> USE DEF StopTypeOK, At, Actors
    <2>0. CASE UNCHANGED stopvars
      BY <2>0 DEF stopvars
    <2>1. ASSUME NEW r \in Recorders, OpenLog(r) \/ Append1(r) PROVE Stays
      <3>1. /\ UNCHANGED << told, gone, warned, read >>
            /\ \A s \in Stops : at'[s] = at[s]
        BY <2>1, StopAssumption DEF OpenLog, Append1
      <3> QED BY <3>1
    <2>2. ASSUME NEW z \in Stops,
                 ReadRecords(z) \/ ReadCapped(z) \/ ReadMark(z) \/ OpenMark(z) \/ WriteMark(z) \/ CutMark(z)
          PROVE  Stays
      <3>1. UNCHANGED << told, gone, warned >>
        BY <2>2 DEF ReadRecords, ReadCapped, ReadMark, OpenMark, WriteMark, CutMark
      <3>2. \A s \in Stops : s # z => at'[s] = at[s] /\ read'[s] = read[s]
        BY <2>2 DEF ReadRecords, ReadCapped, ReadMark, OpenMark, WriteMark, CutMark
      <3>3. Marked1(z) => at'[z] = "show" /\ read'[z] = read[z]
        BY <2>2 DEF ReadRecords, ReadCapped, ReadMark, OpenMark, WriteMark, CutMark
      <3> QED BY <3>1, <3>2, <3>3
    <2>3. ASSUME NEW z \in Stops, Show(z) PROVE Stays
      <3>1. /\ UNCHANGED << gone, read >>
            /\ told' = told \cup Range(read[z].records)
            /\ warned' <=> (warned \/ read[z].capped)
        BY <2>3 DEF Show
      <3>2. \A s \in Stops : s # z => at'[s] = at[s]
        BY <2>3 DEF Show
      <3> QED BY <3>1, <3>2
    <2>4. ASSUME NEW z \in Stops, StopEnds(z) PROVE Stays
      <3>1. UNCHANGED << told, warned, read >>
        BY <2>4 DEF StopEnds
      <3>2. \A s \in Stops : s # z => at'[s] = at[s]
        BY <2>4 DEF StopEnds
      <3>3. /\ gone.records \subseteq gone'.records /\ (gone.capped => gone'.capped)
            /\ Marked1(z) => Range(read[z].records) \subseteq gone'.records /\ (read[z].capped => gone'.capped)
        BY <2>4 DEF StopEnds
      <3> QED BY <3>1, <3>2, <3>3
    <2>5. CASE RemoveLog \/ RemoveMark \/ RemoveLost
      <3>1. /\ UNCHANGED << told, gone, warned, read >>
            /\ \A s \in Stops : at'[s] = at[s]
        BY <2>5, StopAssumption DEF RemoveLog, RemoveMark, RemoveLost
      <3> QED BY <3>1
    <2> QED BY <2>0, <2>1, <2>2, <2>3, <2>4, <2>5 DEF StopNext
  <1>2. \A x : x \in Announced' <=>
            \/ x \in told' \/ x \in gone'.records
            \/ \E s \in Stops : Marked1(s)' /\ x \in Range(read'[s].records)
    BY DEF Announced
  <1>3. \A x : x \in Announced => x \in Announced'
    BY <1>1, <1>2, WhatIsAnnounced
  <1>4. AnnouncedCapped => AnnouncedCapped'
    BY <1>1 DEF AnnouncedCapped
  <1> QED BY <1>3, <1>4

(* While the session goes on, nothing is removed and a log only grows.     *)
LEMMA LogGrows ==
    ASSUME StopTypeOK, ReadInv, [StopNext]_stopvars, GoesOn'
    PROVE  /\ GoesOn /\ Len(logs) = 1 /\ Len(logs') = 1 /\ marks = 0 /\ marks' = 0
           /\ Log = logs[1] /\ Log' = logs'[1]
           /\ Log \in Seq(Recorders) /\ Len(Log) \in Nat /\ Len(Log') \in Nat
           /\ Len(Log) <= Len(Log') /\ \A i \in 1..Len(Log) : Log'[i] = Log[i]
           /\ ~RemoveLog /\ ~RemoveMark /\ ~RemoveLost
  <1>1. ~RemoveLog /\ ~RemoveMark /\ ~RemoveLost
    BY DEF StopTypeOK, GoesOn, RemoveLog, RemoveMark, RemoveLost, At
  <1>2. at["end"] = at'["end"]
    BY <1>1, StopAssumption DEF StopTypeOK, stopvars, StopNext, At, Actors, OpenLog, Append1, ReadRecords,
       ReadCapped, ReadMark, OpenMark, WriteMark, CutMark, Show, StopEnds
  <1>3. GoesOn /\ Len(logs) = 1 /\ marks = 0
    BY <1>2 DEF GoesOn, ReadInv
  <1>4. logs \in Seq(Seq(Recorders)) /\ logs[1] \in Seq(Recorders)
    <2>1. logs \in Seq(Seq(Recorders)) /\ 1 \in 1..Len(logs)
      BY <1>3 DEF StopTypeOK
    <2> QED BY <2>1, ElementOfSeq
  <1>5. marks' = marks
    BY <1>1 DEF stopvars, StopNext, OpenLog, Append1, ReadRecords,
       ReadCapped, ReadMark, OpenMark, WriteMark, CutMark, Show, StopEnds
  <1> DEFINE Grown == /\ Len(logs') = 1 /\ Len(logs'[1]) \in Nat
                      /\ Len(logs[1]) <= Len(logs'[1]) /\ \A i \in 1..Len(logs[1]) : logs'[1][i] = logs[1][i]
  <1>6. Len(logs[1]) \in Nat
    BY <1>4, LenProperties
  <1>7. CASE logs' = logs
    <2>1. Grown
      BY <1>3, <1>6, <1>7
    <2> QED BY <1>1, <1>3, <1>4, <1>5, <1>6, <2>1 DEF Log, Last
  <1>8. CASE logs' # logs
    <2>1. PICK r \in Recorders : Append1(r)
      BY <1>1, <1>8 DEF stopvars, StopNext, OpenLog, Append1, ReadRecords,
         ReadCapped, ReadMark, OpenMark, WriteMark, CutMark, Show, StopEnds
    <2>2. held[r] = 1 /\ logs' = [logs EXCEPT ![1] = Append(@, r)]
      BY <1>3, <1>8, <2>1 DEF Append1, StopTypeOK
    <2>3. logs'[1] = Append(logs[1], r) /\ Len(logs') = 1
      BY <1>3, <2>2, LogsAppended
    <2>4. Grown
      BY <1>4, <1>6, <2>3, AppendProperties
    <2> QED BY <1>1, <1>3, <1>4, <1>5, <1>6, <2>4 DEF Log, Last
  <1> QED BY <1>7, <1>8

LEMMA ReadInvKept ==
    ASSUME StopTypeOK, ReadInv, [StopNext]_stopvars PROVE ReadInv'
  <1> SUFFICES ASSUME GoesOn', NEW s \in Stops, at'[s] \in Reading
               PROVE  /\ Len(read'[s].records) <= Len(Log')
                      /\ \A i \in 1..Len(read'[s].records) : Log'[i] = read'[s].records[i]
    BY LogGrows DEF ReadInv
  <1> DEFINE l == Log
             m == Log'
  <1>1. /\ l \in Seq(Recorders) /\ Len(l) \in Nat /\ Len(m) \in Nat
        /\ Len(l) <= Len(m) /\ \A i \in 1..Len(l) : m[i] = l[i]
    BY LogGrows
  <1>2. \/ ReadRecords(s) /\ read'[s].records = l
        \/ at[s] \in Reading /\ read'[s].records = read[s].records
    <2> USE DEF StopTypeOK, At, Actors, Reading
    <2> HIDE DEF l
    <2>0. CASE UNCHANGED stopvars
      BY <2>0 DEF stopvars
    <2>1. ASSUME NEW r \in Recorders, OpenLog(r) \/ Append1(r)
          PROVE  at[s] \in Reading /\ read'[s].records = read[s].records
      BY <2>1, StopAssumption DEF OpenLog, Append1
    <2>2. ASSUME NEW z \in Stops, ReadRecords(z)
          PROVE  \/ ReadRecords(s) /\ read'[s].records = l
                 \/ at[s] \in Reading /\ read'[s].records = read[s].records
      BY <2>2 DEF ReadRecords, l
    <2>3. ASSUME NEW z \in Stops,
                 ReadCapped(z) \/ ReadMark(z) \/ OpenMark(z) \/ WriteMark(z) \/ CutMark(z) \/ Show(z) \/ StopEnds(z)
          PROVE  at[s] \in Reading /\ read'[s].records = read[s].records
      BY <2>3 DEF ReadCapped, ReadMark, OpenMark, WriteMark, CutMark, Show, StopEnds
    <2> QED BY <2>0, <2>1, <2>2, <2>3, LogGrows DEF StopNext
  <1>3. GoesOn
    BY LogGrows
  <1>4. read[s].records \in Seq(Recorders) /\ Len(read[s].records) \in Nat
    BY LenProperties DEF StopTypeOK
  <1>5. CASE read'[s].records = l
    <2> HIDE DEF l, m
    <2>1. Len(l) <= Len(m) /\ \A i \in 1..Len(l) : m[i] = l[i]
      BY <1>1
    <2> QED BY <1>5, <2>1 DEF m
  <1>6. CASE at[s] \in Reading /\ read'[s].records = read[s].records
    <2>1. Len(read[s].records) <= Len(l) /\ \A i \in 1..Len(read[s].records) : l[i] = read[s].records[i]
      BY <1>3, <1>6 DEF ReadInv
    <2> HIDE DEF l, m
    <2>2. Len(read[s].records) <= Len(m)
      BY <1>1, <1>4, <2>1
    <2>3. \A i \in 1..Len(read[s].records) : m[i] = read[s].records[i]
      BY <1>1, <1>4, <2>1
    <2> QED BY <1>6, <2>2, <2>3 DEF m
  <1> QED BY <1>2, <1>5, <1>6

LEMMA HolderInvKept ==
    ASSUME StopTypeOK, HolderInv, [StopNext]_stopvars PROVE HolderInv'
  <1> USE DEF StopTypeOK, At, Actors, HolderInv
  <1>0. CASE UNCHANGED stopvars
    BY <1>0 DEF stopvars
  <1>1. ASSUME NEW r \in Recorders, OpenLog(r) \/ Append1(r) PROVE HolderInv'
    BY <1>1, StopAssumption DEF OpenLog, Append1
  <1>2. ASSUME NEW z \in Stops,
               ReadRecords(z) \/ ReadCapped(z) \/ ReadMark(z) \/ OpenMark(z) \/ Show(z)
        PROVE  HolderInv'
    BY <1>2 DEF ReadRecords, ReadCapped, ReadMark, OpenMark, Show
  <1>3. ASSUME NEW z \in Stops, WriteMark(z) PROVE HolderInv'
    BY <1>3 DEF WriteMark
  <1>4. ASSUME NEW z \in Stops, CutMark(z) \/ StopEnds(z) PROVE HolderInv'
    BY <1>4 DEF CutMark, StopEnds
  <1>5. CASE RemoveLog \/ RemoveMark \/ RemoveLost
    BY <1>5, StopAssumption DEF RemoveLog, RemoveMark, RemoveLost
  <1> QED BY <1>0, <1>1, <1>2, <1>3, <1>4, <1>5 DEF StopNext

(* A mark that nobody writes stays; one that is left whole counts what its *)
(* Stop had read.                                                          *)
LEMMA MarkChanges ==
    ASSUME StopTypeOK, HolderInv, [StopNext]_stopvars, ~RemoveMark,
           ~damaged', holder' = "none"
    PROVE  /\ ~damaged
           /\ \/ holder = "none" /\ mark' = mark
              \/ \E s \in Stops :
                    /\ at[s] = "cut" /\ mark' = Marked(s) /\ read'[s] = read[s]
                    /\ \/ at'[s] = "show"
                       \/ /\ Range(read[s].records) \subseteq gone'.records
                          /\ read[s].capped => gone'.capped
  <1> USE DEF StopTypeOK, At, Actors, HolderInv
  <1>1. \A s \in Stops : s # "none"
    BY StopAssumption
  <1>2. ASSUME NEW z \in Stops, CutMark(z), holder = z
        PROVE  ~damaged /\ at[z] = "cut" /\ mark' = Marked(z) /\ read'[z] = read[z] /\ at'[z] = "show"
    BY <1>2 DEF CutMark
  <1>3. ASSUME NEW z \in Stops, StopEnds(z), holder = z
        PROVE  /\ ~damaged /\ at[z] = "cut" /\ mark' = Marked(z) /\ read'[z] = read[z]
               /\ Range(read[z].records) \subseteq gone'.records
               /\ read[z].capped => gone'.capped
    <2>1. ~damaged /\ mark = Marked(z)
      BY <1>3 DEF StopEnds
    <2>2. at[z] = "cut"
      BY <1>1, <1>3
    <2>3. mark' = mark /\ read' = read
      BY <1>3 DEF StopEnds
    <2>4. gone' = [records |-> gone.records \cup Range(read[z].records),
                   capped |-> gone.capped \/ read[z].capped]
      BY <1>3, <2>2 DEF StopEnds
    <2> QED BY <2>1, <2>2, <2>3, <2>4
  <1>4. ASSUME NEW z \in Stops, CutMark(z) \/ StopEnds(z), holder # z
        PROVE  ~damaged /\ holder = "none" /\ mark' = mark
    BY <1>4 DEF CutMark, StopEnds
  <1>5. ASSUME NEW z \in Stops, WriteMark(z) PROVE ~damaged /\ holder = "none" /\ mark' = mark
    BY <1>1, <1>5 DEF WriteMark
  <1>6. ASSUME NEW z \in Stops,
               ReadRecords(z) \/ ReadCapped(z) \/ ReadMark(z) \/ OpenMark(z) \/ Show(z)
        PROVE  ~damaged /\ holder = "none" /\ mark' = mark
    BY <1>6 DEF ReadRecords, ReadCapped, ReadMark, OpenMark, Show
  <1>7. ASSUME NEW r \in Recorders, OpenLog(r) \/ Append1(r)
        PROVE  ~damaged /\ holder = "none" /\ mark' = mark
    BY <1>7 DEF OpenLog, Append1
  <1>8. ASSUME UNCHANGED stopvars \/ RemoveLog \/ RemoveLost
        PROVE  ~damaged /\ holder = "none" /\ mark' = mark
    BY <1>8 DEF stopvars, RemoveLog, RemoveLost
  <1> DEFINE Left(s) == /\ at[s] = "cut" /\ mark' = Marked(s) /\ read'[s] = read[s]
                        /\ \/ at'[s] = "show"
                           \/ /\ Range(read[s].records) \subseteq gone'.records
                              /\ read[s].capped => gone'.capped
             Goal == ~damaged /\ ((holder = "none" /\ mark' = mark) \/ \E s \in Stops : Left(s))
  <1>9. ASSUME NEW z \in Stops, CutMark(z) \/ StopEnds(z) PROVE Goal
    <2>1. CASE holder # z  BY <1>4, <1>9, <2>1
    <2>2. CASE holder = z  BY <1>2, <1>3, <1>9, <2>2
    <2> QED BY <2>1, <2>2
  <1>10. (~damaged /\ holder = "none" /\ mark' = mark) => Goal
    OBVIOUS
  <1>11. Goal
    <2> HIDE DEF Goal
    <2> QED BY <1>5, <1>6, <1>7, <1>8, <1>9, <1>10 DEF StopNext
  <1> QED BY <1>11

LEMMA MarkInvKept ==
    ASSUME StopInv, [StopNext]_stopvars PROVE MarkInv'
  <1> USE DEF StopInv
  <1> SUFFICES ASSUME GoesOn', ~damaged', holder' = "none"
               PROVE  /\ Count(mark') \in 0..Len(Log')
                      /\ \A i \in 1..Count(mark') : Log'[i] \in Announced'
                      /\ mark'.capped => AnnouncedCapped'
    BY DEF MarkInv, Count
  <1> DEFINE l == Log
             m == Log'
  <1>1. /\ GoesOn /\ Len(l) \in Nat /\ Len(m) \in Nat
        /\ Len(l) <= Len(m) /\ \A i \in 1..Len(l) : m[i] = l[i]
    BY LogGrows
  <1>2. Announced \subseteq Announced' /\ (AnnouncedCapped => AnnouncedCapped')
    BY AnnouncedStays
  <1>3. ~RemoveMark
    BY LogGrows
  <1>4. CASE ~damaged /\ holder = "none" /\ mark' = mark
    <2>1. /\ Count(mark) \in 0..Len(l)
          /\ \A i \in 1..Count(mark) : l[i] \in Announced
          /\ mark.capped => AnnouncedCapped
      BY <1>1, <1>4 DEF MarkInv
    <2> DEFINE n == Count(mark)
    <2>2. n \in 0..Len(l) /\ \A i \in 1..n : l[i] \in Announced
      BY <2>1
    <2>3. Count(mark') = n
      BY <1>4
    <2> HIDE DEF n, l, m
    <2>4. n \in 0..Len(m) /\ \A i \in 1..n : m[i] \in Announced'
      BY <1>1, <1>2, <2>2
    <2> QED BY <1>2, <1>4, <2>1, <2>3, <2>4 DEF m
  <1>5. ASSUME NEW s \in Stops, at[s] = "cut", mark' = Marked(s), read'[s] = read[s],
               \/ at'[s] = "show"
               \/ /\ Range(read[s].records) \subseteq gone'.records
                  /\ read[s].capped => gone'.capped
        PROVE  /\ Count(mark') \in 0..Len(Log')
               /\ \A i \in 1..Count(mark') : Log'[i] \in Announced'
               /\ mark'.capped => AnnouncedCapped'
    <2> DEFINE q == read[s].records
    <2>1. q \in Seq(Recorders) /\ Len(q) \in Nat /\ DOMAIN q = 1..Len(q)
      BY LenProperties DEF StopTypeOK
    <2>2. Len(q) <= Len(l) /\ \A i \in 1..Len(q) : l[i] = q[i]
      BY <1>1, <1>5 DEF ReadInv, Reading
    <2>3. \A x \in Range(q) : x \in Announced'
      BY <1>5 DEF Announced
    <2>4. read[s].capped => AnnouncedCapped'
      BY <1>5 DEF AnnouncedCapped
    <2>5. Count(mark') = Len(q) /\ mark'.capped = read[s].capped
      BY <1>5, MarkedIsMark
    <2>6. \A i \in 1..Len(q) : q[i] \in Range(q)
      BY <2>1 DEF Range
    <2> HIDE DEF q, l, m
    <2>7. Len(q) \in 0..Len(m) /\ \A i \in 1..Len(q) : m[i] \in Announced'
      BY <1>1, <2>1, <2>2, <2>3, <2>6
    <2> QED BY <2>4, <2>5, <2>7 DEF m
  <1> QED BY <1>3, <1>4, <1>5, MarkChanges

LEMMA QuietKept ==
    ASSUME StopInv, [StopNext]_stopvars PROVE QuietIsNoNews'
  <1> USE DEF StopInv
  <1> SUFFICES ASSUME GoesOn', ~damaged', NEW s \in Stops, at'[s] = "quiet"
               PROVE  /\ Range(read'[s].records) \subseteq Announced'
                      /\ read'[s].capped => AnnouncedCapped'
    BY DEF QuietIsNoNews, GoesOn
  <1>1. Announced \subseteq Announced' /\ (AnnouncedCapped => AnnouncedCapped')
    BY AnnouncedStays
  <1>2. GoesOn /\ ~RemoveLog /\ ~RemoveMark /\ ~RemoveLost /\ Len(Log) \in Nat
    BY LogGrows
  <1>3. ~damaged
    BY <1>2 DEF stopvars, StopNext, OpenLog, Append1, ReadRecords,
       ReadCapped, ReadMark, OpenMark, WriteMark, CutMark, Show, StopEnds, StopTypeOK
  <1>4. /\ read'[s] = read[s]
        /\ at[s] = "quiet" \/ (holder = "none" /\ ~News(s) /\ at[s] = "mark")
    <2> StopTypeOK
      OBVIOUS
    <2> HIDE DEF StopInv
    <2> USE DEF StopTypeOK, At, Actors
    <2> DEFINE Was == /\ read'[s] = read[s]
                      /\ at[s] = "quiet" \/ (holder = "none" /\ ~News(s) /\ at[s] = "mark")
    <2>0. CASE UNCHANGED stopvars
      BY <2>0 DEF stopvars
    <2>1. ASSUME NEW r \in Recorders, OpenLog(r) \/ Append1(r) PROVE Was
      BY <2>1, StopAssumption DEF OpenLog, Append1
    <2>2. ASSUME NEW z \in Stops, ReadMark(z) PROVE Was
      BY <2>2 DEF ReadMark
    <2>3. ASSUME NEW z \in Stops,
                 \/ ReadRecords(z) \/ ReadCapped(z) \/ OpenMark(z) \/ WriteMark(z)
                 \/ CutMark(z) \/ Show(z) \/ StopEnds(z)
          PROVE  Was
      BY SMTT(30), <2>3 DEF ReadRecords, ReadCapped, OpenMark, WriteMark, CutMark, Show, StopEnds
    <2> QED BY <1>2, <2>0, <2>1, <2>2, <2>3 DEF StopNext
  <1>5. CASE at[s] = "quiet"
    BY <1>1, <1>2, <1>3, <1>4, <1>5 DEF QuietIsNoNews, GoesOn
  <1>6. CASE holder = "none" /\ ~News(s) /\ at[s] = "mark"
    <2> DEFINE q == read[s].records
               n == Count(mark)
               l == Log
    <2>1. /\ q \in Seq(Recorders) /\ Len(q) \in Nat /\ DOMAIN q = 1..Len(q)
      BY LenProperties DEF StopTypeOK
    <2>2. Len(q) <= Len(l) /\ \A i \in 1..Len(q) : l[i] = q[i]
      BY <1>2, <1>6 DEF ReadInv, Reading
    <2>3. /\ n \in 0..Len(l)
          /\ \A i \in 1..n : l[i] \in Announced
          /\ mark.capped => AnnouncedCapped
      BY <1>2, <1>3, <1>6 DEF MarkInv
    <2>4. ~(Len(q) > n) /\ (read[s].capped => mark.capped)
      BY <1>6 DEF News
    <2> HIDE DEF n, l
    <2>5. \A i \in 1..Len(q) : q[i] \in Announced
      <3> HIDE DEF q
      <3> QED BY <1>2, <2>1, <2>2, <2>3, <2>4 DEF l
    <2>6. Range(q) \subseteq Announced
      BY <2>1, <2>5 DEF Range
    <2> QED BY <1>1, <1>4, <2>3, <2>4, <2>6
  <1> QED BY <1>4, <1>5, <1>6

(* What a Stop has read, what the mark counts and what was shown agree, at *)
(* every step.                                                             *)
THEOREM StopInvariant == StopSpec => []StopInv
  <1>1. StopInit => StopInv
    <2> SUFFICES ASSUME StopInit PROVE StopInv
      OBVIOUS
    <2>1. << >> \in Seq(Recorders) /\ << >> \in Seq(Nat)
      BY EmptySeq
    <2>2. logs \in Seq(Seq(Recorders)) /\ Len(logs) = 1 /\ Log = << >>
      BY <2>1 DEF StopInit, Log, Last
    <2>3. StopTypeOK
      <3>1. /\ held \in [Recorders -> 1..Len(logs)]
            /\ read \in [Stops -> [records : Seq(Recorders), capped : BOOLEAN, opened : Nat]]
            /\ mark \in [digits : Seq(Nat), capped : BOOLEAN]
        BY <2>1, <2>2 DEF StopInit, Unread
      <3>2. at \in [Actors \cup {"end"} -> Reading \cup {"start", "append", "quiet", "shown", "failed", "lost", "done"}]
        BY DEF StopInit
      <3>3. /\ missing \in BOOLEAN /\ marks \in Nat /\ holder \in Stops \cup {"none"}
            /\ warned \in BOOLEAN /\ damaged \in BOOLEAN
        BY DEF StopInit
      <3>4. gone.records \subseteq Recorders /\ gone.capped \in BOOLEAN
        BY DEF StopInit
      <3> QED BY <2>2, <3>1, <3>2, <3>3, <3>4 DEF StopTypeOK
    <2>4. holder = "none" /\ \A s \in Stops : at[s] = "start"
      BY DEF StopInit, Actors
    <2>5. ReadInv
      BY <2>2, <2>4 DEF StopInit, ReadInv, Reading
    <2>6. Count(mark) = 0 /\ ~mark.capped
      BY DEF StopInit, Count
    <2>7. MarkInv
      BY <2>2, <2>6 DEF MarkInv
    <2> QED BY <2>3, <2>4, <2>5, <2>7 DEF StopInv, HolderInv, QuietIsNoNews
  <1>2. StopInv /\ [StopNext]_stopvars => StopInv'
    BY StopTypeKept, ReadInvKept, HolderInvKept, MarkInvKept, QuietKept DEF StopInv
  <1> QED BY <1>1, <1>2, PTL DEF StopSpec

(* A Stop is silent only when there is no news, and no mark is ahead of    *)
(* its log, for any hooks, any cap and any base: _summary_output's silence *)
(* can be believed while the session goes on.                              *)
THEOREM SilenceHolds == StopSpec => []SilenceIsTrue
  <1>1. StopInv => SilenceIsTrue
    <2> SUFFICES ASSUME StopInv, GoesOn, ~damaged, holder = "none"
                 PROVE  Count(mark) <= Len(Log)
      BY DEF StopInv, SilenceIsTrue, MarkIsNotAhead, GoesOn
    <2>1. Count(mark) \in 0..Len(Log) /\ Len(Log) \in Int
      <3>1. logs[1] \in Seq(Recorders) /\ Len(logs) = 1
        <4>1. logs \in Seq(Seq(Recorders)) /\ Len(logs) = 1 /\ 1 \in 1..Len(logs)
          BY DEF StopInv, StopTypeOK, ReadInv
        <4> QED BY <4>1, ElementOfSeq
      <3>2. Len(Log) \in Int
        BY <3>1, LenProperties DEF Log, Last
      <3> QED BY <3>2 DEF StopInv, MarkInv
    <2> QED BY <2>1
  <1> QED BY <1>1, StopInvariant, PTL


-----------------------------------------------------------------------------
(* Summary. *)

(* A set of numbers has a least one. *)
LEMMA LeastOf ==
    ASSUME NEW S, S \subseteq Nat, S # {}
    PROVE  \E x \in S : \A y \in S : x <= y
<1> DEFINE R == {ss \in Nat \X Nat : ss[1] < ss[2]}
<1>1. IsWellFoundedOn(R, Nat)
    BY NatLessThanWellFounded DEF OpToRel
<1>2. \E x \in S : \A y \in S : << y, x >> \notin R
  <2> HIDE DEF R
  <2> QED
      BY <1>1, WFMin
<1>3. PICK x \in S : \A y \in S : << y, x >> \notin R
    BY <1>2
<1>4. ASSUME NEW y \in S
      PROVE  x <= y
  <2>1. x \in Nat /\ y \in Nat
      OBVIOUS
  <2>2. ~(y < x)
      BY <1>3, <2>1
  <2>3. QED
      BY <2>1, <2>2
<1>5. QED
    BY <1>4

(* Induction up to m, for what a set says. *)
LEMMA Climb ==
    ASSUME NEW m \in Nat, NEW P, 0 \in P, \A n \in 1..m : n - 1 \in P => n \in P
    PROVE  0..m \subseteq P
<1> DEFINE odd == (0..m) \ P
<1>1. SUFFICES ASSUME odd # {}
               PROVE  FALSE
    OBVIOUS
<1>2. PICK x \in odd : \A y \in odd : x <= y
  <2>1. odd \subseteq Nat
      OBVIOUS
  <2> HIDE DEF odd
  <2>2. QED
      BY <1>1, <2>1, LeastOf
<1>3. x \in 1..m /\ x - 1 \in 0..m /\ ~(x <= x - 1)
    OBVIOUS
<1>4. x - 1 \in P
    BY <1>2, <1>3
<1>5. QED
    BY <1>3, <1>4

SumsUpTo(s, f) == f = [n \in 0..Len(s) |-> IF n = 0 THEN 0 ELSE f[n - 1] + s[n]]

LEMMA SumChosen ==
    ASSUME NEW s
    PROVE  SumOf(s) = (CHOOSE f : SumsUpTo(s, f))[Len(s)]
BY DEF SumOf, SumsUpTo

(* There are the sums of the elements so far, for every sequence. *)
LEMMA SumsExist ==
    ASSUME NEW s \in Seq(Nat)
    PROVE  \E f : SumsUpTo(s, f)
<1> DEFINE m == Len(s)
           SumsTo(k) == { f \in [0..k -> Nat] : f[0] = 0 /\ \A n \in 1..k : f[n] = f[n - 1] + s[n] }
           P == { k \in 0..m : SumsTo(k) # {} }
<1>1. m \in Nat /\ \A n \in 1..m : s[n] \in Nat
    BY LenProperties, ElementOfSeq
<1>2. 0 \in P
  <2>1. [n \in 0..0 |-> 0] \in SumsTo(0)
      OBVIOUS
  <2>2. QED
      BY <1>1, <2>1
<1>3. ASSUME NEW k \in 1..m, k - 1 \in P
      PROVE  k \in P
  <2>1. PICK f \in [0..(k - 1) -> Nat] : f[0] = 0 /\ \A n \in 1..(k - 1) : f[n] = f[n - 1] + s[n]
      BY <1>3
  <2> DEFINE g == [n \in 0..k |-> IF n = k THEN f[k - 1] + s[k] ELSE f[n]]
  <2>2. k - 1 \in 0..(k - 1) /\ s[k] \in Nat /\ f[k - 1] \in Nat
      BY <1>1, <2>1
  <2>3. g \in [0..k -> Nat]
      BY <2>1, <2>2
  <2>4. g[0] = 0
      BY <2>1
  <2>5. ASSUME NEW n \in 1..k
        PROVE  g[n] = g[n - 1] + s[n]
    <3>1. CASE n = k
        BY <3>1, <2>2
    <3>2. CASE n # k
      <4>1. n \in 1..(k - 1) /\ n \in 0..k /\ n - 1 \in 0..k /\ n - 1 # k
          BY <3>2
      <4>2. f[n] = f[n - 1] + s[n]
          BY <2>1, <4>1
      <4>3. QED
          BY <3>2, <4>1, <4>2
    <3>3. QED
        BY <3>1, <3>2
  <2>6. g \in SumsTo(k)
    <3> HIDE DEF g
    <3> QED
        BY <2>3, <2>4, <2>5
  <2>7. k \in 0..m
      BY <1>1
  <2>8. QED
      BY <2>6, <2>7
<1>4. m \in P
  <2> HIDE DEF P, m
  <2>1. 0..m \subseteq P
      BY <1>1, <1>2, <1>3, Climb
  <2>2. QED
      BY <1>1, <2>1
<1>5. PICK f \in [0..m -> Nat] : f[0] = 0 /\ \A n \in 1..m : f[n] = f[n - 1] + s[n]
    BY <1>4
<1>6. \A n \in 0..m : f[n] = IF n = 0 THEN 0 ELSE f[n - 1] + s[n]
    BY <1>1, <1>5
<1>7. f = [n \in 0..m |-> f[n]]
    BY <1>5
<1>8. f = [n \in 0..m |-> IF n = 0 THEN 0 ELSE f[n - 1] + s[n]]
  <2> HIDE DEF m
  <2> QED
      BY <1>6, <1>7
<1>9. QED
    BY <1>8 DEF SumsUpTo

(* What the sum is: the last of the sums so far. *)
LEMMA SumsSoFar ==
    ASSUME NEW s \in Seq(Nat)
    PROVE  \E f \in [0..Len(s) -> Nat] :
              /\ f[0] = 0 /\ \A n \in 1..Len(s) : f[n] = f[n - 1] + s[n]
              /\ SumOf(s) = f[Len(s)]
<1> DEFINE m == Len(s)
           f == CHOOSE g : SumsUpTo(s, g)
<1>1. m \in Nat /\ \A n \in 1..m : s[n] \in Nat
    BY LenProperties, ElementOfSeq
<1>2. SumsUpTo(s, f) /\ SumOf(s) = f[m]
    BY SumsExist, SumChosen
<1> HIDE DEF f
<1>3. /\ f = [n \in 0..m |-> f[n]] /\ f[0] = 0
      /\ \A n \in 1..m : f[n] = f[n - 1] + s[n]
  <2>1. f = [n \in 0..m |-> IF n = 0 THEN 0 ELSE f[n - 1] + s[n]]
      BY <1>2 DEF SumsUpTo
  <2> HIDE DEF m
  <2>2. \A n \in 0..m : f[n] = IF n = 0 THEN 0 ELSE f[n - 1] + s[n]
      BY <2>1
  <2>3. DOMAIN f = 0..m
      BY <2>1
  <2>4. f = [n \in 0..m |-> f[n]]
      BY <2>1, <2>3
  <2>5. 0 \in 0..m /\ \A n \in 1..m : n \in 0..m /\ n # 0
      BY <1>1
  <2>6. QED
      BY <2>2, <2>4, <2>5
<1> DEFINE P == { n \in 0..m : f[n] \in Nat }
<1>4. 0..m \subseteq P
  <2>1. 0 \in P
      BY <1>1, <1>3
  <2>2. ASSUME NEW n \in 1..m, n - 1 \in P
        PROVE  n \in P
    <3>1. f[n] = f[n - 1] + s[n] /\ s[n] \in Nat /\ f[n - 1] \in Nat
        BY <1>1, <1>3, <2>2
    <3>2. n \in 0..m
        BY <1>1
    <3>3. QED
        BY <3>1, <3>2
  <2> HIDE DEF P, m
  <2>3. QED
      BY <1>1, <2>1, <2>2, Climb
<1>5. f \in [0..m -> Nat]
    BY <1>3, <1>4
<1>6. QED
    BY <1>2, <1>3, <1>5

LEMMA SumIsNat ==
    ASSUME NEW s \in Seq(Nat)
    PROVE  SumOf(s) \in Nat
<1>1. PICK f \in [0..Len(s) -> Nat] : SumOf(s) = f[Len(s)]
    BY SumsSoFar
<1>2. Len(s) \in 0..Len(s)
    BY LenProperties
<1>3. QED
    BY <1>1, <1>2

(* The sum is positive when an element is. *)
LEMMA SumIsPositive ==
    ASSUME NEW s \in Seq(Nat)
    PROVE  SumOf(s) > 0 <=> \E i \in 1..Len(s) : s[i] > 0
<1> DEFINE m == Len(s)
<1>1. m \in Nat /\ \A n \in 1..m : s[n] \in Nat
    BY LenProperties, ElementOfSeq
<1>2. PICK f \in [0..m -> Nat] :
              /\ f[0] = 0 /\ \A n \in 1..m : f[n] = f[n - 1] + s[n]
              /\ SumOf(s) = f[m]
    BY SumsSoFar
<1> DEFINE P == { n \in 0..m : f[n] > 0 <=> \E i \in 1..n : s[i] > 0 }
<1>3. 0 \in P
    BY <1>1, <1>2
<1>4. ASSUME NEW n \in 1..m, n - 1 \in P
      PROVE  n \in P
  <2>1. /\ f[n] = f[n - 1] + s[n] /\ s[n] \in Nat /\ f[n - 1] \in Nat
        /\ f[n - 1] > 0 <=> \E i \in 1..(n - 1) : s[i] > 0
      BY <1>1, <1>2, <1>4
  <2>2. 1..n = (1..(n - 1)) \cup {n} /\ n \in 0..m
      BY <1>1
  <2>3. f[n] > 0 <=> f[n - 1] > 0 \/ s[n] > 0
      BY <2>1
  <2>4. QED
      BY <2>1, <2>2, <2>3
<1>5. m \in P
  <2> HIDE DEF P, m
  <2>1. 0..m \subseteq P
      BY <1>1, <1>3, <1>4, Climb
  <2>2. QED
      BY <1>1, <2>1
<1>6. QED
    BY <1>2, <1>5

(* The sum of sums. *)
Together(a, b, c) ==
    /\ Len(a) = Len(c) /\ Len(b) = Len(c)
    /\ \A i \in 1..Len(c) : c[i] = a[i] + b[i]

LEMMA SumAdds ==
    ASSUME NEW a \in Seq(Nat), NEW b \in Seq(Nat), NEW c \in Seq(Nat), Together(a, b, c)
    PROVE  SumOf(c) = SumOf(a) + SumOf(b)
<1> DEFINE m == Len(c)
<1>1. m \in Nat /\ \A n \in 1..m : a[n] \in Nat /\ b[n] \in Nat
    BY LenProperties, ElementOfSeq DEF Together
<1>2. PICK f \in [0..m -> Nat] :
              /\ f[0] = 0 /\ \A n \in 1..m : f[n] = f[n - 1] + a[n]
              /\ SumOf(a) = f[m]
    BY SumsSoFar DEF Together
<1>3. PICK g \in [0..m -> Nat] :
              /\ g[0] = 0 /\ \A n \in 1..m : g[n] = g[n - 1] + b[n]
              /\ SumOf(b) = g[m]
    BY SumsSoFar DEF Together
<1>4. PICK h \in [0..m -> Nat] :
              /\ h[0] = 0 /\ \A n \in 1..m : h[n] = h[n - 1] + c[n]
              /\ SumOf(c) = h[m]
    BY SumsSoFar
<1> DEFINE P == { n \in 0..m : h[n] = f[n] + g[n] }
<1>5. 0 \in P
    BY <1>1, <1>2, <1>3, <1>4
<1>6. ASSUME NEW n \in 1..m, n - 1 \in P
      PROVE  n \in P
  <2>1. n \in 0..m /\ n - 1 \in 0..m
      BY <1>1
  <2>2. h[n - 1] = f[n - 1] + g[n - 1] /\ c[n] = a[n] + b[n]
      BY <1>6 DEF Together
  <2>3. f[n] = f[n - 1] + a[n] /\ g[n] = g[n - 1] + b[n] /\ h[n] = h[n - 1] + c[n]
      BY <1>2, <1>3, <1>4
  <2>4. f[n - 1] \in Nat /\ g[n - 1] \in Nat /\ a[n] \in Nat /\ b[n] \in Nat
      BY <1>1, <2>1
  <2>5. h[n] = f[n] + g[n]
    <3> DEFINE p == f[n - 1]
               q == g[n - 1]
               r == h[n - 1]
               x == a[n]
               y == b[n]
               z == c[n]
    <3>1. p \in Nat /\ q \in Nat /\ x \in Nat /\ y \in Nat /\ r = p + q /\ z = x + y
        BY <2>2, <2>4
    <3>2. f[n] = p + x /\ g[n] = q + y /\ h[n] = r + z
        BY <2>3
    <3> HIDE DEF p, q, r, x, y, z
    <3>3. r + z = (p + x) + (q + y)
        BY <3>1
    <3>4. QED
        BY <3>2, <3>3
  <2>6. QED
      BY <2>1, <2>5
<1>7. m \in P
  <2> HIDE DEF P, m
  <2>1. 0..m \subseteq P
      BY <1>1, <1>5, <1>6, Climb
  <2>2. QED
      BY <1>1, <2>1
<1>8. QED
    BY <1>2, <1>3, <1>4, <1>7

-----------------------------------------------------------------------------
(* Summary. *)

(* Of some things that are counted one is counted most. *)
LEMMA MostCounted ==
    ASSUME NEW S, S # {}, NEW b \in Nat, NEW c \in [S -> 0..b]
    PROVE  \E o \in S : \A p \in S : c[o] >= c[p]
<1> DEFINE lacks == { b - c[o] : o \in S }
<1>1. \A o \in S : c[o] \in Nat /\ c[o] <= b /\ b - c[o] \in Nat
    OBVIOUS
<1>2. lacks \subseteq Nat /\ lacks # {}
    BY <1>1
<1>3. PICK x \in lacks : \A y \in lacks : x <= y
  <2> HIDE DEF lacks
  <2> QED
      BY <1>2, LeastOf
<1>4. PICK o \in S : x = b - c[o]
    BY <1>3
<1>5. ASSUME NEW p \in S
      PROVE  c[o] >= c[p]
  <2>1. b - c[p] \in lacks
      OBVIOUS
  <2>2. b - c[o] <= b - c[p]
      BY <1>3, <1>4, <2>1
  <2>3. QED
      BY <1>1, <2>2
<1>6. QED
    BY <1>5

(* There are k of them that no other is counted more often than. *)
LEMMA TopExists ==
    ASSUME NEW S, IsFiniteSet(S), NEW b \in Nat, NEW c \in [S -> 0..b], NEW k \in 0..Cardinality(S)
    PROVE  \E T \in SUBSET S : Cardinality(T) = k /\ \A s \in T, o \in S \ T : c[s] >= c[o]
<1> DEFINE Top(n, T) == Cardinality(T) = n /\ \A s \in T, o \in S \ T : c[s] >= c[o]
           m == Cardinality(S)
           P == { n \in 0..m : \E T \in SUBSET S : Top(n, T) }
<1>1. m \in Nat
    BY FS_CardinalityType
<1>2. 0 \in P
  <2>1. Top(0, {})
      BY FS_EmptySet
  <2> HIDE DEF Top
  <2>2. QED
      BY <1>1, <2>1
<1>3. ASSUME NEW n \in 1..m, n - 1 \in P
      PROVE  n \in P
  <2>1. PICK T \in SUBSET S : Top(n - 1, T)
      BY <1>3
  <2>2. IsFiniteSet(T) /\ Cardinality(T) = n - 1
      BY <2>1, FS_Subset
  <2>3. S \ T # {}
    <3>1. CASE S \ T = {}
      <4>1. S = T
          BY <3>1
      <4>2. m = n - 1
          BY <2>2, <4>1
      <4>3. QED
          BY <1>1, <4>2
    <3>2. QED
        BY <3>1
  <2>4. PICK o \in S \ T : \A p \in S \ T : c[o] >= c[p]
    <3> DEFINE d == [p \in S \ T |-> c[p]]
    <3>1. d \in [S \ T -> 0..b]
        OBVIOUS
    <3>2. \E o \in S \ T : \A p \in S \ T : d[o] >= d[p]
      <4> HIDE DEF d
      <4> QED
          BY <2>3, <3>1, MostCounted
    <3>3. QED
        BY <3>2
  <2>5. Cardinality(T \cup {o}) = n
    <3>1. Cardinality(T \cup {o}) = (n - 1) + 1
        BY <2>2, <2>4, FS_AddElement
    <3>2. QED
        BY <3>1
  <2>6. ASSUME NEW s \in T \cup {o}, NEW p \in S \ (T \cup {o})
        PROVE  c[s] >= c[p]
      BY <2>1, <2>4
  <2>7. T \cup {o} \in SUBSET S /\ Top(n, T \cup {o})
      BY <2>5, <2>6
  <2> HIDE DEF Top
  <2>8. n \in 0..m
      BY <1>1
  <2>9. QED
      BY <2>7, <2>8
<1>4. k \in P
  <2> HIDE DEF P, m
  <2>1. 0..m \subseteq P
      BY <1>1, <1>2, <1>3, Climb
  <2>2. k \in 0..m
      BY DEF m
  <2>3. QED
      BY <2>1, <2>2
<1>5. QED
    BY <1>4

(* The smaller of two numbers. *)
LEMMA SmallerOf ==
    ASSUME NEW i \in Nat, NEW j \in Nat
    PROVE  Min({i, j}) \in {i, j} /\ Min({i, j}) <= i /\ Min({i, j}) <= j
<1>1. \E x \in {i, j} : \A y \in {i, j} : x <= y
  <2>1. CASE i <= j
      BY <2>1
  <2>2. CASE j <= i
      BY <2>2
  <2>3. QED
      BY <2>1, <2>2
<1>2. Min({i, j}) \in {i, j} /\ \A y \in {i, j} : Min({i, j}) <= y
    BY <1>1 DEF Min
<1>3. QED
    BY <1>2

(* The records a group is of. *)
SourcesOf(recs, group) == { SourceOf(recs[i]) : i \in group }

LEMMA WhereIs ==
    ASSUME NEW recs, NEW group, IsFiniteSet(group)
    PROVE  LET where == Where(recs, group)
               sources == SourcesOf(recs, group) IN
           /\ where.shown \subseteq sources
           /\ Cardinality(where.shown) \in Nat /\ where.more \in Nat
           /\ sources \subseteq where.shown \/ where.more > 0
           /\ Cardinality(where.shown) + where.more <= Cardinality(group)
<1> DEFINE sources == SourcesOf(recs, group)
           n == Cardinality(sources)
           size == Min({MaxSources, n})
           count(s) == Cardinality({ i \in group : SourceOf(recs[i]) = s })
           IsTop(top) == /\ Cardinality(top) = size
                         /\ \A s \in top, o \in sources \ top : count(s) >= count(o)
           shown == CHOOSE top \in SUBSET sources : IsTop(top)
<1>1. Where(recs, group) = [shown |-> shown, more |-> n - Cardinality(shown)]
    BY DEF Where, SourcesOf
<1>2. IsFiniteSet(sources) /\ n \in Nat /\ n <= Cardinality(group)
  <2> DEFINE F == [i \in group |-> SourceOf(recs[i])]
  <2>1. F \in Surjection(group, sources)
      BY DEF Surjection, SourcesOf
  <2> HIDE DEF F, sources
  <2>2. IsFiniteSet(sources) /\ Cardinality(sources) <= Cardinality(group)
      BY <2>1, FS_Surjection
  <2>3. QED
      BY <2>2, FS_CardinalityType
<1>3. size \in 0..n
  <2> HIDE DEF n
  <2>1. MaxSources \in Nat
      BY SummaryAssumption
  <2>2. size \in {MaxSources, n} /\ size <= n
      BY <1>2, <2>1, SmallerOf
  <2>3. QED
      BY <1>2, <2>1, <2>2
<1>4. \E top \in SUBSET sources : IsTop(top)
  <2> DEFINE b == Cardinality(group)
             c == [s \in sources |-> count(s)]
  <2>1. b \in Nat
      BY FS_CardinalityType
  <2>2. c \in [sources -> 0..b]
    <3>1. ASSUME NEW s \in sources
          PROVE  count(s) \in 0..b
      <4> DEFINE those == { i \in group : SourceOf(recs[i]) = s }
      <4>1. those \in SUBSET group
          OBVIOUS
      <4> HIDE DEF those
      <4>2. IsFiniteSet(those) /\ Cardinality(those) <= b
          BY <4>1, FS_Subset
      <4>3. Cardinality(those) \in 0..b
          BY <2>1, <4>2, FS_CardinalityType
      <4>4. QED
          BY <4>3 DEF those
    <3> HIDE DEF count
    <3>2. QED
        BY <3>1
  <2>3. \E T \in SUBSET sources : Cardinality(T) = size /\ \A s \in T, o \in sources \ T : c[s] >= c[o]
    <3> HIDE DEF sources, size, c, b
    <3>1. size \in 0..Cardinality(sources)
        BY <1>3 DEF n
    <3>2. QED
        BY <1>2, <2>1, <2>2, <3>1, TopExists
  <2>4. PICK T \in SUBSET sources : Cardinality(T) = size /\ \A s \in T, o \in sources \ T : c[s] >= c[o]
      BY <2>3
  <2>5. ASSUME NEW s \in T, NEW o \in sources \ T
        PROVE  count(s) >= count(o)
    <3>1. c[s] >= c[o] /\ s \in sources
        BY <2>4
    <3> HIDE DEF count, sources
    <3>2. QED
        BY <3>1
  <2>6. QED
      BY <2>4, <2>5
<1>5. shown \in SUBSET sources /\ Cardinality(shown) = size
  <2> HIDE DEF sources
  <2> HIDE DEF IsTop
  <2>1. shown \in SUBSET sources /\ IsTop(shown)
      BY <1>4
  <2>2. QED
      BY <2>1 DEF IsTop
<1> HIDE DEF shown, sources
<1>6. IsFiniteSet(shown) /\ Cardinality(shown) <= n /\ (Cardinality(shown) = n => shown = sources)
    BY <1>2, <1>5, FS_Subset
<1> HIDE DEF size, n
<1>7. Cardinality(shown) \in Nat
    BY <1>3, <1>5
<1>8. QED
  <2> DEFINE where == Where(recs, group)
  <2>1. where.shown = shown /\ where.more = n - Cardinality(shown)
      BY <1>1
  <2>2. where.more \in Nat /\ Cardinality(shown) + where.more = n
      BY <1>2, <1>6, <1>7, <2>1
  <2>3. shown = sources \/ where.more > 0
      BY <1>2, <1>6, <1>7, <2>1
  <2> HIDE DEF where
  <2>4. /\ where.shown \subseteq sources
        /\ Cardinality(where.shown) \in Nat /\ where.more \in Nat
        /\ sources \subseteq where.shown \/ where.more > 0
        /\ Cardinality(where.shown) + where.more <= Cardinality(group)
      BY <1>2, <1>5, <1>7, <2>1, <2>2, <2>3
  <2>5. QED
      BY <2>4 DEF where, sources

-----------------------------------------------------------------------------
(* What the rest needs of a record, of a hook's or of another version's.   *)
IsRecord(r) ==
    /\ r.entities \in [Types -> Nat]
    /\ r.action \in {"allow", "mask", "deny", "report", "other"}
    /\ r.markers \subseteq {"hidden", "another"}

Actions == {"allow", "mask", "deny", "report", "other"}

LEMMA FoundIs ==
    ASSUME NEW f \in Found
    PROVE  f \in [Types -> Nat]
<1>1. 0..MaxFound \subseteq Nat
    BY SummaryAssumption
<1>2. QED
    BY <1>1 DEF Found

LEMMA RecordIs ==
    ASSUME NEW d, NEW e, NEW a \in Actions, NEW f \in Found, NEW n
    PROVE  IsRecord(Record(d, e, a, f, n))
BY FoundIs DEF IsRecord, Record, Actions

LEMMA MarkedRecordIs ==
    ASSUME NEW d, NEW e, NEW a \in Actions, NEW f \in Found, NEW n,
           NEW m \in SUBSET {"hidden", "another"}
    PROVE  IsRecord([Record(d, e, a, f, n) EXCEPT !.markers = m])
BY FoundIs DEF IsRecord, Record, Actions

LEMMA OtherRecordIs ==
    ASSUME NEW d, NEW e, NEW a \in Actions, NEW f \in Found, NEW n,
           NEW c, NEW m \in SUBSET {"hidden", "another"}
    PROVE  IsRecord([Record(d, e, a, f, n) EXCEPT !.client = c, !.markers = m])
BY FoundIs DEF IsRecord, Record, Actions

LEMMA PlacedRecordIs ==
    ASSUME NEW d, NEW e, NEW a \in Actions, NEW f \in Found, NEW n, NEW target, NEW number
    PROVE  IsRecord(In(Record(d, e, a, f, n), target, number))
BY FoundIs DEF IsRecord, Record, Actions, In

LEMMA WrittenIs ==
    ASSUME NEW r \in Written
    PROVE  IsRecord(r)
<1>0. Nothing \in Found /\ FoundSome \subseteq Found
    BY SummaryAssumption DEF Nothing, Found, FoundSome
<1>1. CASE r \in { Record("tool", e, a, f, "none") : e \in {"PostToolUse", "PostToolUseFailure"},
                                               a \in {"mask", "deny", "report"}, f \in FoundSome }
  <2>1. PICK e \in {"PostToolUse", "PostToolUseFailure"}, a \in {"mask", "deny", "report"}, f \in FoundSome :
             r = Record("tool", e, a, f, "none")
      BY <1>1
  <2>2. a \in Actions /\ f \in Found
      BY <1>0 DEF Actions
  <2>3. IsRecord(Record("tool", e, a, f, "none"))
      BY <1>0, <2>2, RecordIs, Zenon
  <2>4. QED
      BY <2>1, <2>3, Zenon
<1>2. CASE r \in { Record("tool", "PostToolUse", "allow", f, "none") : f \in Found }
  <2>1. PICK f \in Found :
             r = Record("tool", "PostToolUse", "allow", f, "none")
      BY <1>2, Zenon
  <2>2. "allow" \in Actions
      BY <1>0 DEF Actions
  <2>3. IsRecord(Record("tool", "PostToolUse", "allow", f, "none"))
      BY <1>0, <2>2, RecordIs, Zenon
  <2>4. QED
      BY <2>1, <2>3, Zenon
<1>3. CASE r \in { Record("tool", "PostToolUse", a, f, "uninspected") : a \in {"deny", "report"}, f \in Found }
  <2>1. PICK a \in {"deny", "report"}, f \in Found :
             r = Record("tool", "PostToolUse", a, f, "uninspected")
      BY <1>3
  <2>2. a \in Actions
      BY <1>0 DEF Actions
  <2>3. IsRecord(Record("tool", "PostToolUse", a, f, "uninspected"))
      BY <1>0, <2>2, RecordIs, Zenon
  <2>4. QED
      BY <2>1, <2>3, Zenon
<1>4. CASE r \in { Record("tool", "PreToolUse", "deny", Nothing, "refused") }
  <2>1. r = Record("tool", "PreToolUse", "deny", Nothing, "refused")
      BY <1>4, Zenon
  <2>2. "deny" \in Actions
      BY <1>0 DEF Actions
  <2>3. IsRecord(Record("tool", "PreToolUse", "deny", Nothing, "refused"))
      BY <1>0, <2>2, RecordIs, Zenon
  <2>4. QED
      BY <2>1, <2>3, Zenon
<1>5. CASE r \in { [Record("tool", "PostToolUse", a, f, "none") EXCEPT !.markers = {"hidden"}] :
                        a \in {"allow", "report"}, f \in Found }
  <2>1. PICK a \in {"allow", "report"}, f \in Found :
             r = [Record("tool", "PostToolUse", a, f, "none") EXCEPT !.markers = {"hidden"}]
      BY <1>5
  <2>2. a \in Actions /\ {"hidden"} \in SUBSET {"hidden", "another"}
      BY <1>0 DEF Actions
  <2>3. IsRecord([Record("tool", "PostToolUse", a, f, "none") EXCEPT !.markers = {"hidden"}])
      BY <1>0, <2>2, MarkedRecordIs, Zenon
  <2>4. QED
      BY <2>1, <2>3, Zenon
<1>6. CASE r \in { In(Record("tool", e, "report", f, "none"), target, 0) :
                        e \in {"PostToolUse", "PostToolUseFailure"}, f \in FoundSome, target \in Targets }
  <2>1. PICK e \in {"PostToolUse", "PostToolUseFailure"}, f \in FoundSome, target \in Targets :
             r = In(Record("tool", e, "report", f, "none"), target, 0)
      BY <1>6
  <2>2. "report" \in Actions /\ f \in Found
      BY <1>0 DEF Actions
  <2>3. IsRecord(In(Record("tool", e, "report", f, "none"), target, 0))
      BY <1>0, <2>2, PlacedRecordIs, Zenon
  <2>4. QED
      BY <2>1, <2>3, Zenon
<1>7. CASE r \in { In(Record("tool", "PostToolUse", "allow", Nothing, "none"), target, n) :
                        target \in Targets, n \in 1..MaxFound }
  <2>1. PICK target \in Targets, n \in 1..MaxFound :
             r = In(Record("tool", "PostToolUse", "allow", Nothing, "none"), target, n)
      BY <1>7
  <2>2. "allow" \in Actions
      BY <1>0 DEF Actions
  <2>3. IsRecord(In(Record("tool", "PostToolUse", "allow", Nothing, "none"), target, n))
      BY <1>0, <2>2, PlacedRecordIs, Zenon
  <2>4. QED
      BY <2>1, <2>3, Zenon
<1>8. CASE r \in PromptRecords
  <2>1. PICK a \in {"allow", "mask", "report", "deny"}, f \in Found :
             r = Record("prompt", "UserPromptSubmit", a, f, "none")
      BY <1>8 DEF PromptRecords
  <2>2. a \in Actions
      BY <1>0 DEF Actions
  <2>3. IsRecord(Record("prompt", "UserPromptSubmit", a, f, "none"))
      BY <1>0, <2>2, RecordIs, Zenon
  <2>4. QED
      BY <2>1, <2>3, Zenon
<1>9. CASE r \in ReplyRecords
  <2>1. PICK f \in Found :
             r = Record("model-output", "Stop", "report", f, "none")
      BY <1>9, Zenon DEF ReplyRecords
  <2>2. "report" \in Actions
      BY <1>0 DEF Actions
  <2>3. IsRecord(Record("model-output", "Stop", "report", f, "none"))
      BY <1>0, <2>2, RecordIs, Zenon
  <2>4. QED
      BY <2>1, <2>3, Zenon
<1>10. CASE r \in OtherVersions
  <2>1. PICK f \in FoundSome, n \in {"none", "partial", "not-inspected"},
             c \in {"claude", "another"}, m \in SUBSET {"hidden", "another"} :
             r = OtherVersion(f, n, c, m)
      BY <1>10 DEF OtherVersions
  <2>2. "other" \in Actions /\ f \in Found
      BY <1>0 DEF Actions
  <2>3. IsRecord(OtherVersion(f, n, c, m))
      BY <1>0, <2>2, OtherRecordIs, Zenon DEF OtherVersion
  <2>4. QED
      BY <2>1, <2>3, Zenon
<1>11. QED
  <2>1. r \in ToolRecords => IsRecord(r)
      BY <1>1, <1>2, <1>3, <1>4, <1>5, <1>6, <1>7 DEF ToolRecords
  <2>2. QED
      BY <2>1, <1>8, <1>9, <1>10 DEF Written

Records == Seq(Written)

(* The numbers a total is the sum of. *)
Counts(recs, group, t) == [i \in DOMAIN recs |-> IF i \in group THEN recs[i].entities[t] ELSE 0]

LEMMA CountsAre ==
    ASSUME NEW recs \in Records, NEW group, NEW t \in Types
    PROVE  /\ DOMAIN recs = 1..Len(recs) /\ Len(recs) \in Nat
           /\ Counts(recs, group, t) \in Seq(Nat)
           /\ Len(Counts(recs, group, t)) = Len(recs)
           /\ Total(recs, group, t) = SumOf(Counts(recs, group, t))
           /\ \A i \in DOMAIN recs :
                 /\ Counts(recs, group, t)[i] = IF i \in group THEN recs[i].entities[t] ELSE 0
                 /\ recs[i].entities[t] \in Nat
<1>1. DOMAIN recs = 1..Len(recs) /\ Len(recs) \in Nat
    BY LenProperties DEF Records
<1>2. ASSUME NEW i \in DOMAIN recs
      PROVE  recs[i].entities[t] \in Nat
  <2>1. recs[i] \in Written
      BY <1>1, ElementOfSeq DEF Records
  <2>2. QED
      BY <2>1, WrittenIs DEF IsRecord
<1> DEFINE c == Counts(recs, group, t)
<1>3. c = [i \in 1..Len(recs) |-> c[i]] /\ \A i \in 1..Len(recs) : c[i] \in Nat
    BY <1>1, <1>2 DEF Counts
<1>4. c \in Seq(Nat) /\ Len(c) = Len(recs)
  <2> HIDE DEF c
  <2>1. c \in [1..Len(recs) -> Nat]
      BY <1>3
  <2>2. QED
      BY <1>1, <2>1
<1>5. Total(recs, group, t) = SumOf(c)
    BY DEF Total, Sum, Counts
<1>6. QED
    BY <1>1, <1>2, <1>4, <1>5 DEF Counts

LEMMA TotalIs ==
    ASSUME NEW recs \in Records, NEW group \in SUBSET DOMAIN recs, NEW t \in Types
    PROVE  /\ Total(recs, group, t) \in Nat
           /\ Total(recs, group, t) > 0 <=> \E i \in group : recs[i].entities[t] > 0
<1> DEFINE c == Counts(recs, group, t)
<1>1. /\ DOMAIN recs = 1..Len(recs) /\ c \in Seq(Nat) /\ Len(c) = Len(recs)
      /\ Total(recs, group, t) = SumOf(c)
      /\ \A i \in DOMAIN recs : c[i] = IF i \in group THEN recs[i].entities[t] ELSE 0
    BY CountsAre
<1> HIDE DEF c
<1>2. SumOf(c) \in Nat /\ (SumOf(c) > 0 <=> \E i \in 1..Len(c) : c[i] > 0)
    BY <1>1, SumIsNat, SumIsPositive
<1>3. (\E i \in 1..Len(c) : c[i] > 0) <=> \E i \in group : recs[i].entities[t] > 0
    BY <1>1
<1>4. QED
    BY <1>1, <1>2, <1>3

(* Two groups with nothing in common are counted together. *)
LEMMA TotalOfBoth ==
    ASSUME NEW recs \in Records, NEW G, NEW H, G \cap H = {}, NEW t \in Types
    PROVE  Total(recs, G \cup H, t) = Total(recs, G, t) + Total(recs, H, t)
<1> DEFINE a == Counts(recs, G, t)
           b == Counts(recs, H, t)
           c == Counts(recs, G \cup H, t)
<1>1. /\ DOMAIN recs = 1..Len(recs)
      /\ a \in Seq(Nat) /\ Len(a) = Len(recs) /\ Total(recs, G, t) = SumOf(a)
      /\ \A i \in DOMAIN recs : a[i] = (IF i \in G THEN recs[i].entities[t] ELSE 0) /\ recs[i].entities[t] \in Nat
    BY CountsAre
<1>2. /\ b \in Seq(Nat) /\ Len(b) = Len(recs) /\ Total(recs, H, t) = SumOf(b)
      /\ \A i \in DOMAIN recs : b[i] = IF i \in H THEN recs[i].entities[t] ELSE 0
    BY CountsAre
<1>3. /\ c \in Seq(Nat) /\ Len(c) = Len(recs) /\ Total(recs, G \cup H, t) = SumOf(c)
      /\ \A i \in DOMAIN recs : c[i] = IF i \in G \cup H THEN recs[i].entities[t] ELSE 0
    BY CountsAre
<1> HIDE DEF a, b, c
<1>4. Together(a, b, c)
  <2>1. ASSUME NEW i \in 1..Len(c)
        PROVE  c[i] = a[i] + b[i]
    <3>1. i \in DOMAIN recs /\ recs[i].entities[t] \in Nat
        BY <1>1, <1>3
    <3>2. CASE i \in G
        BY <1>1, <1>2, <1>3, <3>1, <3>2
    <3>3. CASE i \notin G
        BY <1>1, <1>2, <1>3, <3>1, <3>3
    <3>4. QED
        BY <3>2, <3>3
  <2>2. QED
      BY <1>1, <1>2, <1>3, <2>1 DEF Together
<1>5. QED
    BY <1>1, <1>2, <1>3, <1>4, SumAdds

-----------------------------------------------------------------------------
(* Every group is of the session's records, which are finitely many.       *)
LEMMA GroupIs ==
    ASSUME NEW recs \in Records, NEW group \in SUBSET DOMAIN recs
    PROVE  /\ IsFiniteSet(group) /\ Cardinality(group) \in Nat
           /\ Cardinality(group) > 0 <=> group # {}
<1>1. IsFiniteSet(DOMAIN recs)
  <2>1. DOMAIN recs = 1..Len(recs) /\ Len(recs) \in Nat
      BY LenProperties DEF Records
  <2>2. IsFiniteSet(1..Len(recs))
      BY <2>1, FS_Interval
  <2>3. QED
      BY <2>1, <2>2
<1>2. IsFiniteSet(group)
    BY <1>1, FS_Subset
<1>3. Cardinality(group) \in Nat /\ (Cardinality(group) = 0 <=> group = {})
    BY <1>2, FS_CardinalityType, FS_EmptySet
<1>4. QED
    BY <1>2, <1>3

LEMMA GroupsAre ==
    ASSUME NEW recs \in Records
    PROVE  /\ ActedOn(recs) \in SUBSET DOMAIN recs /\ Uninspected(recs) \in SUBSET DOMAIN recs
           /\ Incomplete(recs) \in SUBSET DOMAIN recs /\ Partial(recs) \in SUBSET DOMAIN recs
           /\ Withheld(recs) \in SUBSET DOMAIN recs /\ Passed(recs) \in SUBSET DOMAIN recs
           /\ Replies(recs) \in SUBSET DOMAIN recs /\ Prompted(recs) \in SUBSET DOMAIN recs
           /\ Bare(recs) \in SUBSET DOMAIN recs
           /\ \A m : Flagged(recs, m) \in SUBSET DOMAIN recs
           /\ \A a : ActionGroup(recs, a) \in SUBSET DOMAIN recs
<1>1. /\ ActedOn(recs) \in SUBSET DOMAIN recs /\ Uninspected(recs) \in SUBSET DOMAIN recs
      /\ Incomplete(recs) \in SUBSET DOMAIN recs /\ Partial(recs) \in SUBSET DOMAIN recs
      /\ Replies(recs) \in SUBSET DOMAIN recs /\ Prompted(recs) \in SUBSET DOMAIN recs
      /\ Bare(recs) \in SUBSET DOMAIN recs
      /\ \A m : Flagged(recs, m) \in SUBSET DOMAIN recs
    BY DEF ActedOn, Uninspected, Incomplete, Partial, Replies, Prompted, Bare, Flagged, Of
<1>2. QED
    BY <1>1 DEF Withheld, Passed, ActionGroup

ActionLabels == {"mask", "unmasked", "deny", "report"}

LEMMA LabelsAre ==
    /\ DOMAIN Labels = 1..4 /\ \A n \in 1..4 : Labels[n] \in ActionLabels
    /\ Range(Labels) = ActionLabels
<1>1. /\ DOMAIN Labels = 1..4 /\ \A n \in 1..4 : Labels[n] \in ActionLabels
      /\ Labels[1] = "mask" /\ Labels[2] = "unmasked" /\ Labels[3] = "deny" /\ Labels[4] = "report"
    BY DEF Labels, ActionLabels
<1>2. Range(Labels) \subseteq ActionLabels
    BY <1>1 DEF Range
<1>3. ASSUME NEW a \in ActionLabels
      PROVE  \E n \in 1..4 : a = Labels[n]
    BY <1>1 DEF ActionLabels
<1>4. QED
    BY <1>1, <1>2, <1>3 DEF Range

LEMMA BareLabelIs ==
    ASSUME NEW recs
    PROVE  BareLabel(recs) \in ActionLabels \cup {"none"}
<1> DEFINE above == { n \in DOMAIN Labels : \E t \in Types : Total(recs, ActionGroup(recs, Labels[n]), t) > 0 }
<1>1. above # {} => Labels[Max(above)] \in ActionLabels
  <2>1. SUFFICES ASSUME above # {}
                 PROVE  Max(above) \in above
      BY LabelsAre
  <2>2. above \subseteq 1..4
      BY LabelsAre
  <2> HIDE DEF above
  <2>3. \E x \in above : \A y \in above : x >= y
    <3> DEFINE lacks == { 4 - n : n \in above }
    <3>1. lacks \subseteq Nat /\ lacks # {}
      <4>1. \A n \in above : 4 - n \in Nat
          BY <2>2
      <4>2. QED
          BY <2>1, <4>1
    <3>2. PICK x \in lacks : \A y \in lacks : x <= y
      <4> HIDE DEF lacks
      <4> QED
          BY <3>1, LeastOf
    <3>3. PICK n \in above : x = 4 - n
        BY <3>2
    <3>4. \A k \in above : 4 - n <= 4 - k
        BY <3>2, <3>3
    <3>5. QED
        BY <2>2, <3>4
  <2>4. QED
      BY <2>3 DEF Max
<1>2. QED
    BY <1>1 DEF BareLabel, ActionLabels

(* What each line counts, and of which records. *)
IsActionLine(recs, l) ==
    /\ l.label \in ActionLabels /\ l.what \in Types
    /\ l.of = { i \in ActionGroup(recs, l.label) : recs[i].entities[l.what] > 0 }
    /\ l.count = Total(recs, ActionGroup(recs, l.label), l.what)

IsOtherLine(recs, l) ==
    \/ l.label \in {"custom", "model"}
    \/ l.label = "skipped" /\ l.what = "withheld" /\ l.of = Withheld(recs) /\ l.count = Cardinality(l.of)
    \/ l.label = "skipped" /\ l.what = "passed" /\ l.of = Passed(recs) /\ l.count = Cardinality(l.of)
    \/ l.label \in ActionLabels \cup {"none"} /\ l.what = "bare"
    \/ l.label = "incomplete" /\ l.what = "events" /\ l.of = Partial(recs) /\ l.count = Cardinality(l.of)
    \/ /\ l.label = "flagged" /\ l.what \in {"hidden", "another"}
       /\ l.of = Flagged(recs, {l.what}) /\ l.count = Cardinality(l.of)

IsOfRecords(recs, l) == l.of \in SUBSET DOMAIN recs /\ l.where = Where(recs, l.of)

LEMMA LineIs ==
    ASSUME NEW recs, NEW label, NEW what, NEW count, NEW of
    PROVE  LET l == Line(recs, label, what, count, of) IN
           l.label = label /\ l.what = what /\ l.count = count /\ l.of = of /\ l.where = Where(recs, of)
BY DEF Line

LEMMA ActionLineIs ==
    ASSUME NEW recs \in Records, NEW l \in ActionLines(recs)
    PROVE  IsActionLine(recs, l) /\ IsOfRecords(recs, l) /\ l = Line(recs, l.label, l.what, l.count, l.of)
<1>1. PICK a \in Range(Labels), t \in Types :
          l = Line(recs, a, t, Total(recs, ActionGroup(recs, a), t),
                   { i \in ActionGroup(recs, a) : recs[i].entities[t] > 0 })
    BY DEF ActionLines
<1> DEFINE count == Total(recs, ActionGroup(recs, a), t)
           of == { i \in ActionGroup(recs, a) : recs[i].entities[t] > 0 }
<1>2. of \in SUBSET DOMAIN recs
    BY GroupsAre
<1>3. l.label = a /\ l.what = t /\ l.count = count /\ l.of = of /\ l.where = Where(recs, of)
  <2> HIDE DEF of, count
  <2> QED
      BY <1>1, LineIs DEF of, count
<1>4. l = Line(recs, a, t, count, of)
    BY <1>1
<1>5. a \in ActionLabels
    BY LabelsAre
<1>6. QED
  <2>1. IsOfRecords(recs, l)
    <3> HIDE DEF of
    <3> QED
        BY <1>2, <1>3 DEF IsOfRecords
  <2>2. IsActionLine(recs, l)
      BY <1>3, <1>5 DEF IsActionLine
  <2>3. l = Line(recs, l.label, l.what, l.count, l.of)
    <3> HIDE DEF of, count
    <3> QED
        BY <1>3, <1>4
  <2>4. QED
      BY <2>1, <2>2, <2>3

LEMMA OtherLineIs ==
    ASSUME NEW recs \in Records, NEW l \in OtherLines(recs)
    PROVE  IsOtherLine(recs, l) /\ IsOfRecords(recs, l) /\ l = Line(recs, l.label, l.what, l.count, l.of)
<1> DEFINE markers == UNION { recs[i].markers : i \in DOMAIN recs }
<1>0. markers \subseteq {"hidden", "another"}
  <2>1. ASSUME NEW i \in DOMAIN recs
        PROVE  recs[i].markers \subseteq {"hidden", "another"}
    <3>1. recs[i] \in Written
        BY LenProperties, ElementOfSeq DEF Records
    <3>2. QED
        BY <3>1, WrittenIs DEF IsRecord
  <2>2. QED
      BY <2>1
<1>1. \/ l = Line(recs, "custom", Custom, CustomTotal(recs, Prompted(recs)), { i \in Prompted(recs) : recs[i].custom > 0 })
      \/ l = Line(recs, "skipped", "withheld", Cardinality(Withheld(recs)), Withheld(recs))
      \/ l = Line(recs, "skipped", "passed", Cardinality(Passed(recs)), Passed(recs))
      \/ l = Line(recs, BareLabel(recs), "bare", BareTotal(recs), Bare(recs))
      \/ l = Line(recs, "incomplete", "events", Cardinality(Partial(recs)), Partial(recs))
      \/ \E m \in markers : l = Line(recs, "flagged", m, Cardinality(Flagged(recs, {m})), Flagged(recs, {m}))
      \/ \E t \in Types : l = Line(recs, "model", t, Total(recs, Replies(recs), t), Replies(recs))
    BY Zenon DEF OtherLines
<1>2. CASE l = Line(recs, "custom", Custom, CustomTotal(recs, Prompted(recs)), { i \in Prompted(recs) : recs[i].custom > 0 })
  <2>1. l.label = "custom" /\ l.what = Custom /\ l.count = CustomTotal(recs, Prompted(recs)) /\ l.of = { i \in Prompted(recs) : recs[i].custom > 0 } /\ l.where = Where(recs, l.of)
      BY <1>2, LineIs
  <2>2. l.of \in SUBSET DOMAIN recs
      BY <2>1, GroupsAre
  <2>3. IsOtherLine(recs, l)
      BY <2>1 DEF IsOtherLine
  <2>4. QED
      BY <1>2, <2>1, <2>2, <2>3, Zenon DEF IsOfRecords
<1>3. CASE l = Line(recs, "skipped", "withheld", Cardinality(Withheld(recs)), Withheld(recs))
  <2>1. l.label = "skipped" /\ l.what = "withheld" /\ l.count = Cardinality(Withheld(recs)) /\ l.of = Withheld(recs) /\ l.where = Where(recs, l.of)
      BY <1>3, LineIs
  <2>2. l.of \in SUBSET DOMAIN recs
      BY <2>1, GroupsAre
  <2>3. IsOtherLine(recs, l)
      BY <2>1 DEF IsOtherLine
  <2>4. QED
      BY <1>3, <2>1, <2>2, <2>3, Zenon DEF IsOfRecords
<1>4. CASE l = Line(recs, "skipped", "passed", Cardinality(Passed(recs)), Passed(recs))
  <2>1. l.label = "skipped" /\ l.what = "passed" /\ l.count = Cardinality(Passed(recs)) /\ l.of = Passed(recs) /\ l.where = Where(recs, l.of)
      BY <1>4, LineIs
  <2>2. l.of \in SUBSET DOMAIN recs
      BY <2>1, GroupsAre
  <2>3. IsOtherLine(recs, l)
      BY <2>1 DEF IsOtherLine
  <2>4. QED
      BY <1>4, <2>1, <2>2, <2>3, Zenon DEF IsOfRecords
<1>5. CASE l = Line(recs, BareLabel(recs), "bare", BareTotal(recs), Bare(recs))
  <2>1. l.label = BareLabel(recs) /\ l.what = "bare" /\ l.count = BareTotal(recs) /\ l.of = Bare(recs) /\ l.where = Where(recs, l.of)
      BY <1>5, LineIs
  <2>2. l.of \in SUBSET DOMAIN recs
      BY <2>1, GroupsAre
  <2>3. IsOtherLine(recs, l)
      BY <2>1, BareLabelIs DEF IsOtherLine
  <2>4. QED
      BY <1>5, <2>1, <2>2, <2>3, Zenon DEF IsOfRecords
<1>6. CASE l = Line(recs, "incomplete", "events", Cardinality(Partial(recs)), Partial(recs))
  <2>1. l.label = "incomplete" /\ l.what = "events" /\ l.count = Cardinality(Partial(recs)) /\ l.of = Partial(recs) /\ l.where = Where(recs, l.of)
      BY <1>6, LineIs
  <2>2. l.of \in SUBSET DOMAIN recs
      BY <2>1, GroupsAre
  <2>3. IsOtherLine(recs, l)
      BY <2>1 DEF IsOtherLine
  <2>4. QED
      BY <1>6, <2>1, <2>2, <2>3, Zenon DEF IsOfRecords
<1>7. CASE \E m \in markers : l = Line(recs, "flagged", m, Cardinality(Flagged(recs, {m})), Flagged(recs, {m}))
  <2>0. PICK m \in markers : l = Line(recs, "flagged", m, Cardinality(Flagged(recs, {m})), Flagged(recs, {m}))
      BY <1>7, Zenon
  <2>1. l.label = "flagged" /\ l.what = m /\ l.count = Cardinality(Flagged(recs, {m})) /\ l.of = Flagged(recs, {m}) /\ l.where = Where(recs, l.of)
      BY <2>0, LineIs
  <2>2. l.of \in SUBSET DOMAIN recs
      BY <2>1, GroupsAre
  <2>3. IsOtherLine(recs, l)
      BY <1>0, <2>1 DEF IsOtherLine
  <2>4. QED
      BY <2>0, <2>1, <2>2, <2>3, Zenon DEF IsOfRecords
<1>8. CASE \E t \in Types : l = Line(recs, "model", t, Total(recs, Replies(recs), t), Replies(recs))
  <2>0. PICK t \in Types : l = Line(recs, "model", t, Total(recs, Replies(recs), t), Replies(recs))
      BY <1>8, Zenon
  <2>1. l.label = "model" /\ l.what = t /\ l.count = Total(recs, Replies(recs), t) /\ l.of = Replies(recs) /\ l.where = Where(recs, l.of)
      BY <2>0, LineIs
  <2>2. l.of \in SUBSET DOMAIN recs
      BY <2>1, GroupsAre
  <2>3. IsOtherLine(recs, l)
      BY <1>0, <2>1 DEF IsOtherLine
  <2>4. QED
      BY <2>0, <2>1, <2>2, <2>3, Zenon DEF IsOfRecords
<1>9. QED
    BY <1>1, <1>2, <1>3, <1>4, <1>5, <1>6, <1>7, <1>8, Zenon

(* A line that is rendered is of one of the two, and counts something.     *)
LEMMA RenderedIs ==
    ASSUME NEW recs \in Records, NEW l \in Render(recs)
    PROVE  /\ IsActionLine(recs, l) \/ IsOtherLine(recs, l)
           /\ IsOfRecords(recs, l) /\ l = Line(recs, l.label, l.what, l.count, l.of) /\ l.count > 0
BY ActionLineIs, OtherLineIs DEF Render

-----------------------------------------------------------------------------
(* SummaryAccounts, part by part. *)

LEMMA JsonIs ==
    ASSUME NEW recs
    PROVE  /\ \A a \in ActionLabels :
                 /\ AsJson(recs).actions[a].events = Cardinality(ActionGroup(recs, a))
                 /\ AsJson(recs).actions[a].entities = [t \in Types |-> Total(recs, ActionGroup(recs, a), t)]
           /\ AsJson(recs).notInspected = Cardinality(Uninspected(recs))
           /\ AsJson(recs).incomplete = Cardinality(Incomplete(recs))
BY DEF AsJson, ActionLabels

(* The groups of the four actions are all that shim acted on and knows. *)
LEMMA ActionsApart ==
    ASSUME NEW recs \in Records
    PROVE  LET group(a) == ActionGroup(recs, a) IN
           /\ group("mask") \cap group("unmasked") = {}
           /\ (group("mask") \cup group("unmasked")) \cap group("deny") = {}
           /\ (group("mask") \cup group("unmasked") \cup group("deny")) \cap group("report") = {}
           /\ group("mask") \cup group("unmasked") \cup group("deny") \cup group("report")
              = { i \in ActedOn(recs) : recs[i].action # "other" }
<1>1. \A a, i : i \in ActionGroup(recs, a) <=> i \in ActedOn(recs) /\ ActionOf(recs[i]) = a
    BY DEF ActionGroup
<1>2. ASSUME NEW i \in ActedOn(recs)
      PROVE  recs[i].action # "other" <=> ActionOf(recs[i]) \in ActionLabels
  <2>1. i \in DOMAIN recs /\ recs[i].action # "allow"
      BY DEF ActedOn, Of
  <2>2. recs[i] \in Written
      BY <2>1, LenProperties, ElementOfSeq DEF Records
  <2>3. recs[i].action \in {"allow", "mask", "deny", "report", "other"}
      BY <2>2, WrittenIs DEF IsRecord
  <2>4. QED
      BY <2>1, <2>3 DEF ActionOf, ActionLabels
<1>3. QED
    BY <1>1, <1>2 DEF ActionLabels

LEMMA CountedOnce ==
    ASSUME NEW recs \in Records, NEW t \in Types
    PROVE  LET said(a) == AsJson(recs).actions[a].entities[t] IN
           said("mask") + said("unmasked") + said("deny") + said("report")
           = Total(recs, { i \in ActedOn(recs) : recs[i].action # "other" }, t)
<1> DEFINE said(a) == AsJson(recs).actions[a].entities[t]
           M == ActionGroup(recs, "mask")
           U == ActionGroup(recs, "unmasked")
           D == ActionGroup(recs, "deny")
           R == ActionGroup(recs, "report")
           all == { i \in ActedOn(recs) : recs[i].action # "other" }
<1>1. /\ said("mask") = Total(recs, M, t) /\ said("unmasked") = Total(recs, U, t)
      /\ said("deny") = Total(recs, D, t) /\ said("report") = Total(recs, R, t)
  <2>1. \A a \in ActionLabels : said(a) = Total(recs, ActionGroup(recs, a), t)
    <3>1. ASSUME NEW a \in ActionLabels
          PROVE  AsJson(recs).actions[a].entities = [u \in Types |-> Total(recs, ActionGroup(recs, a), u)]
        BY JsonIs
    <3>2. QED
        BY <3>1
  <2> HIDE DEF said
  <2>2. QED
      BY <2>1 DEF ActionLabels
<1>2. /\ M \cap U = {} /\ (M \cup U) \cap D = {} /\ (M \cup U \cup D) \cap R = {}
      /\ M \cup U \cup D \cup R = all
    BY ActionsApart
<1> HIDE DEF M, U, D, R, all, said
<1>3. /\ Total(recs, M \cup U, t) = Total(recs, M, t) + Total(recs, U, t)
      /\ Total(recs, (M \cup U) \cup D, t) = Total(recs, M \cup U, t) + Total(recs, D, t)
      /\ Total(recs, (M \cup U \cup D) \cup R, t) = Total(recs, M \cup U \cup D, t) + Total(recs, R, t)
    BY <1>2, TotalOfBoth
<1>4. said("mask") + said("unmasked") + said("deny") + said("report") = Total(recs, all, t)
    BY <1>1, <1>2, <1>3
<1>5. QED
    BY <1>4 DEF all, said

(* A record that holds findings holds one of some type. *)
LEMMA HoldsOne ==
    ASSUME NEW r \in Written, HoldsFindings(r)
    PROVE  \E t \in Types : r.entities[t] > 0
<1>1. r.entities \in [Types -> Nat] /\ r.entities # [t \in Types |-> 0]
    BY WrittenIs DEF IsRecord, HoldsFindings, Nothing
<1>2. \E t \in Types : r.entities[t] # 0
    BY <1>1
<1>3. QED
    BY <1>1, <1>2

(* A line of what there is some of is rendered. *)
LEMMA SkippedIsRendered ==
    ASSUME NEW recs \in Records, NEW i \in Uninspected(recs)
    PROVE  \E l \in Render(recs) : i \in l.of /\ l.label = "skipped"
<1> DEFINE w == Line(recs, "skipped", "withheld", Cardinality(Withheld(recs)), Withheld(recs))
           p == Line(recs, "skipped", "passed", Cardinality(Passed(recs)), Passed(recs))
<1>1. w \in OtherLines(recs) /\ p \in OtherLines(recs)
    BY Zenon DEF OtherLines
<1>2. /\ w.label = "skipped" /\ w.of = Withheld(recs) /\ w.count = Cardinality(Withheld(recs))
      /\ p.label = "skipped" /\ p.of = Passed(recs) /\ p.count = Cardinality(Passed(recs))
    BY LineIs
<1> HIDE DEF w, p
<1>3. /\ Cardinality(Withheld(recs)) > 0 <=> Withheld(recs) # {}
      /\ Cardinality(Passed(recs)) > 0 <=> Passed(recs) # {}
    BY GroupsAre, GroupIs
<1>4. CASE recs[i].action = "deny"
  <2>1. i \in Withheld(recs)
      BY <1>4 DEF Withheld
  <2>2. w \in Render(recs)
      BY <1>1, <1>2, <1>3, <2>1 DEF Render
  <2>3. QED
      BY <1>2, <2>1, <2>2
<1>5. CASE recs[i].action # "deny"
  <2>1. i \in Passed(recs)
      BY <1>5 DEF Passed
  <2>2. p \in Render(recs)
      BY <1>1, <1>2, <1>3, <2>1 DEF Render
  <2>3. QED
      BY <1>2, <2>1, <2>2
<1>6. QED
    BY <1>4, <1>5

LEMMA ActionIsRendered ==
    ASSUME NEW recs \in Records, NEW a \in ActionLabels, NEW i \in ActionGroup(recs, a), NEW t \in Types,
           recs[i].entities[t] > 0
    PROVE  \E l \in Render(recs) : i \in l.of /\ l.label = a
<1> DEFINE of == { j \in ActionGroup(recs, a) : recs[j].entities[t] > 0 }
           count == Total(recs, ActionGroup(recs, a), t)
           l == Line(recs, a, t, count, of)
<1>1. l \in ActionLines(recs)
  <2>1. a \in Range(Labels)
      BY LabelsAre
  <2>2. QED
      BY <2>1 DEF ActionLines
<1>2. l.label = a /\ l.of = of /\ l.count = count
  <2> HIDE DEF of, count
  <2> QED
      BY LineIs
<1>3. count > 0
  <2>1. ActionGroup(recs, a) \in SUBSET DOMAIN recs
      BY GroupsAre
  <2>2. QED
      BY <2>1, TotalIs
<1>4. i \in of
    OBVIOUS
<1> HIDE DEF l, count, of
<1>5. l \in Render(recs)
    BY <1>1, <1>2, <1>3 DEF Render
<1>6. QED
    BY <1>2, <1>4, <1>5

LEMMA ReplyIsRendered ==
    ASSUME NEW recs \in Records, NEW i \in Replies(recs)
    PROVE  \E l \in Render(recs) : i \in l.of /\ l.label = "model"
<1>1. i \in DOMAIN recs /\ HoldsFindings(recs[i])
    BY DEF Replies, Of
<1>2. PICK t \in Types : recs[i].entities[t] > 0
  <2>1. recs[i] \in Written
      BY <1>1, LenProperties, ElementOfSeq DEF Records
  <2>2. QED
      BY <1>1, <2>1, HoldsOne
<1> DEFINE count == Total(recs, Replies(recs), t)
           l == Line(recs, "model", t, count, Replies(recs))
<1>3. l \in OtherLines(recs)
    BY Zenon DEF OtherLines
<1>4. l.label = "model" /\ l.of = Replies(recs) /\ l.count = count
  <2> HIDE DEF count
  <2> QED
      BY LineIs
<1>5. count > 0
  <2>1. Replies(recs) \in SUBSET DOMAIN recs
      BY GroupsAre
  <2>2. QED
      BY <1>2, <2>1, TotalIs
<1> HIDE DEF l, count
<1>6. l \in Render(recs)
    BY <1>3, <1>4, <1>5 DEF Render
<1>7. QED
    BY <1>4, <1>6

LEMMA EachIsTold ==
    ASSUME NEW recs \in Records, NEW i \in DOMAIN recs
    PROVE  /\ HoldsFindings(recs[i]) /\ recs[i].action # "allow" =>
                 \E l \in Render(recs) : i \in l.of /\ l.label # "custom"
           /\ recs[i].note = "uninspected" =>
                 \E l \in Render(recs) : i \in l.of /\ l.label = "skipped"
<1>0. recs[i] \in Written
    BY LenProperties, ElementOfSeq DEF Records
<1>1. ASSUME recs[i].note = "uninspected"
      PROVE  \E l \in Render(recs) : i \in l.of /\ l.label = "skipped"
  <2>1. i \in Uninspected(recs)
      BY <1>1 DEF Uninspected, Of
  <2>2. QED
      BY <2>1, SkippedIsRendered
<1>2. ASSUME HoldsFindings(recs[i]), recs[i].action # "allow"
      PROVE  \E l \in Render(recs) : i \in l.of /\ l.label # "custom"
  <2>1. CASE recs[i].direction = "model-output"
    <3>1. i \in Replies(recs)
        BY <1>2, <2>1 DEF Replies, Of
    <3>2. PICK l \in Render(recs) : i \in l.of /\ l.label = "model"
        BY <3>1, ReplyIsRendered
    <3>3. QED
        BY <3>2
  <2>2. CASE recs[i].direction # "model-output" /\ recs[i].action = "other"
    <3>1. ActionOf(recs[i]) \notin KnownActions
        BY <2>2 DEF ActionOf, KnownActions
    <3>2. i \in Uninspected(recs)
        BY <1>2, <3>1 DEF Uninspected, Of
    <3>3. PICK l \in Render(recs) : i \in l.of /\ l.label = "skipped"
        BY <3>2, SkippedIsRendered
    <3>4. QED
        BY <3>3
  <2>3. CASE recs[i].direction # "model-output" /\ recs[i].action # "other"
    <3>1. recs[i].action \in {"mask", "deny", "report"}
        BY <1>0, <1>2, <2>3, WrittenIs DEF IsRecord
    <3>2. ActionOf(recs[i]) \in ActionLabels
        BY <3>1 DEF ActionOf, ActionLabels
    <3>3. i \in ActionGroup(recs, ActionOf(recs[i]))
        BY <1>2, <2>3 DEF ActionGroup, ActedOn, Of
    <3>4. PICK t \in Types : recs[i].entities[t] > 0
        BY <1>0, <1>2, HoldsOne
    <3>5. PICK l \in Render(recs) : i \in l.of /\ l.label = ActionOf(recs[i])
        BY <3>2, <3>3, <3>4, ActionIsRendered
    <3>6. QED
        BY <3>2, <3>5 DEF ActionLabels
  <2>4. QED
      BY <2>1, <2>2, <2>3
<1>3. QED
    BY <1>1, <1>2

(* A record's names of the user's own are on one line of an action. *)
LEMMA CustomOnOneLine ==
    ASSUME NEW recs \in Records, NEW i,
           NEW l \in Render(recs), i \in l.of, l.what = Custom, l.label \notin {"custom", "model"},
           NEW m \in Render(recs), i \in m.of, m.what = Custom, m.label \notin {"custom", "model"}
    PROVE  l = m
<1>1. ASSUME NEW k \in Render(recs), i \in k.of, k.what = Custom, k.label \notin {"custom", "model"}
      PROVE  IsActionLine(recs, k) /\ k.label = ActionOf(recs[i])
  <2>1. ~IsOtherLine(recs, k)
    <3>1. Custom \notin {"withheld", "passed", "bare", "events", "hidden", "another"}
        BY SummaryAssumption DEF OtherWhats
    <3>2. QED
        BY <1>1, <3>1 DEF IsOtherLine
  <2>2. IsActionLine(recs, k)
      BY <2>1, RenderedIs
  <2>3. i \in ActionGroup(recs, k.label)
      BY <1>1, <2>2 DEF IsActionLine
  <2>4. QED
      BY <2>2, <2>3 DEF ActionGroup
<1>2. IsActionLine(recs, l) /\ IsActionLine(recs, m) /\ l.label = m.label
    BY <1>1
<1>3. l.of = m.of /\ l.count = m.count
    BY <1>2 DEF IsActionLine
<1>4. /\ l = Line(recs, l.label, l.what, l.count, l.of)
      /\ m = Line(recs, m.label, m.what, m.count, m.of)
    BY RenderedIs
<1>5. QED
    BY <1>2, <1>3, <1>4

LEMMA SkippedAre ==
    ASSUME NEW recs \in Records
    PROVE  LET skipped == { l \in Render(recs) : l.label = "skipped" } IN
           /\ AsJson(recs).notInspected = Cardinality(UNION { l.of : l \in skipped })
           /\ \A l \in skipped : l.count = Cardinality(l.of)
           /\ \A l, m \in skipped : l # m => l.of \cap m.of = {}
<1> DEFINE skipped == { l \in Render(recs) : l.label = "skipped" }
<1>1. ASSUME NEW l \in skipped
      PROVE  /\ l.count = Cardinality(l.of) /\ l = Line(recs, "skipped", l.what, l.count, l.of)
             /\ \/ l.what = "withheld" /\ l.of = Withheld(recs)
                \/ l.what = "passed" /\ l.of = Passed(recs)
  <2>1. ~IsActionLine(recs, l)
      BY <1>1 DEF IsActionLine, ActionLabels
  <2>2. IsOtherLine(recs, l) /\ l = Line(recs, l.label, l.what, l.count, l.of)
      BY <1>1, <2>1, RenderedIs
  <2>3. QED
      BY <1>1, <2>2 DEF IsOtherLine, ActionLabels
<1>2. Withheld(recs) \cap Passed(recs) = {} /\ Withheld(recs) \cup Passed(recs) = Uninspected(recs)
    BY DEF Withheld, Passed
<1>3. ASSUME NEW i \in Uninspected(recs)
      PROVE  \E l \in skipped : i \in l.of
  <2>1. PICK l \in Render(recs) : i \in l.of /\ l.label = "skipped"
      BY SkippedIsRendered
  <2>2. QED
      BY <2>1
<1> HIDE DEF skipped
<1>4. UNION { l.of : l \in skipped } = Uninspected(recs)
  <2>1. \A l \in skipped : l.of \subseteq Uninspected(recs)
      BY <1>1, <1>2
  <2>2. QED
      BY <1>3, <2>1
<1>5. AsJson(recs).notInspected = Cardinality(UNION { l.of : l \in skipped })
    BY <1>4, JsonIs
<1>6. ASSUME NEW l \in skipped, NEW m \in skipped, l # m
      PROVE  l.of \cap m.of = {}
  <2>1. CASE l.what = m.what
    <3>1. l.of = m.of /\ l.count = m.count
        BY <1>1, <2>1
    <3>2. QED
        BY <1>1, <1>6, <2>1, <3>1
  <2>2. CASE l.what # m.what
      BY <1>1, <1>2, <2>2
  <2>3. QED
      BY <2>1, <2>2
<1>7. QED
    BY <1>1, <1>5, <1>6 DEF skipped

LEMMA PlacesAre ==
    ASSUME NEW recs \in Records, NEW l \in Render(recs)
    PROVE  /\ \A i \in l.of : SourceOf(recs[i]) \in l.where.shown \/ l.where.more > 0
           /\ \A source \in l.where.shown : \E i \in l.of :
                 /\ source[2] = Basename(recs[i].target)
                 /\ source[3] <=> recs[i].tool # "none" /\ recs[i].event = "PostToolUseFailure"
           /\ Cardinality(l.where.shown) + l.where.more <= Cardinality(l.of)
<1>1. l.of \in SUBSET DOMAIN recs /\ l.where = Where(recs, l.of)
    BY RenderedIs DEF IsOfRecords
<1>2. IsFiniteSet(l.of)
    BY <1>1, GroupIs
<1>3. /\ l.where.shown \subseteq SourcesOf(recs, l.of)
      /\ SourcesOf(recs, l.of) \subseteq l.where.shown \/ l.where.more > 0
      /\ Cardinality(l.where.shown) + l.where.more <= Cardinality(l.of)
    BY <1>1, <1>2, WhereIs
<1>4. \A i \in l.of : SourceOf(recs[i]) \in SourcesOf(recs, l.of)
    BY DEF SourcesOf
<1>5. ASSUME NEW source \in l.where.shown
      PROVE  \E i \in l.of : /\ source[2] = Basename(recs[i].target)
                             /\ source[3] <=> recs[i].tool # "none" /\ recs[i].event = "PostToolUseFailure"
  <2>1. PICK i \in l.of : source = SourceOf(recs[i])
      BY <1>3 DEF SourcesOf
  <2>2. source[2] = Basename(recs[i].target)
      BY <2>1 DEF SourceOf
  <2>3. source[3] <=> recs[i].tool # "none" /\ recs[i].event = "PostToolUseFailure"
      BY <2>1 DEF SourceOf
  <2>4. QED
      BY <2>2, <2>3
<1>6. QED
    BY <1>3, <1>4, <1>5

LEMMA AllIsAccounted ==
    ASSUME records \in Records
    PROVE  SummaryAccounts
<1> DEFINE lines == Render(records)
           skipped == { l \in lines : l.label = "skipped" }
           said(t, a) == AsJson(records).actions[a].entities[t]
<1>1. \A t \in Types :
        said(t, "mask") + said(t, "unmasked") + said(t, "deny") + said(t, "report")
        = Total(records, { i \in ActedOn(records) : records[i].action # "other" }, t)
    BY CountedOnce
<1>2. \A i \in DOMAIN records :
        /\ HoldsFindings(records[i]) /\ records[i].action # "allow" =>
              \E l \in lines : i \in l.of /\ l.label # "custom"
        /\ records[i].note = "uninspected" =>
              \E l \in lines : i \in l.of /\ l.label = "skipped"
    BY EachIsTold
<1>3. \A i \in DOMAIN records :
        \A l, m \in { k \in lines : /\ i \in k.of /\ k.what = Custom
                                   /\ k.label \notin {"custom", "model"} } : l = m
    BY CustomOnOneLine
<1>4. /\ AsJson(records).notInspected = Cardinality(UNION { l.of : l \in skipped })
      /\ \A l \in skipped : l.count = Cardinality(l.of)
      /\ \A l, m \in skipped : l # m => l.of \cap m.of = {}
    BY SkippedAre
<1>5. \A l \in lines :
        /\ \A i \in l.of : SourceOf(records[i]) \in l.where.shown \/ l.where.more > 0
        /\ \A source \in l.where.shown : \E i \in l.of :
              /\ source[2] = Basename(records[i].target)
              /\ source[3] <=> records[i].tool # "none" /\ records[i].event = "PostToolUseFailure"
        /\ Cardinality(l.where.shown) + l.where.more <= Cardinality(l.of)
    BY PlacesAre
<1>6. QED
    BY <1>1, <1>2, <1>3, <1>4, <1>5, Zenon DEF SummaryAccounts

-----------------------------------------------------------------------------
(* FindingsStay, part by part. *)

(* What a finding is made of. *)
FindingIs(f, recs, name, group, measures) ==
    /\ group # {}
    /\ f.id = << name, App(IF ClientOf(recs, group) = "claude" THEN "claude" ELSE "other") >>
    /\ f.occurrences = << Cardinality(group) >> /\ f.evidence = Evidence(group) /\ f.measures = measures

LEMMA FindingOfGroup ==
    ASSUME NEW recs, NEW name, NEW group, NEW measures
    PROVE  /\ RecordFinding(recs, name, group, measures) # {} <=> group # {}
           /\ \A f \in RecordFinding(recs, name, group, measures) : FindingIs(f, recs, name, group, measures)
           /\ \A f, g \in RecordFinding(recs, name, group, measures) : f = g
<1> DEFINE subject == App(IF ClientOf(recs, group) = "claude" THEN "claude" ELSE "other")
           impact == IF name = "unmasked_values" THEN [NoImpact EXCEPT !.requests = << Cardinality(group) >>]
                     ELSE NoImpact
           made == FindingOf(name, subject, << Cardinality(group) >>, Evidence(group), measures, impact)
<1>1. RecordFinding(recs, name, group, measures) = IF group = {} THEN {} ELSE {made}
    BY DEF RecordFinding
<1>2. /\ made.id = << name, subject >> /\ made.occurrences = << Cardinality(group) >>
      /\ made.evidence = Evidence(group) /\ made.measures = measures
  <2> HIDE DEF subject, impact
  <2> QED
      BY DEF FindingOf
<1>3. group # {} => FindingIs(made, recs, name, group, measures)
  <2> HIDE DEF made
  <2> QED
      BY <1>2 DEF FindingIs
<1> HIDE DEF made
<1>4. QED
    BY <1>1, <1>3

Doubtful(recs) == Uninspected(recs) \cup Incomplete(recs)
UnmaskedMeasures(recs) == [t \in Types |-> Total(recs, ActionGroup(recs, "unmasked"), t)]
DoubtfulMeasures(recs) == [notInspected |-> Cardinality(Uninspected(recs)),
                           incomplete |-> Cardinality(Incomplete(recs))]
MarkerMeasures(recs) == [m \in KnownMarkers |-> Cardinality(Flagged(recs, {m}))]

UnmaskedFindings(recs) ==
    RecordFinding(recs, "unmasked_values", ActionGroup(recs, "unmasked"), UnmaskedMeasures(recs))
DoubtfulFindings(recs) == RecordFinding(recs, "not_inspected", Doubtful(recs), DoubtfulMeasures(recs))
MarkerFindings(recs) ==
    RecordFinding(recs, "injection_markers", Flagged(recs, KnownMarkers), MarkerMeasures(recs))

LEMMA RaisedAre ==
    ASSUME NEW recs
    PROVE  /\ FromRecords(recs) = UnmaskedFindings(recs) \cup DoubtfulFindings(recs) \cup MarkerFindings(recs)
           /\ Raised(recs, "unmasked_values") = UnmaskedFindings(recs)
           /\ Raised(recs, "not_inspected") = DoubtfulFindings(recs)
           /\ Raised(recs, "injection_markers") = MarkerFindings(recs)
<1>1. FromRecords(recs) = UnmaskedFindings(recs) \cup DoubtfulFindings(recs) \cup MarkerFindings(recs)
    BY DEF FromRecords, UnmaskedFindings, DoubtfulFindings, MarkerFindings,
           UnmaskedMeasures, DoubtfulMeasures, MarkerMeasures, Doubtful
<1>2. /\ \A f \in UnmaskedFindings(recs) : f.id[1] = "unmasked_values"
      /\ \A f \in DoubtfulFindings(recs) : f.id[1] = "not_inspected"
      /\ \A f \in MarkerFindings(recs) : f.id[1] = "injection_markers"
    BY FindingOfGroup DEF UnmaskedFindings, DoubtfulFindings, MarkerFindings, FindingIs
<1>3. QED
    BY <1>1, <1>2 DEF Raised

(* Lines of what was not inspected, in part or at all. *)
LEMMA PartialIsRendered ==
    ASSUME NEW recs \in Records, NEW i \in Partial(recs)
    PROVE  \E l \in Render(recs) : l.label = "incomplete"
<1> DEFINE l == Line(recs, "incomplete", "events", Cardinality(Partial(recs)), Partial(recs))
<1>1. l \in OtherLines(recs)
    BY Zenon DEF OtherLines
<1>2. l.label = "incomplete" /\ l.count = Cardinality(Partial(recs))
    BY LineIs
<1> HIDE DEF l
<1>3. Cardinality(Partial(recs)) > 0
    BY GroupsAre, GroupIs
<1>4. l \in Render(recs)
    BY <1>1, <1>2, <1>3 DEF Render
<1>5. QED
    BY <1>2, <1>4

LEMMA DoubtIsTold ==
    ASSUME NEW recs \in Records
    PROVE  /\ (\E l \in Render(recs) : l.label \in {"skipped", "incomplete"}) <=> Doubtful(recs) # {}
           /\ \A l \in Render(recs) :
                 l.label \in {"skipped", "incomplete"} => Cardinality(l.of) <= Cardinality(Doubtful(recs))
<1>1. ASSUME NEW l \in Render(recs), l.label \in {"skipped", "incomplete"}
      PROVE  l.of # {} /\ l.of \subseteq Doubtful(recs) /\ l.of \in SUBSET DOMAIN recs
  <2>1. ~IsActionLine(recs, l)
      BY <1>1 DEF IsActionLine, ActionLabels
  <2>2. IsOtherLine(recs, l) /\ l.of \in SUBSET DOMAIN recs /\ l.count > 0
      BY <1>1, <2>1, RenderedIs DEF IsOfRecords
  <2>3. /\ l.count = Cardinality(l.of)
        /\ l.of \in {Withheld(recs), Passed(recs), Partial(recs)}
      BY <1>1, <2>2 DEF IsOtherLine, ActionLabels
  <2>4. l.of # {}
      BY <2>2, <2>3, GroupIs
  <2>5. l.of \subseteq Doubtful(recs)
      BY <2>3 DEF Withheld, Passed, Partial, Incomplete, Of, Doubtful
  <2>6. QED
      BY <2>2, <2>4, <2>5
<1>2. ASSUME NEW i \in Doubtful(recs)
      PROVE  \E l \in Render(recs) : l.label \in {"skipped", "incomplete"}
  <2>1. CASE i \in Uninspected(recs)
    <3>1. PICK l \in Render(recs) : l.label = "skipped"
        BY <2>1, SkippedIsRendered
    <3>2. QED
        BY <3>1
  <2>2. CASE i \in Partial(recs)
    <3>1. PICK l \in Render(recs) : l.label = "incomplete"
        BY <2>2, PartialIsRendered
    <3>2. QED
        BY <3>1
  <2>3. i \in Uninspected(recs) \/ i \in Partial(recs)
      BY DEF Doubtful, Incomplete, Uninspected, Partial, Of
  <2>4. QED
      BY <2>1, <2>2, <2>3
<1>3. Doubtful(recs) \in SUBSET DOMAIN recs
    BY GroupsAre DEF Doubtful
<1>4. IsFiniteSet(Doubtful(recs))
    BY <1>3, GroupIs
<1>5. ASSUME NEW l \in Render(recs), l.label \in {"skipped", "incomplete"}
      PROVE  Cardinality(l.of) <= Cardinality(Doubtful(recs))
  <2>1. l.of \in SUBSET Doubtful(recs)
      BY <1>1, <1>5
  <2>2. QED
      BY <1>4, <2>1, FS_Subset
<1>6. QED
    BY <1>1, <1>2, <1>5

LEMMA MarkerIsTold ==
    ASSUME NEW recs \in Records, Flagged(recs, KnownMarkers) # {}, NEW m \in KnownMarkers
    PROVE  \E l \in Render(recs) :
              l.label = "flagged" /\ l.what = m /\ l.count = Cardinality(Flagged(recs, {m}))
<1> DEFINE count == Cardinality(Flagged(recs, {m}))
           l == Line(recs, "flagged", m, count, Flagged(recs, {m}))
           markers == UNION { recs[i].markers : i \in DOMAIN recs }
<1>1. PICK i \in DOMAIN recs : recs[i].markers \cap KnownMarkers # {}
    BY DEF Flagged, Of
<1>2. m \in recs[i].markers
    BY <1>1 DEF KnownMarkers
<1>3. i \in Flagged(recs, {m}) /\ m \in markers
    BY <1>2 DEF Flagged, Of
<1>4. l \in OtherLines(recs)
    BY <1>3, Zenon DEF OtherLines
<1>5. l.label = "flagged" /\ l.what = m /\ l.count = count
  <2> HIDE DEF count
  <2> QED
      BY LineIs
<1>6. count > 0
    BY <1>3, GroupsAre, GroupIs
<1> HIDE DEF l, count
<1>7. l \in Render(recs)
    BY <1>4, <1>5, <1>6 DEF Render
<1>8. QED
    BY <1>5, <1>7 DEF count

(* The records of an earlier report are how those of a later one begin. *)
Begins(early, recs, n) ==
    /\ early \in Records /\ Len(early) = n /\ n \in 0..Len(recs)
    /\ DOMAIN early = 1..n /\ DOMAIN recs = 1..Len(recs) /\ Len(recs) \in Nat
    /\ \A i \in 1..n : early[i] = recs[i]

LEMMA EarlierBegins ==
    ASSUME NEW recs \in Records, NEW n \in 0..Len(recs)
    PROVE  Begins(SubSeq(recs, 1, n), recs, n)
<1> DEFINE early == SubSeq(recs, 1, n)
<1>1. Len(recs) \in Nat /\ DOMAIN recs = 1..Len(recs)
    BY LenProperties DEF Records
<1>2. \A i \in 1..n : recs[i] \in Written
  <2>1. \A i \in 1..Len(recs) : recs[i] \in Written
      BY ElementOfSeq DEF Records
  <2>2. QED
      BY <1>1, <2>1
<1>3. /\ early \in Seq(Written) /\ Len(early) = IF 1 <= n THEN n - 1 + 1 ELSE 0
      /\ \A i \in 1..(n - 1 + 1) : early[i] = recs[1 + i - 1]
    BY <1>1, <1>2, SubSeqProperties
<1> HIDE DEF early
<1>4. Len(early) = n /\ n \in Nat
    BY <1>1, <1>3
<1>5. DOMAIN early = 1..n
    BY <1>3, <1>4, LenProperties
<1>6. ASSUME NEW i \in 1..n
      PROVE  early[i] = recs[i]
  <2>1. i \in 1..(n - 1 + 1) /\ 1 + i - 1 = i
      BY <1>4
  <2>2. QED
      BY <1>3, <2>1
<1>7. QED
    BY <1>1, <1>3, <1>4, <1>5, <1>6 DEF Begins, Records, early

LEMMA GroupsBegin ==
    ASSUME NEW early, NEW recs \in Records, NEW n, Begins(early, recs, n)
    PROVE  /\ ActionGroup(early, "unmasked") = ActionGroup(recs, "unmasked") \cap (1..n)
           /\ Doubtful(early) = Doubtful(recs) \cap (1..n)
           /\ Flagged(early, KnownMarkers) = Flagged(recs, KnownMarkers) \cap (1..n)
<1>1. \A i : i \in DOMAIN early <=> i \in DOMAIN recs /\ i \in 1..n
    BY DEF Begins
<1>2. \A i \in DOMAIN early : early[i] = recs[i]
    BY DEF Begins
<1>3. /\ ActedOn(early) = ActedOn(recs) \cap (1..n)
      /\ Uninspected(early) = Uninspected(recs) \cap (1..n)
      /\ Incomplete(early) = Incomplete(recs) \cap (1..n)
      /\ Flagged(early, KnownMarkers) = Flagged(recs, KnownMarkers) \cap (1..n)
  <2>1. ActedOn(early) = ActedOn(recs) \cap (1..n)
      BY <1>1, <1>2 DEF ActedOn, Of
  <2>2. Uninspected(early) = Uninspected(recs) \cap (1..n)
      BY <1>1, <1>2 DEF Uninspected, Of
  <2>3. Incomplete(early) = Incomplete(recs) \cap (1..n)
      BY <1>1, <1>2 DEF Incomplete, Of
  <2>4. Flagged(early, KnownMarkers) = Flagged(recs, KnownMarkers) \cap (1..n)
      BY <1>1, <1>2 DEF Flagged, Of
  <2>5. QED
      BY <2>1, <2>2, <2>3, <2>4
<1>4. \A i \in ActedOn(early) : early[i] = recs[i]
    BY <1>2 DEF ActedOn, Of
<1>5. ActionGroup(early, "unmasked") = ActionGroup(recs, "unmasked") \cap (1..n)
    BY <1>3, <1>4 DEF ActionGroup
<1>6. QED
    BY <1>3, <1>5 DEF Doubtful

(* The first of a group is the first of what comes before n of it. *)
Among(group, n) == group \cap (1..n)

LEMMA FirstStays ==
    ASSUME NEW m \in Nat, NEW G \in SUBSET (1..m), NEW n \in Nat, Among(G, n) # {}
    PROVE  Min(Among(G, n)) \in Among(G, n) /\ Min(G) = Min(Among(G, n))
<1> DEFINE H == Among(G, n)
<1>0. H # {} /\ H \in SUBSET (1..n) /\ \A i : i \in H <=> i \in G /\ i \in 1..n
    BY DEF Among
<1> HIDE DEF H
<1>1. \E x \in H : \A y \in H : x <= y
    BY <1>0, LeastOf
<1>2. Min(H) \in H /\ \A y \in H : Min(H) <= y
    BY <1>1 DEF Min
<1> DEFINE x == Min(H)
<1> HIDE DEF x
<1>3. x \in H /\ \A y \in H : x <= y
    BY <1>2 DEF x
<1>4. \E least \in G : \A y \in G : least <= y
    BY <1>0, <1>3, LeastOf
<1>5. Min(G) \in G /\ \A y \in G : Min(G) <= y
    BY <1>4 DEF Min
<1> DEFINE z == Min(G)
<1> HIDE DEF z
<1>6. z \in G /\ z <= x
    BY <1>0, <1>3, <1>5 DEF z
<1>7. z \in H
    BY <1>0, <1>3, <1>6
<1>8. z = x
    BY <1>0, <1>3, <1>6, <1>7
<1>9. QED
    BY <1>3, <1>8 DEF x, z, H

LEMMA EvidenceStays ==
    ASSUME NEW m \in Nat, NEW G \in SUBSET (1..m), NEW n \in Nat, NEW H, H = G \cap (1..n)
    PROVE  Evidence(H) \subseteq Evidence(G)
<1>1. ASSUME NEW i \in H
      PROVE  i \in G /\ { j \in H : j <= i } = { j \in G : j <= i }
  <2>1. i \in G /\ i \in 1..n
      OBVIOUS
  <2>2. ASSUME NEW j \in G, j <= i
        PROVE  j \in H
    <3>1. j \in 1..m
        OBVIOUS
    <3>2. j \in 1..n
        BY <2>1, <2>2, <3>1
    <3>3. QED
        BY <3>2
  <2>3. QED
      BY <2>1, <2>2
<1>2. QED
    BY <1>1 DEF Evidence

(* A finding that was raised is raised later, of as many or more.          *)
LEMMA FindingStays ==
    ASSUME NEW early, NEW recs \in Records, NEW n, Begins(early, recs, n),
           NEW G \in SUBSET DOMAIN recs,
           NEW name, NEW before, NEW after, NEW f \in RecordFinding(early, name, Among(G, n), before)
    PROVE  \E g \in RecordFinding(recs, name, G, after) :
              g.id = f.id /\ g.occurrences[1] >= f.occurrences[1] /\ f.evidence \subseteq g.evidence
<1> DEFINE H == Among(G, n)
<1>0. H = Among(G, n) /\ H = G \cap (1..n)
    BY DEF Among
<1> HIDE DEF H
<1>1. FindingIs(f, early, name, H, before)
    BY <1>0, FindingOfGroup
<1>2. H # {} /\ G # {}
    BY <1>0, <1>1 DEF FindingIs
<1>3. PICK g \in RecordFinding(recs, name, G, after) : FindingIs(g, recs, name, G, after)
    BY <1>2, FindingOfGroup
<1>4. Len(recs) \in Nat /\ G \in SUBSET (1..Len(recs)) /\ n \in Nat /\ \A i \in 1..n : early[i] = recs[i]
    BY DEF Begins
<1>5. Min(H) \in H /\ Min(G) = Min(H)
  <2> DEFINE m == Len(recs)
  <2>1. m \in Nat /\ G \in SUBSET (1..m) /\ n \in Nat
      BY <1>4
  <2> HIDE DEF m
  <2>2. QED
      BY <1>0, <1>2, <2>1, FirstStays
<1>6. ClientOf(early, H) = ClientOf(recs, G)
    BY <1>0, <1>4, <1>5 DEF ClientOf
<1>7. g.id = f.id
    BY <1>1, <1>3, <1>6 DEF FindingIs
<1>8. g.occurrences[1] >= f.occurrences[1]
  <2>1. IsFiniteSet(G) /\ H \in SUBSET G
      BY <1>0, GroupIs
  <2>2. Cardinality(H) <= Cardinality(G) /\ Cardinality(H) \in Nat /\ Cardinality(G) \in Nat
      BY <2>1, FS_Subset, FS_CardinalityType
  <2>3. g.occurrences[1] = Cardinality(G) /\ f.occurrences[1] = Cardinality(H)
      BY <1>1, <1>3 DEF FindingIs
  <2>4. QED
      BY <2>2, <2>3
<1>9. f.evidence \subseteq g.evidence
  <2>1. Evidence(H) \subseteq Evidence(G)
      BY <1>0, <1>4, EvidenceStays
  <2>2. QED
      BY <1>1, <1>3, <2>1 DEF FindingIs
<1>10. QED
    BY <1>3, <1>7, <1>8, <1>9

LEMMA AllStay ==
    ASSUME NEW recs \in Records, NEW n \in 0..Len(recs), NEW f \in FromRecords(SubSeq(recs, 1, n))
    PROVE  \E g \in FromRecords(recs) :
              g.id = f.id /\ g.occurrences[1] >= f.occurrences[1] /\ f.evidence \subseteq g.evidence
<1> DEFINE early == SubSeq(recs, 1, n)
<1>1. Begins(early, recs, n)
    BY EarlierBegins
<1> HIDE DEF early
<1>2. /\ ActionGroup(early, "unmasked") = ActionGroup(recs, "unmasked") \cap (1..n)
      /\ Doubtful(early) = Doubtful(recs) \cap (1..n)
      /\ Flagged(early, KnownMarkers) = Flagged(recs, KnownMarkers) \cap (1..n)
    BY <1>1, GroupsBegin
<1>3. /\ ActionGroup(recs, "unmasked") \in SUBSET DOMAIN recs
      /\ Doubtful(recs) \in SUBSET DOMAIN recs
      /\ Flagged(recs, KnownMarkers) \in SUBSET DOMAIN recs
    BY GroupsAre DEF Doubtful
<1>4. f \in UnmaskedFindings(early) \cup DoubtfulFindings(early) \cup MarkerFindings(early)
    BY RaisedAre DEF early
<1>5. CASE f \in UnmaskedFindings(early)
  <2> DEFINE G == ActionGroup(recs, "unmasked")
             before == UnmaskedMeasures(early)
             after == UnmaskedMeasures(recs)
  <2>1. /\ G \in SUBSET DOMAIN recs
        /\ f \in RecordFinding(early, "unmasked_values", Among(G, n), before)
        /\ UnmaskedFindings(recs) = RecordFinding(recs, "unmasked_values", G, after)
      BY <1>2, <1>3, <1>5 DEF UnmaskedFindings, Among
  <2> HIDE DEF G, before, after
  <2>2. \E g \in RecordFinding(recs, "unmasked_values", G, after) :
           g.id = f.id /\ g.occurrences[1] >= f.occurrences[1] /\ f.evidence \subseteq g.evidence
    <3> DEFINE name == "unmasked_values"
    <3>1. f \in RecordFinding(early, name, Among(G, n), before)
        BY <2>1
    <3> HIDE DEF name
    <3>2. \E g \in RecordFinding(recs, name, G, after) :
             g.id = f.id /\ g.occurrences[1] >= f.occurrences[1] /\ f.evidence \subseteq g.evidence
        BY <1>1, <2>1, <3>1, FindingStays
    <3>3. QED
        BY <3>2 DEF name
  <2>3. QED
      BY <2>1, <2>2, RaisedAre
<1>6. CASE f \in DoubtfulFindings(early)
  <2> DEFINE G == Doubtful(recs)
             before == DoubtfulMeasures(early)
             after == DoubtfulMeasures(recs)
  <2>1. /\ G \in SUBSET DOMAIN recs
        /\ f \in RecordFinding(early, "not_inspected", Among(G, n), before)
        /\ DoubtfulFindings(recs) = RecordFinding(recs, "not_inspected", G, after)
      BY <1>2, <1>3, <1>6 DEF DoubtfulFindings, Among
  <2> HIDE DEF G, before, after
  <2>2. \E g \in RecordFinding(recs, "not_inspected", G, after) :
           g.id = f.id /\ g.occurrences[1] >= f.occurrences[1] /\ f.evidence \subseteq g.evidence
    <3> DEFINE name == "not_inspected"
    <3>1. f \in RecordFinding(early, name, Among(G, n), before)
        BY <2>1
    <3> HIDE DEF name
    <3>2. \E g \in RecordFinding(recs, name, G, after) :
             g.id = f.id /\ g.occurrences[1] >= f.occurrences[1] /\ f.evidence \subseteq g.evidence
        BY <1>1, <2>1, <3>1, FindingStays
    <3>3. QED
        BY <3>2 DEF name
  <2>3. QED
      BY <2>1, <2>2, RaisedAre
<1>7. CASE f \in MarkerFindings(early)
  <2> DEFINE G == Flagged(recs, KnownMarkers)
             before == MarkerMeasures(early)
             after == MarkerMeasures(recs)
  <2>1. /\ G \in SUBSET DOMAIN recs
        /\ f \in RecordFinding(early, "injection_markers", Among(G, n), before)
        /\ MarkerFindings(recs) = RecordFinding(recs, "injection_markers", G, after)
      BY <1>2, <1>3, <1>7 DEF MarkerFindings, Among
  <2> HIDE DEF G, before, after
  <2>2. \E g \in RecordFinding(recs, "injection_markers", G, after) :
           g.id = f.id /\ g.occurrences[1] >= f.occurrences[1] /\ f.evidence \subseteq g.evidence
    <3> DEFINE name == "injection_markers"
    <3>1. f \in RecordFinding(early, name, Among(G, n), before)
        BY <2>1
    <3> HIDE DEF name
    <3>2. \E g \in RecordFinding(recs, name, G, after) :
             g.id = f.id /\ g.occurrences[1] >= f.occurrences[1] /\ f.evidence \subseteq g.evidence
        BY <1>1, <2>1, <3>1, FindingStays
    <3>3. QED
        BY <3>2 DEF name
  <2>3. QED
      BY <2>1, <2>2, RaisedAre
<1>8. QED
    BY <1>4, <1>5, <1>6, <1>7

LEMMA OneOfARule ==
    ASSUME NEW recs, NEW f \in FromRecords(recs), NEW g \in FromRecords(recs), f.id[1] = g.id[1]
    PROVE  f = g
<1>1. /\ f \in UnmaskedFindings(recs) \/ f \in DoubtfulFindings(recs) \/ f \in MarkerFindings(recs)
      /\ g \in UnmaskedFindings(recs) \/ g \in DoubtfulFindings(recs) \/ g \in MarkerFindings(recs)
    BY RaisedAre
<1>2. /\ \A h \in UnmaskedFindings(recs) : h.id[1] = "unmasked_values"
      /\ \A h \in DoubtfulFindings(recs) : h.id[1] = "not_inspected"
      /\ \A h \in MarkerFindings(recs) : h.id[1] = "injection_markers"
    BY FindingOfGroup DEF UnmaskedFindings, DoubtfulFindings, MarkerFindings, FindingIs
<1>3. /\ \A h, k \in UnmaskedFindings(recs) : h = k
      /\ \A h, k \in DoubtfulFindings(recs) : h = k
      /\ \A h, k \in MarkerFindings(recs) : h = k
    BY FindingOfGroup DEF UnmaskedFindings, DoubtfulFindings, MarkerFindings
<1>4. QED
    BY <1>1, <1>2, <1>3

LEMMA AllFindingsStay ==
    ASSUME records \in Records
    PROVE  FindingsStay
<1> DEFINE json == AsJson(records)
           counted(f) == f.occurrences[1]
<1>1. (json.actions["unmasked"].events > 0) <=> Raised(records, "unmasked_values") # {}
  <2>1. json.actions["unmasked"].events = Cardinality(ActionGroup(records, "unmasked"))
      BY JsonIs DEF ActionLabels
  <2>2. Cardinality(ActionGroup(records, "unmasked")) > 0 <=> ActionGroup(records, "unmasked") # {}
      BY GroupsAre, GroupIs
  <2>3. Raised(records, "unmasked_values") # {} <=> ActionGroup(records, "unmasked") # {}
      BY RaisedAre, FindingOfGroup DEF UnmaskedFindings
  <2>4. QED
      BY <2>1, <2>2, <2>3
<1>2. \A f \in Raised(records, "unmasked_values") :
        f.measures = json.actions["unmasked"].entities /\ counted(f) = json.actions["unmasked"].events
  <2>1. ASSUME NEW f \in Raised(records, "unmasked_values")
        PROVE  FindingIs(f, records, "unmasked_values", ActionGroup(records, "unmasked"), UnmaskedMeasures(records))
      BY RaisedAre, FindingOfGroup DEF UnmaskedFindings
  <2>2. /\ json.actions["unmasked"].events = Cardinality(ActionGroup(records, "unmasked"))
        /\ json.actions["unmasked"].entities = UnmaskedMeasures(records)
      BY JsonIs DEF ActionLabels, UnmaskedMeasures
  <2> HIDE DEF json
  <2>3. QED
      BY <2>1, <2>2 DEF FindingIs
<1>3. (\E l \in Render(records) : l.label \in {"skipped", "incomplete"})
          <=> Raised(records, "not_inspected") # {}
  <2>1. Raised(records, "not_inspected") # {} <=> Doubtful(records) # {}
      BY RaisedAre, FindingOfGroup DEF DoubtfulFindings
  <2>2. QED
      BY <2>1, DoubtIsTold
<1>4. \A f \in Raised(records, "not_inspected") :
        /\ f.measures = [notInspected |-> json.notInspected, incomplete |-> json.incomplete]
        /\ \A l \in Render(records) :
              l.label \in {"skipped", "incomplete"} => counted(f) >= Cardinality(l.of)
  <2>1. ASSUME NEW f \in Raised(records, "not_inspected")
        PROVE  FindingIs(f, records, "not_inspected", Doubtful(records), DoubtfulMeasures(records))
      BY RaisedAre, FindingOfGroup DEF DoubtfulFindings
  <2>2. DoubtfulMeasures(records) = [notInspected |-> json.notInspected, incomplete |-> json.incomplete]
      BY JsonIs DEF DoubtfulMeasures
  <2>3. ASSUME NEW l \in Render(records), l.label \in {"skipped", "incomplete"}
        PROVE  Cardinality(Doubtful(records)) >= Cardinality(l.of)
    <3>1. /\ Doubtful(records) \in SUBSET DOMAIN records /\ l.of \in SUBSET DOMAIN records
          /\ Cardinality(l.of) <= Cardinality(Doubtful(records))
        BY <2>3, DoubtIsTold, GroupsAre, RenderedIs DEF Doubtful, IsOfRecords
    <3>2. Cardinality(Doubtful(records)) \in Nat /\ Cardinality(l.of) \in Nat
        BY <3>1, GroupIs
    <3>3. QED
        BY <3>1, <3>2
  <2> HIDE DEF json
  <2>4. QED
      BY <2>1, <2>2, <2>3 DEF FindingIs
<1>5. \A f \in Raised(records, "injection_markers") : \A m \in DOMAIN f.measures :
        \E l \in Render(records) : l.label = "flagged" /\ l.what = m /\ l.count = f.measures[m]
  <2>1. ASSUME NEW f \in Raised(records, "injection_markers")
        PROVE  FindingIs(f, records, "injection_markers", Flagged(records, KnownMarkers), MarkerMeasures(records))
      BY RaisedAre, FindingOfGroup DEF MarkerFindings
  <2>2. ASSUME NEW f \in Raised(records, "injection_markers"), NEW m \in DOMAIN f.measures
        PROVE  \E l \in Render(records) : l.label = "flagged" /\ l.what = m /\ l.count = f.measures[m]
    <3>1. f.measures = MarkerMeasures(records) /\ Flagged(records, KnownMarkers) # {}
        BY <2>1 DEF FindingIs
    <3>2. m \in KnownMarkers /\ f.measures[m] = Cardinality(Flagged(records, {m}))
        BY <2>2, <3>1 DEF MarkerMeasures
    <3>3. QED
        BY <3>1, <3>2, MarkerIsTold
  <2>3. QED
      BY <2>2
<1>6. \A f, g \in FromRecords(records) : f.id[1] = g.id[1] => f = g
    BY OneOfARule
<1>7. \A n \in 0..Len(records) : \A f \in FromRecords(SubSeq(records, 1, n)) :
        \E g \in FromRecords(records) :
           g.id = f.id /\ counted(g) >= counted(f) /\ f.evidence \subseteq g.evidence
    BY AllStay
<1>8. QED
    BY <1>1, <1>2, <1>3, <1>4, <1>5, <1>6, <1>7, Zenon DEF FindingsStay

(* A session's records are never any others than those hooks write.        *)
THEOREM SummaryTypeCorrect == SummarySpec => [](records \in Records)
<1>1. SummaryInit => records \in Records
    BY EmptySeq DEF SummaryInit, Records
<1>2. records \in Records /\ [SummaryNext]_records => (records \in Records)'
  <2> SUFFICES ASSUME records \in Records, [SummaryNext]_records
               PROVE  records' \in Records
      OBVIOUS
  <2>1. CASE UNCHANGED records
      BY <2>1
  <2>2. CASE SummaryNext
    <3>1. PICK r \in Written : records' = Append(records, r)
        BY <2>2 DEF SummaryNext, Remember
    <3>2. QED
        BY <3>1, AppendProperties DEF Records
  <2>3. QED
      BY <2>1, <2>2
<1>3. QED
    BY <1>1, <1>2, PTL DEF SummarySpec

(* A summary, its JSON and the findings account for the records, whatever  *)
(* hooks wrote and however much they found: render, as_json and            *)
(* from_records, of one session and of every beginning of it.              *)
THEOREM ToldRecords == SummarySpec => []RecordsAreTold
<1>1. records \in Records => RecordsAreTold
    BY AllIsAccounted, AllFindingsStay DEF RecordsAreTold
<1>2. QED
    BY <1>1, SummaryTypeCorrect, PTL
=============================================================================
