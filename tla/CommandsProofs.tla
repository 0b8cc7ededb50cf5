--------------------------- MODULE CommandsProofs ---------------------------
(***************************************************************************)
(* Proofs about commands on files that others write: HookSettings, for any *)
(* installations, runs and edits, Audit, for any sessions, histories and   *)
(* writes of Claude Code, Configuration, for any files of the user and any *)
(* options, and Doctor, for any hooks, plugins and settings it may find.   *)
(***************************************************************************)
EXTENDS Doctor, Audit, Configuration, SequenceTheorems, FiniteSetTheorems, WellFoundedInduction, TLAPS

-----------------------------------------------------------------------------
(* Filters. *)

(* A set of numbers has a least one. *)
LEMMA LeastOf ==
    ASSUME NEW S, S \subseteq Nat, S # {}
    PROVE  \E x \in S : \A y \in S : x <= y
<1> DEFINE R == {ss \in Nat \X Nat : ss[1] < ss[2]}
<1>1. IsWellFoundedOn(R, Nat)
    BY NatLessThanWellFounded DEF OpToRel
<1>2. \E x \in S : \A y \in S : << y, x >> \notin R
  <2> HIDE DEF R
  <2> QED
      BY <1>1, WFMin
<1>3. PICK x \in S : \A y \in S : << y, x >> \notin R
    BY <1>2
<1>4. ASSUME NEW y \in S
      PROVE  x <= y
  <2>1. x \in Nat /\ y \in Nat
      OBVIOUS
  <2>2. ~(y < x)
      BY <1>3, <2>1
  <2>3. QED
      BY <2>1, <2>2
<1>5. QED
    BY <1>4

(* Induction over sequences: what holds of the empty one, and of one with  *)
(* an element more, holds of all.                                          *)
LEMMA AllSequences ==
    ASSUME NEW T, NEW I, << >> \in I,
           \A s \in Seq(T), x \in T : s \in I => Append(s, x) \in I
    PROVE  Seq(T) \subseteq I
<1> SUFFICES ASSUME NEW odd \in Seq(T), odd \notin I
             PROVE  FALSE
    OBVIOUS
<1> DEFINE sizes == {Len(s) : s \in Seq(T) \ I}
<1>1. sizes \subseteq Nat /\ sizes # {}
    BY LenProperties
<1>2. PICK n \in sizes : \A m \in sizes : n <= m
  <2> HIDE DEF sizes
  <2> QED
      BY <1>1, LeastOf
<1>3. PICK s \in Seq(T) : s \notin I /\ Len(s) = n
    BY <1>2
<1>4. s # << >>
    BY <1>3
<1>5. PICK t \in Seq(T), x \in T : s = Append(t, x)
    BY <1>4, SequenceEmptyOrAppend
<1>6. Len(t) \in Nat /\ Len(s) = Len(t) + 1
    BY <1>5, LenProperties, AppendProperties
<1>7. CASE t \in I
    BY <1>3, <1>5, <1>7
<1>8. CASE t \notin I
  <2>1. Len(t) \in sizes
      BY <1>8
  <2> HIDE DEF sizes
  <2>2. Len(s) <= Len(t)
      BY <1>2, <1>3, <2>1
  <2>3. QED
      BY <1>6, <2>2
<1>9. QED
    BY <1>7, <1>8

Leaves(s, S, f) ==
    f = [n \in 0..Len(s) |-> IF n = 0 THEN << >> ELSE IF s[n] \in S THEN f[n - 1] ELSE Append(f[n - 1], s[n])]

LEMMA Chosen ==
    ASSUME NEW s, NEW S
    PROVE  Without(s, S) = (CHOOSE f : Leaves(s, S, f))[Len(s)]
BY DEF Without, Leaves

(* The same of a longer and a shorter sequence that agree so far. *)
LEMMA Agree ==
    ASSUME NEW T, NEW s \in Seq(T), NEW t \in Seq(T), NEW S, NEW f, NEW g,
           Leaves(s, S, f), Leaves(t, S, g), Len(s) <= Len(t),
           \A i \in 1..Len(s) : s[i] = t[i]
    PROVE  f[Len(s)] = g[Len(s)]
<1> DEFINE m == Len(s)
           n == Len(t)
           odd == {i \in 0..m : f[i] # g[i]}
<1>1. m \in Nat /\ n \in Nat /\ m <= n
    BY LenProperties
<1>2. \A i \in 0..m : f[i] = IF i = 0 THEN << >> ELSE IF s[i] \in S THEN f[i - 1] ELSE Append(f[i - 1], s[i])
    BY DEF Leaves
<1>3. \A i \in 0..n : g[i] = IF i = 0 THEN << >> ELSE IF t[i] \in S THEN g[i - 1] ELSE Append(g[i - 1], t[i])
    BY DEF Leaves
<1>4. SUFFICES ASSUME odd # {}
               PROVE  FALSE
    BY <1>1
<1>5. PICK x \in odd : \A y \in odd : x <= y
  <2>1. odd \subseteq Nat
      BY <1>1
  <2> HIDE DEF odd
  <2>2. QED
      BY <1>4, <2>1, LeastOf
<1>6. x \in 0..m /\ x \in 0..n /\ f[x] # g[x]
    BY <1>1
<1> HIDE DEF m, n
<1>7. x # 0
    BY <1>2, <1>3, <1>6
<1>8. x - 1 \in 0..m /\ x - 1 < x
    BY <1>1, <1>6, <1>7
<1>9. f[x - 1] = g[x - 1]
  <2>1. x - 1 \notin odd
    <3>1. x \in Nat
        BY <1>1, <1>6
    <3> HIDE DEF odd
    <3>2. QED
        BY <1>5, <1>8, <3>1
  <2>2. QED
      BY <1>8, <2>1
<1>10. s[x] = t[x]
    BY <1>1, <1>6, <1>7 DEF m
<1>11. QED
    BY <1>2, <1>3, <1>6, <1>7, <1>9, <1>10

LEMMA LeavesLonger ==
    ASSUME NEW T, NEW s \in Seq(T), NEW x \in T, NEW S, NEW f, Leaves(s, S, f)
    PROVE  \E g : Leaves(Append(s, x), S, g)
<1> DEFINE m == Len(s)
           t == Append(s, x)
           last == IF x \in S THEN f[m] ELSE Append(f[m], x)
           g == [n \in 0..(m + 1) |-> IF n = m + 1 THEN last ELSE f[n]]
<1>1. m \in Nat /\ Len(t) = m + 1 /\ t[m + 1] = x /\ \A i \in 1..m : t[i] = s[i]
    BY LenProperties, AppendProperties
<1>2. \A n \in 0..m : f[n] = IF n = 0 THEN << >> ELSE IF s[n] \in S THEN f[n - 1] ELSE Append(f[n - 1], s[n])
    BY DEF Leaves
<1> DEFINE leaf(n) == IF n = 0 THEN << >> ELSE IF t[n] \in S THEN g[n - 1] ELSE Append(g[n - 1], t[n])
<1> HIDE DEF m, t
<1>3. \A n \in 0..m : g[n] = f[n]
    BY <1>1
<1>4. g[m + 1] = last /\ \A n \in 1..(m + 1) : n - 1 \in 0..m
    BY <1>1
<1>5. ASSUME NEW n \in 0..(m + 1)
      PROVE  g[n] = leaf(n)
  <2>1. CASE n = m + 1
    <3>1. n # 0 /\ n - 1 = m /\ t[n] = x /\ g[n - 1] = f[m]
        BY <1>1, <1>3, <2>1
    <3>2. g[n] = last
        BY <1>4, <2>1
    <3> HIDE DEF g
    <3>3. QED
        BY <3>1, <3>2
  <2>2. CASE n = 0
      BY <1>1, <1>2, <1>3, <2>2
  <2>3. CASE n \in 1..m
    <3>1. n - 1 \in 0..m /\ n \in 0..m /\ n # 0
        BY <1>1, <2>3
    <3>2. g[n] = f[n] /\ g[n - 1] = f[n - 1]
        BY <1>3, <3>1
    <3>3. t[n] = s[n]
        BY <1>1, <2>3
    <3> HIDE DEF g
    <3>4. QED
        BY <1>2, <3>1, <3>2, <3>3
  <2>4. QED
      BY <1>1, <2>1, <2>2, <2>3
<1>6. g = [n \in 0..(m + 1) |-> leaf(n)]
    BY <1>5
<1>7. Leaves(t, S, g)
  <2> HIDE DEF g
  <2> QED
      BY <1>1, <1>6 DEF Leaves
<1>8. QED
    BY <1>7 DEF t

LEMMA LeavesExist ==
    ASSUME NEW T, NEW S
    PROVE  \A s \in Seq(T) : \E f : Leaves(s, S, f)
<1> DEFINE I == {s \in Seq(T) : \E f : Leaves(s, S, f)}
<1>1. << >> \in I
  <2> DEFINE f == [n \in 0..Len(<< >>) |-> << >>]
  <2>1. << >> \in Seq(T) /\ Len(<< >>) = 0
      BY EmptySeq
  <2>2. f = [n \in 0..0 |-> << >>]
      BY <2>1
  <2>3. Leaves(<< >>, S, f)
      BY <2>1, <2>2 DEF Leaves
  <2>4. QED
      BY <2>1, <2>3
<1>2. \A s \in Seq(T), x \in T : s \in I => Append(s, x) \in I
    BY LeavesLonger, AppendProperties
<1> HIDE DEF I
<1>3. Seq(T) \subseteq I
    BY <1>1, <1>2, AllSequences
<1>4. QED
    BY <1>3 DEF I

(* What Without makes of a sequence, an element at a time. *)
LEMMA WithoutEmpty ==
    ASSUME NEW S
    PROVE  Without(<< >>, S) = << >>
<1>1. << >> \in Seq({0}) /\ Len(<< >>) = 0
    BY EmptySeq
<1>2. PICK f : f = (CHOOSE g : Leaves(<< >>, S, g)) /\ Leaves(<< >>, S, f)
    BY <1>1, LeavesExist
<1>3. f[0] = << >>
    BY <1>1, <1>2 DEF Leaves
<1>4. QED
    BY <1>1, <1>2, <1>3, Chosen

LEMMA WithoutAppend ==
    ASSUME NEW T, NEW s \in Seq(T), NEW x \in T, NEW S
    PROVE  Without(Append(s, x), S) =
              IF x \in S THEN Without(s, S) ELSE Append(Without(s, S), x)
<1> DEFINE t == Append(s, x)
           m == Len(s)
<1>1. PICK f : f = (CHOOSE h : Leaves(s, S, h)) /\ Leaves(s, S, f)
    BY LeavesExist
<1>2. /\ t \in Seq(T) /\ Len(t) = m + 1 /\ m \in Nat
      /\ t[m + 1] = x /\ \A i \in 1..m : t[i] = s[i]
    BY AppendProperties, LenProperties
<1>3. PICK g : g = (CHOOSE h : Leaves(t, S, h)) /\ Leaves(t, S, g)
    BY <1>2, LeavesExist
<1>4. f[m] = g[m]
  <2> HIDE DEF t
  <2>1. m <= Len(t)
      BY <1>2
  <2>2. QED
      BY <1>1, <1>2, <1>3, <2>1, Agree
<1>5. Without(s, S) = f[m] /\ Without(t, S) = g[m + 1]
    BY <1>1, <1>2, <1>3, Chosen
<1> HIDE DEF t, m
<1>6. g[m + 1] = IF x \in S THEN g[m] ELSE Append(g[m], x)
  <2>1. g = [n \in 0..(m + 1) |-> IF n = 0 THEN << >> ELSE IF t[n] \in S THEN g[n - 1] ELSE Append(g[n - 1], t[n])]
      BY <1>2, <1>3 DEF Leaves
  <2>2. m + 1 \in 0..(m + 1) /\ m + 1 # 0 /\ (m + 1) - 1 = m
      BY <1>2
  <2>3. g[m + 1] = IF t[m + 1] \in S THEN g[(m + 1) - 1] ELSE Append(g[(m + 1) - 1], t[m + 1])
      BY <2>1, <2>2
  <2>4. QED
      BY <1>2, <2>2, <2>3
<1>7. QED
    BY <1>4, <1>5, <1>6 DEF t

LEMMA NoElements ==
    \A s \in Seq({}) : s = << >>
<1> SUFFICES ASSUME NEW s \in Seq({}), s # << >>
             PROVE  FALSE
    OBVIOUS
<1>1. Len(s) \in Nat \ {0}
    BY EmptySeq
<1>2. s[1] \in {}
    BY <1>1, ElementOfSeq
<1>3. QED
    BY <1>2

LEMMA WithoutOne ==
    ASSUME NEW x, NEW S
    PROVE  Without(<< x >>, S) = IF x \in S THEN << >> ELSE << x >>
<1>1. Append(<< >>, x) = << x >>
    OBVIOUS
<1>2. PICK T : T = {x}
    OBVIOUS
<1>3. PICK none \in Seq(T) : none = << >>
    BY EmptySeq
<1>4. Without(Append(none, x), S) = IF x \in S THEN Without(none, S) ELSE Append(Without(none, S), x)
    BY <1>2, WithoutAppend
<1>5. Without(none, S) = none
    BY <1>3, WithoutEmpty
<1>6. QED
    BY <1>1, <1>3, <1>4, <1>5

(* What is left is of the rest; what is left of the rest is the rest.      *)
LEMMA WithoutRest ==
    ASSUME NEW T, NEW S
    PROVE  \A s \in Seq(T) : Without(s, S) \in Seq(T \ S)
<1> DEFINE I == {s \in Seq(T) : Without(s, S) \in Seq(T \ S)}
<1>1. << >> \in I
    BY WithoutEmpty, EmptySeq
<1>2. ASSUME NEW s \in Seq(T), NEW x \in T, s \in I
      PROVE  Append(s, x) \in I
  <2>1. Append(s, x) \in Seq(T)
      BY AppendProperties
  <2>2. CASE x \in S
      BY <1>2, <2>1, <2>2, WithoutAppend
  <2>3. CASE x \notin S
    <3>1. Append(Without(s, S), x) \in Seq(T \ S)
        BY <1>2, <2>3, AppendProperties
    <3>2. Without(Append(s, x), S) = Append(Without(s, S), x)
        BY <2>3, WithoutAppend
    <3>3. QED
        BY <2>1, <3>1, <3>2
  <2>4. QED
      BY <2>2, <2>3
<1> HIDE DEF I
<1>3. Seq(T) \subseteq I
    BY <1>1, <1>2, AllSequences
<1>4. QED
    BY <1>3 DEF I

LEMMA WithoutNothing ==
    ASSUME NEW T, NEW S
    PROVE  \A s \in Seq(T \ S) : Without(s, S) = s
<1> DEFINE I == {s \in Seq(T \ S) : Without(s, S) = s}
<1>1. << >> \in I
    BY WithoutEmpty, EmptySeq
<1>2. ASSUME NEW s \in Seq(T \ S), NEW x \in T \ S, s \in I
      PROVE  Append(s, x) \in I
  <2>1. Append(s, x) \in Seq(T \ S) /\ x \notin S /\ Without(s, S) = s
      BY <1>2, AppendProperties
  <2>2. Without(Append(s, x), S) = Append(Without(s, S), x)
      BY <2>1, WithoutAppend
  <2>3. QED
      BY <2>1, <2>2
<1> HIDE DEF I
<1>3. Seq(T \ S) \subseteq I
    BY <1>1, <1>2, AllSequences
<1>4. QED
    BY <1>3 DEF I

LEMMA WithoutBoth ==
    ASSUME NEW T, NEW S, NEW R
    PROVE  \A s \in Seq(T) : Without(Without(s, S), R) = Without(s, S \cup R)
<1> DEFINE I == {s \in Seq(T) : Without(Without(s, S), R) = Without(s, S \cup R)}
<1>1. << >> \in I
    BY WithoutEmpty, EmptySeq
<1>2. ASSUME NEW s \in Seq(T), NEW x \in T, s \in I
      PROVE  Append(s, x) \in I
  <2>1. Append(s, x) \in Seq(T)
      BY AppendProperties
  <2>2. CASE x \in S
      BY <1>2, <2>1, <2>2, WithoutAppend
  <2>3. CASE x \notin S
    <3> DEFINE left == Without(s, S)
    <3>1. left \in Seq(T) /\ Without(left, R) = Without(s, S \cup R)
      <4>1. left \in Seq(T \ S)
          BY WithoutRest
      <4> HIDE DEF left
      <4>2. left \in Seq(T)
          BY <4>1, SeqMonotonic
      <4>3. QED
          BY <1>2, <4>2 DEF left
    <3>2. Without(Append(s, x), S) = Append(left, x)
        BY <2>3, WithoutAppend
    <3>3. Without(Append(s, x), S \cup R) =
             IF x \in R THEN Without(s, S \cup R) ELSE Append(Without(s, S \cup R), x)
        BY <2>3, WithoutAppend
    <3> HIDE DEF left
    <3>4. \A t \in Seq(T) : Without(Append(t, x), R) =
             IF x \in R THEN Without(t, R) ELSE Append(Without(t, R), x)
        BY WithoutAppend
    <3>5. QED
        BY <2>1, <3>1, <3>2, <3>3, <3>4
  <2>4. QED
      BY <2>2, <2>3
<1> HIDE DEF I
<1>3. Seq(T) \subseteq I
    BY <1>1, <1>2, AllSequences
<1>4. QED
    BY <1>3 DEF I

LEMMA RangeAppend ==
    ASSUME NEW T, NEW s \in Seq(T), NEW x \in T
    PROVE  Range(Append(s, x)) = Range(s) \cup {x}
<1>1. /\ DOMAIN s = 1..Len(s) /\ Len(s) \in Nat
      /\ DOMAIN Append(s, x) = 1..(Len(s) + 1)
      /\ \A i \in 1..Len(s) : Append(s, x)[i] = s[i]
      /\ Append(s, x)[Len(s) + 1] = x
    BY LenProperties, AppendProperties
<1> DEFINE t == Append(s, x)
           m == Len(s)
<1> HIDE DEF t, m
<1>2. {t[i] : i \in 1..(m + 1)} = {s[i] : i \in 1..m} \cup {x}
  <2>1. 1..(m + 1) = 1..m \cup {m + 1}
      BY <1>1 DEF m
  <2>2. (\A i \in 1..m : t[i] = s[i]) /\ t[m + 1] = x
      BY <1>1 DEF t, m
  <2>3. QED
      BY <2>1, <2>2
<1>3. QED
    BY <1>1, <1>2 DEF t, m, Range

LEMMA WithoutRange ==
    ASSUME NEW T, NEW S
    PROVE  \A s \in Seq(T) : Range(Without(s, S)) = Range(s) \ S
<1> DEFINE I == {s \in Seq(T) : Range(Without(s, S)) = Range(s) \ S}
<1>1. << >> \in I
  <2>1. Range(<< >>) = {}
      BY DEF Range
  <2>2. QED
      BY <2>1, WithoutEmpty, EmptySeq
<1>2. ASSUME NEW s \in Seq(T), NEW x \in T, s \in I
      PROVE  Append(s, x) \in I
  <2>1. Append(s, x) \in Seq(T) /\ Range(Append(s, x)) = Range(s) \cup {x}
      BY AppendProperties, RangeAppend
  <2>2. CASE x \in S
      BY <1>2, <2>1, <2>2, WithoutAppend
  <2>3. CASE x \notin S
    <3> DEFINE left == Without(s, S)
    <3>1. left \in Seq(T) /\ Range(left) = Range(s) \ S
      <4>1. left \in Seq(T \ S)
          BY WithoutRest
      <4> HIDE DEF left
      <4>2. left \in Seq(T)
          BY <4>1, SeqMonotonic
      <4>3. QED
          BY <1>2, <4>2 DEF left
    <3>2. Without(Append(s, x), S) = Append(left, x)
        BY <2>3, WithoutAppend
    <3> HIDE DEF left
    <3>3. Range(Append(left, x)) = Range(left) \cup {x}
        BY <3>1, RangeAppend
    <3>4. QED
        BY <2>1, <2>3, <3>1, <3>2, <3>3
  <2>4. QED
      BY <2>2, <2>3
<1> HIDE DEF I
<1>3. Seq(T) \subseteq I
    BY <1>1, <1>2, AllSequences
<1>4. QED
    BY <1>3 DEF I

-----------------------------------------------------------------------------
(* HookSettings. *)

(* A group is shim's or somebody else's. *)
LEMMA TwoKinds ==
    ASSUME NEW i
    PROVE  /\ HookGroups = ShimGroups(i) \cup Foreign /\ ShimGroups(i) \cap Foreign = {}
           /\ HookGroups \ ShimGroups(i) = Foreign /\ HookGroups \ Foreign = ShimGroups(i)
           /\ \A g \in HookGroups : IsShim(g, i) <=> g[1] \in {"shim", "legacy"}
           /\ \A j \in Installations : Shim(j) \in ShimGroups(i)
<1>1. ShimGroups(i) \cap Foreign = {}
    BY DEF ShimGroups, Foreign, Mixed
<1>2. HookGroups = ShimGroups(i) \cup Foreign
    BY DEF ShimGroups, HookGroups
<1>3. \A g \in HookGroups : IsShim(g, i) <=> g[1] \in {"shim", "legacy"}
  <2>1. \A g \in ShimGroups(i) : g[1] \in {"shim", "legacy"}
      BY DEF ShimGroups
  <2>2. \A g \in Foreign : g[1] \notin {"shim", "legacy"}
      BY DEF Foreign, Mixed
  <2>3. QED
      BY <1>2, <2>1, <2>2 DEF IsShim
<1>4. \A j \in Installations : Shim(j) \in ShimGroups(i)
    BY DEF Shim, ShimGroups
<1>5. QED
    BY <1>1, <1>2, <1>3, <1>4

(* What is left of both kinds, and what each filter leaves. *)
LEMMA Split ==
    ASSUME NEW s \in Seq(HookGroups), NEW i
    PROVE  /\ Without(s, ShimGroups(i)) \in Seq(Foreign) /\ Without(s, ShimGroups(i)) \in Seq(HookGroups)
           /\ Without(s, Foreign) \in Seq(ShimGroups(i)) /\ Ours(s, i) = Without(s, Foreign)
           /\ Range(Without(s, ShimGroups(i))) = Range(s) \ ShimGroups(i)
           /\ Range(Without(s, Foreign)) = Range(s) \ Foreign
           /\ Without(Without(s, ShimGroups(i)), Foreign) = << >>
           /\ Without(Without(s, ShimGroups(i)), ShimGroups(i)) = Without(s, ShimGroups(i))
<1>1. /\ Without(s, ShimGroups(i)) \in Seq(Foreign)
      /\ Without(s, Foreign) \in Seq(ShimGroups(i)) /\ Ours(s, i) = Without(s, Foreign)
    BY TwoKinds, WithoutRest DEF Ours
<1>2. Without(s, ShimGroups(i)) \in Seq(HookGroups)
    BY <1>1, TwoKinds, SeqMonotonic
<1>3. Without(Without(s, ShimGroups(i)), Foreign) = << >>
  <2> DEFINE all == ShimGroups(i) \cup Foreign
  <2>1. Without(Without(s, ShimGroups(i)), Foreign) \in Seq(HookGroups \ all)
    <3>1. Without(Without(s, ShimGroups(i)), Foreign) = Without(s, all)
        BY WithoutBoth
    <3>2. Without(s, all) \in Seq(HookGroups \ all)
        BY WithoutRest
    <3>3. QED
        BY <3>1, <3>2
  <2>2. HookGroups \ (ShimGroups(i) \cup Foreign) = {}
      BY TwoKinds
  <2>3. QED
      BY <2>1, <2>2, NoElements
<1>4. Without(Without(s, ShimGroups(i)), ShimGroups(i)) = Without(s, ShimGroups(i))
  <2>1. ShimGroups(i) \cup ShimGroups(i) = ShimGroups(i)
      OBVIOUS
  <2>2. QED
      BY <2>1, WithoutBoth
<1>5. QED
    BY <1>1, <1>2, <1>3, <1>4, WithoutRange

(* An event install registers: after it runs the hook once, and the others *)
(* stay.                                                                   *)
Adding(s, i) ==
    LET kept == Dropped(s, << Shim(i) >>, i) IN
    IF Shim(i) \notin Range(kept) THEN Append(kept, Shim(i)) ELSE kept

LEMMA AddedList ==
    ASSUME NEW s \in Seq(HookGroups), NEW i \in Installations
    PROVE  /\ Adding(s, i) \in Seq(HookGroups) /\ Others(Adding(s, i)) = Others(s)
           /\ Without(Adding(s, i), Foreign) = << Shim(i) >>
           /\ Adding(Adding(s, i), i) = Adding(s, i)
           /\ Shim(i) \in Range(Adding(s, i))
<1> DEFINE one == << Shim(i) >>
           t == Adding(s, i)
           left == Without(s, ShimGroups(i))
<1>1. Shim(i) \in HookGroups /\ Shim(i) \in ShimGroups(i) /\ Shim(i) \notin Foreign /\ one # << >>
    BY TwoKinds
<1>2. ShimGroups("any") = ShimGroups(i)
    BY DEF ShimGroups
<1>3. Dropped(s, one, i) = IF Without(s, Foreign) = one THEN s ELSE left
    BY <1>1, Split DEF Dropped
<1>4. Range(one) = {Shim(i)}
    BY DEF Range
<1>5. t \in Seq(HookGroups) /\ Others(t) = Others(s) /\ Without(t, Foreign) = one /\ Shim(i) \in Range(t)
  <2>1. CASE Without(s, Foreign) = one
    <3>1. Shim(i) \in Range(s)
        BY <1>1, <1>4, <2>1, Split
    <3>2. t = s
        BY <1>3, <2>1, <3>1 DEF Adding
    <3>3. QED
        BY <2>1, <3>1, <3>2
  <2>2. CASE Without(s, Foreign) # one
    <3>1. left \in Seq(HookGroups) /\ Shim(i) \notin Range(left)
        BY <1>1, Split
    <3>2. Dropped(s, one, i) = left
        BY <1>3, <2>2
    <3> HIDE DEF one, left
    <3>3. t = Append(left, Shim(i))
        BY <3>1, <3>2 DEF Adding, one
    <3>4. t \in Seq(HookGroups)
        BY <1>1, <3>1, <3>3, AppendProperties
    <3>5. Without(t, Foreign) = Append(Without(left, Foreign), Shim(i)) /\ Without(left, Foreign) = << >>
        BY <1>1, <3>1, <3>3, WithoutAppend, Split DEF left
    <3>6. Without(t, ShimGroups(i)) = Without(left, ShimGroups(i)) /\ Without(left, ShimGroups(i)) = left
        BY <1>1, <3>1, <3>3, WithoutAppend, Split DEF left
    <3>7. Others(t) = Others(s)
        BY <1>2, <3>6 DEF Others, left
    <3>8. Without(t, Foreign) = one
        BY <3>5 DEF one
    <3>9. Shim(i) \in Range(t)
        BY <1>1, <3>1, <3>3, RangeAppend
    <3>10. QED
        BY <3>4, <3>7, <3>8, <3>9
  <2>3. QED
      BY <2>1, <2>2
<1> HIDE DEF t, one
<1>6. Dropped(t, one, i) = t
    BY <1>1, <1>5, Split DEF Dropped
<1>7. Adding(t, i) = t
    BY <1>5, <1>6 DEF Adding, one
<1>8. QED
    BY <1>5, <1>7 DEF t, one

(* An event it does not register is left without shim's hooks.             *)
LEMMA DroppedList ==
    ASSUME NEW s \in Seq(HookGroups), NEW i
    PROVE  /\ Dropped(s, << >>, i) \in Seq(HookGroups)
           /\ Dropped(s, << >>, i) = Others(s) /\ Others(Others(s)) = Others(s)
           /\ Without(Others(s), Foreign) = << >>
           /\ Range(Others(s)) = {g \in Range(s) : ~IsShim(g, "any")}
<1>1. ShimGroups("any") = ShimGroups(i)
    BY DEF ShimGroups
<1>2. Dropped(s, << >>, i) = Others(s)
    BY <1>1 DEF Dropped, Others
<1>3. Range(Others(s)) = {g \in Range(s) : ~IsShim(g, "any")}
    BY Split DEF Others, IsShim
<1>4. QED
    BY <1>2, <1>3, Split DEF Others

-----------------------------------------------------------------------------
(* What an install and a revert make of a file. *)

LEMMA FileIsDoc ==
    ASSUME NEW groups \in [Events -> Seq(HookGroups)]
    PROVE  /\ File(groups) \in Docs /\ File(groups).kind = "file" /\ File(groups).of = groups
           /\ File(groups) # Absent /\ File(groups) # Broken
    BY DEF File, Docs, Absent, Broken

LEMMA NoGroupsIsDoc ==
    /\ NoGroups \in [Events -> Seq(HookGroups)] /\ Absent \in Docs /\ Broken \in Docs
    /\ \A e \in Events : NoGroups[e] = << >>
    BY EmptySeq DEF NoGroups, Docs, Absent, Broken

IsDoc(d) == d \in Docs /\ (d.kind = "file" \/ d.of = NoGroups)

LEMMA NotUsed ==
    ASSUME NEW d, IsDoc(d), d.kind # "file"
    PROVE  d = Absent \/ d = Broken
<1>1. d = [kind |-> d.kind, of |-> d.of] /\ d.kind \in {"file", "absent", "broken"} /\ d.of = NoGroups
    BY DEF IsDoc, Docs
<1>2. QED
    BY <1>1 DEF Absent, Broken

LEMMA CopilotIsOurs ==
    ASSUME NEW d, IsDoc(d), ~Unusable(d), client = "copilot", NEW e \in Events
    PROVE  Others(d.of[e]) = << >>
<1>1. d.of[e] \in Seq(HookGroups) /\ \A g \in Range(d.of[e]) : IsShim(g, "any")
    BY DEF IsDoc, Docs, Unusable, Groups
<1>2. Range(Others(d.of[e])) = {} /\ Others(d.of[e]) \in Seq(HookGroups)
    BY <1>1, DroppedList
<1>3. QED
  <2> DEFINE s == Others(d.of[e])
  <2>1. CASE s = << >>
      BY <2>1
  <2>2. CASE s # << >>
    <3>1. Len(s) \in Nat \ {0} /\ DOMAIN s = 1..Len(s)
        BY <1>2, <2>2, EmptySeq, LenProperties
    <3>2. s[1] \in Range(s)
        BY <3>1 DEF Range
    <3>3. QED
        BY <1>2, <3>2
  <2>3. QED
      BY <2>1, <2>2

(* An install leaves each registered event one hook of shim, its own, and  *)
(* what others have; once more changes nothing.                            *)
LEMMA AddedDoc ==
    ASSUME NEW d, IsDoc(d), ~Unusable(d), NEW i \in Installers
    PROVE  /\ Added(d, i) \in Docs /\ Added(d, i).kind = "file"
           /\ \A e \in Events :
                 /\ Without(Added(d, i).of[e], Foreign) = IF e \in Registered THEN << Shim(i) >> ELSE << >>
                 /\ Others(Added(d, i).of[e]) = Others(d.of[e])
           /\ Added(Added(d, i), i) = Added(d, i)
<1>1. /\ i \in Installations /\ d.of \in [Events -> Seq(HookGroups)]
      /\ \A e \in Events : d.of[e] \in Seq(HookGroups)
    BY DEF Installations, IsDoc, Docs
<1>2. CASE client = "copilot"
  <2> DEFINE one == << Shim(i) >>
             groups == [NoGroups EXCEPT !["UserPromptSubmit"] = one]
  <2>1. Shim(i) \in HookGroups /\ Shim(i) \in ShimGroups("any") /\ Shim(i) \notin Foreign
      BY <1>1, TwoKinds
  <2>2. << >> \in Seq(HookGroups) /\ Append(<< >>, Shim(i)) = one
      BY EmptySeq
  <2>3. one \in Seq(HookGroups) /\ Without(one, Foreign) = one /\ Others(one) = << >> /\ Others(<< >>) = << >>
        /\ Without(<< >>, Foreign) = << >>
    <3> HIDE DEF one
    <3>1. one \in Seq(HookGroups)
        BY <2>1, <2>2, AppendProperties
    <3>2. Without(one, Foreign) = one /\ Without(one, ShimGroups("any")) = << >>
        BY <2>1, WithoutOne DEF one
    <3>3. Without(<< >>, Foreign) = << >> /\ Without(<< >>, ShimGroups("any")) = << >>
        BY WithoutEmpty
    <3>4. QED
        BY <3>1, <3>2, <3>3 DEF Others
  <2>4. groups \in [Events -> Seq(HookGroups)] /\ groups["UserPromptSubmit"] = one
        /\ \A e \in Events : e # "UserPromptSubmit" => groups[e] = << >>
    <3> HIDE DEF one
    <3>1. "UserPromptSubmit" \in Events
        BY DEF Events
    <3>2. QED
        BY <2>3, <3>1, NoGroupsIsDoc
  <2>5. Registered = {"UserPromptSubmit"}
      BY <1>2 DEF Registered
  <2>6. Added(d, i) = File(groups) /\ Added(Added(d, i), i) = File(groups)
      BY <1>2 DEF Added
  <2> HIDE DEF groups, one
  <2>7. QED
      BY <1>2, <2>3, <2>4, <2>5, <2>6, FileIsDoc, CopilotIsOurs DEF one
<1>3. CASE client # "copilot"
  <2> DEFINE list(s, e) == IF e \in Registered THEN Adding(s, i) ELSE Others(s)
             groups == [e \in Events |-> list(d.of[e], e)]
  <2>1. ASSUME NEW s \in Seq(HookGroups), NEW e \in Events
        PROVE  LET kept == Dropped(s, IF e \in Registered THEN << Shim(i) >> ELSE << >>, i) IN
               (IF e \in Registered /\ Shim(i) \notin Range(kept) THEN Append(kept, Shim(i)) ELSE kept)
               = list(s, e)
      BY DroppedList DEF Adding
  <2>2. ASSUME NEW D, \A e \in Events : D.of[e] \in Seq(HookGroups)
        PROVE  Added(D, i) = File([e \in Events |-> list(D.of[e], e)])
    <3> HIDE DEF list
    <3> QED
        BY <1>3, <2>1, <2>2 DEF Added
  <2>3. ASSUME NEW s \in Seq(HookGroups), NEW e \in Events
        PROVE  /\ list(s, e) \in Seq(HookGroups) /\ Others(list(s, e)) = Others(s)
               /\ Without(list(s, e), Foreign) = IF e \in Registered THEN << Shim(i) >> ELSE << >>
               /\ list(list(s, e), e) = list(s, e)
      BY <1>1, AddedList, DroppedList
  <2> HIDE DEF list
  <2>4. groups \in [Events -> Seq(HookGroups)]
      BY <1>1, <2>3
  <2>5. Added(d, i) = File(groups)
      BY <1>1, <2>2
  <2>6. Added(d, i).of = groups
      BY <2>4, <2>5, FileIsDoc
  <2>7. Added(Added(d, i), i) = File([e \in Events |-> list(groups[e], e)])
      BY <2>2, <2>4, <2>6
  <2>8. [e \in Events |-> list(groups[e], e)] = groups
      BY <1>1, <2>3
  <2>9. \A e \in Events : groups[e] = list(d.of[e], e)
      OBVIOUS
  <2> HIDE DEF groups
  <2>10. QED
      BY <1>1, <2>3, <2>4, <2>5, <2>6, <2>7, <2>8, <2>9, FileIsDoc
<1>4. QED
    BY <1>2, <1>3

(* A revert leaves what others have. *)
LEMMA RemovedDoc ==
    ASSUME NEW d, IsDoc(d)
    PROVE  /\ Removed(d) \in Docs /\ (Removed(d).kind = "file" \/ Removed(d).of = NoGroups)
           /\ \A e \in Events : /\ Others(Removed(d).of[e]) = Others(d.of[e])
                                /\ Without(Removed(d).of[e], Foreign) = << >>
                                /\ Removed(d).of[e] = Others(d.of[e])
           /\ d # Absent => Removed(d) = File([e \in Events |-> Others(d.of[e])])
<1>1. d.of \in [Events -> Seq(HookGroups)] /\ \A e \in Events : d.of[e] \in Seq(HookGroups)
    BY DEF IsDoc, Docs
<1>2. CASE d = Absent
  <2>1. \A e \in Events : Absent.of[e] = << >>
      BY NoGroupsIsDoc DEF Absent
  <2>2. Others(<< >>) = << >>
      BY WithoutEmpty DEF Others
  <2>3. Removed(d) = d
      BY <1>2 DEF Removed
  <2>4. QED
      BY <1>2, <2>1, <2>2, <2>3, WithoutEmpty DEF IsDoc
<1>3. CASE d # Absent
  <2> DEFINE groups == [e \in Events |-> Others(d.of[e])]
  <2>1. \A e \in Events : Dropped(d.of[e], << >>, "any") = Others(d.of[e]) /\ Others(d.of[e]) \in Seq(HookGroups)
      BY <1>1, DroppedList
  <2>2. Removed(d) = File(groups) /\ groups \in [Events -> Seq(HookGroups)]
      BY <1>3, <2>1 DEF Removed
  <2>3. /\ Removed(d) \in Docs /\ Removed(d).kind = "file" /\ Removed(d).of = groups
    <3> HIDE DEF groups
    <3> QED
        BY <2>2, FileIsDoc
  <2>4. \A e \in Events : groups[e] = Others(d.of[e])
      OBVIOUS
  <2>5. \A e \in Events : Others(Others(d.of[e])) = Others(d.of[e]) /\ Without(Others(d.of[e]), Foreign) = << >>
      BY <1>1, DroppedList
  <2>6. \A e \in Events : /\ Others(Removed(d).of[e]) = Others(d.of[e])
                         /\ Without(Removed(d).of[e], Foreign) = << >>
                         /\ Removed(d).of[e] = Others(d.of[e])
    <3> HIDE DEF groups
    <3> QED
        BY <2>3, <2>4, <2>5
  <2>7. QED
      BY <2>2, <2>3, <2>6
<1>4. QED
    BY <1>2, <1>3

(* What a command writes stands as LatestStands has it, and what others    *)
(* have stays.                                                             *)
LEMMA WantedStands ==
    ASSUME HooksTypeOK, NEW c \in Runs, ~Unusable(doc)
    PROVE  /\ Wanted(c) \in Docs /\ (Wanted(c).kind = "file" \/ Wanted(c).of = NoGroups)
           /\ \A e \in Events : Others(Wanted(c).of[e]) = Others(doc.of[e])
           /\ c \in Installers =>
                 /\ Wanted(c).kind = "file"
                 /\ \A e \in Events :
                       Without(Wanted(c).of[e], Foreign) = IF e \in Registered THEN << Shim(c) >> ELSE << >>
           /\ c \in Reverters => \A g \in Groups(Wanted(c)) : g[1] \notin {"shim", "legacy"}
<1>1. IsDoc(doc)
    BY DEF HooksTypeOK, IsDoc
<1>2. CASE c \in Installers
  <2>1. c \notin Reverters /\ Wanted(c) = Added(doc, c)
      BY <1>2, InstallAssumption DEF Wanted
  <2>2. QED
      BY <1>1, <1>2, <2>1, AddedDoc
<1>3. CASE c \notin Installers
  <2>1. Wanted(c) = Removed(doc)
      BY <1>3 DEF Wanted
  <2>2. ASSUME NEW e \in Events, NEW g \in Range(Removed(doc).of[e])
        PROVE  g[1] \notin {"shim", "legacy"}
    <3>1. doc.of[e] \in Seq(HookGroups) /\ Removed(doc).of[e] = Others(doc.of[e])
        BY <1>1, RemovedDoc DEF IsDoc, Docs
    <3>2. g \in Range(doc.of[e]) /\ ~IsShim(g, "any")
        BY <2>2, <3>1, DroppedList
    <3>3. g \in HookGroups
        BY <3>1, <3>2, RangeOfSeq
    <3>4. QED
        BY <3>2, <3>3, TwoKinds
  <2>3. \A g \in Groups(Removed(doc)) : g[1] \notin {"shim", "legacy"}
      BY <2>2 DEF Groups
  <2>4. QED
      BY <1>1, <1>3, <2>1, <2>3, RemovedDoc
<1>4. QED
    BY <1>2, <1>3

(* A write ends what others planned. *)
LEMMA WriteEndsPlans ==
    ASSUME HooksTypeOK, PlansInv, version' = version + 1, NEW c \in Runs,
           plans' = plans, \A b \in Runs : b # c => step'[b] = step[b], step'[c] # "apply"
    PROVE  PlansInv'
<1>1. \A b \in Runs : plans[b].version \in Nat /\ plans[b].version <= version /\ version \in Nat
    BY DEF HooksTypeOK, PlansInv
<1>2. \A b \in Runs : plans'[b].version <= version' /\ plans'[b].version # version'
    BY <1>1
<1>3. QED
    BY <1>2 DEF PlansInv

LEMMA HooksInitially == HooksInit => HooksInv
<1> SUFFICES ASSUME HooksInit
             PROVE  HooksInv
    OBVIOUS
<1>1. Lists \subseteq Seq(HookGroups)
  <2>1. Theirs(0) \in HookGroups /\ Shim("other") \in HookGroups /\ Legacy020("other") \in HookGroups /\ Mixed \in HookGroups
      BY DEF Theirs, Shim, Legacy020, HookGroups, Foreign, Installations
  <2>2. QED
      BY <2>1 DEF Lists
<1>2. << Legacy020("other") >> \in Seq(HookGroups) /\ << >> \in Seq(HookGroups)
  <2>1. Legacy020("other") \in HookGroups
      BY DEF Legacy020, HookGroups, Foreign, Installations
  <2>2. QED
      BY <2>1
<1>3. doc \in Docs /\ (doc.kind = "file" \/ doc.of = NoGroups)
  <2>1. CASE doc \in {Absent, Broken}
      BY <2>1, NoGroupsIsDoc DEF Absent, Broken
  <2>2. CASE doc \notin {Absent, Broken}
    <3>1. PICK l \in Lists, m \in { << >>, << Legacy020("other") >> } : doc = Holding(l, m)
        BY <2>2 DEF HooksInit
    <3>2. l \in Seq(HookGroups) /\ m \in Seq(HookGroups)
        BY <1>1, <1>2, <3>1
    <3>3. [NoGroups EXCEPT !["UserPromptSubmit"] = l, !["Stopped"] = m] \in [Events -> Seq(HookGroups)]
        BY <3>2, NoGroupsIsDoc
    <3>4. QED
        BY <3>1, <3>3, FileIsDoc DEF Holding
  <2>3. QED
      BY <2>1, <2>2
<1>4. HooksTypeOK
  <2>1. step \in [Runs -> Steps]
      BY DEF HooksInit, Steps
  <2>2. plans \in [Runs -> [version : Nat, expected : Docs]]
      BY NoGroupsIsDoc DEF HooksInit
  <2>3. client \in {"claude", "codex", "copilot"} /\ oldFile \in {"none", "ours", "theirs"}
        /\ version \in Nat /\ edits \in Nat /\ latest \in Runs \cup {"none"} /\ wiped \in BOOLEAN
    <3>1. /\ client \in {"claude", "codex", "copilot"}
          /\ version = 0 /\ edits = 0 /\ latest = "none" /\ wiped = FALSE
          /\ oldFile \in IF client = "copilot" THEN {"none", "ours", "theirs"} ELSE {"none"}
        BY DEF HooksInit
    <3>2. QED
        BY <3>1
  <2>4. QED
      BY <1>3, <2>1, <2>2, <2>3 DEF HooksTypeOK
<1>5. PlansInv
    BY DEF HooksInit, PlansInv
<1>6. LatestStands
    BY InstallAssumption DEF HooksInit, LatestStands, Runs
<1>7. QED
    BY <1>4, <1>5, <1>6 DEF HooksInv

(* A step that leaves the file, the plans and who was last.                *)
LEMMA StepKeeps ==
    ASSUME HooksInv, NEW c \in Runs, NEW next \in Steps, next # "apply", GoOn(c, next),
           UNCHANGED << client, doc, version, plans, latest, wiped, edits >>,
           oldFile' \in {"none", "ours", "theirs"}
    PROVE  HooksInv'
<1>1. HooksTypeOK'
    BY DEF HooksInv, HooksTypeOK, GoOn
<1>2. \A b \in Runs : step'[b] = "apply" => step[b] = "apply"
    BY DEF HooksInv, HooksTypeOK, GoOn
<1>3. PlansInv'
  <2>1. \A b \in Runs : Wanted(b)' = Wanted(b) /\ Unusable(doc)' = Unusable(doc)
      BY DEF Wanted, Unusable, Added, Registered
  <2>2. QED
      BY <1>2, <2>1 DEF HooksInv, PlansInv
<1>4. LatestStands'
    BY DEF HooksInv, LatestStands, Registered
<1>5. QED
    BY <1>1, <1>3, <1>4 DEF HooksInv

LEMMA MakePlanKeeps ==
    ASSUME HooksInv, NEW c \in Runs, MakePlan(c)
    PROVE  HooksInv'
<1>1. HooksTypeOK /\ PlansInv /\ LatestStands
    BY DEF HooksInv
<1>2. UNCHANGED << client, doc, version, oldFile, wiped, edits >>
    BY DEF MakePlan
<1>3. \A b \in Runs : Wanted(b)' = Wanted(b) /\ Unusable(doc)' = Unusable(doc)
    BY <1>2 DEF Wanted, Unusable, Added, Registered
<1>4. CASE Unusable(doc) /\ GoOn(c, "refused") /\ UNCHANGED << plans, latest >>
    BY <1>2, <1>4, StepKeeps, <1>1 DEF Steps, HooksTypeOK
<1>5. CASE ~Unusable(doc) /\ Wanted(c) = doc /\ latest' = c /\ UNCHANGED plans
           /\ (GoOn(c, "look") \/ GoOn(c, "done"))
  <2>1. HooksTypeOK'
      BY <1>1, <1>2, <1>5 DEF HooksTypeOK, GoOn, Steps
  <2>2. \A b \in Runs : step'[b] = "apply" => step[b] = "apply"
      BY <1>1, <1>5 DEF HooksTypeOK, GoOn
  <2>3. PlansInv'
      BY <1>1, <1>2, <1>3, <1>5, <2>2 DEF PlansInv
  <2>4. LatestStands'
    <3>1. /\ c \in Installers =>
               /\ doc.kind = "file"
               /\ \A e \in Events : Without(doc.of[e], Foreign) = IF e \in Registered THEN << Shim(c) >> ELSE << >>
          /\ c \in Reverters => \A g \in Groups(doc) : g[1] \notin {"shim", "legacy"}
        BY <1>1, <1>5, WantedStands
    <3>2. QED
        BY <1>2, <1>5, <3>1 DEF LatestStands, Registered
  <2>5. QED
      BY <2>1, <2>3, <2>4 DEF HooksInv
<1>6. CASE ~Unusable(doc) /\ GoOn(c, "apply") /\ UNCHANGED latest
           /\ plans' = [plans EXCEPT ![c] = [version |-> version, expected |-> Wanted(c)]]
  <2>1. Wanted(c) \in Docs /\ version \in Nat
      BY <1>1, <1>6, WantedStands DEF HooksTypeOK
  <2>2. HooksTypeOK'
      BY <1>1, <1>2, <1>6, <2>1 DEF HooksTypeOK, GoOn, Steps
  <2>3. ASSUME NEW b \in Runs
        PROVE  /\ plans'[b].version <= version'
               /\ step'[b] = "apply" /\ plans'[b].version = version' =>
                     ~Unusable(doc)' /\ plans'[b].expected = Wanted(b)'
    <3>1. CASE b = c
      <4>1. plans'[b] = [version |-> version, expected |-> Wanted(c)]
          BY <1>1, <1>6, <3>1 DEF HooksTypeOK
      <4>2. QED
          BY <1>2, <1>3, <1>6, <2>1, <3>1, <4>1
    <3>2. CASE b # c
      <4>1. plans'[b] = plans[b] /\ step'[b] = step[b]
          BY <1>1, <1>6, <3>2 DEF HooksTypeOK, GoOn
      <4>2. QED
          BY <1>1, <1>2, <1>3, <4>1 DEF PlansInv
    <3>3. QED
        BY <3>1, <3>2
  <2>4. LatestStands'
      BY <1>1, <1>2, <1>6 DEF LatestStands, Registered
  <2>5. QED
      BY <2>2, <2>3, <2>4 DEF HooksInv, PlansInv
<1>7. QED
    BY <1>4, <1>5, <1>6 DEF MakePlan

(* The write is of what is wanted of the file that is there.               *)
LEMMA Applied ==
    ASSUME HooksInv, NEW c \in Runs, step[c] = "apply", AsPlanned(c)
    PROVE  ~Unusable(doc) /\ plans[c].expected = Wanted(c)
    BY DEF HooksInv, PlansInv, AsPlanned

LEMMA ApplyKeeps ==
    ASSUME HooksInv, NEW c \in Runs, ApplyPlan(c)
    PROVE  HooksInv'
<1>1. HooksTypeOK /\ PlansInv /\ LatestStands
    BY DEF HooksInv
<1>2. step[c] = "apply" /\ UNCHANGED << client, oldFile, plans, wiped, edits >>
    BY DEF ApplyPlan
<1>3. CASE GoOn(c, "failed") /\ UNCHANGED << doc, version, latest >>
    BY <1>1, <1>2, <1>3, StepKeeps DEF Steps, HooksTypeOK
<1>4. CASE AsPlanned(c) /\ Write(plans[c].expected) /\ latest' = c /\ (GoOn(c, "look") \/ GoOn(c, "done"))
  <2>1. ~Unusable(doc) /\ doc' = Wanted(c) /\ version' = version + 1
      BY <1>2, <1>4, Applied DEF Write
  <2>2. doc' \in Docs /\ (doc'.kind = "file" \/ doc'.of = NoGroups)
      BY <1>1, <2>1, WantedStands
  <2>3. HooksTypeOK'
      BY <1>1, <1>2, <1>4, <2>1, <2>2 DEF HooksTypeOK, GoOn, Steps
  <2>4. PlansInv'
    <3>1. step'[c] # "apply" /\ \A b \in Runs : b # c => step'[b] = step[b]
        BY <1>1, <1>4 DEF HooksTypeOK, GoOn
    <3>2. QED
        BY <1>1, <1>2, <2>1, <3>1, WriteEndsPlans
  <2>5. LatestStands'
    <3>1. /\ c \in Installers =>
               /\ doc'.kind = "file"
               /\ \A e \in Events : Without(doc'.of[e], Foreign) = IF e \in Registered THEN << Shim(c) >> ELSE << >>
          /\ c \in Reverters => \A g \in Groups(doc') : g[1] \notin {"shim", "legacy"}
        BY <1>1, <2>1, WantedStands
    <3>2. QED
        BY <1>2, <1>4, <3>1 DEF LatestStands, Registered
  <2>6. QED
      BY <2>3, <2>4, <2>5 DEF HooksInv
<1>5. QED
    BY <1>3, <1>4 DEF ApplyPlan

(* Removing Copilot's hook file. *)
LEMMA UnlinkKeeps ==
    ASSUME HooksInv, NEW c \in Runs, UnlinkEmpty(c)
    PROVE  HooksInv'
<1>1. HooksTypeOK /\ PlansInv /\ LatestStands
    BY DEF HooksInv
<1>2. step[c] = "wipe" /\ GoOn(c, "done") /\ UNCHANGED << client, oldFile, plans, latest, edits >>
    BY DEF UnlinkEmpty
<1>3. CASE UNCHANGED << doc, version, wiped >>
    BY <1>1, <1>2, <1>3, StepKeeps DEF Steps, HooksTypeOK
<1>4. CASE Write(Absent) /\ wiped' = (wiped \/ doc # Empty)
  <2>1. doc' = Absent /\ version' = version + 1
      BY <1>4 DEF Write
  <2>2. PICK w \in BOOLEAN : wiped' = w
    <3>1. (wiped \/ doc # Empty) \in BOOLEAN
        OBVIOUS
    <3>2. QED
        BY <1>4, <3>1, Zenon
  <2>3. HooksTypeOK'
    <3>1. Absent \in Docs /\ Absent.of = NoGroups
        BY NoGroupsIsDoc DEF Absent
    <3>2. QED
        BY <1>1, <1>2, <2>1, <2>2, <3>1 DEF HooksTypeOK, GoOn, Steps
  <2>4. PlansInv'
    <3>1. step'[c] # "apply" /\ \A b \in Runs : b # c => step'[b] = step[b]
        BY <1>1, <1>2 DEF HooksTypeOK, GoOn
    <3>2. QED
        BY <1>1, <1>2, <2>1, <3>1, WriteEndsPlans
  <2>5. ASSUME latest \in Installers, ~wiped'
        PROVE  FALSE
    <3>1. ~wiped /\ doc = Empty
        BY <1>4, <2>5, Zenon
    <3>2. Without(Empty.of["UserPromptSubmit"], Foreign) = << Shim(latest) >>
        BY <1>1, <2>5, <3>1 DEF LatestStands, Events, Registered
    <3>3. Empty.of["UserPromptSubmit"] = << >>
        BY NoGroupsIsDoc, FileIsDoc DEF Empty, Events
    <3>4. QED
        BY <3>2, <3>3, WithoutEmpty
  <2>6. Groups(doc') = {}
    <3>1. Range(<< >>) = {}
        BY DEF Range
    <3>2. QED
        BY <2>1, <3>1, NoGroupsIsDoc DEF Groups, Absent
  <2>7. LatestStands'
      BY <1>2, <2>5, <2>6 DEF LatestStands
  <2>8. QED
      BY <2>3, <2>4, <2>7 DEF HooksInv
<1>5. QED
    BY <1>3, <1>4 DEF UnlinkEmpty

(* What the editor does leaves shim's hooks where they are.                *)
LEMMA EditKeeps ==
    ASSUME HooksInv, Edit
    PROVE  HooksInv'
<1>1. HooksTypeOK /\ PlansInv /\ LatestStands
    BY DEF HooksInv
<1>2. /\ doc.kind = "file" /\ edits' = edits + 1 /\ edits \in Nat
      /\ UNCHANGED << client, oldFile, step, plans, latest, wiped >>
    BY <1>1 DEF Edit, HooksTypeOK
<1>3. /\ doc = [kind |-> doc.kind, of |-> doc.of] /\ doc.of \in [Events -> Seq(HookGroups)]
      /\ \A e \in Events : doc.of[e] \in Seq(HookGroups)
    BY <1>1 DEF HooksTypeOK, Docs
<1>4. \E e \in Events, s \in Seq(HookGroups) :
         /\ Write([doc EXCEPT !.of[e] = s]) /\ Without(s, Foreign) = Without(doc.of[e], Foreign)
         /\ \A g \in Range(s) : g \in Range(doc.of[e]) \/ g[1] = "theirs"
  <2>1. CASE \E e \in Registered : Write([doc EXCEPT !.of[e] = Append(@, Theirs(edits + 1))])
    <3>1. PICK e \in Registered : Write([doc EXCEPT !.of[e] = Append(doc.of[e], Theirs(edits + 1))])
        BY <2>1
    <3>2. e \in Events
        BY DEF Registered, Events
    <3>3. Theirs(edits + 1) \in HookGroups /\ Theirs(edits + 1) \in Foreign /\ Theirs(edits + 1)[1] = "theirs"
        BY <1>2 DEF Theirs, HookGroups, Foreign
    <3> DEFINE s == Append(doc.of[e], Theirs(edits + 1))
    <3>4. /\ s \in Seq(HookGroups) /\ Without(s, Foreign) = Without(doc.of[e], Foreign)
          /\ Range(s) = Range(doc.of[e]) \cup {Theirs(edits + 1)}
        BY <1>3, <3>2, <3>3, AppendProperties, WithoutAppend, RangeAppend
    <3> HIDE DEF s
    <3>5. QED
        BY <3>1, <3>2, <3>3, <3>4 DEF s
  <2>2. CASE \E e \in Events, g \in Groups(doc) :
                /\ g[1] = "theirs" /\ g \in Range(doc.of[e])
                /\ Write([doc EXCEPT !.of[e] = Without(@, {g})])
    <3>1. PICK e \in Events, g \in Groups(doc) :
             /\ g[1] = "theirs" /\ g \in Range(doc.of[e])
             /\ Write([doc EXCEPT !.of[e] = Without(doc.of[e], {g})])
        BY <2>2
    <3>2. g \in Foreign
      <4>1. g \in HookGroups
          BY <1>3, <3>1, RangeOfSeq
      <4>2. ~IsShim(g, "any")
          BY <3>1, <4>1, TwoKinds
      <4>3. QED
          BY <4>1, <4>2, TwoKinds DEF IsShim
    <3> DEFINE s == Without(doc.of[e], {g})
    <3>3. s \in Seq(HookGroups)
      <4>1. s \in Seq(HookGroups \ {g})
          BY <1>3, WithoutRest
      <4> HIDE DEF s
      <4>2. QED
          BY <4>1, SeqMonotonic
    <3>4. Without(s, Foreign) = Without(doc.of[e], Foreign)
      <4>1. Without(s, Foreign) = Without(doc.of[e], {g} \cup Foreign)
          BY <1>3, WithoutBoth
      <4>2. {g} \cup Foreign = Foreign
          BY <3>2
      <4>3. QED
          BY <4>1, <4>2
    <3>5. Range(s) = Range(doc.of[e]) \ {g}
        BY <1>3, WithoutRange
    <3> HIDE DEF s
    <3>6. QED
        BY <3>1, <3>3, <3>4, <3>5 DEF s
  <2>3. QED
      BY <2>1, <2>2 DEF Edit
<1>5. PICK e \in Events, s \in Seq(HookGroups) :
         /\ Write([doc EXCEPT !.of[e] = s]) /\ Without(s, Foreign) = Without(doc.of[e], Foreign)
         /\ \A g \in Range(s) : g \in Range(doc.of[e]) \/ g[1] = "theirs"
    BY <1>4
<1>6. /\ doc' = [doc EXCEPT !.of[e] = s] /\ version' = version + 1
      /\ doc' \in Docs /\ doc'.kind = "file" /\ doc'.of[e] = s
      /\ \A o \in Events : o # e => doc'.of[o] = doc.of[o]
    BY <1>2, <1>3, <1>5 DEF Write, Docs
<1>7. HooksTypeOK'
    BY <1>1, <1>2, <1>6 DEF HooksTypeOK
<1>8. PlansInv'
  <2>1. \A b \in Runs : plans[b].version \in Nat /\ plans[b].version <= version /\ version \in Nat
      BY <1>1 DEF HooksTypeOK, PlansInv
  <2>2. \A b \in Runs : plans'[b].version <= version' /\ plans'[b].version # version'
      BY <1>2, <1>6, <2>1
  <2>3. QED
      BY <2>2 DEF PlansInv
<1>9. LatestStands'
  <2>1. \A o \in Events : Without(doc'.of[o], Foreign) = Without(doc.of[o], Foreign)
      BY <1>5, <1>6
  <2>2. \A g \in Groups(doc') : g \in Groups(doc) \/ g[1] = "theirs"
      BY <1>5, <1>6 DEF Groups
  <2>3. QED
      BY <1>1, <1>2, <1>6, <2>1, <2>2 DEF LatestStands, Registered
<1>10. QED
    BY <1>7, <1>8, <1>9 DEF HooksInv

LEMMA HooksStep ==
    ASSUME HooksInv, [HooksNext]_hookvars
    PROVE  HooksInv'
<1>1. ASSUME NEW c \in Runs, CommandNext(c)
      PROVE  HooksInv'
  <2>1. CASE LookAtOld(c)
    <3>1. GoOn(c, "unlink") \/ GoOn(c, "empty") \/ GoOn(c, "done")
        BY <2>1 DEF LookAtOld
    <3>2. UNCHANGED << client, doc, version, oldFile, plans, latest, wiped, edits >>
        BY <2>1 DEF LookAtOld
    <3>3. QED
        BY <3>1, <3>2, StepKeeps DEF Steps, HooksInv, HooksTypeOK
  <2>2. CASE UnlinkOldFile(c)
    <3>1. GoOn(c, "empty") \/ GoOn(c, "done")
        BY <2>2 DEF UnlinkOldFile
    <3>2. UNCHANGED << client, doc, version, plans, latest, wiped, edits >> /\ oldFile' \in {"none", oldFile}
        BY <2>2 DEF UnlinkOldFile
    <3>3. QED
        BY <3>1, <3>2, StepKeeps DEF Steps, HooksInv, HooksTypeOK
  <2>3. CASE LookForEmpty(c)
    <3>1. GoOn(c, "wipe") \/ GoOn(c, "done")
        BY <2>3 DEF LookForEmpty
    <3>2. UNCHANGED << client, doc, version, oldFile, plans, latest, wiped, edits >>
        BY <2>3 DEF LookForEmpty
    <3>3. QED
        BY <3>1, <3>2, StepKeeps DEF Steps, HooksInv, HooksTypeOK
  <2>4. QED
      BY <1>1, <2>1, <2>2, <2>3, MakePlanKeeps, ApplyKeeps, UnlinkKeeps DEF CommandNext
<1>2. CASE UNCHANGED hookvars
  <2>1. UNCHANGED << client, doc, version, oldFile, step, plans, latest, wiped, edits >>
      BY <1>2 DEF hookvars
  <2>2. \A b \in Runs : Wanted(b)' = Wanted(b) /\ Unusable(doc)' = Unusable(doc)
      BY <2>1 DEF Wanted, Unusable, Added, Registered
  <2>3. QED
      BY <2>1, <2>2 DEF HooksInv, HooksTypeOK, PlansInv, LatestStands, Registered
<1>3. QED
    BY <1>1, <1>2, EditKeeps DEF HooksNext, HooksOver

(* Whatever installs, reverts and edits there are: a plan is for the file  *)
(* that was read, and the last command that reported success is in force   *)
(* (install, revert, apply).                                               *)
THEOREM HooksInvariant == HooksSpec => []HooksInv
<1>1. QED
    BY HooksInitially, HooksStep, PTL DEF HooksSpec

(* Between the plan and the write, whatever the editor and the commands of *)
(* other installations did: what is written keeps every hook that is not   *)
(* shim's, in its order (apply, _require_planned_state).                   *)
LEMMA ApplyKeepsTheirs ==
    ASSUME HooksInv, NEW c \in Runs, ApplyPlan(c), doc' # doc
    PROVE  /\ ~Unusable(doc)
           /\ \A e \in Events : Others(doc'.of[e]) = Others(doc.of[e])
<1>1. step[c] = "apply" /\ AsPlanned(c) /\ doc' = plans[c].expected
    BY DEF ApplyPlan, Write
<1>2. ~Unusable(doc) /\ doc' = Wanted(c)
    BY <1>1, Applied
<1>3. \A e \in Events : Others(Wanted(c).of[e]) = Others(doc.of[e])
    BY <1>2, WantedStands DEF HooksInv
<1>4. QED
    BY <1>2, <1>3

THEOREM TheirsKept == HooksSpec => TheirsStay
<1>1. HooksInv => (\A c \in Runs : ApplyPlan(c) /\ doc' # doc =>
                      /\ ~Unusable(doc)
                      /\ \A e \in Events : Others(doc'.of[e]) = Others(doc.of[e]))
    BY ApplyKeepsTheirs
<1>2. QED
    BY <1>1, HooksInvariant, PTL DEF HooksSpec, TheirsStay

-----------------------------------------------------------------------------
(* What install announces, and what a revert makes of an install.          *)

LEMMA InstallsAreUndone ==
    ASSUME NEW d, IsDoc(d), ~Unusable(d), d # Absent, NEW i \in Installers
    PROVE  Removed(Added(d, i)) = Removed(d)
<1> DEFINE after == Added(d, i)
<1>1. /\ after \in Docs /\ after.kind = "file"
      /\ \A e \in Events : Others(after.of[e]) = Others(d.of[e])
    BY AddedDoc
<1> HIDE DEF after
<1>2. IsDoc(after) /\ after # Absent
    BY <1>1 DEF IsDoc, Absent
<1>3. Removed(after) = File([e \in Events |-> Others(after.of[e])])
    BY <1>2, RemovedDoc
<1>4. Removed(d) = File([e \in Events |-> Others(d.of[e])])
    BY RemovedDoc
<1>5. [e \in Events |-> Others(after.of[e])] = [e \in Events |-> Others(d.of[e])]
    BY <1>1
<1>6. QED
    BY <1>3, <1>4, <1>5 DEF after

LEMMA InstallsAreAnnounced ==
    ASSUME NEW d, IsDoc(d), ~Unusable(d), NEW i \in Installers
    PROVE  /\ Announced(d).kept = (\E g \in Groups(Added(d, i)) : ~IsShim(g, "any"))
           /\ ~Announced(Added(d, i)).replaced
<1> DEFINE after == Added(d, i)
           left(e) == Range(Others(d.of[e]))
<1>1. /\ after \in Docs
      /\ \A e \in Events :
            /\ Without(after.of[e], Foreign) = IF e \in Registered THEN << Shim(i) >> ELSE << >>
            /\ Others(after.of[e]) = Others(d.of[e])
    BY AddedDoc
<1> HIDE DEF after
<1>2. \A e \in Events : after.of[e] \in Seq(HookGroups)
    BY <1>1 DEF Docs
<1>3. \A e \in Events : left(e) = {g \in Range(after.of[e]) : ~IsShim(g, "any")}
    BY <1>1, <1>2, DroppedList
<1>4. (\E g \in Groups(after) : ~IsShim(g, "any")) <=> \E e \in Events : left(e) # {}
    BY <1>3 DEF Groups
<1>5. \A e \in Events : Removed(d).of[e] = Others(d.of[e])
    BY RemovedDoc
<1>6. Groups(Removed(d)) # {} <=> \E e \in Events : left(e) # {}
    BY <1>5 DEF Groups
<1>7. client = "copilot" => \A e \in Events : left(e) = {}
  <2>1. Range(<< >>) = {}
      BY DEF Range
  <2>2. QED
      BY <2>1, CopilotIsOurs
<1>8. (client # "copilot" /\ ~Unusable(d) /\ Groups(Removed(d)) # {})
         <=> (\E g \in Groups(after) : ~IsShim(g, "any"))
    BY <1>4, <1>6, <1>7
<1>9. ASSUME NEW g \in Groups(after), g[1] = "legacy"
      PROVE  FALSE
  <2>1. PICK e \in Events : g \in Range(after.of[e])
      BY DEF Groups
  <2>2. g \in HookGroups
      BY <1>2, <2>1, RangeOfSeq
  <2>3. g \notin Foreign
      BY <1>9, <2>2, TwoKinds DEF IsShim
  <2>4. g \in Range(Without(after.of[e], Foreign))
      BY <1>2, <2>1, <2>3, Split
  <2>5. Range(<< >>) = {} /\ Range(<< Shim(i) >>) = {Shim(i)}
      BY DEF Range
  <2>6. g = Shim(i)
      BY <1>1, <2>4, <2>5
  <2>7. QED
      BY <1>9, <2>6 DEF Shim
<1>10. Announced(d).kept = (\E g \in Groups(after) : ~IsShim(g, "any"))
    BY <1>8 DEF Announced
<1>11. ~Announced(after).replaced
    BY <1>9 DEF Announced
<1>12. QED
    BY <1>10, <1>11 DEF after

(* In every state there can be: the command that last reported success is  *)
(* in force; a reinstall changes nothing and a revert undoes an install;   *)
(* and what install says it keeps or replaces is what it does              *)
(* (client_plan, existing_hooks, add_groups, remove_groups).               *)
THEOREM InstallsAreRight == HooksSpec => []InstallsStand
<1>1. HooksInv => InstallsStand
  <2> SUFFICES ASSUME HooksInv
               PROVE  InstallsStand
      OBVIOUS
  <2>1. IsDoc(doc)
      BY DEF HooksInv, HooksTypeOK, IsDoc
  <2>2. InstallIsUndone
      BY <2>1, AddedDoc, InstallsAreUndone DEF InstallIsUndone
  <2>3. AnnouncedIsDone
      BY <2>1, InstallsAreAnnounced DEF AnnouncedIsDone
  <2>4. QED
      BY <2>2, <2>3 DEF HooksInv, InstallsStand
<1>2. QED
    BY <1>1, HooksInvariant, PTL
-----------------------------------------------------------------------------
(* Audit. *)

LEMMA FilesAre ==
    \A f \in Files : f = << f[1], f[2] >> /\ Of(f) \in Names /\ f[2] \in {"main", "agent"}
    BY DEF Files, Of

LEMMA ListedInOrder == InOrder \in Seq(Files) /\ Sessions \in Seq(Names)
<1> DEFINE n == Len(Sessions)
<1>1. Sessions \in Seq(Names) /\ n \in Nat /\ \A i \in 1..n : Sessions[i] \in Names
    BY AuditAssumption, LenProperties, ElementOfSeq
<1> HIDE DEF n
<1>2. \A k \in 1..(2 * n) : (k + 1) \div 2 \in 1..n
    BY <1>1
<1>3. InOrder = [k \in 1..(2 * n) |-> << Sessions[(k + 1) \div 2], IF k % 2 = 1 THEN "main" ELSE "agent" >>]
    BY DEF InOrder, n
<1>4. InOrder \in Seq(Files)
    BY <1>1, <1>2, <1>3 DEF Files
<1>5. QED
    BY <1>1, <1>4

LEMMA NothingThere == Range(<< >>) = {}
    BY DEF Range

LEMMA ForgottenIs ==
    ASSUME NEW line
    PROVE  Forgotten(line) <=> \E r \in Range(ready) : r.of = line.of
    BY DEF Forgotten, Range

LEMMA AuditInitially == AuditInit => AuditInv
<1> SUFFICES ASSUME AuditInit
             PROVE  AuditInv
    OBVIOUS
<1>1. PICK h \in Histories : disk = h.disk /\ folder = h.folder /\ past = h.past
    BY DEF AuditInit
<1>2. /\ point = "list" /\ todo = << >> /\ dated = {} /\ ready = << >> /\ copy = << >>
      /\ outcome = "" /\ taken = {}
    BY DEF AuditInit
<1>3. writes = 0 /\ status = 0
    BY DEF AuditInit
<1>4. seen = [f \in Files |-> Unseen] /\ reached = [s \in Names |-> {}]
    BY DEF AuditInit
<1>5. /\ DOMAIN disk = Files /\ DOMAIN folder = Names /\ \A f \in Files : disk[f].at \in {Gone, 0}
      /\ past \in Pasts /\ past.at = 0 /\ (past.kind # "file" => past.lines = << >>)
    BY <1>1, AuditAssumption
<1>6. ClockInv
  <2>1. writes \in Nat /\ status \in 0 .. writes /\ past.at <= writes
      BY <1>3, <1>5
  <2>2. \A f \in Files : disk[f].at \in -1 .. writes
      BY <1>3, <1>5 DEF Gone
  <2>3. copy \in Seq(HistoryLines) /\ ready \in Seq(Looks)
      BY <1>2, EmptySeq
  <2>4. \A r \in Range(ready) : r.at <= writes
      BY <1>2, NothingThere
  <2>5. QED
      BY <1>5, <2>1, <2>2, <2>3, <2>4 DEF ClockInv
<1>7. PointInv
    BY <1>2 DEF PointInv, Scanning, Removing
<1>8. ScanInv
  <2>1. seen \in [Files -> Int] /\ \A f \in Files : seen[f] = Unseen /\ seen[f] # disk[f].at
      BY <1>4, <1>5 DEF Unseen, Gone
  <2>2. Looked = {}
      BY <2>1 DEF Looked
  <2>3. DOMAIN reached = Names /\ \A s \in Names : reached[s] = {}
      BY <1>4
  <2>4. QED
      BY <1>2, <2>1, <2>2, <2>3 DEF ScanInv
<1>9. ReadyInv /\ ForgetInv /\ TakenInv
    BY <1>2, NothingThere DEF ReadyInv, ForgetInv, TakenInv, Removing
<1>10. QED
    BY <1>6, <1>7, <1>8, <1>9 DEF AuditInv

-----------------------------------------------------------------------------
(* What is done to files later: they go, or are written after any look.    *)
DiskLater == \A f \in Files : disk'[f] = disk[f] \/ disk'[f].at = Gone \/ disk'[f].at > writes

LEMMA FoundStay ==
    ASSUME ClockInv, NEW r \in Range(ready), WasFound(r), DiskLater, UNCHANGED << seen, reached >>
    PROVE  WasFound(r)'
<1>1. r \in Looks /\ r.at <= writes /\ writes \in Nat
    BY RangeOfSeq DEF ClockInv
<1>2. ASSUME NEW f \in Files, disk'[f].at \in 0 .. r.at
      PROVE  disk'[f] = disk[f]
    BY <1>1, <1>2 DEF DiskLater, Gone, Looks
<1>3. Looked' = Looked /\ Looked \subseteq Files
    BY DEF Looked
<1>4. QED
    BY <1>2, <1>3 DEF WasFound

LEMMA WentStay ==
    ASSUME ClockInv, NEW t, LineWent(t) \/ FileWent(t), DiskLater, UNCHANGED << seen, ready >>
    PROVE  (LineWent(t) \/ FileWent(t))'
<1>1. CASE LineWent(t)
    BY <1>1 DEF LineWent, Forgotten
<1>2. CASE FileWent(t)
  <2>1. PICK r \in Range(ready) : r.of = Of(t.file) /\ r.at = t.at
      BY <1>2 DEF FileWent
  <2>2. t.at \in Nat /\ t.at <= writes /\ writes \in Nat
      BY <1>2, <2>1 DEF FileWent, ClockInv
  <2>3. ASSUME NEW f \in Files, disk'[f].at \in 0 .. t.at
        PROVE  disk'[f] = disk[f]
      BY <2>2, <2>3 DEF DiskLater, Gone
  <2>4. Looked' = Looked
      BY DEF Looked
  <2>5. FileWent(t)'
      BY <1>2, <2>3, <2>4 DEF FileWent
  <2>6. QED
      BY <2>5
<1>3. QED
    BY <1>1, <1>2

LEMMA StaysFound ==
    ASSUME ClockInv, ReadyInv, TakenInv, DiskLater, UNCHANGED << seen, reached, ready, taken >>
    PROVE  /\ \A r \in Range(ready') : WasFound(r)'
           /\ \A t \in taken' : LineWent(t)' \/ FileWent(t)'
<1>1. \A r \in Range(ready) : WasFound(r)'
    BY FoundStay DEF ReadyInv
<1>2. \A t \in taken : LineWent(t)' \/ FileWent(t)'
    BY WentStay DEF TakenInv
<1>3. QED
    BY <1>1, <1>2

(* A step that touches no file and leaves the scan behind, or at its end.  *)
LEMMA Aside ==
    ASSUME AuditInv, UNCHANGED << disk, folder, past, seen, reached, dated, ready, taken, writes >>,
           point' \notin {"list", "look", "read"}
    PROVE  /\ ScanInv'
           /\ status' \in 0 .. writes /\ copy' \in Seq(HistoryLines) => ClockInv'
           /\ (point' = "check" => todo' \in Seq(Found)) => ReadyInv'
           /\ point' # "main" => TakenInv'
<1>1. ClockInv /\ ScanInv /\ ReadyInv /\ TakenInv
    BY DEF AuditInv
<1>2. ScanInv'
    BY <1>1 DEF ScanInv, Looked
<1>3. status' \in 0 .. writes /\ copy' \in Seq(HistoryLines) => ClockInv'
    BY <1>1 DEF ClockInv
<1>4. DiskLater
    BY DEF DiskLater
<1>5. /\ \A r \in Range(ready') : WasFound(r)'
      /\ \A t \in taken' : LineWent(t)' \/ FileWent(t)'
    BY <1>1, <1>4, StaysFound
<1>6. Found' = Found
    BY DEF Found
<1>7. QED
    BY <1>2, <1>3, <1>5, <1>6 DEF ReadyInv, TakenInv

(* Claude Code writes. *)
LEMMA WriteKeepsAudit ==
    ASSUME AuditInv, NEW f \in Files, ClaudeWrites(f)
    PROVE  AuditInv'
<1>1. ClockInv /\ PointInv /\ ScanInv /\ ReadyInv /\ ForgetInv /\ TakenInv
    BY DEF AuditInv
<1>2. /\ UNCHANGED << past, point, todo, seen, reached, dated, spoilt, ready, copy, status, outcome, taken >>
      /\ writes' = writes + 1 /\ writes \in Nat /\ DOMAIN folder' = DOMAIN folder
    BY <1>1 DEF ClaudeWrites, scanned, ClockInv
<1>3. disk'[f].at = writes' /\ DOMAIN disk' = Files /\ \A g \in Files : g # f => disk'[g] = disk[g]
    BY <1>1 DEF ClaudeWrites, ClockInv
<1>4. DiskLater
    BY <1>2, <1>3 DEF DiskLater
<1>5. ClockInv'
  <2>1. \A g \in Files : disk'[g].at \in -1 .. writes'
    <3>1. \A g \in Files : disk[g].at \in -1 .. writes
        BY <1>1 DEF ClockInv
    <3>2. QED
        BY <1>2, <1>3, <3>1
  <2>2. past' \in Pasts /\ past'.at <= writes' /\ (past'.kind # "file" => past'.lines = << >>)
      BY <1>1, <1>2 DEF ClockInv, Pasts
  <2>3. status' \in 0 .. writes' /\ copy' \in Seq(HistoryLines)
      BY <1>1, <1>2 DEF ClockInv
  <2>4. \A r \in Range(ready) : r \in Looks /\ r.at <= writes
      BY <1>1, RangeOfSeq DEF ClockInv
  <2>5. ready' \in Seq(Looks) /\ \A r \in Range(ready') : r.at <= writes'
      BY <1>1, <1>2, <2>4 DEF ClockInv, Looks
  <2>6. QED
      BY <1>1, <1>2, <1>3, <2>1, <2>2, <2>3, <2>5 DEF ClockInv
<1>6. PointInv'
    BY <1>1, <1>2 DEF PointInv
<1>7. Looked' = Looked /\ Found' = Found /\ Looked \subseteq Files
    BY <1>2 DEF Looked, Found
<1>8. ScanInv'
  <2>1. \A g \in Looked : seen[g] \in 0 .. writes /\ seen[g] \in 0 .. writes'
      BY <1>1, <1>2 DEF ScanInv
  <2>2. seen[f] # disk'[f].at
    <3>1. f \in Looked \/ seen[f] = Unseen
        BY DEF Looked
    <3>2. QED
        BY <1>2, <1>3, <2>1, <3>1 DEF Unseen
  <2>3. ASSUME ~spoilt', point' \in {"list", "look", "read"}, NEW g \in Files,
               seen'[g] = disk'[g].at, ~(point' = "read" /\ g = Head(todo'))
        PROVE  WasRead(g)'
    <3>1. g # f /\ disk'[g] = disk[g]
        BY <1>2, <1>3, <2>2, <2>3
    <3>2. WasRead(g)
        BY <1>1, <1>2, <2>3, <3>1 DEF ScanInv
    <3>3. QED
        BY <1>2, <3>1, <3>2 DEF WasRead, Reaches
  <2>4. QED
      BY <1>1, <1>2, <1>7, <2>1, <2>3 DEF ScanInv
<1>9. ReadyInv'
    BY <1>1, <1>2, <1>4, <1>7, StaysFound DEF ReadyInv
<1>10. ForgetInv'
    BY <1>1, <1>2 DEF ForgetInv, Forgotten
<1>11. TakenInv'
  <2>1. ASSUME point = "main", Transcript(Head(todo))[2] = "main", NEW r \in Range(ready)
        PROVE  disk'[<< Head(todo), "agent" >>].at \notin 0 .. r.at
    <3>1. todo \in Seq(Names) /\ todo # << >>
        BY <1>1, <2>1 DEF PointInv, Removing
    <3>2. << Head(todo), "agent" >> \in Files
        BY <3>1, HeadTailProperties DEF Files
    <3>3. r \in Looks /\ r.at <= writes
        BY <1>1, RangeOfSeq DEF ClockInv
    <3>4. disk[<< Head(todo), "agent" >>].at \notin 0 .. r.at
        BY <1>1, <2>1 DEF TakenInv
    <3>5. QED
        BY <1>2, <1>3, <3>2, <3>3, <3>4 DEF Looks
  <2>2. QED
      BY <1>1, <1>2, <1>4, <2>1, StaysFound DEF TakenInv, Transcript
<1>12. QED
    BY <1>5, <1>6, <1>8, <1>9, <1>10, <1>11 DEF AuditInv

LEMMA RemembersKeepsAudit ==
    ASSUME AuditInv, NEW s \in Names, ClaudeRemembers(s)
    PROVE  AuditInv'
<1>1. ClockInv /\ PointInv /\ ScanInv /\ ReadyInv /\ ForgetInv /\ TakenInv
    BY DEF AuditInv
<1>2. UNCHANGED << disk, folder, point, todo, seen, reached, dated, spoilt, ready, copy, status, outcome, taken >>
    BY DEF ClaudeRemembers, scanned
<1>3. writes' = writes + 1 /\ writes \in Nat /\ past.kind = "file"
    BY <1>1 DEF ClaudeRemembers, ClockInv
<1> DEFINE line == [of |-> s, at |-> writes']
<1>4. line \in HistoryLines /\ line.at = writes'
    BY <1>3 DEF HistoryLines
<1>5. past \in Pasts /\ past = [kind |-> past.kind, at |-> past.at, lines |-> past.lines]
      /\ past.lines \in Seq(HistoryLines)
    BY <1>1 DEF ClockInv, Pasts
<1>6. past'.kind = past.kind /\ past'.at = writes' /\ past'.lines = Append(past.lines, line)
    BY <1>1, <1>5 DEF ClaudeRemembers, Pasts
<1>7. past'.lines \in Seq(HistoryLines) /\ Range(past'.lines) = Range(past.lines) \cup {line}
  <2> HIDE DEF line
  <2> QED
      BY <1>4, <1>5, <1>6, AppendProperties, RangeAppend
<1>8. past' \in Pasts
  <2>1. past' = [kind |-> past'.kind, at |-> past'.at, lines |-> past'.lines]
      BY <1>5 DEF ClaudeRemembers
  <2> HIDE DEF line
  <2>2. past'.kind \in {"none", "link", "file"} /\ past'.at \in Nat
      BY <1>3, <1>6
  <2>3. QED
      BY <1>7, <2>1, <2>2 DEF Pasts
<1> HIDE DEF line
<1>9. ClockInv'
  <2>1. \A f \in Files : disk'[f].at \in -1 .. writes'
    <3>1. \A f \in Files : disk[f].at \in -1 .. writes
        BY <1>1 DEF ClockInv
    <3>2. QED
        BY <1>2, <1>3, <3>1
  <2>2. status' \in 0 .. writes'
      BY <1>1, <1>2, <1>3 DEF ClockInv
  <2>3. \A r \in Range(ready) : r.at <= writes'
    <3>1. \A r \in Range(ready) : r \in Looks /\ r.at <= writes
        BY <1>1, RangeOfSeq DEF ClockInv
    <3>2. QED
        BY <1>3, <3>1 DEF Looks
  <2>4. writes' \in Nat /\ past'.at <= writes' /\ past'.kind = "file"
      BY <1>3, <1>6
  <2>5. QED
      BY <1>1, <1>2, <1>8, <2>1, <2>2, <2>3, <2>4 DEF ClockInv
<1>10. PointInv'
    BY <1>1, <1>2 DEF PointInv
<1>11. Looked' = Looked /\ Found' = Found /\ Looked \subseteq Files /\ DiskLater
    BY <1>2 DEF Looked, Found, DiskLater
<1>12. ScanInv'
  <2>1. \A f \in Looked : seen[f] \in 0 .. writes'
      BY <1>1, <1>3 DEF ScanInv
  <2>2. \A f \in Files : WasRead(f)' <=> WasRead(f)
      BY <1>2 DEF WasRead, Reaches
  <2>3. QED
      BY <1>1, <1>2, <1>11, <2>1, <2>2 DEF ScanInv
<1>13. ReadyInv' /\ TakenInv'
  <2>1. /\ \A r \in Range(ready') : WasFound(r)'
        /\ \A t \in taken' : LineWent(t)' \/ FileWent(t)'
      BY <1>1, <1>2, <1>11, StaysFound
  <2>2. QED
      BY <1>1, <1>2, <1>11, <2>1 DEF ReadyInv, TakenInv, Transcript
<1>14. ForgetInv'
  <2>1. status \in 0 .. writes
      BY <1>1 DEF ClockInv
  <2>2. past'.at # status /\ line.at > status /\ line.at > 0
      BY <1>3, <1>4, <1>6, <2>1
  <2>3. QED
      BY <1>1, <1>2, <1>6, <1>7, <2>2 DEF ForgetInv, Forgotten
<1>15. QED
    BY <1>9, <1>10, <1>12, <1>13, <1>14 DEF AuditInv

-----------------------------------------------------------------------------
(* The scan. *)

(* While it goes on nothing is ready, and nothing has gone. *)
LEMMA StillScanning ==
    ASSUME AuditInv, point \in {"list", "look", "read"}, point' \in {"list", "look", "read"},
           UNCHANGED << disk, folder, past, ready, copy, status, outcome, taken, writes >>
    PROVE  ClockInv' /\ ReadyInv' /\ ForgetInv' /\ TakenInv'
<1>1. ClockInv /\ ready = << >> /\ taken = {}
    BY DEF AuditInv, PointInv, Scanning
<1>2. ClockInv'
    BY <1>1 DEF ClockInv
<1>3. ReadyInv' /\ ForgetInv' /\ TakenInv'
    BY <1>1, NothingThere DEF ReadyInv, ForgetInv, TakenInv, Removing
<1>4. QED
    BY <1>2, <1>3

LEMMA ListKeepsAudit ==
    ASSUME AuditInv, List
    PROVE  AuditInv'
<1>1. PointInv /\ ScanInv
    BY DEF AuditInv
<1>2. /\ point = "list" /\ point' = "look" /\ todo' = Without(InOrder, Files \ Listed)
      /\ UNCHANGED << disk, folder, past, seen, reached, dated, spoilt, ready, copy, status, outcome, taken, writes >>
    BY DEF List, stored, scanned
<1>3. ClockInv' /\ ReadyInv' /\ ForgetInv' /\ TakenInv'
    BY <1>2, StillScanning
<1>4. todo' \in Seq(Files)
  <2>1. Without(InOrder, Files \ Listed) \in Seq(Files \ (Files \ Listed))
      BY ListedInOrder, WithoutRest
  <2>2. QED
      BY <1>2, <2>1, SeqMonotonic
<1>5. PointInv'
    BY <1>1, <1>2, <1>4 DEF PointInv, Scanning, Removing
<1>6. ScanInv'
  <2>1. Looked' = Looked /\ \A f \in Files : WasRead(f)' <=> WasRead(f)
      BY <1>2 DEF Looked, WasRead, Reaches
  <2>2. QED
      BY <1>1, <1>2, <2>1 DEF ScanInv
<1>7. QED
    BY <1>3, <1>5, <1>6 DEF AuditInv

LEMMA LookKeepsAudit ==
    ASSUME AuditInv, LookAt
    PROVE  AuditInv'
<1>1. ClockInv /\ PointInv /\ ScanInv
    BY DEF AuditInv
<1>2. /\ point = "look" /\ todo # << >> /\ todo \in Seq(Files)
      /\ UNCHANGED << disk, folder, past, reached, dated, ready, copy, status, outcome, taken, writes >>
    BY <1>1 DEF LookAt, stored, PointInv
<1> DEFINE f == Head(todo)
<1>3. f \in Files /\ Tail(todo) \in Seq(Files)
    BY <1>2, HeadTailProperties
<1>5. CASE UNCHANGED << point, seen >> /\ (spoilt' = TRUE \/ UNCHANGED spoilt)
           /\ todo' \in Seq(Files)
  <2>1. ClockInv' /\ ReadyInv' /\ ForgetInv' /\ TakenInv'
      BY <1>2, <1>5, StillScanning
  <2>2. PointInv'
      BY <1>1, <1>2, <1>5 DEF PointInv, Scanning, Removing
  <2>3. Looked' = Looked /\ \A g \in Files : WasRead(g)' <=> WasRead(g)
      BY <1>2, <1>5 DEF Looked, WasRead, Reaches
  <2>4. ~spoilt' => ~spoilt
      BY <1>5
  <2>5. ScanInv'
      BY <1>1, <1>2, <1>5, <2>3, <2>4 DEF ScanInv
  <2>6. QED
      BY <2>1, <2>2, <2>5 DEF AuditInv
<1>6. CASE On(f) /\ seen' = [seen EXCEPT ![f] = disk[f].at] /\ point' = "read" /\ UNCHANGED << todo, spoilt >>
  <2>1. ClockInv' /\ ReadyInv' /\ ForgetInv' /\ TakenInv'
      BY <1>2, <1>6, StillScanning
  <2>2. PointInv'
      BY <1>1, <1>2, <1>6 DEF PointInv, Scanning, Removing
  <2>3. disk[f].at \in 0 .. writes /\ writes \in Nat
      BY <1>1, <1>3, <1>6 DEF ClockInv, On, Gone
  <2> HIDE DEF f
  <2>4. /\ seen' \in [Files -> Int] /\ seen'[f] = disk[f].at
        /\ \A g \in Files : g # f => seen'[g] = seen[g]
      BY <1>1, <1>3, <1>6, <2>3 DEF ScanInv
  <2>5. Looked' = Looked \cup {f}
      BY <1>3, <2>3, <2>4 DEF Looked, Unseen
  <2>6. \A g \in Files : WasRead(g)' <=> WasRead(g)
      BY <1>2 DEF WasRead, Reaches
  <2>8. \A g \in Looked' : seen'[g] \in 0 .. writes'
      BY <1>1, <1>2, <2>3, <2>4, <2>5 DEF ScanInv, Looked
  <2>9. Head(todo') = f
      BY <1>6 DEF f
  <2>10. ~spoilt' => \A g \in Files : seen'[g] = disk'[g].at /\ g # f => WasRead(g)'
      BY <1>1, <1>2, <1>6, <2>4, <2>6 DEF ScanInv
  <2>11. ScanInv'
      BY <1>1, <1>2, <1>6, <2>4, <2>5, <2>8, <2>9, <2>10 DEF ScanInv
  <2>12. QED
      BY <2>1, <2>2, <2>11 DEF AuditInv
<1>7. CASE f[2] = "main" /\ todo' = Without(todo, {g \in Files : Of(g) = Of(f)})
           /\ (spoilt' = TRUE \/ UNCHANGED spoilt) /\ UNCHANGED << point, seen >>
  <2> DEFINE S == {g \in Files : Of(g) = Of(f)}
  <2>1. Without(todo, S) \in Seq(Files \ S)
      BY <1>2, WithoutRest
  <2> HIDE DEF S
  <2>2. todo' \in Seq(Files)
      BY <1>7, <2>1, SeqMonotonic DEF S
  <2>3. QED
      BY <1>5, <1>7, <2>2
<1>8. CASE todo' = Tail(todo) /\ spoilt' = TRUE /\ UNCHANGED << point, seen >>
    BY <1>3, <1>5, <1>8
<1>9. QED
  <2>1. \/ /\ f[2] = "main" /\ todo' = Without(todo, {g \in Files : Of(g) = Of(f)})
           /\ (spoilt' = TRUE \/ UNCHANGED spoilt) /\ UNCHANGED << point, seen >>
        \/ todo' = Tail(todo) /\ spoilt' = TRUE /\ UNCHANGED << point, seen >>
        \/ On(f) /\ seen' = [seen EXCEPT ![f] = disk[f].at] /\ point' = "read" /\ UNCHANGED << todo, spoilt >>
      BY DEF LookAt
  <2>2. QED
      BY <1>6, <1>7, <1>8, <2>1

LEMMA ReadKeepsAudit ==
    ASSUME AuditInv, ReadFile
    PROVE  AuditInv'
<1> DEFINE f == Head(todo)
           news(part) == {<< f, r >> : r \in {x \in part : Reaches(f, x)}}
<1>1. ClockInv /\ PointInv /\ ScanInv
    BY DEF AuditInv
<1>2. /\ point = "read" /\ point' = "look" /\ todo' = Tail(todo)
      /\ UNCHANGED << disk, folder, past, seen, ready, copy, status, outcome, taken, writes >>
    BY DEF ReadFile, stored
<1>3. /\ todo # << >> /\ todo \in Seq(Files) /\ f \in Files /\ Tail(todo) \in Seq(Files)
      /\ f \in Looked
    BY <1>1, <1>2, HeadTailProperties DEF PointInv, ScanInv
<1>4. PICK part \in SUBSET disk[f].holds :
         /\ reached' = [reached EXCEPT ![Of(f)] = @ \cup news(part)]
         /\ dated' = IF \E r \in part : r.age = "new" /\ r.kind # "bad"
                     THEN dated \cup {Of(f)} ELSE dated
         /\ spoilt' = (spoilt \/ part # disk[f].holds \/ ~On(f)
                           \/ \E r \in part : r.kind \in {"bad", "partial"})
    BY DEF ReadFile
<1>6. ClockInv' /\ ReadyInv' /\ ForgetInv' /\ TakenInv'
    BY <1>2, StillScanning
<1>7. PointInv'
    BY <1>1, <1>2, <1>3 DEF PointInv, Scanning, Removing
<1> HIDE DEF f, news
<1>8. Of(f) \in Names /\ DOMAIN reached = Names
    BY <1>1, <1>3, FilesAre DEF ScanInv
<1>9. /\ DOMAIN reached' = Names /\ reached'[Of(f)] = reached[Of(f)] \cup news(part)
      /\ \A s \in Names : s # Of(f) => reached'[s] = reached[s]
    BY <1>4, <1>8
<1>10. dated' \subseteq Names
    BY <1>1, <1>4, <1>8 DEF ScanInv
<1>13. ~spoilt' => ~spoilt /\ part = disk[f].holds
    BY <1>4, Zenon
<1>14. ASSUME ~spoilt', NEW g \in Files, seen[g] = disk[g].at
       PROVE  WasRead(g)'
  <2>1. CASE g = f
    <3>1. \A r \in disk[f].holds : Reaches(f, r) => << f, r >> \in news(part)
        BY <1>13, <1>14 DEF news
    <3>2. QED
        BY <1>2, <1>9, <2>1, <3>1 DEF WasRead, Reaches
  <2>2. CASE g # f
    <3>1. WasRead(g)
        BY <1>1, <1>2, <1>13, <1>14, <2>2 DEF ScanInv, f
    <3>2. reached[Of(g)] \subseteq reached'[Of(g)]
        BY <1>9, FilesAre
    <3>3. QED
        BY <1>2, <3>1, <3>2 DEF WasRead, Reaches
  <2>3. QED
      BY <2>1, <2>2
<1>15. Looked' = Looked
    BY <1>2 DEF Looked
<1>16. ScanInv'
    BY <1>1, <1>2, <1>9, <1>10, <1>14, <1>15 DEF ScanInv
<1>17. QED
    BY <1>6, <1>7, <1>16 DEF AuditInv

(* The purge asks, and drops the sessions that changed.                    *)
LEMMA EndsKeepsAudit ==
    ASSUME AuditInv, NEW what, Ends(what), what # "", what = "nothing" => taken = {},
           UNCHANGED << disk, folder, past, seen, reached, dated, ready, taken, writes >>,
           status' \in 0 .. writes, copy' \in Seq(HistoryLines)
    PROVE  AuditInv'
<1>1. point' = "ended" /\ outcome' = what
    BY DEF Ends
<1>2. ClockInv' /\ ScanInv' /\ ReadyInv' /\ TakenInv'
    BY <1>1, Aside
<1>3. PointInv'
    BY <1>1 DEF PointInv, Scanning, Removing
<1>4. ForgetInv'
    BY <1>1 DEF AuditInv, ForgetInv, Forgotten, Removing
<1>5. QED
    BY <1>2, <1>3, <1>4 DEF AuditInv

LEMMA AskKeepsAudit ==
    ASSUME AuditInv, Ask
    PROVE  AuditInv'
<1>1. ClockInv /\ PointInv /\ ScanInv
    BY DEF AuditInv
<1>2. /\ point = "look"
      /\ UNCHANGED << disk, folder, past, seen, reached, dated, spoilt, ready, copy, status, taken, writes >>
    BY DEF Ask, stored, scanned
<1>3. status \in 0 .. writes /\ copy \in Seq(HistoryLines)
    BY <1>1 DEF ClockInv
<1>4. CASE Ends("nothing")
  <2>1. taken = {}
      BY <1>1, <1>2 DEF PointInv, Scanning
  <2>2. QED
      BY <1>2, <1>3, <1>4, <2>1, EndsKeepsAudit
<1>5. CASE point' = "check" /\ UNCHANGED outcome /\ todo' = Without(Sessions, Names \ Found)
  <2>1. todo' \in Seq(Found)
    <3>1. Without(Sessions, Names \ Found) \in Seq(Names \ (Names \ Found))
        BY ListedInOrder, WithoutRest
    <3>2. Names \ (Names \ Found) \subseteq Found
        OBVIOUS
    <3>3. QED
        BY <1>5, <3>1, <3>2, SeqMonotonic
  <2>2. ClockInv' /\ ScanInv' /\ ReadyInv' /\ TakenInv'
      BY <1>2, <1>3, <1>5, <2>1, Aside
  <2>3. PointInv'
      BY <1>1, <1>2, <1>5 DEF PointInv, Scanning, Removing
  <2>4. ForgetInv'
    <3>1. taken = {}
        BY <1>1, <1>2 DEF PointInv, Scanning
    <3>2. QED
        BY <1>2, <1>5, <3>1 DEF ForgetInv, Removing
  <2>5. QED
      BY <2>2, <2>3, <2>4 DEF AuditInv
<1>6. QED
    BY <1>4, <1>5 DEF Ask

LEMMA CheckKeepsAudit ==
    ASSUME AuditInv, Check
    PROVE  AuditInv'
<1>1. ClockInv /\ PointInv /\ ScanInv /\ ReadyInv /\ TakenInv
    BY DEF AuditInv
<1>2. /\ point = "check" /\ taken = {} /\ todo \in Seq(Found)
      /\ UNCHANGED << disk, folder, past, seen, reached, dated, spoilt, copy, status, outcome, taken, writes >>
    BY <1>1 DEF Check, stored, scanned, PointInv, Scanning, ReadyInv
<1>3. status \in 0 .. writes /\ copy \in Seq(HistoryLines) /\ writes \in Nat
      /\ ready \in Seq(Looks)
    BY <1>1 DEF ClockInv
<1>4. CASE todo = << >> /\ point' = "forget" /\ UNCHANGED ready /\ todo' = [i \in DOMAIN ready |-> ready[i].of]
  <2>1. todo' \in Seq(Names)
    <3>1. DOMAIN ready = 1..Len(ready) /\ Len(ready) \in Nat /\ \A i \in 1..Len(ready) : ready[i] \in Looks
        BY <1>3, LenProperties, ElementOfSeq
    <3>2. \A i \in 1..Len(ready) : ready[i].of \in Names
        BY <3>1 DEF Looks
    <3>3. QED
        BY <1>4, <3>1, <3>2, IsASeq
  <2>2. ClockInv' /\ ScanInv' /\ ReadyInv' /\ TakenInv'
      BY <1>2, <1>3, <1>4, Aside
  <2>3. PointInv'
      BY <1>1, <1>2, <1>4, <2>1 DEF PointInv, Scanning, Removing
  <2>4. ForgetInv'
      BY <1>2, <1>4 DEF ForgetInv, Removing
  <2>5. QED
      BY <2>2, <2>3, <2>4 DEF AuditInv
<1>5. CASE /\ todo # << >> /\ todo' = Tail(todo) /\ UNCHANGED point
           /\ \/ Unchanged(Head(todo)) /\ ready' = Append(ready, [of |-> Head(todo), at |-> writes])
              \/ UNCHANGED ready
  <2> DEFINE s == Head(todo)
             new == [of |-> s, at |-> writes]
  <2>1. s \in Found /\ Tail(todo) \in Seq(Found) /\ Found \subseteq Names
      BY <1>1, <1>2, <1>5, HeadTailProperties DEF ScanInv, Found
  <2>2. new \in Looks /\ new.of = s /\ new.at = writes
    <3> HIDE DEF s
    <3> QED
        BY <1>3, <2>1 DEF Looks
  <2> HIDE DEF new
  <2>3. /\ ready' \in Seq(Looks)
        /\ \A r \in Range(ready') : r \in Range(ready) \/ (r = new /\ Unchanged(s))
    <3>1. CASE Unchanged(s) /\ ready' = Append(ready, new)
      <4>1. ready' \in Seq(Looks) /\ Range(ready') = Range(ready) \cup {new}
          BY <1>3, <2>2, <3>1, AppendProperties, RangeAppend
      <4>2. QED
          BY <3>1, <4>1
    <3>2. CASE UNCHANGED ready
        BY <1>3, <3>2
    <3>3. QED
        BY <1>5, <3>1, <3>2 DEF new
  <2>4. ClockInv'
    <3>1. \A r \in Range(ready') : r.at <= writes
        BY <1>1, <1>3, <2>2, <2>3 DEF ClockInv
    <3>2. QED
        BY <1>1, <1>2, <2>3, <3>1 DEF ClockInv
  <2>5. PointInv'
      BY <1>1, <1>2, <1>5 DEF PointInv, Scanning, Removing
  <2>6. ScanInv'
      BY <1>1, <1>2, <1>5 DEF ScanInv, Looked
  <2>7. ReadyInv'
    <3>1. Unchanged(s) => WasFound(new)
      <4>1. ASSUME Unchanged(s), NEW f \in Looked, Of(f) = s
            PROVE  disk[f].at = seen[f]
          BY <4>1 DEF Unchanged, Looked
      <4>2. reached[s] # {}
          BY <2>1 DEF Found
      <4>3. QED
          BY <2>2, <4>1, <4>2 DEF WasFound
    <3>2. \A r \in Range(ready') : WasFound(r)
        BY <1>1, <2>3, <3>1 DEF ReadyInv
    <3>3. \A r : WasFound(r)' <=> WasFound(r)
        BY <1>2 DEF WasFound, Looked
    <3>4. Found' = Found /\ todo' \in Seq(Found)
        BY <1>2, <1>5, <2>1 DEF Found
    <3>5. QED
        BY <3>2, <3>3, <3>4 DEF ReadyInv
  <2>8. ForgetInv' /\ TakenInv'
      BY <1>2, <1>5 DEF ForgetInv, TakenInv, Removing
  <2>9. QED
      BY <2>4, <2>5, <2>6, <2>7, <2>8 DEF AuditInv
<1>6. QED
    BY <1>4, <1>5 DEF Check

-----------------------------------------------------------------------------
(* history.jsonl. *)

LEMMA KeptIs ==
    ASSUME NEW all \in Seq(HistoryLines)
    PROVE  /\ Range(Kept(all)) = {l \in Range(all) : ~Forgotten(l)}
           /\ Kept(all) \in Seq(HistoryLines)
<1> DEFINE S == {l \in Range(all) : Forgotten(l)}
<1>1. Range(Without(all, S)) = Range(all) \ S /\ Without(all, S) \in Seq(HistoryLines \ S)
    BY WithoutRange, WithoutRest
<1>2. Range(all) \ S = {l \in Range(all) : ~Forgotten(l)}
    OBVIOUS
<1>3. Kept(all) = Without(all, S)
    BY DEF Kept
<1> HIDE DEF S
<1>4. Kept(all) \in Seq(HistoryLines)
    BY <1>1, <1>3, SeqMonotonic
<1>5. QED
    BY <1>1, <1>2, <1>3, <1>4

(* A step of _forget that only reads, and goes on or to the folders.       *)
LEMMA ForgetKeepsAudit ==
    ASSUME AuditInv, point \in {"forget", "reading", "compare"},
           point' \in {"reading", "compare", "replace", "folder"}, UNCHANGED << todo, outcome >>,
           UNCHANGED << disk, folder, past, seen, reached, dated, ready, taken, writes >>,
           status' \in 0 .. writes, copy' \in Seq(HistoryLines), ForgetInv'
    PROVE  AuditInv'
<1>1. PointInv
    BY DEF AuditInv
<1>2. point' # "check" /\ point' # "main" /\ point' \notin {"list", "look", "read"}
    OBVIOUS
<1>3. ClockInv' /\ ScanInv' /\ ReadyInv' /\ TakenInv'
    BY <1>2, Aside
<1>4. PointInv'
    BY <1>1 DEF PointInv, Scanning, Removing
<1>5. QED
    BY <1>3, <1>4 DEF AuditInv

LEMMA ForgetLookKeepsAudit ==
    ASSUME AuditInv, ForgetLook
    PROVE  AuditInv'
<1>1. ClockInv /\ PointInv
    BY DEF AuditInv
<1>2. /\ point = "forget" /\ taken = {} /\ copy' \in Seq(HistoryLines)
      /\ UNCHANGED << disk, folder, past, seen, reached, dated, ready, copy, taken, writes >>
    BY <1>1 DEF ForgetLook, stored, scanned, PointInv, ClockInv, Scanning
<1>3. status \in 0 .. writes /\ (past.kind = "file" => past.at \in 0 .. writes)
    BY <1>1 DEF ClockInv, Pasts
<1>4. CASE ready = << >> /\ point' = "folder" /\ UNCHANGED << todo, outcome, status >>
  <2>1. ForgetInv'
    <3>1. \A l : ~Forgotten(l)'
        BY <1>2, <1>4 DEF Forgotten
    <3>2. QED
        BY <1>2, <1>4, <3>1 DEF ForgetInv
  <2>2. QED
      BY <1>2, <1>3, <1>4, <2>1, ForgetKeepsAudit
<1>5. CASE past.kind = "none" /\ point' = "folder" /\ UNCHANGED << todo, outcome, status >>
  <2>1. past'.kind # "link" /\ Range(past'.lines) = {}
      BY <1>1, <1>2, <1>5, NothingThere DEF ClockInv
  <2>2. ForgetInv'
      BY <1>5, <2>1 DEF ForgetInv
  <2>3. QED
      BY <1>2, <1>3, <1>5, <2>2, ForgetKeepsAudit
<1>6. CASE Ends("nothing") /\ UNCHANGED status
    BY <1>2, <1>3, <1>6, EndsKeepsAudit
<1>7. CASE past.kind = "file" /\ status' = past.at /\ point' = "reading" /\ UNCHANGED << todo, outcome >>
  <2>1. ForgetInv'
      BY <1>2, <1>7 DEF ForgetInv, Removing
  <2>2. QED
      BY <1>2, <1>3, <1>7, <2>1, ForgetKeepsAudit
<1>8. QED
    BY <1>4, <1>5, <1>6, <1>7 DEF ForgetLook


LEMMA ForgetReadKeepsAudit ==
    ASSUME AuditInv, ForgetRead
    PROVE  AuditInv'
<1>1. ClockInv /\ PointInv /\ ForgetInv
    BY DEF AuditInv
<1>2. /\ point = "reading" /\ taken = {} /\ past.kind = "file"
      /\ UNCHANGED << disk, folder, past, seen, reached, dated, ready, status, taken, writes >>
    BY <1>1 DEF ForgetRead, stored, scanned, PointInv, ForgetInv, Scanning
<1>3. status \in 0 .. writes /\ copy \in Seq(HistoryLines) /\ past.lines \in Seq(HistoryLines)
    BY <1>1 DEF ClockInv, Pasts
<1>4. CASE Ends("nothing") /\ UNCHANGED copy
    BY <1>2, <1>3, <1>4, EndsKeepsAudit
<1>5. CASE /\ copy' = past.lines /\ UNCHANGED << todo, outcome >>
           /\ point' = IF Kept(copy') = copy' THEN "folder" ELSE "compare"
  <2>1. CASE Kept(past.lines) = past.lines
    <3>1. \A l \in Range(past.lines) : ~Forgotten(l)
        BY <1>3, <2>1, KeptIs
    <3>2. ForgetInv'
        BY <1>2, <1>5, <2>1, <3>1 DEF ForgetInv, Forgotten
    <3>3. QED
        BY <1>2, <1>3, <1>5, <2>1, <3>2, ForgetKeepsAudit
  <2>2. CASE Kept(past.lines) # past.lines
    <3>1. ForgetInv'
        BY <1>2, <1>5, <2>2 DEF ForgetInv, Removing
    <3>2. QED
        BY <1>2, <1>3, <1>5, <2>2, <3>1, ForgetKeepsAudit
  <2>3. QED
      BY <2>1, <2>2
<1>6. QED
    BY <1>4, <1>5 DEF ForgetRead

(* What is renamed into place was compared: nothing had come since it was  *)
(* read, and what comes from here on is later.                             *)
LEMMA ForgetCompareKeepsAudit ==
    ASSUME AuditInv, ForgetCompare
    PROVE  AuditInv'
<1>1. ClockInv /\ PointInv /\ ForgetInv
    BY DEF AuditInv
<1>2. /\ point = "compare" /\ taken = {} /\ past.kind = "file" /\ status' = writes
      /\ UNCHANGED << disk, folder, past, seen, reached, dated, ready, copy, taken, writes >>
    BY <1>1 DEF ForgetCompare, stored, scanned, PointInv, ForgetInv, Scanning
<1>3. status' \in 0 .. writes /\ copy \in Seq(HistoryLines)
    BY <1>1, <1>2 DEF ClockInv
<1>4. CASE Ends("nothing")
    BY <1>2, <1>3, <1>4, EndsKeepsAudit
<1>5. CASE past.at = status /\ point' = "replace" /\ UNCHANGED << todo, outcome >>
  <2>1. past.lines = copy
      BY <1>1, <1>2, <1>5 DEF ForgetInv
  <2>2. ForgetInv'
      BY <1>2, <1>5, <2>1 DEF ForgetInv, Removing
  <2>3. QED
      BY <1>2, <1>3, <1>5, <2>2, ForgetKeepsAudit
<1>6. QED
    BY <1>4, <1>5 DEF ForgetCompare

LEMMA ForgetReplaceKeepsAudit ==
    ASSUME AuditInv, ForgetReplace
    PROVE  AuditInv'
<1>1. ClockInv /\ PointInv /\ ScanInv /\ ReadyInv /\ ForgetInv
    BY DEF AuditInv
<1>2. /\ point = "replace" /\ taken = {} /\ past.kind = "file"
      /\ UNCHANGED << disk, folder, seen, reached, dated, spoilt, ready, copy, status, writes >>
    BY <1>1 DEF ForgetReplace, scanned, PointInv, ForgetInv, Scanning
<1>3. /\ status \in 0 .. writes /\ writes \in Nat /\ copy \in Seq(HistoryLines)
      /\ past \in Pasts /\ past.lines \in Seq(HistoryLines)
    BY <1>1 DEF ClockInv, Pasts
<1>4. CASE Ends("nothing") /\ UNCHANGED << past, taken >>
    BY <1>2, <1>3, <1>4, EndsKeepsAudit
<1>5. CASE /\ past' = [past EXCEPT !.lines = Kept(copy)]
           /\ taken' = taken \cup {[line |-> l, at |-> status] : l \in Range(past.lines) \ Range(Kept(copy))}
           /\ point' = "folder" /\ UNCHANGED << todo, outcome >>
  <2>1. /\ Range(Kept(copy)) = {l \in Range(copy) : ~Forgotten(l)}
        /\ Kept(copy) \in Seq(HistoryLines)
      BY <1>3, KeptIs
  <2>2. past = [kind |-> past.kind, at |-> past.at, lines |-> past.lines]
      BY <1>3 DEF Pasts
  <2>3. past'.kind = "file" /\ past'.at = past.at /\ past'.lines = Kept(copy)
      BY <1>2, <1>5, <2>2
  <2>4. past' \in Pasts
      BY <1>3, <1>5, <2>1, <2>3 DEF Pasts
  <2>5. ClockInv'
      BY <1>1, <1>2, <2>3, <2>4 DEF ClockInv
  <2>6. PointInv'
      BY <1>1, <1>2, <1>5 DEF PointInv, Scanning, Removing
  <2>7. ScanInv' /\ ReadyInv'
    <3>1. \A r : WasFound(r)' <=> WasFound(r)
        BY <1>2 DEF WasFound, Looked
    <3>2. QED
        BY <1>1, <1>2, <1>5, <3>1 DEF ScanInv, ReadyInv, Looked
  <2>8. ForgetInv'
    <3>1. \A l \in Range(past'.lines) : ~Forgotten(l)
        BY <2>1, <2>3
    <3>2. QED
        BY <1>2, <1>5, <2>3, <3>1 DEF ForgetInv, Forgotten
  <2>9. TakenInv'
    <3>1. ASSUME NEW l \in Range(past.lines) \ Range(Kept(copy))
          PROVE  LineWent([line |-> l, at |-> status])'
      <4>1. Forgotten(l) \/ l.at > status
          BY <1>1, <1>2, <2>1 DEF ForgetInv
      <4>2. l \in HistoryLines /\ status \in Nat
          BY <1>3, RangeOfSeq
      <4>3. Forgotten(l)' <=> Forgotten(l)
          BY <1>2 DEF Forgotten
      <4>4. QED
          BY <1>2, <4>1, <4>2, <4>3 DEF LineWent
    <3>2. QED
        BY <1>2, <1>5, <3>1 DEF TakenInv
  <2>10. QED
      BY <2>5, <2>6, <2>7, <2>8, <2>9 DEF AuditInv
<1>6. QED
    BY <1>4, <1>5 DEF ForgetReplace

-----------------------------------------------------------------------------
(* The removal. *)

(* The session removed next, while there is one.                           *)
LEMMA NextRemoved ==
    ASSUME AuditInv, point \in Removing, todo # << >>, NEW k \in {"main", "agent"}
    PROVE  << Head(todo), k >> \in Files /\ Tail(todo) \in Seq(Names)
<1>1. todo \in Seq(Names)
    BY DEF AuditInv, PointInv
<1>2. QED
    BY <1>1, HeadTailProperties DEF Files

(* A file goes of a session that is ready.  The look at the status that    *)
(* the check made still stands for a file not written since.               *)
LEMMA RemovedWent ==
    ASSUME AuditInv, NEW f \in Files, NEW t \in Removes(f), UNCHANGED << seen, ready >>, DiskLater,
           f[2] = "main" => /\ f \in Looked
                            /\ \A r \in Range(ready) : disk[<< Of(f), "agent" >>].at \notin 0 .. r.at
    PROVE  (LineWent(t) \/ FileWent(t))'
<1>1. ClockInv /\ ScanInv /\ ReadyInv /\ TakenInv
    BY DEF AuditInv
<1>2. CASE t \in taken
  <2>1. LineWent(t) \/ FileWent(t)
      BY <1>1, <1>2 DEF TakenInv
  <2>2. QED
      BY <1>1, <2>1, WentStay
<1>3. CASE t \notin taken
  <2>1. On(f)
      BY <1>3 DEF Removes
  <2>2. PICK r \in {x \in Range(ready) : x.of = Of(f)} :
           t = [file |-> f, was |-> disk[f].at, seen |-> seen[f], at |-> r.at]
      BY <1>3, <2>1 DEF Removes
  <2>3. r \in Looks /\ r.at <= writes /\ writes \in Nat /\ WasFound(r)
      BY <1>1, RangeOfSeq DEF ClockInv, ReadyInv
  <2>4. r.at \in Nat
      BY <2>3 DEF Looks
  <2>5. disk[f].at \in Nat /\ seen[f] \in Int
      BY <1>1, <2>1 DEF ClockInv, ScanInv, On, Gone
  <2>6. t \in [file : Files, was : Nat, seen : Int, at : Nat]
      BY <2>2, <2>4, <2>5
  <2>7. t.file = f /\ t.was = disk[f].at /\ t.seen = seen[f] /\ t.at = r.at
      BY <2>2
  <2>8. f \in Looked /\ t.was <= t.at => t.was = t.seen
    <3>1. SUFFICES ASSUME f \in Looked, disk[f].at <= r.at
                   PROVE  disk[f].at = seen[f]
        BY <2>7
    <3>2. disk[f].at \in 0 .. r.at
        BY <2>4, <2>5, <3>1
    <3>3. QED
        BY <2>2, <2>3, <3>1, <3>2 DEF WasFound
  <2>9. ASSUME f[2] = "main", NEW g \in Files, Of(g) = Of(f), g[2] = "agent"
        PROVE  disk[g].at \notin 0 .. t.at
    <3>1. g = << Of(f), "agent" >>
        BY <2>9, FilesAre DEF Of
    <3>2. QED
        BY <2>2, <2>7, <2>9, <3>1
  <2>10. \E x \in Range(ready) : x.of = Of(t.file) /\ x.at = t.at
      BY <2>2, <2>7
  <2>11. FileWent(t)
      BY <2>6, <2>7, <2>8, <2>9, <2>10 DEF FileWent
  <2>12. QED
      BY <1>1, <2>11, WentStay
<1>4. QED
    BY <1>2, <1>3

(* A step of the removal: at most one file goes, and it is recorded.       *)
LEMMA RemovalKeepsAudit ==
    ASSUME AuditInv, point \in Removing, point' \in Removing, NEW f \in Files,
           UNCHANGED << disk, taken >> \/ (disk' = [disk EXCEPT ![f] = Erased] /\ taken' = Removes(f)),
           UNCHANGED << past, seen, reached, dated, spoilt, ready, copy, status, outcome, writes >>,
           DOMAIN folder' = DOMAIN folder,
           f[2] = "main" => /\ f \in Looked
                            /\ \A r \in Range(ready) : disk[<< Of(f), "agent" >>].at \notin 0 .. r.at,
           todo' \in Seq(Names), point' = "main" => todo' # << >>,
           point' = "main" /\ Transcript(Head(todo'))[2] = "main" => \A r \in Range(ready) : disk'[<< Head(todo'), "agent" >>].at \notin 0 .. r.at
    PROVE  AuditInv'
<1>1. ClockInv /\ PointInv /\ ScanInv /\ ReadyInv /\ ForgetInv /\ TakenInv
    BY DEF AuditInv
<1>2. writes \in Nat /\ DOMAIN disk' = Files
    BY <1>1 DEF ClockInv
<1>3. \A g \in Files : disk'[g] = disk[g] \/ disk'[g].at = Gone
  <2>1. CASE UNCHANGED << disk, taken >>
      BY <2>1
  <2>2. CASE disk' = [disk EXCEPT ![f] = Erased]
      BY <1>1, <2>2 DEF ClockInv, Erased
  <2>3. QED
      BY <2>1, <2>2
<1>4. DiskLater
    BY <1>3 DEF DiskLater
<1>5. ClockInv'
  <2>1. \A g \in Files : disk'[g].at \in -1 .. writes
      BY <1>1, <1>2, <1>3 DEF ClockInv, Gone
  <2>2. QED
      BY <1>1, <1>2, <2>1 DEF ClockInv
<1>6. PointInv'
    BY <1>1 DEF PointInv, Scanning, Removing
<1>7. ScanInv'
    BY <1>1 DEF ScanInv, Looked, Removing
<1>8. ReadyInv'
  <2>1. \A r \in Range(ready) : WasFound(r)'
      BY <1>1, <1>4, FoundStay DEF ReadyInv
  <2>2. QED
      BY <2>1 DEF ReadyInv, Removing
<1>9. ForgetInv'
    BY <1>1 DEF ForgetInv, Forgotten, Removing
<1>10. TakenInv'
  <2>1. ASSUME NEW t \in taken'
        PROVE  LineWent(t)' \/ FileWent(t)'
    <3>1. CASE t \in taken
      <4>1. LineWent(t) \/ FileWent(t)
          BY <1>1, <3>1 DEF TakenInv
      <4>2. QED
          BY <1>1, <1>4, <4>1, WentStay
    <3>2. CASE t \in Removes(f)
        BY <1>4, <3>2, RemovedWent
    <3>3. QED
        BY <2>1, <3>1, <3>2
  <2>2. QED
      BY <2>1 DEF TakenInv, Transcript
<1>11. QED
    BY <1>5, <1>6, <1>7, <1>8, <1>9, <1>10 DEF AuditInv

LEMMA RemoveFolderKeepsAudit ==
    ASSUME AuditInv, RemoveFolder
    PROVE  AuditInv'
<1> DEFINE agent == << Head(todo), "agent" >>
<1>1. ClockInv /\ point \in Removing /\ todo # << >> /\ todo \in Seq(Names)
    BY DEF AuditInv, RemoveFolder, PointInv, Removing
<1>2. UNCHANGED << past, seen, reached, dated, spoilt, ready, copy, status, outcome, writes >>
    BY DEF RemoveFolder, scanned
<1>3. agent \in Files /\ agent[2] # "main" /\ Tail(todo) \in Seq(Names)
    BY <1>1, NextRemoved
<1>4. CASE /\ point' = "main" /\ UNCHANGED todo
           /\ folder' = [folder EXCEPT ![Head(todo)] = "none"]
           /\ disk' = [disk EXCEPT ![agent] = Erased] /\ taken' = Removes(agent)
  <2>1. \A r \in Range(ready) : disk'[agent].at \notin 0 .. r.at
      BY <1>1, <1>3, <1>4 DEF ClockInv, Erased, Gone
  <2>2. DOMAIN folder' = DOMAIN folder /\ point' \in Removing
      BY <1>4 DEF Removing
  <2>3. todo' = todo
      BY <1>4
  <2>4. UNCHANGED << disk, taken >> \/ (disk' = [disk EXCEPT ![agent] = Erased] /\ taken' = Removes(agent))
      BY <1>4
  <2>5. \A r \in Range(ready) : disk'[<< Head(todo'), "agent" >>].at \notin 0 .. r.at
      BY <2>1, <2>3
  <2> HIDE DEF agent
  <2>6. QED
      BY <1>1, <1>2, <1>3, <2>2, <2>3, <2>4, <2>5, RemovalKeepsAudit
<1>5. CASE /\ todo' = Tail(todo) /\ UNCHANGED << point, folder >>
           /\ \/ UNCHANGED << disk, taken >>
              \/ disk' = [disk EXCEPT ![agent] = Erased] /\ taken' = Removes(agent)
  <2>1. point' = "folder" /\ point' \in Removing
      BY <1>5 DEF RemoveFolder, Removing
  <2> HIDE DEF agent
  <2>2. QED
      BY <1>1, <1>2, <1>3, <1>5, <2>1, RemovalKeepsAudit
<1>6. CASE Transcript(Head(todo)) = agent /\ point' = "main" /\ UNCHANGED << todo, folder, disk, taken >>
  <2>1. Transcript(Head(todo'))[2] # "main" /\ point' \in Removing
      BY <1>3, <1>6 DEF Removing
  <2> HIDE DEF agent
  <2>2. QED
      BY <1>1, <1>2, <1>3, <1>6, <2>1, RemovalKeepsAudit
<1>7. QED
    BY <1>4, <1>5, <1>6 DEF RemoveFolder

LEMMA RemoveTranscriptKeepsAudit ==
    ASSUME AuditInv, RemoveTranscript
    PROVE  AuditInv'
<1> DEFINE transcript == Transcript(Head(todo))
<1>1. /\ point = "main" /\ point \in Removing /\ todo # << >> /\ TakenInv
      /\ point' = "folder" /\ point' \in Removing /\ todo' = Tail(todo)
    BY DEF AuditInv, RemoveTranscript, PointInv, Removing
<1>2. UNCHANGED << folder, past, seen, reached, dated, spoilt, ready, copy, status, outcome, writes >>
    BY DEF RemoveTranscript, scanned
<1>3. transcript \in Files /\ Of(transcript) = Head(todo) /\ Tail(todo) \in Seq(Names)
    BY <1>1, NextRemoved DEF Transcript, Of
<1>4. UNCHANGED << disk, taken >>
      \/ (disk' = [disk EXCEPT ![transcript] = Erased] /\ taken' = Removes(transcript))
    BY DEF RemoveTranscript
<1>5. transcript[2] = "main" =>
         /\ transcript \in Looked
         /\ \A r \in Range(ready) : disk[<< Of(transcript), "agent" >>].at \notin 0 .. r.at
  <2> SUFFICES ASSUME transcript[2] = "main"
               PROVE  /\ transcript \in Looked
                      /\ \A r \in Range(ready) : disk[<< Head(todo), "agent" >>].at \notin 0 .. r.at
      BY <1>3
  <2>1. transcript \in Looked
      BY <1>3 DEF Transcript, Looked
  <2>2. QED
      BY <1>1, <2>1 DEF TakenInv
<1> HIDE DEF transcript
<1>6. QED
    BY <1>1, <1>2, <1>3, <1>4, <1>5, RemovalKeepsAudit

LEMMA PurgeEndsKeepsAudit ==
    ASSUME AuditInv, PurgeEnds
    PROVE  AuditInv'
<1>1. status \in 0 .. writes /\ copy \in Seq(HistoryLines)
    BY DEF AuditInv, ClockInv
<1>2. /\ Ends("deleted")
      /\ UNCHANGED << disk, folder, past, seen, reached, dated, ready, copy, status, taken, writes >>
    BY DEF PurgeEnds, stored, scanned
<1>3. QED
    BY <1>1, <1>2, EndsKeepsAudit

LEMMA DiesKeepsAudit ==
    ASSUME AuditInv, AuditDies
    PROVE  AuditInv'
<1>1. ClockInv /\ PointInv /\ ForgetInv
    BY DEF AuditInv
<1>2. /\ point' = "dead"
      /\ UNCHANGED << disk, folder, past, seen, reached, dated, ready, copy, status, outcome, taken, writes >>
    BY DEF AuditDies, stored, scanned
<1>3. ClockInv' /\ ScanInv' /\ ReadyInv' /\ TakenInv'
    BY <1>1, <1>2, Aside DEF ClockInv
<1>4. PointInv'
    BY <1>1, <1>2 DEF PointInv, AuditDies, Scanning, Removing
<1>5. ForgetInv'
    BY <1>1, <1>2 DEF ForgetInv, Forgotten, Removing
<1>6. QED
    BY <1>3, <1>4, <1>5 DEF AuditInv

LEMMA StutterKeepsAudit ==
    ASSUME AuditInv, UNCHANGED auditvars
    PROVE  AuditInv'
<1>1. UNCHANGED << disk, folder, past, point, todo, seen, reached, dated, spoilt,
                   ready, copy, status, outcome, taken, writes >>
    BY DEF auditvars
<1>2. ClockInv' /\ PointInv'
    BY <1>1 DEF AuditInv, ClockInv, PointInv
<1>3. ScanInv'
    BY <1>1 DEF AuditInv, ScanInv, Looked, WasRead, Reaches
<1>4. ReadyInv'
  <2>1. Found' = Found /\ \A r : WasFound(r)' <=> WasFound(r)
      BY <1>1 DEF Found, WasFound, Looked
  <2>2. QED
      BY <1>1, <2>1 DEF AuditInv, ReadyInv
<1>5. ForgetInv'
    BY <1>1 DEF AuditInv, ForgetInv, Forgotten
<1>6. TakenInv'
  <2>1. \A t : (LineWent(t)' <=> LineWent(t)) /\ (FileWent(t)' <=> FileWent(t))
      BY <1>1 DEF LineWent, FileWent, Forgotten, Looked
  <2>2. QED
      BY <1>1, <2>1 DEF AuditInv, TakenInv, Transcript
<1>7. QED
    BY <1>2, <1>3, <1>4, <1>5, <1>6 DEF AuditInv

LEMMA AuditStep == AuditInv /\ [AuditNext]_auditvars => AuditInv'
<1> SUFFICES ASSUME AuditInv, [AuditNext]_auditvars
             PROVE  AuditInv'
    OBVIOUS
<1>1. CASE UNCHANGED auditvars
    BY <1>1, StutterKeepsAudit
<1>2. ASSUME NEW f \in Files, ClaudeWrites(f)
      PROVE  AuditInv'
    BY <1>2, WriteKeepsAudit
<1>3. ASSUME NEW s \in Names, ClaudeRemembers(s)
      PROVE  AuditInv'
    BY <1>3, RemembersKeepsAudit
<1>4. CASE List
    BY <1>4, ListKeepsAudit
<1>5. CASE LookAt
    BY <1>5, LookKeepsAudit
<1>6. CASE ReadFile
    BY <1>6, ReadKeepsAudit
<1>7. CASE Ask
    BY <1>7, AskKeepsAudit
<1>8. CASE Check
    BY <1>8, CheckKeepsAudit
<1>9. CASE ForgetLook
    BY <1>9, ForgetLookKeepsAudit
<1>10. CASE ForgetRead
    BY <1>10, ForgetReadKeepsAudit
<1>11. CASE ForgetCompare
    BY <1>11, ForgetCompareKeepsAudit
<1>12. CASE ForgetReplace
    BY <1>12, ForgetReplaceKeepsAudit
<1>13. CASE RemoveFolder
    BY <1>13, RemoveFolderKeepsAudit
<1>14. CASE RemoveTranscript
    BY <1>14, RemoveTranscriptKeepsAudit
<1>15. CASE PurgeEnds
    BY <1>15, PurgeEndsKeepsAudit
<1>16. CASE AuditDies
    BY <1>16, DiesKeepsAudit
<1>17. CASE AuditOver
    BY <1>1, <1>17 DEF AuditOver
<1>18. QED
    BY <1>1, <1>2, <1>3, <1>4, <1>5, <1>6, <1>7, <1>8, <1>9, <1>10, <1>11, <1>12, <1>13,
       <1>14, <1>15, <1>16, <1>17 DEF AuditNext

(* Whatever Claude Code writes between two steps, wherever a call fails or *)
(* the command is killed: what was looked at is told from what came later. *)
THEOREM AuditInvariant == AuditSpec => []AuditInv
<1>1. AuditInit => AuditInv
    BY AuditInitially
<1>2. AuditInv /\ [AuditNext]_auditvars => AuditInv'
    BY AuditStep
<1>3. QED
    BY <1>1, <1>2, PTL DEF AuditSpec

LEMMA SafeIsRead == AuditInv => SafeWasRead
<1> SUFFICES ASSUME AuditInv, point = "look", Verdict = "safe",
                    NEW f \in Files, Of(f) \in dated, seen[f] = disk[f].at,
                    NEW r \in disk[f].holds, Reaches(f, r)
             PROVE  FALSE
    BY DEF SafeWasRead
<1>1. Found = {} /\ ~spoilt
    BY DEF Verdict
<1>2. WasRead(f)
    BY <1>1 DEF AuditInv, ScanInv
<1>3. Of(f) \in Found
    BY <1>2 DEF WasRead, Found
<1>4. QED
    BY <1>1, <1>3

LEMMA PurgeIsSaid == AuditInv => DeletesWhatItSaid
<1> SUFFICES ASSUME AuditInv
             PROVE  DeletesWhatItSaid
    OBVIOUS
<1>1. ClockInv /\ PointInv /\ ScanInv /\ ReadyInv /\ ForgetInv /\ TakenInv
    BY DEF AuditInv
<1>2. \A t \in taken : "file" \in DOMAIN t => FileWent(t)
    BY <1>1 DEF TakenInv, LineWent
<1>3. ASSUME NEW t \in Deleted
      PROVE  /\ seen[t.file] # Unseen /\ t.was <= t.at => t.was = t.seen
             /\ reached[Of(t.file)] # {}
             /\ past.kind # "link"
             /\ \A l \in Range(past.lines) : l.of = Of(t.file) => l.at > 0
  <2>1. t \in taken /\ FileWent(t) /\ t.file \in Files
      BY <1>2, <1>3 DEF Deleted, FileWent
  <2>2. PICK r \in Range(ready) : r.of = Of(t.file) /\ r.at = t.at
      BY <2>1 DEF FileWent
  <2>3. reached[Of(t.file)] # {}
      BY <1>1, <2>2 DEF ReadyInv, WasFound
  <2>4. ready # << >> /\ taken # {}
      BY <2>1, <2>2, NothingThere
  <2>5. \A l \in Range(past.lines) : l.of = Of(t.file) => l.at > 0
      BY <1>1, <2>2, <2>4, ForgottenIs DEF ForgetInv
  <2>6. seen[t.file] # Unseen /\ t.was <= t.at => t.was = t.seen
      BY <2>1 DEF FileWent, Looked
  <2>7. QED
      BY <1>1, <2>3, <2>4, <2>5, <2>6 DEF ForgetInv
<1>4. ASSUME NEW t \in FilesTaken("main")
      PROVE  /\ seen[t.file] # Unseen
             /\ \A f \in Files : Of(f) = Of(t.file) /\ f[2] = "agent" => disk[f].at \notin 0 .. t.at
    BY <1>2, <1>4 DEF FilesTaken, Deleted, FileWent, Looked
<1>5. \A t \in Lines : Forgotten(t.line) \/ t.line.at > t.at
  <2>1. \A t \in taken : "line" \in DOMAIN t => LineWent(t)
      BY <1>1 DEF TakenInv, FileWent
  <2>2. QED
      BY <2>1 DEF Lines, LineWent
<1>6. outcome = "nothing" => taken = {}
    BY <1>1 DEF PointInv
<1>7. QED
    BY <1>3, <1>4, <1>5, <1>6 DEF DeletesWhatItSaid

(* "safe" is true of every file as it was read; a purge removes what the   *)
(* scan had looked at and what it said, a transcript last; and "nothing    *)
(* was deleted" is said only when nothing was (audit, _purge, _forget).    *)
THEOREM AuditIsRight == AuditSpec => []AuditIsExact
<1>1. AuditInv => AuditIsExact
    BY SafeIsRead, PurgeIsSaid DEF AuditIsExact
<1>2. QED
    BY <1>1, AuditInvariant, PTL

-----------------------------------------------------------------------------
(* Configuration.  The empty sequence is the function of nothing.          *)
LEMMA EmptyFunction ==
    /\ DOMAIN << >> = {}
    /\ \A f : f = [x \in DOMAIN f |-> f[x]] /\ DOMAIN f = {} => f = << >>
    /\ << >> = [x \in DOMAIN << >> |-> << >>[x]]
OBVIOUS

(* A sequence without repeats, and one more.                               *)
LEMMA OnceMore ==
    ASSUME NEW T, NEW s \in Seq(T), NEW x \in T, IsInjective(s), x \notin Range(s)
    PROVE  IsInjective(Append(s, x))
<1> DEFINE t == Append(s, x)
<1>1. /\ DOMAIN s = 1..Len(s) /\ DOMAIN t = 1..(Len(s) + 1) /\ Len(s) \in Nat
      /\ t[Len(s) + 1] = x /\ \A i \in 1..Len(s) : t[i] = s[i]
    BY LenProperties, AppendProperties
<1>2. \A i \in 1..Len(s) : s[i] # x
    BY <1>1 DEF Range
<1>3. \A i, j \in 1..Len(s) : s[i] = s[j] => i = j
    BY <1>1 DEF IsInjective
<1> HIDE DEF t
<1>4. ASSUME NEW i \in DOMAIN t, NEW j \in DOMAIN t, t[i] = t[j]
      PROVE  i = j
  <2>1. CASE i \in 1..Len(s) /\ j \in 1..Len(s)
      BY <1>1, <1>3, <1>4, <2>1
  <2>2. CASE i = Len(s) + 1 /\ j = Len(s) + 1
      BY <2>2
  <2>3. CASE i \in 1..Len(s) /\ j = Len(s) + 1
      BY <1>1, <1>2, <1>4, <2>3
  <2>4. CASE i = Len(s) + 1 /\ j \in 1..Len(s)
      BY <1>1, <1>2, <1>4, <2>4
  <2>5. QED
      BY <1>1, <2>1, <2>2, <2>3, <2>4
<1>5. QED
    BY <1>4 DEF IsInjective, t

LEMMA OnceBefore ==
    ASSUME NEW T, NEW s \in Seq(T), NEW x \in T, NEW t, t = Append(s, x), IsInjective(t)
    PROVE  IsInjective(s) /\ x \notin Range(s)
<1>1. /\ DOMAIN s = 1..Len(s) /\ DOMAIN t = 1..(Len(s) + 1) /\ Len(s) \in Nat
      /\ t[Len(s) + 1] = x /\ \A i \in 1..Len(s) : t[i] = s[i]
    BY LenProperties, AppendProperties
<1>2. \A i, j \in DOMAIN t : t[i] = t[j] => i = j
    BY DEF IsInjective
<1>3. IsInjective(s)
    BY <1>1, <1>2 DEF IsInjective
<1>4. \A i \in DOMAIN s : s[i] # x
  <2>1. \A i \in DOMAIN s : i \in DOMAIN t /\ Len(s) + 1 \in DOMAIN t /\ t[i] = s[i] /\ i # Len(s) + 1
      BY <1>1
  <2>2. QED
      BY <1>1, <1>2, <2>1
<1>5. QED
    BY <1>3, <1>4 DEF Range

LEMMA WithoutInjective ==
    ASSUME NEW T, NEW S
    PROVE  \A s \in Seq(T) : IsInjective(s) => IsInjective(Without(s, S))
<1> DEFINE I == {s \in Seq(T) : IsInjective(s) => IsInjective(Without(s, S))}
<1>1. << >> \in I
    BY WithoutEmpty, EmptySeq DEF IsInjective
<1>2. ASSUME NEW s \in Seq(T), NEW x \in T, s \in I
      PROVE  Append(s, x) \in I
  <2>1. Append(s, x) \in Seq(T)
      BY AppendProperties
  <2>2. SUFFICES ASSUME IsInjective(Append(s, x))
                 PROVE  IsInjective(Without(Append(s, x), S))
      BY <2>1
  <2>3. IsInjective(Without(s, S)) /\ x \notin Range(s)
      BY <1>2, <2>2, OnceBefore DEF IsInjective
  <2>4. Without(s, S) \in Seq(T \ S) /\ Range(Without(s, S)) = Range(s) \ S
      BY WithoutRest, WithoutRange
  <2>5. CASE x \in S
      BY <2>3, <2>5, WithoutAppend
  <2>6. CASE x \notin S
    <3>1. IsInjective(Append(Without(s, S), x))
        BY <2>3, <2>4, <2>6, OnceMore
    <3>2. QED
        BY <2>6, <3>1, WithoutAppend DEF IsInjective
  <2>7. QED
      BY <2>5, <2>6
<1> HIDE DEF I
<1>3. Seq(T) \subseteq I
    BY <1>1, <1>2, AllSequences
<1>4. QED
    BY <1>3 DEF I

(* A list in the order of the catalog: each of what was chosen, once.      *)
LEMMA OrderedIs ==
    ASSUME NEW T, NEW order \in Seq(T), NEW chosen, chosen \subseteq Range(order), IsInjective(order)
    PROVE  /\ Ordered(chosen, order) \in Seq(T) /\ Range(Ordered(chosen, order)) = chosen
           /\ IsInjective(Ordered(chosen, order))
<1>1. Ordered(chosen, order) \in Seq(T \ (Range(order) \ chosen))
    BY WithoutRest DEF Ordered
<1>2. Range(Ordered(chosen, order)) = Range(order) \ (Range(order) \ chosen)
    BY WithoutRange DEF Ordered
<1>3. IsInjective(Ordered(chosen, order))
    BY WithoutInjective DEF Ordered
<1>4. QED
    BY <1>1, <1>2, <1>3

LEMMA TransformsAre ==
    /\ \E T : TRANSFORMS \in Seq(T)
    /\ IsInjective(TRANSFORMS) /\ Range(TRANSFORMS) = {"json", "html", "whitespace"}
    /\ Yes # No /\ Range(Yes) = {"true"} /\ Range(No) = {"false"}
<1> DEFINE T == {"json", "html", "whitespace"}
<1>1. TRANSFORMS \in Seq(T)
    BY DEF TRANSFORMS
<1>2. /\ DOMAIN TRANSFORMS = {1, 2, 3} /\ TRANSFORMS[1] = "json" /\ TRANSFORMS[2] = "html"
      /\ TRANSFORMS[3] = "whitespace"
    BY DEF TRANSFORMS
<1>3. IsInjective(TRANSFORMS)
    BY <1>2 DEF IsInjective
<1>4. Range(TRANSFORMS) = T
    BY <1>2 DEF Range
<1>5. DOMAIN Yes = {1} /\ Yes[1] = "true" /\ DOMAIN No = {1} /\ No[1] = "false"
    BY DEF Yes, No
<1>6. Range(Yes) = {"true"} /\ Range(No) = {"false"}
    BY <1>5 DEF Range
<1>7. QED
    BY <1>1, <1>3, <1>4, <1>5, <1>6

LEMMA SettingsAre ==
    ASSUME NEW enabled, NEW modes, NEW tools, NEW led, NEW diet, NEW custom, NEW tails, NEW markers,
           enabled \subseteq Range(EntityTypes),
           \A key \in DOMAIN modes : modes[key] \in MODES /\ (key \in OBSERVE_ONLY => modes[key] = "observe"),
           tools \in [DOMAIN tools -> SUBSET Range(EntityTypes)],
           led \in BOOLEAN, diet \subseteq Range(TRANSFORMS), custom \in Seq(CustomEntries), Compiles(custom),
           IsReveal(tails), tails = [t \in DOMAIN tails |-> tails[t]], markers \in {"report", "note"}
    PROVE  IsSettings([enabled |-> enabled, modes |-> modes, tools |-> tools, ledger |-> led, diet |-> diet,
                       custom |-> custom, reveal |-> tails, markers |-> markers])
<1> DEFINE p == [enabled |-> enabled, modes |-> modes, tools |-> tools, ledger |-> led, diet |-> diet,
                 custom |-> custom, reveal |-> tails, markers |-> markers]
<1>1. /\ p.enabled = enabled /\ p.modes = modes /\ p.tools = tools /\ p.ledger = led /\ p.diet = diet
      /\ p.custom = custom /\ p.reveal = tails /\ p.markers = markers
    OBVIOUS
<1>2. p = [enabled |-> p.enabled, modes |-> p.modes, tools |-> p.tools, ledger |-> p.ledger, diet |-> p.diet,
           custom |-> p.custom, reveal |-> p.reveal, markers |-> p.markers]
    BY <1>1
<1> HIDE DEF p
<1>3. Compiles(p.custom) /\ IsReveal(p.reveal)
    BY <1>1
<1>4. p.reveal = [t \in DOMAIN p.reveal |-> p.reveal[t]]
    BY <1>1
<1>5. p.tools \in [DOMAIN p.tools -> SUBSET Range(EntityTypes)]
    BY <1>1
<1>6. \A key \in DOMAIN p.modes :
          p.modes[key] \in MODES /\ (key \in OBSERVE_ONLY => p.modes[key] = "observe")
    BY <1>1
<1>7. IsSettings(p)
    BY <1>1, <1>2, <1>3, <1>4, <1>5, <1>6 DEF IsSettings
<1>8. QED
    BY <1>7 DEF p

(* The settings as shipped. *)
LEMMA ShippedAreSettings == IsSettings(Defaults)
<1>1. DOMAIN << >> = {} /\ << >> = [x \in DOMAIN << >> |-> << >>[x]] /\ Range(<< >>) = {}
    BY EmptyFunction, NothingThere
<1>2. Compiles(<< >>)
  <2>1. Len(<< >>) = 0 /\ 0 <= MaxCustom
      BY EmptySeq, ConfigurationAssumption
  <2>2. QED
      BY <1>1, <2>1 DEF Compiles
<1>3. IsReveal(<< >>)
    BY <1>1 DEF IsReveal
<1>4. << >> \in [DOMAIN << >> -> SUBSET Range(EntityTypes)]
    BY <1>1
<1>5. {"json"} \subseteq Range(TRANSFORMS) /\ << >> \in Seq(CustomEntries)
    BY TransformsAre, EmptySeq
<1>6. QED
    BY <1>1, <1>2, <1>3, <1>4, <1>5, SettingsAre DEF Defaults

(* What parse_settings makes of a file it takes.                           *)
LEMMA ParsedAreSettings ==
    ASSUME NEW document, IsDocument(document), Parses(document)
    PROVE  IsSettings(Parsed(document))
<1> DEFINE modes == At(document, "mode", << >>)
           tools == At(document, "entities", << >>)
           diet == At(document, "diet", Yes)
           custom == At(document, "custom", << >>)
           tails == At(document, "reveal", << >>)
           markers == At(document, "markers", "report")
           enabled == IF "enabled_entities" \in DOMAIN document THEN Range(document.enabled_entities)
                      ELSE Defaults.enabled
           sets == [tool \in DOMAIN tools |-> Range(tools[tool])]
           led == At(document, "ledger", "off") = "on"
<1>1. \A key \in DOMAIN modes : modes[key] \in MODES /\ (key \in OBSERVE_ONLY => modes[key] = "observe")
    BY DEF Parses
<1>2. Compiles(custom) /\ IsReveal(tails) /\ markers \in {"report", "note"}
    BY DEF Parses
<1>3. custom \in Seq(CustomEntries) /\ tails = [t \in DOMAIN tails |-> tails[t]]
    BY DEF IsDocument
<1>4. enabled \subseteq Range(EntityTypes)
  <2>1. AreEntities(At(document, "enabled_entities", << >>))
      BY DEF Parses
  <2>2. QED
      BY <2>1 DEF AreEntities, At, Defaults
<1>5. \A tool \in DOMAIN tools : Range(tools[tool]) \subseteq Range(EntityTypes)
    BY DEF Parses, AreEntities
<1> HIDE DEF modes, tools, custom, tails, markers, enabled
<1>6. sets \in [DOMAIN sets -> SUBSET Range(EntityTypes)]
    BY <1>5
<1>7. DietOf(diet) \subseteq Range(TRANSFORMS)
  <2>1. diet \in {Yes, No} \/ Range(diet) \subseteq Range(TRANSFORMS)
      BY DEF Parses
  <2> HIDE DEF diet
  <2>2. QED
      BY <2>1, TransformsAre DEF DietOf
<1>8. led \in BOOLEAN
    OBVIOUS
<1>9. Parsed(document) = [enabled |-> enabled, modes |-> modes, tools |-> sets, ledger |-> led,
                          diet |-> DietOf(diet), custom |-> custom, reveal |-> tails, markers |-> markers]
    BY DEF Parsed, modes, tools, custom, tails, markers, enabled
<1> HIDE DEF sets, led, diet
<1>10. QED
    BY <1>1, <1>2, <1>3, <1>4, <1>6, <1>7, <1>8, <1>9, SettingsAre

(* What a hook finds in a file render_settings wrote, key by key.          *)
LEMMA RenderedHolds ==
    ASSUME NEW policy, IsSettings(policy), NEW document, document = RenderSettings(policy)
    PROVE  /\ DOMAIN document = Sections(policy)
           /\ "enabled_entities" \in DOMAIN document
           /\ At(document, "enabled_entities", << >>) = Ordered(policy.enabled, EntityTypes)
           /\ document.enabled_entities = Ordered(policy.enabled, EntityTypes)
           /\ At(document, "mode", << >>) = policy.modes
           /\ At(document, "entities", << >>) =
                  [tool \in DOMAIN policy.tools |-> Ordered(policy.tools[tool], EntityTypes)]
           /\ At(document, "ledger", "off") = IF policy.ledger THEN "on" ELSE "off"
           /\ At(document, "diet", Yes) =
                  IF policy.diet = {"json"} THEN Yes
                  ELSE IF policy.diet = {} THEN No ELSE Ordered(policy.diet, TRANSFORMS)
           /\ At(document, "custom", << >>) = policy.custom
           /\ At(document, "reveal", << >>) = policy.reveal
           /\ At(document, "markers", "report") = policy.markers
<1> DEFINE enabled == Ordered(policy.enabled, EntityTypes)
           diet == IF policy.diet = {} THEN No ELSE Ordered(policy.diet, TRANSFORMS)
           tools == [tool \in DOMAIN policy.tools |-> Ordered(policy.tools[tool], EntityTypes)]
           text == [enabled_entities |-> enabled, ledger |-> "on", diet |-> diet, entities |-> tools,
                    mode |-> policy.modes, custom |-> policy.custom, reveal |-> policy.reveal,
                    markers |-> policy.markers]
<1>1. document = [section \in Sections(policy) |-> text[section]]
    BY DEF RenderSettings
<1>2. /\ text["enabled_entities"] = enabled /\ text["ledger"] = "on" /\ text["diet"] = diet
      /\ text["entities"] = tools /\ text["mode"] = policy.modes /\ text["custom"] = policy.custom
      /\ text["reveal"] = policy.reveal /\ text["markers"] = policy.markers
    OBVIOUS
<1> HIDE DEF text, tools, diet, enabled
<1>3. DOMAIN document = Sections(policy) /\ \A section \in Sections(policy) : document[section] = text[section]
    BY <1>1
<1>4. /\ "enabled_entities" \in Sections(policy)
      /\ "ledger" \in Sections(policy) <=> policy.ledger
      /\ "diet" \in Sections(policy) <=> policy.diet # {"json"}
      /\ "entities" \in Sections(policy) <=> policy.tools # << >>
      /\ "mode" \in Sections(policy) <=> policy.modes # << >>
      /\ "custom" \in Sections(policy) <=> policy.custom # << >>
      /\ "reveal" \in Sections(policy) <=> policy.reveal # << >>
      /\ "markers" \in Sections(policy) <=> policy.markers = "note"
    BY DEF Sections, IsWritten
<1>5. policy.tools = << >> => tools = << >>
    BY EmptyFunction DEF tools
<1>6. policy.markers \in {"report", "note"}
    BY DEF IsSettings
<1>7. At(document, "enabled_entities", << >>) = enabled /\ document.enabled_entities = enabled
    BY <1>2, <1>3, <1>4 DEF At
<1>8. At(document, "mode", << >>) = policy.modes
    BY <1>2, <1>3, <1>4 DEF At
<1>9. At(document, "entities", << >>) = tools
    BY <1>2, <1>3, <1>4, <1>5 DEF At
<1>10. At(document, "ledger", "off") = IF policy.ledger THEN "on" ELSE "off"
    BY <1>2, <1>3, <1>4 DEF At
<1>11. At(document, "diet", Yes) = IF policy.diet = {"json"} THEN Yes ELSE diet
    BY <1>2, <1>3, <1>4 DEF At
<1>12. At(document, "custom", << >>) = policy.custom
    BY <1>2, <1>3, <1>4 DEF At
<1>13. At(document, "reveal", << >>) = policy.reveal
    BY <1>2, <1>3, <1>4 DEF At
<1>14. At(document, "markers", "report") = policy.markers
    BY <1>2, <1>3, <1>4, <1>6 DEF At
<1>15. QED
    BY <1>3, <1>4, <1>7, <1>8, <1>9, <1>10, <1>11, <1>12, <1>13, <1>14 DEF tools, enabled, diet

(* A list of entities as it is written, and read.                          *)
LEMMA EntitiesAsWritten ==
    ASSUME NEW chosen, chosen \subseteq Range(EntityTypes)
    PROVE  /\ AreEntities(Ordered(chosen, EntityTypes))
           /\ Range(Ordered(chosen, EntityTypes)) = chosen
BY OrderedIs, ConfigurationAssumption DEF AreEntities

(* parse_settings takes what render_settings wrote, and makes the same of  *)
(* it.                                                                     *)
LEMMA RenderedIsParsed ==
    ASSUME NEW policy, IsSettings(policy), NEW document, document = RenderSettings(policy)
    PROVE  IsDocument(document) /\ Parses(document) /\ Parsed(document) = policy
<1> DEFINE modes == At(document, "mode", << >>)
           tools == At(document, "entities", << >>)
           diet == At(document, "diet", Yes)
           custom == At(document, "custom", << >>)
           tails == At(document, "reveal", << >>)
           markers == At(document, "markers", "report")
           led == At(document, "ledger", "off")
           listed == At(document, "enabled_entities", << >>)
<1>1. /\ DOMAIN document = Sections(policy) /\ "enabled_entities" \in DOMAIN document
      /\ listed = Ordered(policy.enabled, EntityTypes) /\ document.enabled_entities = listed
      /\ modes = policy.modes /\ custom = policy.custom /\ tails = policy.reveal /\ markers = policy.markers
      /\ tools = [tool \in DOMAIN policy.tools |-> Ordered(policy.tools[tool], EntityTypes)]
      /\ led = IF policy.ledger THEN "on" ELSE "off"
      /\ diet = IF policy.diet = {"json"} THEN Yes
                ELSE IF policy.diet = {} THEN No ELSE Ordered(policy.diet, TRANSFORMS)
    BY RenderedHolds
<1>2. /\ policy = [enabled |-> policy.enabled, modes |-> policy.modes, tools |-> policy.tools,
                   ledger |-> policy.ledger, diet |-> policy.diet, custom |-> policy.custom,
                   reveal |-> policy.reveal, markers |-> policy.markers]
      /\ policy.enabled \subseteq Range(EntityTypes)
      /\ policy.tools \in [DOMAIN policy.tools -> SUBSET Range(EntityTypes)]
      /\ policy.ledger \in BOOLEAN /\ policy.diet \subseteq Range(TRANSFORMS)
      /\ policy.custom \in Seq(CustomEntries) /\ Compiles(policy.custom)
      /\ IsReveal(policy.reveal) /\ policy.reveal = [t \in DOMAIN policy.reveal |-> policy.reveal[t]]
      /\ policy.markers \in {"report", "note"}
    BY DEF IsSettings
<1>3. \A key \in DOMAIN policy.modes :
          policy.modes[key] \in MODES /\ (key \in OBSERVE_ONLY => policy.modes[key] = "observe")
    BY DEF IsSettings
<1>4. AreEntities(listed) /\ Range(listed) = policy.enabled
    BY <1>1, <1>2, EntitiesAsWritten
<1>5. DOMAIN tools = DOMAIN policy.tools /\ \A tool \in DOMAIN tools :
          tools[tool] = Ordered(policy.tools[tool], EntityTypes) /\ policy.tools[tool] \subseteq Range(EntityTypes)
    BY <1>1, <1>2
<1>6. \A tool \in DOMAIN tools : AreEntities(tools[tool]) /\ Range(tools[tool]) = policy.tools[tool]
    BY <1>5, EntitiesAsWritten
<1>7. [tool \in DOMAIN tools |-> Range(tools[tool])] = policy.tools
    BY <1>2, <1>5, <1>6
<1>8. /\ diet \in {Yes, No} \/ Range(diet) \subseteq Range(TRANSFORMS)
      /\ DietOf(diet) = policy.diet
  <2>1. CASE policy.diet = {"json"}
      BY <1>1, <2>1 DEF DietOf
  <2>2. CASE policy.diet = {}
      BY <1>1, <2>2, TransformsAre DEF DietOf
  <2>3. CASE policy.diet # {"json"} /\ policy.diet # {}
    <3>1. Range(diet) = policy.diet
      <4>1. diet = Ordered(policy.diet, TRANSFORMS)
          BY <1>1, <2>3
      <4>2. PICK T : TRANSFORMS \in Seq(T)
          BY TransformsAre
      <4> HIDE DEF diet
      <4>3. QED
          BY <1>2, <4>1, <4>2, TransformsAre, OrderedIs
    <3>2. "true" \notin policy.diet /\ "false" \notin policy.diet
        BY <1>2, TransformsAre
    <3>3. diet # Yes /\ diet # No
        BY <3>1, <3>2, TransformsAre
    <3>4. QED
        BY <1>2, <3>1, <3>3 DEF DietOf
  <2>4. QED
      BY <2>1, <2>2, <2>3
<1>9. DOMAIN document \subseteq
          {"enabled_entities", "mode", "entities", "ledger", "diet", "custom", "reveal", "markers"}
    BY <1>1 DEF Sections
<1>10. led \in {"on", "off"} /\ (led = "on") = policy.ledger
    BY <1>1, <1>2
<1> HIDE DEF modes, tools, diet, custom, tails, markers, led, listed
<1>11. IsDocument(document)
    BY <1>1, <1>2 DEF IsDocument, custom, tails
<1>12. Compiles(custom) /\ IsReveal(tails) /\ markers \in {"report", "note"}
    BY <1>1, <1>2
<1>13. \A key \in DOMAIN modes : modes[key] \in MODES /\ (key \in OBSERVE_ONLY => modes[key] = "observe")
    BY <1>1, <1>3
<1>14. Parses(document)
    BY <1>4, <1>6, <1>8, <1>9, <1>10, <1>12, <1>13 DEF Parses, modes, tools, diet, custom, tails, markers, led, listed
<1>15. Parsed(document) =
           [enabled |-> Range(listed), modes |-> modes, tools |-> [tool \in DOMAIN tools |-> Range(tools[tool])],
            ledger |-> led = "on", diet |-> DietOf(diet), custom |-> custom, reveal |-> tails, markers |-> markers]
    BY <1>1 DEF Parsed, modes, tools, diet, custom, tails, markers, led
<1>16. Parsed(document) = policy
    BY <1>1, <1>2, <1>4, <1>7, <1>8, <1>10, <1>15
<1>17. QED
    BY <1>11, <1>14, <1>16

(* _with_custom, an entry at a time: as Without, above.                    *)
Adds(custom, added, f) ==
    f = [n \in 0..Len(added) |->
            IF n = 0 THEN custom ELSE Append(Without(f[n - 1], Named({added[n].name})), added[n])]

LEMMA AddsChosen ==
    ASSUME NEW custom, NEW added
    PROVE  WithAdded(custom, added) = (CHOOSE f : Adds(custom, added, f))[Len(added)]
BY DEF WithAdded, Adds

LEMMA AddsAgree ==
    ASSUME NEW T, NEW s \in Seq(T), NEW t \in Seq(T), NEW custom, NEW f, NEW g,
           Adds(custom, s, f), Adds(custom, t, g), Len(s) <= Len(t),
           \A i \in 1..Len(s) : s[i] = t[i]
    PROVE  f[Len(s)] = g[Len(s)]
<1> DEFINE m == Len(s)
           n == Len(t)
           odd == {i \in 0..m : f[i] # g[i]}
<1>1. m \in Nat /\ n \in Nat /\ m <= n
    BY LenProperties
<1>2. \A i \in 0..m : f[i] = IF i = 0 THEN custom ELSE Append(Without(f[i - 1], Named({s[i].name})), s[i])
    BY DEF Adds
<1>3. \A i \in 0..n : g[i] = IF i = 0 THEN custom ELSE Append(Without(g[i - 1], Named({t[i].name})), t[i])
    BY DEF Adds
<1>4. SUFFICES ASSUME odd # {}
               PROVE  FALSE
    BY <1>1
<1>5. PICK x \in odd : \A y \in odd : x <= y
  <2>1. odd \subseteq Nat
      BY <1>1
  <2> HIDE DEF odd
  <2>2. QED
      BY <1>4, <2>1, LeastOf
<1>6. x \in 0..m /\ x \in 0..n /\ f[x] # g[x]
    BY <1>1
<1> HIDE DEF m, n
<1>7. x # 0
    BY <1>2, <1>3, <1>6
<1>8. x - 1 \in 0..m /\ x - 1 < x
    BY <1>1, <1>6, <1>7
<1>9. f[x - 1] = g[x - 1]
  <2>1. x - 1 \notin odd
    <3>1. x \in Nat
        BY <1>1, <1>6
    <3> HIDE DEF odd
    <3>2. QED
        BY <1>5, <1>8, <3>1
  <2>2. QED
      BY <1>8, <2>1
<1>10. s[x] = t[x]
    BY <1>1, <1>6, <1>7 DEF m
<1>11. QED
    BY <1>2, <1>3, <1>6, <1>7, <1>9, <1>10

LEMMA AddsLonger ==
    ASSUME NEW T, NEW s \in Seq(T), NEW x \in T, NEW custom, NEW f, Adds(custom, s, f)
    PROVE  \E g : Adds(custom, Append(s, x), g)
<1> DEFINE m == Len(s)
           t == Append(s, x)
           last == Append(Without(f[m], Named({x.name})), x)
           g == [n \in 0..(m + 1) |-> IF n = m + 1 THEN last ELSE f[n]]
<1>1. m \in Nat /\ Len(t) = m + 1 /\ t[m + 1] = x /\ \A i \in 1..m : t[i] = s[i]
    BY LenProperties, AppendProperties
<1>2. \A n \in 0..m : f[n] = IF n = 0 THEN custom ELSE Append(Without(f[n - 1], Named({s[n].name})), s[n])
    BY DEF Adds
<1> DEFINE entry(n) == IF n = 0 THEN custom ELSE Append(Without(g[n - 1], Named({t[n].name})), t[n])
<1> HIDE DEF m, t
<1>3. \A n \in 0..m : g[n] = f[n]
    BY <1>1
<1>4. g[m + 1] = last /\ \A n \in 1..(m + 1) : n - 1 \in 0..m
    BY <1>1
<1>5. ASSUME NEW n \in 0..(m + 1)
      PROVE  g[n] = entry(n)
  <2>1. CASE n = m + 1
    <3>1. n # 0 /\ n - 1 = m /\ t[n] = x /\ g[n - 1] = f[m]
        BY <1>1, <1>3, <2>1
    <3>2. g[n] = last
        BY <1>4, <2>1
    <3> HIDE DEF g
    <3>3. QED
        BY <3>1, <3>2
  <2>2. CASE n = 0
    <3>1. n \in 0..m /\ g[n] = f[n]
        BY <1>1, <1>3, <2>2
    <3> HIDE DEF g
    <3>2. QED
        BY <1>2, <2>2, <3>1
  <2>3. CASE n \in 1..m
    <3>1. n - 1 \in 0..m /\ n \in 0..m /\ n # 0
        BY <1>1, <2>3
    <3>2. g[n] = f[n] /\ g[n - 1] = f[n - 1]
        BY <1>3, <3>1
    <3>3. t[n] = s[n]
        BY <1>1, <2>3
    <3> HIDE DEF g
    <3>4. QED
        BY <1>2, <3>1, <3>2, <3>3
  <2>4. QED
      BY <1>1, <2>1, <2>2, <2>3
<1>6. g = [n \in 0..(m + 1) |-> entry(n)]
    BY <1>5
<1>7. Adds(custom, t, g)
  <2> HIDE DEF g
  <2> QED
      BY <1>1, <1>6 DEF Adds
<1>8. QED
    BY <1>7 DEF t

LEMMA AddsExist ==
    ASSUME NEW T, NEW custom
    PROVE  \A s \in Seq(T) : \E f : Adds(custom, s, f)
<1> DEFINE I == {s \in Seq(T) : \E f : Adds(custom, s, f)}
<1>1. << >> \in I
  <2> DEFINE f == [n \in 0..Len(<< >>) |-> custom]
  <2>1. << >> \in Seq(T) /\ Len(<< >>) = 0
      BY EmptySeq
  <2>2. f = [n \in 0..0 |-> custom]
      BY <2>1
  <2>3. Adds(custom, << >>, f)
      BY <2>1, <2>2 DEF Adds
  <2>4. QED
      BY <2>1, <2>3
<1>2. \A s \in Seq(T), x \in T : s \in I => Append(s, x) \in I
    BY AddsLonger, AppendProperties
<1> HIDE DEF I
<1>3. Seq(T) \subseteq I
    BY <1>1, <1>2, AllSequences
<1>4. QED
    BY <1>3 DEF I

LEMMA NothingAdded ==
    ASSUME NEW custom
    PROVE  WithAdded(custom, << >>) = custom
<1>1. << >> \in Seq({0}) /\ Len(<< >>) = 0
    BY EmptySeq
<1>2. PICK f : f = (CHOOSE g : Adds(custom, << >>, g)) /\ Adds(custom, << >>, f)
    BY <1>1, AddsExist
<1>3. f[0] = custom
    BY <1>1, <1>2 DEF Adds
<1>4. QED
    BY <1>1, <1>2, <1>3, AddsChosen

LEMMA OneAdded ==
    ASSUME NEW custom, NEW s \in Seq(CustomEntries), NEW x \in CustomEntries
    PROVE  WithAdded(custom, Append(s, x)) = Append(Without(WithAdded(custom, s), Named({x.name})), x)
<1> DEFINE t == Append(s, x)
           m == Len(s)
<1>1. PICK f : f = (CHOOSE h : Adds(custom, s, h)) /\ Adds(custom, s, f)
    BY AddsExist
<1>2. /\ t \in Seq(CustomEntries) /\ Len(t) = m + 1 /\ m \in Nat
      /\ t[m + 1] = x /\ \A i \in 1..m : t[i] = s[i]
    BY AppendProperties, LenProperties
<1>3. PICK g : g = (CHOOSE h : Adds(custom, t, h)) /\ Adds(custom, t, g)
    BY <1>2, AddsExist
<1>4. f[m] = g[m]
  <2> HIDE DEF t
  <2>1. m <= Len(t)
      BY <1>2
  <2>2. QED
      BY <1>1, <1>2, <1>3, <2>1, AddsAgree
<1>5. WithAdded(custom, s) = f[m] /\ WithAdded(custom, t) = g[m + 1]
    BY <1>1, <1>2, <1>3, AddsChosen
<1> HIDE DEF t, m
<1>6. g[m + 1] = Append(Without(g[m], Named({x.name})), x)
  <2>1. g = [n \in 0..(m + 1) |-> IF n = 0 THEN custom ELSE Append(Without(g[n - 1], Named({t[n].name})), t[n])]
      BY <1>2, <1>3 DEF Adds
  <2>2. m + 1 \in 0..(m + 1) /\ m + 1 # 0 /\ (m + 1) - 1 = m
      BY <1>2
  <2>3. g[m + 1] = Append(Without(g[(m + 1) - 1], Named({t[m + 1].name})), t[m + 1])
      BY <2>1, <2>2
  <2>4. QED
      BY <1>2, <2>2, <2>3
<1>7. QED
    BY <1>4, <1>5, <1>6 DEF t

(* The entries with their names: in the file and in what is added.         *)
NamesOf(s) == {e.name : e \in Range(s)}

LEMMA AddedStay ==
    ASSUME NEW custom \in Seq(CustomEntries)
    PROVE  \A added \in Seq(CustomEntries) :
               /\ WithAdded(custom, added) \in Seq(CustomEntries)
               /\ Range(WithAdded(custom, added)) \subseteq Range(custom) \cup Range(added)
<1> DEFINE I == {s \in Seq(CustomEntries) :
                     /\ WithAdded(custom, s) \in Seq(CustomEntries)
                     /\ Range(WithAdded(custom, s)) \subseteq Range(custom) \cup Range(s)}
<1>1. << >> \in I
    BY EmptySeq, NothingAdded
<1>2. ASSUME NEW s \in Seq(CustomEntries), NEW x \in CustomEntries, s \in I
      PROVE  Append(s, x) \in I
  <2> DEFINE was == WithAdded(custom, s)
             left == Without(was, Named({x.name}))
  <2>1. was \in Seq(CustomEntries) /\ Range(was) \subseteq Range(custom) \cup Range(s)
      BY <1>2
  <2> HIDE DEF was
  <2>2. left \in Seq(CustomEntries \ Named({x.name})) /\ Range(left) = Range(was) \ Named({x.name})
      BY <2>1, WithoutRest, WithoutRange
  <2> HIDE DEF left
  <2>3. left \in Seq(CustomEntries)
      BY <2>2, SeqMonotonic
  <2>4. WithAdded(custom, Append(s, x)) = Append(left, x)
      BY OneAdded DEF was, left
  <2>5. /\ Append(left, x) \in Seq(CustomEntries) /\ Range(Append(left, x)) = Range(left) \cup {x}
        /\ Append(s, x) \in Seq(CustomEntries) /\ Range(Append(s, x)) = Range(s) \cup {x}
      BY <2>3, RangeAppend, AppendProperties
  <2>6. QED
      BY <2>1, <2>2, <2>4, <2>5
<1> HIDE DEF I
<1>3. Seq(CustomEntries) \subseteq I
    BY <1>1, <1>2, AllSequences
<1>4. QED
    BY <1>3 DEF I

(* What has another name stays, in its order.                              *)
LEMMA OthersNotTouched ==
    ASSUME NEW custom \in Seq(CustomEntries), NEW touched
    PROVE  \A added \in Seq(CustomEntries) :
               NamesOf(added) \subseteq touched =>
                   Without(WithAdded(custom, added), Named(touched)) = Without(custom, Named(touched))
<1> DEFINE T == Named(touched)
           I == {s \in Seq(CustomEntries) :
                     NamesOf(s) \subseteq touched => Without(WithAdded(custom, s), T) = Without(custom, T)}
<1>1. << >> \in I
    BY EmptySeq, NothingAdded
<1>2. ASSUME NEW s \in Seq(CustomEntries), NEW x \in CustomEntries, s \in I
      PROVE  Append(s, x) \in I
  <2> DEFINE was == WithAdded(custom, s)
             left == Without(was, Named({x.name}))
  <2>1. Append(s, x) \in Seq(CustomEntries) /\ Range(Append(s, x)) = Range(s) \cup {x}
      BY RangeAppend, AppendProperties
  <2>2. SUFFICES ASSUME NamesOf(Append(s, x)) \subseteq touched
                 PROVE  Without(WithAdded(custom, Append(s, x)), T) = Without(custom, T)
      BY <2>1
  <2>3. NamesOf(s) \subseteq touched /\ x.name \in touched
      BY <2>1, <2>2 DEF NamesOf
  <2>4. Without(was, T) = Without(custom, T)
      BY <1>2, <2>3
  <2>5. was \in Seq(CustomEntries)
      BY AddedStay
  <2>6. x \in T /\ Named({x.name}) \cup T = T
      BY <2>3 DEF Named
  <2> HIDE DEF was, T
  <2>7. left \in Seq(CustomEntries \ Named({x.name}))
      BY <2>5, WithoutRest
  <2>8. Without(left, T) = Without(was, T)
    <3>1. \A S, R : \A u \in Seq(CustomEntries) : Without(Without(u, S), R) = Without(u, S \cup R)
        BY WithoutBoth
    <3>2. Without(Without(was, Named({x.name})), T) = Without(was, Named({x.name}) \cup T)
        BY <2>5, <3>1
    <3>3. QED
        BY <2>6, <3>2
  <2> HIDE DEF left
  <2>9. left \in Seq(CustomEntries)
      BY <2>7, SeqMonotonic
  <2>10. Without(Append(left, x), T) = Without(left, T)
      BY <2>6, <2>9, WithoutAppend
  <2>11. WithAdded(custom, Append(s, x)) = Append(left, x)
      BY OneAdded DEF was, left
  <2>12. QED
      BY <2>4, <2>8, <2>10, <2>11
<1> HIDE DEF I
<1>3. Seq(CustomEntries) \subseteq I
    BY <1>1, <1>2, AllSequences
<1>4. QED
    BY <1>3 DEF I

(* The last entry of a name is there.                                      *)
LEMMA LastIsThere ==
    ASSUME NEW custom \in Seq(CustomEntries)
    PROVE  \A added \in Seq(CustomEntries) : \A i \in DOMAIN added :
               (\A j \in DOMAIN added : j > i => added[j].name # added[i].name)
                   => added[i] \in Range(WithAdded(custom, added))
<1> DEFINE IsLast(s, i) == \A j \in DOMAIN s : j > i => s[j].name # s[i].name
           I == {s \in Seq(CustomEntries) : \A i \in DOMAIN s : IsLast(s, i) => s[i] \in Range(WithAdded(custom, s))}
<1>1. << >> \in I
    BY EmptySeq, EmptyFunction
<1>2. ASSUME NEW s \in Seq(CustomEntries), NEW x \in CustomEntries, s \in I
      PROVE  Append(s, x) \in I
  <2> DEFINE was == WithAdded(custom, s)
             left == Without(was, Named({x.name}))
             t == Append(s, x)
             m == Len(s)
  <2>1. /\ t \in Seq(CustomEntries) /\ m \in Nat /\ DOMAIN s = 1..m /\ DOMAIN t = 1..(m + 1)
        /\ t[m + 1] = x /\ \A i \in 1..m : t[i] = s[i]
      BY AppendProperties, LenProperties
  <2>2. was \in Seq(CustomEntries)
      BY AddedStay
  <2>3. \A i \in DOMAIN s : IsLast(s, i) => s[i] \in Range(was)
      BY <1>2
  <2>4. WithAdded(custom, t) = Append(left, x)
      BY OneAdded
  <2> HIDE DEF was, t
  <2>5. left \in Seq(CustomEntries \ Named({x.name})) /\ Range(left) = Range(was) \ Named({x.name})
      BY <2>2, WithoutRest, WithoutRange
  <2> HIDE DEF left
  <2>6. left \in Seq(CustomEntries)
      BY <2>5, SeqMonotonic
  <2>7. Range(WithAdded(custom, t)) = Range(left) \cup {x}
      BY <2>4, <2>6, RangeAppend
  <2> HIDE DEF m
  <2>8. ASSUME NEW i \in DOMAIN t, IsLast(t, i)
        PROVE  t[i] \in Range(WithAdded(custom, t))
    <3>1. CASE i = m + 1
        BY <2>1, <2>7, <3>1
    <3>2. CASE i \in 1..m
      <4>1. /\ i \in DOMAIN s /\ t[i] = s[i]
            /\ \A j \in DOMAIN s : j \in DOMAIN t /\ t[j] = s[j]
            /\ m + 1 \in DOMAIN t /\ m + 1 > i
          BY <2>1, <3>2
      <4>2. x.name # s[i].name
          BY <2>1, <2>8, <4>1
      <4>3. IsLast(s, i)
          BY <2>8, <4>1
      <4>4. s[i] \in Range(was) /\ s[i] \notin Named({x.name})
          BY <2>3, <4>1, <4>2, <4>3 DEF Named
      <4>5. QED
          BY <2>5, <2>7, <4>1, <4>4
    <3>3. QED
        BY <2>1, <3>1, <3>2
  <2>9. QED
      BY <2>1, <2>8 DEF t
<1> HIDE DEF I
<1>3. Seq(CustomEntries) \subseteq I
    BY <1>1, <1>2, AllSequences
<1>4. QED
    BY <1>3 DEF I

(* What a command adds. *)
LEMMA AddedAre ==
    ASSUME NEW o \in Options
    PROVE  AddedBy(o) \in Seq(CustomEntries)
<1> DEFINE entry(pair, kind) == [name |-> pair[1], kind |-> kind, text |-> pair[2], rest |-> "none"]
           ofPatterns == [i \in DOMAIN o.patterns |-> entry(o.patterns[i], "pattern")]
           ofLiterals == [i \in DOMAIN o.literals |-> entry(o.literals[i], "literal")]
<1>1. o.patterns \in Seq(STRING \X STRING) /\ o.literals \in Seq(STRING \X STRING)
    BY DEF Options
<1>2. \A pair \in STRING \X STRING : \A kind \in {"pattern", "literal"} : entry(pair, kind) \in CustomEntries
    BY DEF CustomEntries
<1>3. /\ Len(o.patterns) \in Nat /\ DOMAIN o.patterns = 1..Len(o.patterns)
      /\ Len(o.literals) \in Nat /\ DOMAIN o.literals = 1..Len(o.literals)
      /\ \A i \in DOMAIN o.patterns : o.patterns[i] \in STRING \X STRING
      /\ \A i \in DOMAIN o.literals : o.literals[i] \in STRING \X STRING
    BY <1>1, LenProperties, ElementOfSeq
<1> HIDE DEF entry
<1>4. ofPatterns \in [1..Len(o.patterns) -> CustomEntries] /\ ofLiterals \in [1..Len(o.literals) -> CustomEntries]
    BY <1>2, <1>3
<1> HIDE DEF ofPatterns, ofLiterals
<1>5. \A n \in Nat : [1..n -> CustomEntries] \subseteq Seq(CustomEntries)
    BY SeqDef
<1>6. ofPatterns \in Seq(CustomEntries) /\ ofLiterals \in Seq(CustomEntries)
    BY <1>3, <1>4, <1>5
<1>7. AddedBy(o) = ofPatterns \o ofLiterals
    BY DEF AddedBy, ofPatterns, ofLiterals, entry
<1>8. QED
    BY <1>6, <1>7, ConcatProperties

(* The custom entries a command leaves. *)
LEMMA CustomIs ==
    ASSUME NEW custom \in Seq(CustomEntries), NEW o \in Options
    PROVE  /\ WithCustom(custom, o) \in Seq(CustomEntries)
           /\ Range(WithCustom(custom, o)) \subseteq Range(custom) \cup Range(AddedBy(o))
           /\ \A e \in Range(WithCustom(custom, o)) : e.name \notin o.remove
           /\ \A i \in DOMAIN AddedBy(o) :
                  (\A j \in DOMAIN AddedBy(o) : j > i => AddedBy(o)[j].name # AddedBy(o)[i].name) =>
                      (AddedBy(o)[i].name \notin o.remove => AddedBy(o)[i] \in Range(WithCustom(custom, o)))
           /\ \A touched : NamesOf(AddedBy(o)) \cup o.remove \subseteq touched =>
                  Without(WithCustom(custom, o), Named(touched)) = Without(custom, Named(touched))
<1> DEFINE added == AddedBy(o)
           was == WithAdded(custom, added)
           gone == Named(o.remove)
           now == Without(was, gone)
<1>1. added \in Seq(CustomEntries)
    BY AddedAre
<1>2. WithCustom(custom, o) = now
    BY DEF WithCustom
<1> HIDE DEF added
<1>3. was \in Seq(CustomEntries) /\ Range(was) \subseteq Range(custom) \cup Range(added)
    BY <1>1, AddedStay
<1>4. \A i \in DOMAIN added :
          (\A j \in DOMAIN added : j > i => added[j].name # added[i].name) => added[i] \in Range(was)
    BY <1>1, LastIsThere
<1>5. \A touched : NamesOf(added) \subseteq touched =>
          Without(was, Named(touched)) = Without(custom, Named(touched))
    BY <1>1, OthersNotTouched
<1> HIDE DEF was, gone
<1>6. now \in Seq(CustomEntries \ gone) /\ Range(now) = Range(was) \ gone
    BY <1>3, WithoutRest, WithoutRange
<1> HIDE DEF now
<1>7. now \in Seq(CustomEntries)
    BY <1>6, SeqMonotonic
<1>8. \A e \in Range(now) : e.name \notin o.remove
  <2>1. Range(now) \subseteq CustomEntries
      BY <1>7, RangeOfSeq
  <2>2. QED
      BY <1>6, <2>1 DEF gone, Named
<1>9. ASSUME NEW i \in DOMAIN added, \A j \in DOMAIN added : j > i => added[j].name # added[i].name,
             added[i].name \notin o.remove
      PROVE  added[i] \in Range(now)
    BY <1>4, <1>6, <1>9 DEF gone, Named
<1>10. ASSUME NEW touched, NamesOf(added) \cup o.remove \subseteq touched
       PROVE  Without(now, Named(touched)) = Without(custom, Named(touched))
  <2>1. \A S, R : \A u \in Seq(CustomEntries) : Without(Without(u, S), R) = Without(u, S \cup R)
      BY WithoutBoth
  <2>2. gone \cup Named(touched) = Named(touched)
      BY <1>10 DEF gone, Named
  <2>3. Without(now, Named(touched)) = Without(was, Named(touched))
      BY <1>3, <2>1, <2>2 DEF now
  <2>4. QED
      BY <1>5, <1>10, <2>3
<1>11. QED
    BY <1>2, <1>3, <1>6, <1>7, <1>8, <1>9, <1>10 DEF added

TailsNamed(o) == {pair[1] : pair \in Range(o.reveal)} \cup o.hide

(* The tails a command leaves: those it does not name are as they were.    *)
LEMMA RevealIs ==
    ASSUME NEW tails, NEW o \in Options
    PROVE  /\ WithReveal(tails, o) = [t \in DOMAIN WithReveal(tails, o) |-> WithReveal(tails, o)[t]]
           /\ o.hide \cap DOMAIN WithReveal(tails, o) = {}
           /\ Restrict(WithReveal(tails, o), DOMAIN WithReveal(tails, o) \ TailsNamed(o))
                  = Restrict(tails, DOMAIN tails \ TailsNamed(o))
<1> DEFINE named == TailsNamed(o)
           given(t) == {i \in DOMAIN o.reveal : o.reveal[i][1] = t}
           last(t) == CHOOSE i \in given(t) : \A j \in given(t) : j <= i
           all == (DOMAIN tails \cup {o.reveal[i][1] : i \in DOMAIN o.reveal}) \ o.hide
           now == [t \in all |-> IF given(t) = {} THEN tails[t] ELSE o.reveal[last(t)][2]]
<1>1. WithReveal(tails, o) = now
    BY DEF WithReveal
<1>2. DOMAIN now = all /\ now = [t \in DOMAIN now |-> now[t]]
    OBVIOUS
<1>3. {o.reveal[i][1] : i \in DOMAIN o.reveal} \cup o.hide = named
    BY DEF Range, TailsNamed
<1> HIDE DEF named
<1>4. all \ named = DOMAIN tails \ named
    BY <1>3
<1>5. \A t \in all \ named : given(t) = {}
    BY <1>3
<1>6. \A t \in all \ named : now[t] = tails[t]
    BY <1>5
<1> HIDE DEF now, all
<1>7. Restrict(now, DOMAIN now \ named) = Restrict(tails, DOMAIN tails \ named)
    BY <1>2, <1>4, <1>6 DEF Restrict
<1>8. o.hide \cap DOMAIN now = {}
    BY <1>2 DEF all
<1>9. QED
    BY <1>1, <1>2, <1>7, <1>8 DEF named

(* A command that is to change nothing. *)
LEMMA PlainChangesNothing ==
    ASSUME NEW o \in Options, ~Changes(o), ~o.reset, NEW policy, IsSettings(policy)
    PROVE  Resulting(policy, o) = policy
<1>1. /\ o.only = {} /\ o.enable = {} /\ o.disable = {} /\ o.ledger = "" /\ o.diet = ""
      /\ o.patterns = << >> /\ o.literals = << >> /\ o.remove = {} /\ o.reveal = << >> /\ o.hide = {}
  <2>1. \A option \in DOMAIN Plain \ {"reset", "answer"} : o[option] = Plain[option]
      BY DEF Changes
  <2>2. {"only", "enable", "disable", "ledger", "diet", "patterns", "literals", "remove", "reveal", "hide"}
            \subseteq DOMAIN Plain \ {"reset", "answer"}
      BY DEF Plain
  <2>3. /\ o["only"] = Plain.only /\ o["enable"] = Plain.enable /\ o["disable"] = Plain.disable
        /\ o["ledger"] = Plain.ledger /\ o["diet"] = Plain.diet /\ o["patterns"] = Plain.patterns
        /\ o["literals"] = Plain.literals /\ o["remove"] = Plain.remove /\ o["reveal"] = Plain.reveal
        /\ o["hide"] = Plain.hide
      BY <2>1, <2>2
  <2>4. QED
      BY <2>3 DEF Plain
<1>2. policy.custom \in Seq(CustomEntries) /\ policy.reveal = [t \in DOMAIN policy.reveal |-> policy.reveal[t]]
    BY DEF IsSettings
<1>3. AddedBy(o) = << >>
  <2>1. [i \in DOMAIN << >> |-> [name |-> << >>[i][1], kind |-> "pattern", text |-> << >>[i][2], rest |-> "none"]] = << >>
      BY EmptyFunction
  <2>2. [i \in DOMAIN << >> |-> [name |-> << >>[i][1], kind |-> "literal", text |-> << >>[i][2], rest |-> "none"]] = << >>
      BY EmptyFunction
  <2>3. << >> \o << >> = << >>
      OBVIOUS
  <2>4. QED
      BY <1>1, <2>1, <2>2, <2>3 DEF AddedBy
<1>4. WithCustom(policy.custom, o) = policy.custom
  <2>1. WithAdded(policy.custom, AddedBy(o)) = policy.custom
      BY <1>3, NothingAdded
  <2>2. Named(o.remove) = {}
      BY <1>1 DEF Named
  <2>3. policy.custom \in Seq(CustomEntries \ {})
      BY <1>2
  <2>4. Without(policy.custom, {}) = policy.custom
      BY <2>3, WithoutNothing
  <2>5. QED
      BY <2>1, <2>2, <2>4 DEF WithCustom
<1>5. WithReveal(policy.reveal, o) = policy.reveal
  <2>1. DOMAIN o.reveal = {}
      BY <1>1, EmptyFunction
  <2> DEFINE given(t) == {i \in DOMAIN o.reveal : o.reveal[i][1] = t}
             last(t) == CHOOSE i \in given(t) : \A j \in given(t) : j <= i
             all == (DOMAIN policy.reveal \cup {o.reveal[i][1] : i \in DOMAIN o.reveal}) \ o.hide
             now == [t \in all |-> IF given(t) = {} THEN policy.reveal[t] ELSE o.reveal[last(t)][2]]
  <2>2. WithReveal(policy.reveal, o) = now
      BY DEF WithReveal
  <2>3. all = DOMAIN policy.reveal /\ \A t \in all : given(t) = {}
      BY <1>1, <2>1
  <2> HIDE DEF all, given, last
  <2>4. now = [t \in DOMAIN policy.reveal |-> policy.reveal[t]]
      BY <2>3
  <2>5. QED
      BY <1>2, <2>2, <2>4
<1>6. Selected(policy.enabled, o) = policy.enabled
    BY <1>1, <1>3 DEF Selected
<1>7. PICK c, r, e : c = WithCustom(policy.custom, o) /\ r = WithReveal(policy.reveal, o)
                     /\ e = Selected(policy.enabled, o)
    OBVIOUS
<1>8. Resulting(policy, o) = [policy EXCEPT !.enabled = e, !.ledger = policy.ledger, !.diet = policy.diet,
                                            !.custom = c, !.reveal = r]
    BY <1>1, <1>7 DEF Resulting
<1>9. policy = [enabled |-> policy.enabled, modes |-> policy.modes, tools |-> policy.tools,
                ledger |-> policy.ledger, diet |-> policy.diet, custom |-> policy.custom,
                reveal |-> policy.reveal, markers |-> policy.markers]
    BY DEF IsSettings
<1>10. QED
    BY <1>4, <1>5, <1>6, <1>7, <1>8, <1>9

(* The settings a command makes of those it found. *)
LEMMA ResultIs ==
    ASSUME NEW o \in Options, ~o.reset, NEW policy, IsSettings(policy),
           CustomFits(policy.custom, o), IsReveal(WithReveal(policy.reveal, o))
    PROVE  \A now : now = Resulting(policy, o) =>
               /\ IsSettings(now)
               /\ now.enabled = Selected(policy.enabled, o) /\ now.custom = WithCustom(policy.custom, o)
               /\ now.reveal = WithReveal(policy.reveal, o)
               /\ now.modes = policy.modes /\ now.tools = policy.tools /\ now.markers = policy.markers
               /\ o.ledger = "" => now.ledger = policy.ledger
               /\ o.diet = "" => now.diet = policy.diet
<1>1. PICK c, r, e, l, d :
          /\ c = WithCustom(policy.custom, o) /\ r = WithReveal(policy.reveal, o)
          /\ e = Selected(policy.enabled, o)
          /\ l = IF o.ledger = "" THEN policy.ledger ELSE o.ledger = "on"
          /\ d = IF o.diet = "" THEN policy.diet ELSE IF o.diet = "on" THEN {"json"} ELSE {}
    OBVIOUS
<1>2. Resulting(policy, o) = [policy EXCEPT !.enabled = e, !.ledger = l, !.diet = d, !.custom = c, !.reveal = r]
    BY <1>1 DEF Resulting
<1>3. policy = [enabled |-> policy.enabled, modes |-> policy.modes, tools |-> policy.tools,
                ledger |-> policy.ledger, diet |-> policy.diet, custom |-> policy.custom,
                reveal |-> policy.reveal, markers |-> policy.markers]
    BY DEF IsSettings
<1>4. Resulting(policy, o) = [enabled |-> e, modes |-> policy.modes, tools |-> policy.tools, ledger |-> l,
                              diet |-> d, custom |-> c, reveal |-> r, markers |-> policy.markers]
    BY <1>2, <1>3
<1>5. /\ policy.custom \in Seq(CustomEntries) /\ policy.enabled \subseteq Range(EntityTypes)
      /\ policy.tools \in [DOMAIN policy.tools -> SUBSET Range(EntityTypes)]
      /\ policy.ledger \in BOOLEAN /\ policy.diet \subseteq Range(TRANSFORMS)
      /\ policy.markers \in {"report", "note"}
    BY DEF IsSettings
<1>6. \A key \in DOMAIN policy.modes :
          policy.modes[key] \in MODES /\ (key \in OBSERVE_ONLY => policy.modes[key] = "observe")
    BY DEF IsSettings
<1>7. c \in Seq(CustomEntries)
    BY <1>1, <1>5, CustomIs
<1>8. Compiles(c)
    BY <1>1 DEF CustomFits
<1>9. IsReveal(r)
    BY <1>1
<1>10. r = [t \in DOMAIN r |-> r[t]]
    BY <1>1, RevealIs
<1>11. e \subseteq Range(EntityTypes)
  <2>1. /\ o.only \subseteq Range(EntityTypes) /\ o.enable \subseteq Range(EntityTypes)
        /\ "CUSTOM" \in Range(EntityTypes)
      BY ConfigurationAssumption DEF Options
  <2>2. QED
      BY <1>1, <1>5, <2>1 DEF Selected
<1>12. l \in BOOLEAN
    BY <1>1, <1>5
<1>13. d \subseteq Range(TRANSFORMS)
    BY <1>1, <1>5, TransformsAre
<1>14. IsSettings(Resulting(policy, o))
    BY <1>4, <1>5, <1>6, <1>7, <1>8, <1>9, <1>10, <1>11, <1>12, <1>13, SettingsAre
<1>15. \A now : now = Resulting(policy, o) =>
           /\ now.enabled = e /\ now.custom = c /\ now.reveal = r /\ now.ledger = l /\ now.diet = d
           /\ now.modes = policy.modes /\ now.tools = policy.tools /\ now.markers = policy.markers
    BY <1>4
<1>16. /\ o.ledger = "" => l = policy.ledger
       /\ o.diet = "" => d = policy.diet
    BY <1>1
<1>17. QED
    BY <1>1, <1>14, <1>15, <1>16

(* A reset always fits.  *)
LEMMA ShippedFit == SizeOf(Defaults) <= MaxBytes
<1> DEFINE size == CHOOSE f : f = [n \in 0..0 |-> IF n = 0 THEN 0 ELSE f[n - 1] + Bytes[Defaults.custom[n].text]]
           zero == [n \in 0..0 |-> 0]
<1>1. Defaults.custom = << >> /\ Len(<< >>) = 0 /\ MaxBytes \in Nat
    BY EmptySeq, ConfigurationAssumption DEF Defaults
<1>2. SizeOf(Defaults) = size[0]
    BY <1>1 DEF SizeOf
<1>3. zero = [n \in 0..0 |-> IF n = 0 THEN 0 ELSE zero[n - 1] + Bytes[Defaults.custom[n].text]]
    OBVIOUS
<1> HIDE DEF zero
<1>4. size = [n \in 0..0 |-> IF n = 0 THEN 0 ELSE size[n - 1] + Bytes[Defaults.custom[n].text]]
    BY <1>3
<1> HIDE DEF size
<1>5. size[0] = 0
    BY <1>4
<1>6. QED
    BY <1>1, <1>2, <1>5

Concluded == {"saved", "matches", "shows", "unchanged", "CONFIRMATION_REQUIRED"}

(* What a command says, and why. *)
LEMMA SaidIs ==
    ASSUME NEW file, NEW o \in Options, IsFile(file), IsPolicy(file) => IsSettings(PolicyOf(file)),
           NEW said, said = Outcome(file, o), NEW policy, policy = Proposed(file, o)
    PROVE  /\ said \in Concluded =>
                  /\ IsSettings(policy)
                  /\ ~o.reset =>
                        /\ IsPolicy(file) /\ IsSettings(PolicyOf(file)) /\ CustomFits(PolicyOf(file).custom, o)
                        /\ IsReveal(WithReveal(PolicyOf(file).reveal, o)) /\ policy = Resulting(PolicyOf(file), o)
                  /\ o.reset => policy = Defaults
           /\ said = "saved" => SizeOf(policy) <= MaxBytes
           /\ said = "matches" => file = Holds(RenderSettings(policy))
           /\ said = "shows" => ~o.reset /\ IsPolicy(file) /\ policy = PolicyOf(file)
           /\ said = "SETTINGS_INVALID" => ~IsPolicy(file) /\ file.kind # "unsafe"
<1>1. RefusedFor(file, o) \in {"", "OPTIONS_CONFLICT", "SETTINGS_REFUSED", "SETTINGS_INVALID",
                               "CUSTOM_PATTERN_INVALID", "REVEAL_INVALID"}
    BY DEF RefusedFor, CheckOf
<1>2. RefusedFor(file, o) = "SETTINGS_INVALID" => ~IsPolicy(file) /\ file.kind # "unsafe"
    BY DEF RefusedFor, CheckOf
<1>3. ASSUME RefusedFor(file, o) = "", ~o.reset
      PROVE  /\ IsPolicy(file) /\ IsSettings(PolicyOf(file)) /\ CustomFits(PolicyOf(file).custom, o)
             /\ IsReveal(WithReveal(PolicyOf(file).reveal, o)) /\ policy = Resulting(PolicyOf(file), o)
             /\ IsSettings(policy)
  <2>1. IsPolicy(file) /\ CustomFits(PolicyOf(file).custom, o) /\ IsReveal(WithReveal(PolicyOf(file).reveal, o))
      BY <1>3 DEF RefusedFor, CheckOf
  <2>2. policy = Resulting(PolicyOf(file), o)
      BY <1>3 DEF Proposed
  <2>3. QED
      BY <1>3, <2>1, <2>2, ResultIs
<1>4. o.reset => policy = Defaults /\ IsSettings(policy)
    BY ShippedAreSettings DEF Proposed, Resulting
<1>5. said \in Concluded => RefusedFor(file, o) = ""
    BY <1>1 DEF Outcome, Concluded
<1>6. said \in {"saved", "matches"} => said = Planned(file, policy, o)
    BY <1>1 DEF Outcome
<1>7. /\ said = "saved" => SizeOf(policy) <= MaxBytes
      /\ said = "matches" => file = Holds(RenderSettings(policy))
    BY <1>6 DEF Planned
<1>8. Planned(file, policy, o) \notin {"shows", "SETTINGS_INVALID"}
    BY DEF Planned
<1>9. said = "SETTINGS_INVALID" => RefusedFor(file, o) = "SETTINGS_INVALID"
    BY <1>8 DEF Outcome
<1>10. ASSUME said = "shows"
       PROVE  ~o.reset /\ IsPolicy(file) /\ policy = PolicyOf(file)
  <2>1. RefusedFor(file, o) = ""
      BY <1>5, <1>10 DEF Concluded
  <2>2. ~o.reset /\ ~Changes(o)
      BY <1>8, <1>10, <2>1 DEF Outcome
  <2>3. QED
      BY <1>3, <2>1, <2>2, PlainChangesNothing
<1>11. QED
    BY <1>2, <1>3, <1>4, <1>5, <1>7, <1>9, <1>10

(* What a command says of a file that does not parse, or is unsafe.        *)
LEMMA ResetIs ==
    ASSUME NEW file, NEW o, o = [Plain EXCEPT !.reset = TRUE]
    PROVE  /\ file.kind = "unsafe" => Outcome(file, o) = "SETTINGS_REFUSED"
           /\ file.kind # "unsafe" /\ ~IsPolicy(file) => Outcome(file, o) = "saved"
<1>1. o.reset /\ o.answer = "--yes" /\ o.only = {} /\ o.enable = {} /\ o.disable = {}
    BY DEF Plain
<1>2. ~Changes(o)
  <2>1. \A option \in DOMAIN Plain \ {"reset", "answer"} : o[option] = Plain[option]
      BY DEF Plain
  <2>2. QED
      BY <2>1 DEF Changes
<1>3. ~Conflict(o)
    BY <1>1, <1>2 DEF Conflict
<1>4. RefusedFor(file, o) = ""
    BY <1>1, <1>3 DEF RefusedFor
<1>5. Proposed(file, o) = Defaults
    BY <1>1 DEF Proposed, Resulting
<1>6. Outcome(file, o) = Planned(file, Defaults, o)
    BY <1>1, <1>4, <1>5 DEF Outcome
<1>7. file = Holds(RenderSettings(Defaults)) => IsPolicy(file)
  <2>1. PICK document : document = RenderSettings(Defaults)
      OBVIOUS
  <2>2. Parses(document)
      BY <2>1, ShippedAreSettings, RenderedIsParsed
  <2>3. QED
      BY <2>1, <2>2 DEF IsPolicy, Holds
<1>8. QED
    BY <1>1, <1>6, <1>7, ShippedFit DEF Planned

(* What the file and the report are after a command.                       *)
LEMMA AfterConfigure ==
    ASSUME ConfigInv, NEW o \in Options, Configure(o)
    PROVE  \E r, policy :
               /\ ran' = << r >> /\ Range(ran') = {r}
               /\ r.options = o /\ r.found = config /\ r.said = Outcome(config, o) /\ policy = Proposed(config, o)
               /\ r.said \in Concluded => r.shown[1] = policy /\ r.fix # "reset"
               /\ r.said = "saved" => config' = Holds(RenderSettings(policy))
               /\ r.said # "saved" => config' = config
               /\ r.said \in {"saved", "matches"} =>
                      /\ config'.kind = "file" /\ IsDocument(config'.document)
                      /\ IsPolicy(config') /\ PolicyOf(config') = policy
               /\ r.fix = "reset" <=> r.said = "SETTINGS_INVALID"
<1> DEFINE said == Outcome(config, o)
           policy == Proposed(config, o)
           fix == IF said = "SETTINGS_REFUSED" /\ config.kind = "unsafe" THEN FixOf(config.why)
                  ELSE IF said = "SETTINGS_INVALID" /\ ResetIsAdvised(config) THEN "reset" ELSE ""
           shown == IF said \in Concluded THEN << policy >> ELSE << >>
           r == Report(o, said, shown, config, fix)
<1>1. IsFile(config) /\ (IsPolicy(config) => IsSettings(PolicyOf(config)))
    BY DEF ConfigInv
<1>2. /\ config' = IF said = "saved" THEN Holds(RenderSettings(policy)) ELSE config
      /\ ran' = << r >>
    BY DEF Configure, Concluded
<1>3. /\ said \in Concluded => IsSettings(policy)
      /\ said = "matches" => config = Holds(RenderSettings(policy))
      /\ said = "SETTINGS_INVALID" => config.kind # "unsafe"
    BY <1>1, SaidIs
<1>4. FixOf(config.why) # "reset"
    BY DEF FixOf
<1>5. fix = "reset" <=> said = "SETTINGS_INVALID"
    BY <1>3, <1>4 DEF ResetIsAdvised
<1> HIDE DEF fix, said, policy
<1>6. r.options = o /\ r.found = config /\ r.said = said /\ r.fix = fix /\ (said \in Concluded => r.shown[1] = policy)
    BY DEF Report
<1> HIDE DEF r
<1>7. Range(ran') = {r}
    BY <1>2 DEF Range
<1>8. ASSUME said \in {"saved", "matches"}
      PROVE  /\ config'.kind = "file" /\ IsDocument(config'.document)
             /\ IsPolicy(config') /\ PolicyOf(config') = policy
  <2>1. PICK document : document = RenderSettings(policy)
      OBVIOUS
  <2>2. IsSettings(policy)
      BY <1>3, <1>8 DEF Concluded
  <2>3. IsDocument(document) /\ Parses(document) /\ Parsed(document) = policy
      BY <2>1, <2>2, RenderedIsParsed
  <2>4. config' = Holds(document)
      BY <1>2, <1>3, <1>8, <2>1
  <2>5. config'.kind = "file" /\ config'.document = document
      BY <2>4 DEF Holds
  <2>6. QED
      BY <2>3, <2>5 DEF IsPolicy, PolicyOf
<1>9. said \in Concluded => fix # "reset"
    BY <1>5 DEF Concluded
<1>10. /\ r.said \in Concluded => r.shown[1] = policy /\ r.fix # "reset"
       /\ r.said = "saved" => config' = Holds(RenderSettings(policy))
       /\ r.said # "saved" => config' = config
    BY <1>2, <1>6, <1>9
<1>11. r.said = Outcome(config, o) /\ policy = Proposed(config, o)
    BY <1>6 DEF said, policy
<1>12. r.fix = "reset" <=> r.said = "SETTINGS_INVALID"
    BY <1>5, <1>6
<1>13. QED
    BY <1>2, <1>6, <1>7, <1>8, <1>10, <1>11, <1>12

(* What a command leaves is what it shows, safe, and exact.                *)
LEMMA ConfigureKeeps ==
    ASSUME ConfigInv, NEW o \in Options, Configure(o)
    PROVE  ConfigInv'
<1>1. PICK r, policy :
          /\ ran' = << r >> /\ Range(ran') = {r}
          /\ r.options = o /\ r.found = config /\ r.said = Outcome(config, o) /\ policy = Proposed(config, o)
          /\ r.said \in Concluded => r.shown[1] = policy /\ r.fix # "reset"
          /\ r.said = "saved" => config' = Holds(RenderSettings(policy))
          /\ r.said # "saved" => config' = config
          /\ r.said \in {"saved", "matches"} =>
                 /\ config'.kind = "file" /\ IsDocument(config'.document)
                 /\ IsPolicy(config') /\ PolicyOf(config') = policy
          /\ r.fix = "reset" <=> r.said = "SETTINGS_INVALID"
    BY AfterConfigure
<1>2. IsFile(config) /\ (IsPolicy(config) => IsSettings(PolicyOf(config)))
    BY DEF ConfigInv
<1>3. /\ r.said \in Concluded =>
             /\ IsSettings(policy)
             /\ ~o.reset =>
                   /\ IsPolicy(config) /\ IsSettings(PolicyOf(config)) /\ CustomFits(PolicyOf(config).custom, o)
                   /\ IsReveal(WithReveal(PolicyOf(config).reveal, o)) /\ policy = Resulting(PolicyOf(config), o)
             /\ o.reset => policy = Defaults
      /\ r.said = "saved" => SizeOf(policy) <= MaxBytes
      /\ r.said = "shows" => ~o.reset /\ IsPolicy(config) /\ policy = PolicyOf(config)
      /\ r.said = "SETTINGS_INVALID" => ~IsPolicy(config) /\ config.kind # "unsafe"
    BY <1>1, <1>2, SaidIs
<1>4. (IsFile(config) /\ (IsPolicy(config) => IsSettings(PolicyOf(config))))'
  <2>1. CASE r.said = "saved"
      BY <1>1, <1>3, <2>1 DEF IsFile, Concluded
  <2>2. CASE r.said # "saved"
      BY <1>1, <1>2, <2>2
  <2>3. QED
      BY <2>1, <2>2
<1>5. ShownIsLoaded'
  <2>1. r.said \in {"saved", "matches", "shows"} => IsPolicy(config') /\ PolicyOf(config') = r.shown[1]
      BY <1>1, <1>3 DEF Concluded
  <2>2. r.said # "saved" => config' = r.found
      BY <1>1
  <2>3. QED
      BY <1>1, <2>1, <2>2 DEF ShownIsLoaded
<1>6. SavesAreSafe'
  <2>1. ASSUME r.said = "saved"
        PROVE  /\ IsLoaded(config)' /\ SizeOf(PolicyOf(config')) <= MaxBytes
               /\ \A e \in Range(PolicyOf(config').custom) :
                      IsSlow(e) => IsPolicy(r.found) /\ e \in Range(Was(r).custom)
    <3>1. IsPolicy(config') /\ config'.kind = "file" /\ PolicyOf(config') = policy
        BY <1>1, <2>1
    <3>2. IsLoaded(config)'
        BY <3>1 DEF IsLoaded
    <3>3. CASE o.reset
      <4>1. Range(policy.custom) = {}
          BY <1>3, <2>1, <3>3, NothingThere DEF Concluded, Defaults
      <4>2. QED
          BY <1>3, <2>1, <3>1, <3>2, <4>1
    <3>4. CASE ~o.reset
      <4>1. /\ IsPolicy(config) /\ IsSettings(PolicyOf(config)) /\ CustomFits(PolicyOf(config).custom, o)
            /\ IsReveal(WithReveal(PolicyOf(config).reveal, o)) /\ policy = Resulting(PolicyOf(config), o)
          BY <1>3, <2>1, <3>4 DEF Concluded
      <4>2. PICK before : before = PolicyOf(config)
          OBVIOUS
      <4>3. policy.custom = WithCustom(before.custom, o)
          BY <3>4, <4>1, <4>2, ResultIs
      <4>4. Range(policy.custom) \subseteq Range(before.custom) \cup Range(AddedBy(o))
        <5>1. before.custom \in Seq(CustomEntries)
            BY <4>1, <4>2 DEF IsSettings
        <5>2. QED
            BY <4>3, <5>1, CustomIs
      <4>5. \A e \in Range(AddedBy(o)) : ~IsSlow(e)
          BY <4>1 DEF CustomFits
      <4>6. Was(r) = before
          BY <1>1, <4>2 DEF Was
      <4>7. QED
          BY <1>1, <1>3, <2>1, <3>1, <3>2, <4>1, <4>4, <4>5, <4>6
    <3>5. QED
        BY <3>3, <3>4
  <2>2. r.fix = "reset" <=> r.said = "SETTINGS_INVALID"
      BY <1>1
  <2>3. ASSUME r.said # "saved"
        PROVE  /\ r.fix = "reset" => Outcome(config', [Plain EXCEPT !.reset = TRUE]) = "saved"
               /\ r.said = "SETTINGS_REFUSED" /\ r.found.kind = "unsafe" =>
                      Outcome(config', [Plain EXCEPT !.reset = TRUE]) = "SETTINGS_REFUSED"
      BY <1>1, <1>3, <2>3, ResetIs
  <2>4. /\ r.fix = "reset" => Outcome(config', [Plain EXCEPT !.reset = TRUE]) = "saved"
        /\ r.said = "SETTINGS_REFUSED" /\ r.found.kind = "unsafe" =>
               Outcome(config', [Plain EXCEPT !.reset = TRUE]) = "SETTINGS_REFUSED"
      BY <2>2, <2>3
  <2>5. QED
      BY <1>1, <2>1, <2>2, <2>4 DEF SavesAreSafe
<1>7. ASSUME r.said \in {"saved", "matches"}, ~o.reset,
             NEW now, now = PolicyOf(config'), NEW before, before = Was(r)
      PROVE  /\ before.custom \in Seq(CustomEntries)
             /\ now.enabled = Selected(before.enabled, o) /\ now.custom = WithCustom(before.custom, o)
             /\ now.reveal = WithReveal(before.reveal, o)
             /\ now.modes = before.modes /\ now.tools = before.tools /\ now.markers = before.markers
             /\ o.ledger = "" => now.ledger = before.ledger
             /\ o.diet = "" => now.diet = before.diet
  <2>1. /\ IsSettings(PolicyOf(config)) /\ CustomFits(PolicyOf(config).custom, o)
        /\ IsReveal(WithReveal(PolicyOf(config).reveal, o)) /\ policy = Resulting(PolicyOf(config), o)
      BY <1>3, <1>7 DEF Concluded
  <2>2. before = PolicyOf(config)
      BY <1>1, <1>7 DEF Was
  <2>3. now = policy
      BY <1>1, <1>7
  <2>4. /\ IsSettings(before) /\ CustomFits(before.custom, o)
        /\ IsReveal(WithReveal(before.reveal, o)) /\ now = Resulting(before, o)
      BY <2>1, <2>2, <2>3
  <2>5. before.custom \in Seq(CustomEntries)
      BY <2>4 DEF IsSettings
  <2>6. \A n : n = Resulting(before, o) =>
            /\ IsSettings(n)
            /\ n.enabled = Selected(before.enabled, o) /\ n.custom = WithCustom(before.custom, o)
            /\ n.reveal = WithReveal(before.reveal, o)
            /\ n.modes = before.modes /\ n.tools = before.tools /\ n.markers = before.markers
            /\ o.ledger = "" => n.ledger = before.ledger
            /\ o.diet = "" => n.diet = before.diet
    <3>1. IsSettings(before) /\ CustomFits(before.custom, o) /\ IsReveal(WithReveal(before.reveal, o)) /\ ~o.reset
        BY <1>7, <2>4
    <3>2. QED
        BY <3>1, ResultIs, ZenonT(30)
  <2>7. QED
      BY <2>4, <2>5, <2>6
<1>8. OthersStay'
  <2>1. SUFFICES ASSUME r.said \in {"saved", "matches"}, ~o.reset
                 PROVE  LET now == PolicyOf(config')
                            before == Was(r)
                            touched == {e.name : e \in Range(AddedBy(o))} \cup o.remove
                            tails == {pair[1] : pair \in Range(o.reveal)} \cup o.hide
                            untouched(custom) == Without(custom, Named(touched)) IN
                        /\ now.modes = before.modes /\ now.tools = before.tools /\ now.markers = before.markers
                        /\ o.ledger = "" => now.ledger = before.ledger
                        /\ o.diet = "" => now.diet = before.diet
                        /\ untouched(now.custom) = untouched(before.custom)
                        /\ Restrict(now.reveal, DOMAIN now.reveal \ tails)
                               = Restrict(before.reveal, DOMAIN before.reveal \ tails)
                        /\ \A t \in Range(EntityTypes) \ (o.enable \cup o.disable) :
                               o.only = {} /\ (t = "CUSTOM" => AddedBy(o) = << >>) =>
                                   (t \in now.enabled <=> t \in before.enabled)
      BY <1>1 DEF OthersStay, AsSaved, Was
  <2> DEFINE touched == {e.name : e \in Range(AddedBy(o))} \cup o.remove
             tails == {pair[1] : pair \in Range(o.reveal)} \cup o.hide
  <2>2. PICK now, before : now = PolicyOf(config') /\ before = Was(r)
      OBVIOUS
  <2>3. /\ before.custom \in Seq(CustomEntries)
        /\ now.enabled = Selected(before.enabled, o) /\ now.custom = WithCustom(before.custom, o)
        /\ now.reveal = WithReveal(before.reveal, o)
        /\ now.modes = before.modes /\ now.tools = before.tools /\ now.markers = before.markers
        /\ o.ledger = "" => now.ledger = before.ledger
        /\ o.diet = "" => now.diet = before.diet
      BY <1>7, <2>1, <2>2
  <2>4. Without(now.custom, Named(touched)) = Without(before.custom, Named(touched))
    <3>1. NamesOf(AddedBy(o)) \cup o.remove \subseteq touched
        BY DEF NamesOf
    <3> HIDE DEF touched
    <3>2. QED
        BY <2>3, <3>1, CustomIs
  <2>5. Restrict(now.reveal, DOMAIN now.reveal \ tails) = Restrict(before.reveal, DOMAIN before.reveal \ tails)
    <3>4. \A was : Restrict(WithReveal(was, o), DOMAIN WithReveal(was, o) \ TailsNamed(o))
                       = Restrict(was, DOMAIN was \ TailsNamed(o))
        BY RevealIs
    <3>1. Restrict(now.reveal, DOMAIN now.reveal \ TailsNamed(o))
              = Restrict(before.reveal, DOMAIN before.reveal \ TailsNamed(o))
        BY <2>3, <3>4
    <3>2. tails = TailsNamed(o)
        BY DEF TailsNamed
    <3> HIDE DEF tails
    <3>3. QED
        BY <3>1, <3>2
  <2>6. \A t \in Range(EntityTypes) \ (o.enable \cup o.disable) :
            o.only = {} /\ (t = "CUSTOM" => AddedBy(o) = << >>) => (t \in now.enabled <=> t \in before.enabled)
      BY <2>3 DEF Selected
  <2>7. QED
      BY <2>2, <2>3, <2>4, <2>5, <2>6
<1>9. NamedTakesEffect'
  <2>1. SUFFICES ASSUME r.said \in {"saved", "matches"}, ~o.reset
                 PROVE  LET now == PolicyOf(config')
                            added == AddedBy(o)
                            last == {i \in DOMAIN added : \A j \in DOMAIN added : j > i => added[j].name # added[i].name} IN
                        /\ o.enable \subseteq now.enabled /\ o.disable \cap now.enabled = {}
                        /\ o.only # {} => now.enabled \ {"CUSTOM"} = o.only \ {"CUSTOM"}
                        /\ added # << >> => ("CUSTOM" \in now.enabled <=> "CUSTOM" \notin o.disable)
                        /\ \A i \in last : added[i].name \notin o.remove => added[i] \in Range(now.custom)
                        /\ \A e \in Range(now.custom) : e.name \notin o.remove
                        /\ o.hide \cap DOMAIN now.reveal = {}
      BY <1>1 DEF NamedTakesEffect, AsSaved, Was
  <2> DEFINE added == AddedBy(o)
             last == {i \in DOMAIN added : \A j \in DOMAIN added : j > i => added[j].name # added[i].name}
  <2>2. PICK now, before : now = PolicyOf(config') /\ before = Was(r)
      OBVIOUS
  <2>3. /\ before.custom \in Seq(CustomEntries) /\ now.enabled = Selected(before.enabled, o)
        /\ now.custom = WithCustom(before.custom, o) /\ now.reveal = WithReveal(before.reveal, o)
      BY <1>7, <2>1, <2>2
  <2>4. ~Conflict(o)
    <3>1. RefusedFor(config, o) = ""
      <4>1. RefusedFor(config, o) \in {"", "OPTIONS_CONFLICT", "SETTINGS_REFUSED", "SETTINGS_INVALID",
                                       "CUSTOM_PATTERN_INVALID", "REVEAL_INVALID"}
          BY DEF RefusedFor, CheckOf
      <4>2. QED
          BY <1>1, <2>1, <4>1 DEF Outcome
    <3>2. QED
        BY <3>1 DEF RefusedFor
  <2>5. /\ o.enable \subseteq now.enabled /\ o.disable \cap now.enabled = {}
        /\ o.only # {} => now.enabled \ {"CUSTOM"} = o.only \ {"CUSTOM"}
        /\ added # << >> => ("CUSTOM" \in now.enabled <=> "CUSTOM" \notin o.disable)
    <3>1. now.enabled = ((IF o.only # {} THEN o.only ELSE before.enabled) \cup o.enable
                         \cup (IF added # << >> THEN {"CUSTOM"} ELSE {})) \ o.disable
        BY <2>3 DEF Selected
    <3>2. o.enable \cap o.disable = {} /\ (o.only # {} => o.enable = {} /\ o.disable = {})
        BY <2>4 DEF Conflict
    <3> HIDE DEF added
    <3>3. o.enable \subseteq now.enabled /\ o.disable \cap now.enabled = {}
        BY <3>1, <3>2
    <3>4. o.only # {} => now.enabled \ {"CUSTOM"} = o.only \ {"CUSTOM"}
        BY <3>1, <3>2
    <3>5. added # << >> => ("CUSTOM" \in now.enabled <=> "CUSTOM" \notin o.disable)
        BY <3>1
    <3>6. QED
        BY <3>3, <3>4, <3>5
  <2>6. \A i \in last : added[i].name \notin o.remove => added[i] \in Range(now.custom)
      BY <2>3, CustomIs
  <2>7. \A e \in Range(now.custom) : e.name \notin o.remove
      BY <2>3, CustomIs
  <2>8. o.hide \cap DOMAIN now.reveal = {}
      BY <2>3, RevealIs
  <2>9. QED
      BY <2>2, <2>5, <2>6, <2>7, <2>8
<1>10. QED
    BY <1>4, <1>5, <1>6, <1>8, <1>9 DEF ConfigInv, ConfigIsExact

LEMMA ConfigInitially == ConfigurationInit => ConfigInv
<1> SUFFICES ASSUME ConfigurationInit
             PROVE  ConfigInv
    OBVIOUS
<1>1. IsFile(config)
    BY ConfigurationAssumption DEF ConfigurationInit
<1>2. IsPolicy(config) => IsSettings(PolicyOf(config))
    BY <1>1, ParsedAreSettings, ShippedAreSettings DEF IsFile, IsPolicy, PolicyOf
<1>3. Range(ran) = {}
    BY NothingThere DEF ConfigurationInit
<1>4. ConfigIsExact
    BY <1>3 DEF ConfigIsExact, ShownIsLoaded, OthersStay, NamedTakesEffect, SavesAreSafe, AsSaved
<1>5. QED
    BY <1>1, <1>2, <1>4 DEF ConfigInv

LEMMA LeaveKeeps ==
    ASSUME NEW file \in Handwritten, Leave(file)
    PROVE  ConfigInv'
<1>1. config' = file /\ IsFile(file) /\ Range(ran') = {}
    BY ConfigurationAssumption, NothingThere DEF Leave
<1>2. IsPolicy(file) => IsSettings(PolicyOf(file))
    BY <1>1, ParsedAreSettings, ShippedAreSettings DEF IsFile, IsPolicy, PolicyOf
<1>3. (IsFile(config) /\ (IsPolicy(config) => IsSettings(PolicyOf(config))))'
    BY <1>1, <1>2
<1>4. ConfigIsExact'
    BY <1>1 DEF ConfigIsExact, ShownIsLoaded, OthersStay, NamedTakesEffect, SavesAreSafe, AsSaved
<1>5. QED
    BY <1>3, <1>4 DEF ConfigInv

LEMMA ConfigStep == ConfigInv /\ [ConfigurationNext]_configvars => ConfigInv'
<1> SUFFICES ASSUME ConfigInv, [ConfigurationNext]_configvars
             PROVE  ConfigInv'
    OBVIOUS
<1>1. CASE \E o \in Invocations : Configure(o)
    BY <1>1, ConfigureKeeps, ConfigurationAssumption
<1>2. CASE \E file \in Handwritten : Leave(file)
    BY <1>2, LeaveKeeps
<1>3. CASE UNCHANGED configvars
  <2>1. config' = config /\ ran' = ran /\ pinned' = pinned
      BY <1>3 DEF configvars
  <2>2. (IsFile(config) /\ (IsPolicy(config) => IsSettings(PolicyOf(config))))'
      BY <2>1 DEF ConfigInv
  <2>3. ShownIsLoaded'
      BY <2>1 DEF ConfigInv, ConfigIsExact, ShownIsLoaded
  <2>4. OthersStay'
      BY <2>1 DEF ConfigInv, ConfigIsExact, OthersStay, AsSaved, Was
  <2>5. NamedTakesEffect'
      BY <2>1 DEF ConfigInv, ConfigIsExact, NamedTakesEffect, AsSaved, Was
  <2>6. SavesAreSafe'
      BY <2>1 DEF ConfigInv, ConfigIsExact, SavesAreSafe, IsLoaded, Was
  <2>7. QED
      BY <2>2, <2>3, <2>4, <2>5, <2>6 DEF ConfigInv, ConfigIsExact
<1>4. QED
    BY <1>1, <1>2, <1>3 DEF ConfigurationNext

(* The file is what a user left or what render_settings wrote, and what a  *)
(* hook reads in it are settings, whatever `shim config` was asked.        *)
THEOREM ConfigInvariant == ConfigurationSpec => []ConfigInv
<1>1. QED
    BY ConfigInitially, ConfigStep, PTL DEF ConfigurationSpec

(* `shim config` shows what is loaded, leaves what it was not asked to     *)
(* change, does what it was asked, and saves nothing a hook refuses.       *)
THEOREM ConfigIsKept == ConfigurationSpec => []ConfigIsExact
<1>1. ConfigInv => ConfigIsExact
    BY DEF ConfigInv
<1>2. QED
    BY <1>1, ConfigInvariant, PTL
-----------------------------------------------------------------------------
(* Where shim's group is the only one that a filter leaves, it stands at   *)
(* one place.                                                              *)
LEMMA OnePlace ==
    ASSUME NEW T, NEW S, NEW x
    PROVE  \A s \in Seq(T) :
              Without(s, S) = << x >> =>
                 \A i, j \in 1..Len(s) : s[i] \notin S /\ s[j] \notin S => i = j
<1> DEFINE Once(s) == \A i, j \in 1..Len(s) : s[i] \notin S /\ s[j] \notin S => i = j
           I == {s \in Seq(T) : Without(s, S) = << x >> => Once(s)}
<1>1. << >> \in I
  <2>1. << >> # << x >>
      OBVIOUS
  <2>2. QED
      BY <2>1, WithoutEmpty, EmptySeq
<1>2. ASSUME NEW s \in Seq(T), NEW y \in T, s \in I
      PROVE  Append(s, y) \in I
  <2> DEFINE t == Append(s, y)
             m == Len(s)
  <2>1. /\ t \in Seq(T) /\ Len(t) = m + 1 /\ m \in Nat /\ DOMAIN s = 1..m
        /\ t[m + 1] = y /\ \A i \in 1..m : t[i] = s[i]
      BY AppendProperties, LenProperties
  <2>2. Without(t, S) = IF y \in S THEN Without(s, S) ELSE Append(Without(s, S), y)
      BY WithoutAppend
  <2>3. Without(s, S) \in Seq(T) /\ Range(Without(s, S)) = Range(s) \ S
    <3>1. Without(s, S) \in Seq(T \ S)
        BY WithoutRest
    <3>2. QED
        BY <3>1, SeqMonotonic, WithoutRange
  <2> HIDE DEF t, m
  <2>4. SUFFICES ASSUME Without(t, S) = << x >>
                 PROVE  Once(t)
      BY <2>1 DEF t
  <2>5. CASE y \in S
    <3>1. Without(s, S) = << x >>
        BY <2>2, <2>4, <2>5
    <3>2. \A i, j \in 1..m : s[i] \notin S /\ s[j] \notin S => i = j
        BY <1>2, <3>1 DEF m
    <3>3. ASSUME NEW i \in 1..Len(t), t[i] \notin S
          PROVE  i \in 1..m /\ s[i] \notin S
        BY <2>1, <2>5, <3>3
    <3>4. QED
        BY <3>2, <3>3
  <2>6. CASE y \notin S
    <3> DEFINE left == Without(s, S)
    <3>1. Append(left, y) = << x >> /\ left \in Seq(T)
        BY <2>2, <2>3, <2>4, <2>6
    <3>2. left = << >>
      <4> HIDE DEF left
      <4>1. Len(Append(left, y)) = Len(left) + 1 /\ Len(<< x >>) = 1 /\ Len(left) \in Nat
          BY <3>1, AppendProperties, LenProperties
      <4>2. Len(left) = 0
          BY <3>1, <4>1
      <4>3. QED
          BY <3>1, <4>2, EmptySeq
    <3>3. Range(s) \ S = {}
        BY <2>3, <3>2, NothingThere
    <3>4. \A i \in 1..m : s[i] \in S
        BY <2>1, <3>3 DEF Range
    <3>5. \A i \in 1..Len(t) : t[i] \notin S => i = m + 1
        BY <2>1, <3>4
    <3>6. QED
        BY <3>5
  <2>7. QED
      BY <2>5, <2>6
<1> HIDE DEF I
<1>3. Seq(T) \subseteq I
    BY <1>1, <1>2, AllSequences
<1>4. QED
    BY <1>3 DEF I

-----------------------------------------------------------------------------
(* A file is one that install can use after an install or a revert.        *)
LEMMA StaysUsable ==
    ASSUME NEW d, IsDoc(d), ~Unusable(d), NEW a, IsDoc(a), a # Broken,
           \A e \in Events : Others(a.of[e]) = Others(d.of[e])
    PROVE  ~Unusable(a)
<1>1. \A e \in Events : d.of[e] \in Seq(HookGroups) /\ a.of[e] \in Seq(HookGroups)
    BY DEF IsDoc, Docs
<1>2. ASSUME NEW e \in Events, NEW g \in Range(a.of[e]), ~IsShim(g, "any")
      PROVE  g \in Range(d.of[e])
  <2>1. g \in Range(Others(a.of[e]))
      BY <1>1, <1>2, DroppedList
  <2>2. QED
      BY <1>1, <2>1, DroppedList
<1>3. ~IsShim(Mixed, "any")
  <2>1. Mixed \in Foreign
      BY DEF Foreign
  <2>2. QED
      BY <2>1, TwoKinds DEF IsShim
<1>4. Mixed \notin Groups(a)
    BY <1>2, <1>3 DEF Groups, Unusable
<1>5. ~(client = "copilot" /\ \E g \in Groups(a) : ~IsShim(g, "any"))
    BY <1>2 DEF Groups, Unusable
<1>6. QED
    BY <1>4, <1>5 DEF Unusable

(* The group at a place. *)
LEMMA GroupsThere ==
    ASSUME NEW d, IsDoc(d), NEW e \in Events
    PROVE  /\ d.of[e] \in Seq(HookGroups) /\ DOMAIN d.of[e] = 1..Len(d.of[e]) /\ Len(d.of[e]) \in Nat
           /\ \A p \in DOMAIN d.of[e] : d.of[e][p] \in HookGroups /\ d.of[e][p] \in Range(d.of[e])
           /\ Range(d.of[e]) \subseteq Groups(d)
<1>1. d.of[e] \in Seq(HookGroups)
    BY DEF IsDoc, Docs
<1>2. DOMAIN d.of[e] = 1..Len(d.of[e]) /\ Len(d.of[e]) \in Nat
    BY <1>1, LenProperties
<1>3. \A p \in DOMAIN d.of[e] : d.of[e][p] \in Range(d.of[e])
    BY DEF Range
<1>4. \A g \in Range(d.of[e]) : g \in HookGroups
    BY <1>1, RangeOfSeq
<1>5. Range(d.of[e]) \subseteq Groups(d)
    BY DEF Groups
<1>6. QED
    BY <1>1, <1>2, <1>3, <1>4, <1>5

(* Where a hook is on disk. *)
LEMMA OnDiskAre ==
    ASSUME NEW w, IsDoc(w.doc)
    PROVE  /\ \A h \in OnDisk(w) :
                 /\ h[1] \in Events /\ h[2] \in DOMAIN w.doc.of[h[1]] /\ h = << h[1], h[2] >>
                 /\ GroupOf(w, h) = w.doc.of[h[1]][h[2]]
                 /\ GroupOf(w, h)[1] \in {"shim", "legacy", "mixed"}
                 /\ GroupOf(w, h) \in HookGroups /\ GroupOf(w, h) \in Range(w.doc.of[h[1]])
                 /\ GroupOf(w, h) \in Groups(w.doc)
           /\ ~Unusable(w.doc) => \A e \in Events : \A p \in 1..Len(w.doc.of[e]) :
                 w.doc.of[e][p][1] \in {"shim", "legacy", "mixed"} => << e, p >> \in OnDisk(w)
<1> DEFINE places == UNION { {e} \X DOMAIN w.doc.of[e] : e \in Events }
<1>1. \A h \in places : h[1] \in Events /\ h[2] \in DOMAIN w.doc.of[h[1]] /\ h = << h[1], h[2] >>
    OBVIOUS
<1>2. \A h \in OnDisk(w) : h \in places /\ GroupOf(w, h)[1] \in {"shim", "legacy", "mixed"}
    BY DEF OnDisk, GroupOf
<1>3. ASSUME NEW h \in OnDisk(w)
      PROVE  /\ GroupOf(w, h) \in HookGroups /\ GroupOf(w, h) \in Range(w.doc.of[h[1]])
             /\ GroupOf(w, h) \in Groups(w.doc)
    BY <1>1, <1>2, GroupsThere DEF GroupOf
<1>4. ASSUME ~Unusable(w.doc), NEW e \in Events, NEW p \in 1..Len(w.doc.of[e]),
             w.doc.of[e][p][1] \in {"shim", "legacy", "mixed"}
      PROVE  << e, p >> \in OnDisk(w)
  <2>1. p \in DOMAIN w.doc.of[e]
      BY GroupsThere
  <2>2. << e, p >> \in places
      BY <2>1
  <2>3. QED
      BY <1>4, <2>2 DEF OnDisk
<1>5. QED
    BY <1>1, <1>2, <1>3, <1>4 DEF GroupOf

LEMMA ShimsAreFinite ==
    ASSUME NEW w, IsDoc(w.doc)
    PROVE  IsFiniteSet(Shims(w)) /\ Shims(w) \subseteq OnDisk(w)
<1> DEFINE of(e) == {e} \X DOMAIN w.doc.of[e]
<1>1. \A e \in Events : IsFiniteSet(of(e))
  <2> SUFFICES ASSUME NEW e \in Events
               PROVE  IsFiniteSet(of(e))
      OBVIOUS
  <2>1. DOMAIN w.doc.of[e] = 1..Len(w.doc.of[e]) /\ Len(w.doc.of[e]) \in Int /\ 1 \in Int
      BY GroupsThere
  <2>2. IsFiniteSet(1..Len(w.doc.of[e]))
      BY <2>1, FS_Interval
  <2>3. IsFiniteSet({e})
      BY FS_Singleton
  <2>4. QED
      BY <2>1, <2>2, <2>3, FS_Product
<1> HIDE DEF of
<1>2. UNION { of(e) : e \in Events } = of("UserPromptSubmit") \cup of("PostToolUse") \cup of("Stopped")
    BY DEF Events
<1>3. IsFiniteSet(of("UserPromptSubmit")) /\ IsFiniteSet(of("PostToolUse")) /\ IsFiniteSet(of("Stopped"))
    BY <1>1 DEF Events
<1>4. IsFiniteSet(UNION { of(e) : e \in Events })
  <2>1. IsFiniteSet(of("UserPromptSubmit") \cup of("PostToolUse"))
      BY <1>3, FS_Union
  <2>2. IsFiniteSet(of("UserPromptSubmit") \cup of("PostToolUse") \cup of("Stopped"))
      BY <1>3, <2>1, FS_Union
  <2>3. QED
      BY <1>2, <2>2
<1>5. Shims(w) \subseteq OnDisk(w)
    BY DEF Shims
<1>6. OnDisk(w) \subseteq UNION { of(e) : e \in Events }
    BY DEF OnDisk, of
<1>7. QED
    BY <1>4, <1>5, <1>6, FS_Subset

(* A file as install leaves it: shim's hook on every registered event, once *)
(* and nowhere else, whoever else had one there.                            *)
InPlace(w) == IsDoc(w.doc) /\ ~Unusable(w.doc) /\ Added(w.doc, Me) = w.doc

LEMMA InPlaceIs ==
    ASSUME NEW w, InPlace(w)
    PROVE  /\ \A h \in OnDisk(w) : h[1] \in Registered /\ GroupOf(w, h) = Shim(Me)
           /\ \A g, h \in OnDisk(w) : g[1] = h[1] => g = h
           /\ Installed(w) = Registered /\ Elsewhere(w) = {} /\ ~InTheFileTwice(w)
           /\ w.doc.kind = "file"
<1>1. Me \in Installers /\ Me \in Installations
    BY DoctorAssumption DEF Installations
<1>2. /\ w.doc.kind = "file"
      /\ \A e \in Events : Without(w.doc.of[e], Foreign) = IF e \in Registered THEN << Shim(Me) >> ELSE << >>
    BY <1>1, AddedDoc DEF InPlace
<1>3. ASSUME NEW h \in OnDisk(w)
      PROVE  GroupOf(w, h) \notin Foreign
  <2>1. GroupOf(w, h) # Mixed
      BY OnDiskAre DEF InPlace, Unusable
  <2>2. GroupOf(w, h)[1] # "theirs"
      BY OnDiskAre DEF InPlace
  <2>3. QED
      BY <2>1, <2>2 DEF Foreign
<1>4. ASSUME NEW h \in OnDisk(w)
      PROVE  h[1] \in Registered /\ GroupOf(w, h) = Shim(Me)
  <2> DEFINE s == w.doc.of[h[1]]
  <2>1. h[1] \in Events /\ s \in Seq(HookGroups) /\ GroupOf(w, h) \in Range(s)
      BY OnDiskAre, GroupsThere DEF InPlace
  <2>2. GroupOf(w, h) \in Range(Without(s, Foreign))
      BY <1>3, <2>1, WithoutRange
  <2>3. Range(<< >>) = {} /\ Range(<< Shim(Me) >>) = {Shim(Me)}
      BY DEF Range
  <2> HIDE DEF s
  <2>4. QED
      BY <1>2, <2>1, <2>2, <2>3 DEF s
<1>5. ASSUME NEW g \in OnDisk(w), NEW h \in OnDisk(w), g[1] = h[1]
      PROVE  g = h
  <2> DEFINE s == w.doc.of[h[1]]
  <2>1. /\ h[1] \in Events /\ g[2] \in DOMAIN s /\ h[2] \in DOMAIN s
        /\ g = << g[1], g[2] >> /\ h = << h[1], h[2] >>
        /\ GroupOf(w, g) = s[g[2]] /\ GroupOf(w, h) = s[h[2]]
      BY <1>5, OnDiskAre DEF InPlace
  <2>2. s \in Seq(HookGroups) /\ DOMAIN s = 1..Len(s)
      BY <2>1, GroupsThere DEF InPlace
  <2>3. Without(s, Foreign) = << Shim(Me) >>
      BY <1>2, <1>4, <2>1
  <2>4. s[g[2]] \notin Foreign /\ s[h[2]] \notin Foreign
      BY <1>3, <2>1
  <2> HIDE DEF s
  <2>5. g[2] = h[2]
      BY <2>1, <2>2, <2>3, <2>4, OnePlace
  <2>6. QED
      BY <1>5, <2>1, <2>5
<1>6. Installed(w) = Registered
  <2>1. w.doc # Broken
      BY DEF InPlace, Unusable
  <2>2. CASE client = "copilot"
      BY <2>1, <2>2 DEF Installed, InPlace
  <2>3. CASE client # "copilot"
    <3>1. ASSUME NEW e \in Registered
          PROVE  Shim(Me) \in Range(w.doc.of[e])
      <4>1. e \in Events
          BY DEF Registered, Events
      <4>2. w.doc.of[e] \in Seq(HookGroups) /\ Without(w.doc.of[e], Foreign) = << Shim(Me) >>
          BY <1>2, <3>1, <4>1, GroupsThere DEF InPlace
      <4>3. Range(<< Shim(Me) >>) = {Shim(Me)}
          BY DEF Range
      <4>4. QED
          BY <4>2, <4>3, WithoutRange
    <3>2. QED
        BY <2>1, <2>3, <3>1 DEF Installed
  <2>4. QED
      BY <2>2, <2>3
<1>7. Elsewhere(w) = {}
  <2>1. \A h \in Shims(w) : GroupOf(w, h)[2] = Me
      BY <1>4 DEF Shims, Shim
  <2>2. QED
      BY <2>1 DEF Elsewhere
<1>8. ~InTheFileTwice(w)
    BY <1>5 DEF InTheFileTwice, Shims
<1>9. QED
    BY <1>2, <1>4, <1>5, <1>6, <1>7, <1>8

(* What install writes is in place. *)
LEMMA AddedInPlace ==
    ASSUME NEW w, NEW d, IsDoc(d), ~Unusable(d), w.doc = Added(d, Me)
    PROVE  InPlace(w)
<1>1. Me \in Installers
    BY DoctorAssumption
<1>2. /\ Added(d, Me) \in Docs /\ Added(d, Me).kind = "file"
      /\ \A e \in Events : Others(Added(d, Me).of[e]) = Others(d.of[e])
      /\ Added(Added(d, Me), Me) = Added(d, Me)
    BY <1>1, AddedDoc
<1> DEFINE a == Added(d, Me)
<1> HIDE DEF a
<1>3. IsDoc(a) /\ a # Broken
    BY <1>2 DEF a, IsDoc, Broken
<1>4. ~Unusable(a)
    BY <1>2, <1>3, StaysUsable DEF a
<1>5. QED
    BY <1>2, <1>3, <1>4 DEF a, InPlace

(* What revert leaves of it runs shim nowhere. *)
LEMMA RevertedIs ==
    ASSUME NEW w, NEW d, IsDoc(d), ~Unusable(d), d # Absent, client # "copilot", w.doc = Removed(d)
    PROVE  OnDisk(w) = {} /\ Installed(w) = {} /\ Shims(w) = {} /\ ~InTheFileTwice(w)
<1> DEFINE a == Removed(d)
<1>1. /\ IsDoc(a) /\ a.kind = "file"
      /\ \A e \in Events : Others(a.of[e]) = Others(d.of[e]) /\ Without(a.of[e], Foreign) = << >>
  <2>1. /\ a \in Docs /\ (a.kind = "file" \/ a.of = NoGroups)
        /\ \A e \in Events : Others(a.of[e]) = Others(d.of[e]) /\ Without(a.of[e], Foreign) = << >>
      BY RemovedDoc
  <2>2. a.kind = "file"
      BY DEF Removed, File
  <2> HIDE DEF a
  <2>3. QED
      BY <2>1, <2>2 DEF IsDoc
<1> HIDE DEF a
<1>2. a # Broken
    BY <1>1 DEF Broken
<1>3. ~Unusable(a)
    BY <1>1, <1>2, StaysUsable
<1>4. w.doc = a
    BY DEF a
<1>5. \A e \in Events : Range(a.of[e]) \subseteq Foreign
  <2> SUFFICES ASSUME NEW e \in Events
               PROVE  Range(a.of[e]) \subseteq Foreign
      OBVIOUS
  <2>1. a.of[e] \in Seq(HookGroups) /\ Without(a.of[e], Foreign) = << >>
      BY <1>1, GroupsThere
  <2>2. Range(<< >>) = Range(a.of[e]) \ Foreign
      BY <2>1, WithoutRange
  <2>3. QED
      BY <2>2, NothingThere
<1>6. ASSUME NEW h \in OnDisk(w)
      PROVE  FALSE
  <2>1. /\ h[1] \in Events /\ GroupOf(w, h) \in Range(a.of[h[1]]) /\ GroupOf(w, h) \in Groups(a)
        /\ GroupOf(w, h)[1] \in {"shim", "legacy", "mixed"}
      BY <1>1, <1>4, OnDiskAre
  <2>2. GroupOf(w, h) \in Foreign /\ GroupOf(w, h) # Mixed
      BY <1>3, <1>5, <2>1 DEF Unusable
  <2>3. QED
      BY <2>1, <2>2 DEF Foreign
<1>7. Installed(w) = {}
  <2>1. ASSUME NEW e \in Registered, Shim(Me) \in Range(w.doc.of[e])
        PROVE  FALSE
    <3>1. e \in Events
        BY DEF Registered, Events
    <3>2. Shim(Me) \in Foreign
        BY <1>4, <1>5, <2>1, <3>1
    <3>3. QED
        BY <3>2 DEF Foreign, Shim, Mixed
  <2>2. QED
      BY <1>2, <1>4, <2>1 DEF Installed
<1>8. QED
    BY <1>6, <1>7 DEF Shims, InTheFileTwice

-----------------------------------------------------------------------------
(* Doctor: its checks, by their names. *)
HookChecks == {"hooks_feature", "hook_configuration", "legacy_names", "runner", "hook_resolution",
               "duplicate_hooks", "coverage", "hook_activation"}
SettingChecks == {"client", "entity_settings", "custom_patterns", "mode_defaults", "ledger", "session_record"}
Checks == HookChecks \cup SettingChecks
StatusOf(w, n) == IF n \in HookChecks THEN OfHooks(w)[n] ELSE OfSettings(w.has)[n]

LEMMA HooksAre ==
    ASSUME NEW w
    PROVE  /\ DOMAIN OfHooks(w) = HookChecks
           /\ OfHooks(w)["hooks_feature"] = HooksFeature(w.has)
           /\ OfHooks(w)["hook_configuration"] = HookConfiguration(w, Has020(w) \/ Installed(w) # {})
           /\ OfHooks(w)["legacy_names"] = LegacyNames(w)
           /\ OfHooks(w)["runner"] = Runner(w)
           /\ OfHooks(w)["hook_resolution"] = Resolution(w)
           /\ OfHooks(w)["duplicate_hooks"] = DuplicateHooks(w)
           /\ OfHooks(w)["coverage"] = Coverage(w)
           /\ OfHooks(w)["hook_activation"] = Activation
    BY DEF OfHooks, HookChecks

LEMMA SettingsAreOf ==
    ASSUME NEW s
    PROVE  /\ DOMAIN OfSettings(s) = SettingChecks
           /\ OfSettings(s)["client"] = ClientVersion(s)
           /\ OfSettings(s)["entity_settings"] = EntitySettings(s)
           /\ OfSettings(s)["custom_patterns"] = CustomPatterns(s)
           /\ OfSettings(s)["mode_defaults"] = ModeDefaults(s)
           /\ OfSettings(s)["ledger"] = Ledger(s)
           /\ OfSettings(s)["session_record"] = SessionRecord(s)
    BY DEF OfSettings, SettingChecks

LEMMA LabelsAre ==
    ASSUME NEW w
    PROVE  Statuses(OfHooks(w)) \cup Statuses(OfSettings(w.has)) = {StatusOf(w, n) : n \in Checks}
<1>1. HookChecks \cap SettingChecks = {}
    BY DEF HookChecks, SettingChecks
<1>2. DOMAIN OfHooks(w) = HookChecks /\ DOMAIN OfSettings(w.has) = SettingChecks
    BY HooksAre, SettingsAreOf
<1>3. Statuses(OfHooks(w)) = {StatusOf(w, n) : n \in HookChecks}
    BY <1>2 DEF Statuses, StatusOf
<1>4. Statuses(OfSettings(w.has)) = {StatusOf(w, n) : n \in SettingChecks}
    BY <1>1, <1>2 DEF Statuses, StatusOf
<1>5. QED
    BY <1>3, <1>4 DEF Checks

(* The codes each check has. *)
LEMMA CodesAre ==
    ASSUME NEW w
    PROVE  /\ Codes(w)["client"] \in {"CLIENT_NOT_FOUND", "CLIENT_VERSION_UNKNOWN", "CLIENT_TOO_OLD", "CLIENT_NEWER_THAN_TESTED"}
           /\ Codes(w)["hooks_feature"] \in {"CODEX_HOOKS_UNCHECKED", "CODEX_HOOKS_DISABLED"}
           /\ Codes(w)["hook_configuration"] \in {"CLIENT_SETTINGS_MALFORMED", "HOOK_NOT_INSTALLED"}
           /\ Codes(w)["legacy_names"] = "LEGACY_NAMES_PRESENT"
           /\ Codes(w)["runner"] = "HOOK_RUNNER_FAILED"
           /\ Codes(w)["hook_resolution"] \in {"ARCHIVE_VERSION_SKEW", "HOOK_RESOLUTION_FAILED"}
           /\ Codes(w)["duplicate_hooks"] \in {"PLUGIN_NOT_DISCOVERABLE", "DUPLICATE_HOOKS"}
           /\ Codes(w)["coverage"] = "HOOK_EVENTS_MISSING"
           /\ Codes(w)["hook_activation"] = "HOOK_ACTIVATION_UNVERIFIED"
           /\ Codes(w)["entity_settings"] \in {"SETTINGS_INVALID", "DETECTION_DISABLED", "SETTINGS_FILE_ABSENT"}
           /\ Codes(w)["custom_patterns"] \in {"CUSTOM_PATTERN_UNSAFE", "CUSTOM_PATTERNS_INACTIVE"}
           /\ Codes(w)["mode_defaults"] = "MODE_DEFAULT_WEAKENS"
           /\ Codes(w)["ledger"] = "LEDGER_FOLDER_UNSAFE"
           /\ Codes(w)["session_record"] = "SESSION_RECORDS_UNWRITABLE"
    BY DEF Codes

(* No two checks have a code in common. *)
OwnerOf(code) ==
    CASE code \in {"CLIENT_NOT_FOUND", "CLIENT_VERSION_UNKNOWN", "CLIENT_TOO_OLD", "CLIENT_NEWER_THAN_TESTED"} -> "client"
      [] code \in {"CODEX_HOOKS_UNCHECKED", "CODEX_HOOKS_DISABLED"} -> "hooks_feature"
      [] code \in {"CLIENT_SETTINGS_MALFORMED", "HOOK_NOT_INSTALLED"} -> "hook_configuration"
      [] code = "LEGACY_NAMES_PRESENT" -> "legacy_names"
      [] code = "HOOK_RUNNER_FAILED" -> "runner"
      [] code \in {"ARCHIVE_VERSION_SKEW", "HOOK_RESOLUTION_FAILED"} -> "hook_resolution"
      [] code \in {"PLUGIN_NOT_DISCOVERABLE", "DUPLICATE_HOOKS"} -> "duplicate_hooks"
      [] code = "HOOK_EVENTS_MISSING" -> "coverage"
      [] code = "HOOK_ACTIVATION_UNVERIFIED" -> "hook_activation"
      [] code \in {"SETTINGS_INVALID", "DETECTION_DISABLED", "SETTINGS_FILE_ABSENT"} -> "entity_settings"
      [] code \in {"CUSTOM_PATTERN_UNSAFE", "CUSTOM_PATTERNS_INACTIVE"} -> "custom_patterns"
      [] code = "MODE_DEFAULT_WEAKENS" -> "mode_defaults"
      [] code = "LEDGER_FOLDER_UNSAFE" -> "ledger"
      [] code = "SESSION_RECORDS_UNWRITABLE" -> "session_record"

LEMMA OwnersAre ==
    ASSUME NEW w, NEW n \in Checks
    PROVE  OwnerOf(Codes(w)[n]) = n
<1> DEFINE c == Codes(w)
<1> HIDE DEF c
<1>1. CASE n \in {"client", "hooks_feature", "hook_configuration"}
    BY <1>1, CodesAre DEF OwnerOf, c
<1>2. CASE n \in {"legacy_names", "runner", "hook_resolution"}
    BY <1>2, CodesAre DEF OwnerOf, c
<1>3. CASE n \in {"duplicate_hooks", "coverage", "hook_activation"}
    BY <1>3, CodesAre DEF OwnerOf, c
<1>4. CASE n \in {"entity_settings", "custom_patterns", "mode_defaults", "ledger", "session_record"}
    BY <1>4, CodesAre DEF OwnerOf, c
<1>5. QED
    BY <1>1, <1>2, <1>3, <1>4 DEF Checks, HookChecks, SettingChecks

(* The rules of the codes of doctor's checks. *)
LEMMA RulesAre ==
    /\ \A code \in DOMAIN DoctorRules : RuleOf(code).severity = "low" /\ RuleOf(code).risk = "reliability"
    /\ \A code \in DOMAIN UsualRules : RuleOf(code).severity = "informational" /\ RuleOf(code).risk = "reliability"
    /\ \A code \in DOMAIN ExposingRules : RuleOf(code).severity = "low" /\ RuleOf(code).risk = "privacy"
<1>1. \A code \in DOMAIN DoctorRules : DoctorRules[code] = Low("reliability")
    BY DEF DoctorRules
<1>2. \A code \in DOMAIN UsualRules : UsualRules[code] = AsUsual
    BY DEF UsualRules
<1>3. \A code \in DOMAIN ExposingRules : ExposingRules[code] = Low("privacy")
    BY DEF ExposingRules
<1>4. /\ DOMAIN DoctorRules \cap DOMAIN UsualRules = {} /\ DOMAIN DoctorRules \cap DOMAIN ExposingRules = {}
      /\ DOMAIN UsualRules \cap DOMAIN ExposingRules = {}
    BY DEF DoctorRules, UsualRules, ExposingRules
<1>5. /\ (DOMAIN DoctorRules \cup DOMAIN UsualRules \cup DOMAIN ExposingRules) \cap DOMAIN SessionRules = {}
      /\ (DOMAIN DoctorRules \cup DOMAIN UsualRules \cup DOMAIN ExposingRules) \cap DOMAIN WatchRules = {}
    BY DEF DoctorRules, UsualRules, ExposingRules, SessionRules, WatchRules
<1>6. \A code \in DOMAIN DoctorRules : RuleOf(code) = DoctorRules[code]
    BY <1>4, <1>5 DEF RuleOf
<1>7. \A code \in DOMAIN UsualRules : RuleOf(code) = UsualRules[code]
    BY <1>4, <1>5 DEF RuleOf
<1>8. \A code \in DOMAIN ExposingRules : RuleOf(code) = ExposingRules[code]
    BY <1>4, <1>5 DEF RuleOf
<1>9. QED
    BY <1>1, <1>2, <1>3, <1>6, <1>7, <1>8 DEF Low, AsUsual, Rule

-----------------------------------------------------------------------------
(* What the world is, whenever doctor runs. *)
IsWorld(w) == w \in Worlds /\ IsDoc(w.doc)

(* What an install leaves. *)
LEMMA AfterInstallIs ==
    ASSUME NEW w, IsWorld(w), Installs(w)
    PROVE  LET after == AfterInstall(w, TRUE) IN
           /\ after.doc = Added(w.doc, Me) /\ (client = "copilot" => after.old # "ours")
           /\ after.plugins = w.plugins /\ after.runs = TRUE /\ after.source = w.source
           /\ after.skewed = w.skewed /\ after.has = w.has /\ after.gone = w.gone
           /\ InPlace(after)
<1> DEFINE after == AfterInstall(w, TRUE)
<1>1. after = [w EXCEPT !.doc = Added(@, Me), !.old = IF @ = "ours" /\ TRUE THEN "none" ELSE @]
    BY DEF AfterInstall
<1>2. w.runs = TRUE
    BY DEF IsWorld, Worlds, Installs
<1>3. /\ after.doc = Added(w.doc, Me) /\ after.old # "ours"
      /\ after.plugins = w.plugins /\ after.runs = w.runs /\ after.source = w.source
      /\ after.skewed = w.skewed /\ after.has = w.has /\ after.gone = w.gone
    BY <1>1 DEF IsWorld, Worlds
<1> HIDE DEF after
<1>4. InPlace(after)
    BY <1>3, AddedInPlace DEF IsWorld, Installs
<1>5. QED
    BY <1>2, <1>3, <1>4 DEF after

(* In a file that is in place, nothing of 0.2.0 is. *)
LEMMA InPlaceIsNew ==
    ASSUME NEW w, InPlace(w), client = "copilot" => w.old # "ours"
    PROVE  ~Has020(w)
<1>1. \A h \in OnDisk(w) : GroupOf(w, h)[1] = "shim"
    BY InPlaceIs DEF Shim
<1>2. QED
    BY <1>1 DEF Has020

LEMMA RegisteredIs ==
    /\ Registered # {} /\ Registered \subseteq Events
    /\ client \in {"claude", "codex", "copilot"} =>
          Registered = {"UserPromptSubmit"} \cup IF client = "claude" THEN {"PostToolUse"} ELSE {}
BY DEF Registered, Events

RowsFit(w) ==
    /\ \A r \in CoverageRows(w) : r.event \in Registered /\ (r.installed <=> r.event \in Installed(w))
    /\ \A e \in Registered : \E r \in CoverageRows(w) : r.event = e

LEMMA RowsAre ==
    ASSUME NEW w, client \in {"claude", "codex", "copilot"}
    PROVE  RowsFit(w)
<1> DEFINE row(e) == [event |-> e, can_mask |-> IF e = "UserPromptSubmit" THEN client = "copilot" ELSE TRUE,
                      installed |-> e \in Installed(w)]
<1>1. CoverageRows(w) = {row(e) : e \in Registered}
    BY RegisteredIs DEF CoverageRows
<1>2. \A e : row(e).event = e /\ row(e).installed = (e \in Installed(w))
    OBVIOUS
<1> HIDE DEF row
<1>3. \A r \in CoverageRows(w) : r.event \in Registered /\ (r.installed <=> r.event \in Installed(w))
  <2> SUFFICES ASSUME NEW e \in Registered
               PROVE  row(e).event \in Registered /\ (row(e).installed <=> row(e).event \in Installed(w))
      BY <1>1, Zenon
  <2>1. row(e).event = e
      BY <1>2
  <2>2. row(e).installed <=> e \in Installed(w)
      BY <1>2, Zenon
  <2>3. QED
      BY <2>1, <2>2, Zenon
<1>4. \A e \in Registered : \E r \in CoverageRows(w) : r.event = e
    BY <1>1, <1>2
<1>5. QED
    BY <1>3, <1>4, Zenon DEF RowsFit

LEMMA CoverageIs ==
    ASSUME NEW w, client \in {"claude", "codex", "copilot"}
    PROVE  Coverage(w) = IF Registered \subseteq Installed(w) THEN "PASS" ELSE "WARN"
<1>1. RowsFit(w)
    BY RowsAre
<1>2. ASSUME \A r \in CoverageRows(w) : r.installed
      PROVE  Registered \subseteq Installed(w)
  <2>1. ASSUME NEW e \in Registered
        PROVE  e \in Installed(w)
    <3>1. PICK r \in CoverageRows(w) : r.event = e
        BY <1>1, Zenon DEF RowsFit
    <3>2. r.installed /\ (r.installed <=> r.event \in Installed(w))
        BY <1>1, <1>2, Zenon DEF RowsFit
    <3>3. r.event \in Installed(w)
        BY <3>2, Zenon
    <3>4. QED
        BY <3>1, <3>3
  <2>2. QED
      BY <2>1
<1>3. ASSUME Registered \subseteq Installed(w)
      PROVE  \A r \in CoverageRows(w) : r.installed
  <2>1. \A e \in Registered : e \in Installed(w)
      BY <1>3
  <2>2. QED
      BY <1>1, <2>1, Zenon DEF RowsFit
<1>4. QED
    BY <1>2, <1>3, Zenon DEF Coverage

(* The install that is advised helps, and so does one revert after it.     *)
LEMMA AdviceIsRight ==
    ASSUME DoctorInv, world # NotAsked
    PROVE  AdviceHelps
<1> DEFINE after == AfterInstall(world, TRUE)
           told == OfHooks(after)
<1> SUFFICES ASSUME InstallIsAdvised(world), Installs(world)
             PROVE  /\ told.hook_configuration = "PASS" /\ told.coverage = "PASS"
                    /\ told.legacy_names # "FAIL" /\ told.hook_resolution # "FAIL"
                    /\ told.duplicate_hooks = "FAIL" =>
                           /\ client = "claude" /\ world.plugins # {}
                           /\ Cardinality(world.plugins) = 1 =>
                                 BothAreInstalled(after) /\ OfHooks(AfterRevert(after)).duplicate_hooks = "PASS"
    BY DEF AdviceHelps
<1>1. IsWorld(world) /\ client \in {"claude", "codex", "copilot"}
    BY DEF DoctorInv, IsWorld, IsDoc, Worlds
<1>2. /\ after.doc = Added(world.doc, Me) /\ (client = "copilot" => after.old # "ours")
      /\ after.plugins = world.plugins /\ after.runs = TRUE /\ after.source = world.source
      /\ after.skewed = world.skewed /\ after.has = world.has
      /\ InPlace(after)
    BY <1>1, AfterInstallIs
<1> HIDE DEF after
<1>3. /\ Installed(after) = Registered /\ Registered # {} /\ ~InTheFileTwice(after) /\ ~Has020(after)
      /\ ~Unusable(after.doc) /\ Added(after.doc, Me) = after.doc
    BY <1>2, InPlaceIs, InPlaceIsNew, RegisteredIs DEF InPlace
<1>4. told.hook_configuration = "PASS"
    BY <1>3, HooksAre DEF HookConfiguration
<1>5. told.coverage = "PASS"
    BY <1>1, <1>3, HooksAre, CoverageIs
<1>6. told.legacy_names # "FAIL"
    BY <1>3, HooksAre DEF LegacyNames
<1>7. told.hook_resolution # "FAIL"
    BY <1>2, <1>3, HooksAre DEF Resolution
<1>8. ASSUME told.duplicate_hooks = "FAIL"
      PROVE  client = "claude" /\ world.plugins # {}
  <2>1. DuplicateHooks(after) = "FAIL"
      BY <1>8, HooksAre
  <2>2. client \notin {"copilot", "codex"}
      BY <1>3, <2>1 DEF DuplicateHooks
  <2>3. Cardinality(world.plugins) > 1 \/ world.plugins # {}
      BY <1>2, <1>3, <2>1, <2>2 DEF DuplicateHooks
  <2>4. Cardinality({}) = 0
      BY FS_EmptySet
  <2>5. QED
      BY <1>1, <2>2, <2>3, <2>4
<1>9. ASSUME client = "claude", Cardinality(world.plugins) = 1
      PROVE  BothAreInstalled(after) /\ OfHooks(AfterRevert(after)).duplicate_hooks = "PASS"
  <2> DEFINE reverted == AfterRevert(after)
  <2>1. BothAreInstalled(after)
      BY <1>2, <1>3, <1>9 DEF BothAreInstalled
  <2>2. reverted = [after EXCEPT !.doc = Removed(@)]
      BY <1>3 DEF AfterRevert
  <2>3. after \in [DOMAIN after -> {after[x] : x \in DOMAIN after}] /\ "doc" \in DOMAIN after /\ "plugins" \in DOMAIN after
    <3>1. after = [world EXCEPT !.doc = Added(@, Me), !.old = IF @ = "ours" /\ TRUE THEN "none" ELSE @]
        BY DEF AfterInstall, after
    <3>2. QED
        BY <1>1, <3>1 DEF IsWorld, Worlds
  <2>4. reverted.doc = Removed(after.doc) /\ reverted.plugins = world.plugins
      BY <1>2, <2>2, <2>3
  <2> HIDE DEF reverted
  <2>5. IsDoc(after.doc) /\ ~Unusable(after.doc) /\ after.doc # Absent
      BY <1>2, InPlaceIs DEF InPlace, Absent
  <2>6. Installed(reverted) = {} /\ Shims(reverted) = {} /\ ~InTheFileTwice(reverted)
      BY <1>9, <2>4, <2>5, RevertedIs
  <2>7. DuplicateHooks(reverted) = "PASS"
      BY <1>9, <2>4, <2>6 DEF DuplicateHooks
  <2>8. QED
      BY <2>1, <2>7, HooksAre DEF reverted
<1>10. QED
    BY <1>4, <1>5, <1>6, <1>7, <1>8, <1>9

-----------------------------------------------------------------------------
(* How often an event is inspected: by the hooks that run, and the plugins. *)
Inspecting(w, e) == { h \in Shims(w) : h[1] = e /\ Inspects(w, h) }
Unheard(w) == client = "codex" /\ w.has.feature = "off"

LEMMA PluginsAre ==
    ASSUME NEW w, IsWorld(w)
    PROVE  /\ Cardinality(w.plugins) \in Nat /\ (Cardinality(w.plugins) = 0 <=> w.plugins = {})
<1>1. IsFiniteSet({"shim-cli"}) /\ IsFiniteSet({"shim-guard"})
    BY FS_Singleton
<1>2. IsFiniteSet({"shim-cli"} \cup {"shim-guard"})
    BY <1>1, FS_Union
<1>3. w.plugins \subseteq {"shim-cli"} \cup {"shim-guard"}
    BY DEF IsWorld, Worlds, Plugins
<1>4. IsFiniteSet(w.plugins)
    BY <1>2, <1>3, FS_Subset
<1>5. QED
    BY <1>4, FS_CardinalityType, FS_EmptySet

LEMMA InspectionsAre ==
    ASSUME NEW w, IsWorld(w), NEW e
    PROVE  /\ Cardinality(Inspecting(w, e)) \in Nat /\ (Cardinality(Inspecting(w, e)) = 0 <=> Inspecting(w, e) = {})
           /\ (Cardinality(Inspecting(w, e)) = 1 <=> \E h : Inspecting(w, e) = {h})
           /\ Unheard(w) => Inspections(w, e) = 0
           /\ ~Unheard(w) => Inspections(w, e) = Cardinality(Inspecting(w, e))
                                                + IF client = "copilot" THEN 0 ELSE Cardinality(w.plugins)
           /\ ~InTheFileTwice(w) => Cardinality(Inspecting(w, e)) <= 1
           /\ Inspecting(w, e) \subseteq Shims(w)
<1> DEFINE H == Inspecting(w, e)
<1>1. H \subseteq Shims(w)
    BY DEF Inspecting
<1>2. IsFiniteSet(H)
    BY <1>1, ShimsAreFinite, FS_Subset DEF IsWorld
<1>3. H = { h \in Shims(w) : h[1] = e /\ Inspects(w, h) }
    BY DEF Inspecting
<1>4. \A g, h \in H : ~InTheFileTwice(w) => g = h
    BY DEF Inspecting, InTheFileTwice
<1>5. Inspections(w, e) = IF Unheard(w) THEN 0
                          ELSE Cardinality(H) + IF client = "copilot" THEN 0 ELSE Cardinality(w.plugins)
    BY DEF Inspections, Unheard, Inspecting
<1> HIDE DEF H
<1>6. Cardinality(H) \in Nat /\ (Cardinality(H) = 0 <=> H = {}) /\ (Cardinality(H) = 1 <=> \E h : H = {h})
    BY <1>2, FS_CardinalityType, FS_EmptySet, FS_Singleton
<1>7. ASSUME ~InTheFileTwice(w)
      PROVE  Cardinality(H) <= 1
  <2>1. CASE H = {}
      BY <1>6, <2>1
  <2>2. CASE H # {}
    <3>1. PICK h \in H : TRUE
        BY <2>2
    <3>2. H = {h}
        BY <1>4, <1>7, <3>1
    <3>3. QED
        BY <1>6, <3>2
  <2>3. QED
      BY <2>1, <2>2
<1>8. QED
    BY <1>1, <1>5, <1>6, <1>7 DEF H

(* An event that is inspected twice fails the check for duplicates.        *)
LEMMA TwiceIsTold ==
    ASSUME NEW w, IsWorld(w), client \in {"claude", "codex", "copilot"}, Seen(w), NEW e, Inspections(w, e) > 1
    PROVE  DuplicateHooks(w) = "FAIL"
<1> DEFINE n == Cardinality(Inspecting(w, e))
           p == Cardinality(w.plugins)
<1>1. ~Unheard(w) /\ Inspections(w, e) = n + IF client = "copilot" THEN 0 ELSE p
    BY InspectionsAre
<1>2. n \in Nat /\ p \in Nat /\ (p = 0 <=> w.plugins = {}) /\ (n = 0 <=> Inspecting(w, e) = {})
    BY InspectionsAre, PluginsAre
<1>3. Inspecting(w, e) \subseteq Shims(w)
    BY InspectionsAre
<1>4. CASE InTheFileTwice(w)
    BY <1>4 DEF DuplicateHooks
<1>5. CASE ~InTheFileTwice(w)
  <2>1. n <= 1
      BY <1>5, InspectionsAre
  <2> HIDE DEF n, p
  <2>2. client # "copilot" /\ p >= 1
      BY <1>1, <1>2, <2>1
  <2>3. client = "claude" /\ w.plugins # {}
      BY <1>2, <2>2 DEF Seen
  <2>4. p > 1 \/ n = 1
      BY <1>1, <1>2, <2>1, <2>2
  <2>5. p > 1 \/ Shims(w) # {}
      BY <1>2, <1>3, <2>4
  <2>6. QED
      BY <1>5, <2>3, <2>5 DEF DuplicateHooks, p
<1>6. QED
    BY <1>4, <1>5

(* Where this installation's hook is installed, it is among shim's.        *)
LEMMA InstalledIsThere ==
    ASSUME NEW w, IsWorld(w), NEW e \in Installed(w)
    PROVE  \E h \in Shims(w) : h[1] = e /\ GroupOf(w, h) = Shim(Me)
<1>1. w.doc # Broken /\ e \in Registered /\ e \in Events /\ IsDoc(w.doc)
    BY RegisteredIs DEF Installed, IsWorld
<1>2. Shim(Me) \in Range(w.doc.of[e])
  <2>1. CASE client = "copilot"
    <3>1. w.doc = Added(w.doc, Me) /\ e = "UserPromptSubmit" /\ e \in Events
        BY <1>1, <2>1 DEF Installed, Registered
    <3>2. w.doc = File([NoGroups EXCEPT !["UserPromptSubmit"] = << Shim(Me) >>])
        BY <2>1, <3>1 DEF Added
    <3>3. w.doc.of[e] = << Shim(Me) >>
        BY <3>1, <3>2 DEF File, NoGroups
    <3>4. QED
        BY <3>3 DEF Range
  <2>2. CASE client # "copilot"
      BY <1>1, <2>2 DEF Installed
  <2>3. QED
      BY <2>1, <2>2
<1>3. PICK p \in DOMAIN w.doc.of[e] : w.doc.of[e][p] = Shim(Me)
    BY <1>2 DEF Range
<1>4. ~(Unusable(w.doc) /\ (w.doc = Broken \/ client = "copilot"))
  <2>1. CASE client = "copilot"
    <3>1. w.doc = Added(w.doc, Me) /\ w.doc = File([NoGroups EXCEPT !["UserPromptSubmit"] = << Shim(Me) >>])
        BY <1>1, <2>1 DEF Installed, Added
    <3>2. \A x \in Events : Range(w.doc.of[x]) \subseteq {Shim(Me)}
      <4>1. w.doc.of["UserPromptSubmit"] = << Shim(Me) >> /\ "UserPromptSubmit" \in Events
          BY <3>1 DEF File, NoGroups, Events
      <4>2. \A x \in Events : x # "UserPromptSubmit" => w.doc.of[x] = << >>
          BY <3>1 DEF File, NoGroups
      <4>3. Range(<< >>) = {} /\ Range(<< Shim(Me) >>) = {Shim(Me)}
          BY DEF Range
      <4>4. QED
          BY <4>1, <4>2, <4>3
    <3>3. Groups(w.doc) \subseteq {Shim(Me)}
        BY <3>2 DEF Groups
    <3>4. IsShim(Shim(Me), "any") /\ Shim(Me) # Mixed
        BY DoctorAssumption DEF IsShim, ShimGroups, Shim, Installations, Mixed
    <3>5. ~Unusable(w.doc)
        BY <1>1, <3>3, <3>4 DEF Unusable
    <3>6. QED
        BY <3>5
  <2>2. CASE client # "copilot"
      BY <1>1, <2>2
  <2>3. QED
      BY <2>1, <2>2
<1> DEFINE h == << e, p >>
<1>5. h \in OnDisk(w) /\ GroupOf(w, h) = Shim(Me) /\ h[1] = e
  <2>1. h \in UNION { {x} \X DOMAIN w.doc.of[x] : x \in Events }
      BY <1>1
  <2>2. w.doc.of[h[1]][h[2]] = Shim(Me) /\ Shim(Me)[1] = "shim"
      BY <1>3 DEF Shim
  <2>3. h \in OnDisk(w)
      BY <1>4, <2>1, <2>2 DEF OnDisk
  <2>4. QED
      BY <2>2, <2>3 DEF GroupOf
<1>6. h \in Shims(w)
    BY <1>5 DEF Shims, Shim
<1>7. QED
    BY <1>5, <1>6

(* What nothing inspects is told of by a check that has to do with it.     *)
LEMMA NothingIsTold ==
    ASSUME NEW w, IsWorld(w), client \in {"claude", "codex", "copilot"}, NEW e \in Registered, Inspections(w, e) = 0
    PROVE  Unheard(w) \/ Coverage(w) = "WARN" \/ Runner(w) = "FAIL"
<1> SUFFICES ASSUME ~Unheard(w), e \in Installed(w), w.runs
             PROVE  FALSE
    BY CoverageIs DEF Runner
<1>1. PICK h \in Shims(w) : h[1] = e /\ GroupOf(w, h) = Shim(Me)
    BY InstalledIsThere
<1>2. Inspects(w, h)
    BY <1>1 DEF Inspects, Shim
<1>3. Inspecting(w, e) # {}
    BY <1>1, <1>2 DEF Inspecting
<1>4. Cardinality(Inspecting(w, e)) = 0
  <2> DEFINE n == Cardinality(Inspecting(w, e))
             p == Cardinality(w.plugins)
  <2>1. n \in Nat /\ p \in Nat /\ Inspections(w, e) = n + IF client = "copilot" THEN 0 ELSE p
      BY InspectionsAre, PluginsAre
  <2> HIDE DEF n, p
  <2>2. n = 0
      BY <2>1
  <2>3. QED
      BY <2>2 DEF n
<1>5. QED
    BY <1>3, <1>4, InspectionsAre

(* A hook that runs each registered event once is not in the file twice.   *)
LEMMA AloneIsOnce ==
    ASSUME NEW w, IsWorld(w), ~Unheard(w), w.runs, w.plugins = {}, Elsewhere(w) = {},
           \A e \in Events : Inspections(w, e) <= 1
    PROVE  ~InTheFileTwice(w)
<1> SUFFICES ASSUME InTheFileTwice(w)
             PROVE  FALSE
    OBVIOUS
<1>1. PICK g \in Shims(w), h \in Shims(w) : g # h /\ g[1] = h[1]
    BY DEF InTheFileTwice
<1> DEFINE e == g[1]
           n == Cardinality(Inspecting(w, e))
<1>2. e \in Events
    BY ShimsAreFinite, OnDiskAre DEF IsWorld
<1>3. g \in Inspecting(w, e) /\ h \in Inspecting(w, e)
  <2>1. GroupOf(w, g)[2] = Me /\ GroupOf(w, h)[2] = Me
      BY DEF Elsewhere
  <2>2. QED
      BY <1>1, <2>1 DEF Inspecting, Inspects
<1>4. n \in Nat /\ n <= 1
  <2>1. Cardinality(w.plugins) = 0
      BY PluginsAre
  <2>2. n \in Nat /\ Inspections(w, e) = n + IF client = "copilot" THEN 0 ELSE Cardinality(w.plugins)
      BY InspectionsAre
  <2>3. Inspections(w, e) <= 1
      BY <1>2
  <2> HIDE DEF n, e
  <2>4. QED
      BY <2>1, <2>2, <2>3
<1>5. n # 0
    BY <1>3, InspectionsAre
<1>6. n = 1
    BY <1>4, <1>5
<1>7. PICK x : Inspecting(w, e) = {x}
    BY <1>6, InspectionsAre
<1>8. QED
    BY <1>1, <1>3, <1>7

(* The settings of a world are as they are shown. *)
LEMMA ShownAre ==
    ASSUME NEW w, IsWorld(w)
    PROVE  /\ w.has \in Shown /\ w.has.version \in {"tested", "newer", "older", "unknown", "silent", "none"}
           /\ w.has.feature \in {"on", "off", "silent"} /\ w.has.file \in {"read", "absent", "unreadable"}
           /\ w.has.entities \in BOOLEAN /\ w.has.custom \in {"ok", "none", "off", "unsafe"}
           /\ w.has.weakened \in BOOLEAN /\ w.has.ledger \in {"off", "no file", "private", "unsafe"}
           /\ (w.has.version = "none" => w.has.feature = "silent")
           /\ w.runs \in BOOLEAN /\ w.skewed \in BOOLEAN /\ w.gone \in BOOLEAN
<1>1. w.has \in Shown /\ w.runs \in BOOLEAN /\ w.skewed \in BOOLEAN /\ w.gone \in BOOLEAN
    BY DoctorAssumption DEF IsWorld, Worlds
<1>2. QED
    BY <1>1 DEF Shown

(* Where the hook is all there is and works, the checks of it pass.        *)
LEMMA AloneIsHealthy ==
    ASSUME NEW w, IsWorld(w), client \in {"claude", "codex", "copilot"},
           ~Unusable(w.doc), w.runs, w.has.feature = "on", w.plugins = {}, ~Has020(w), ~w.has.names,
           Installed(w) = Registered, ~w.skewed, ~InTheFileTwice(w)
    PROVE  /\ HooksFeature(w.has) \in {"PASS", "none"} /\ LegacyNames(w) = "PASS" /\ Runner(w) = "PASS"
           /\ Resolution(w) = "PASS" /\ Coverage(w) = "PASS"
           /\ HookConfiguration(w, Has020(w) \/ Installed(w) # {}) \in {"PASS", "none"}
           /\ DuplicateHooks(w) = IF client = "codex" THEN "WARN" ELSE "PASS"
<1>1. HooksFeature(w.has) \in {"PASS", "none"}
    BY ShownAre DEF HooksFeature
<1>2. LegacyNames(w) = "PASS" /\ Runner(w) = "PASS"
    BY DEF LegacyNames, Runner
<1>3. Installed(w) # {}
    BY RegisteredIs
<1>4. Resolution(w) = "PASS" /\ Coverage(w) = "PASS"
    BY <1>3, CoverageIs DEF Resolution
<1>5. HookConfiguration(w, Has020(w) \/ Installed(w) # {}) \in {"PASS", "none"}
    BY <1>3 DEF HookConfiguration
<1>6. Cardinality(w.plugins) = 0
    BY PluginsAre
<1>7. DuplicateHooks(w) = IF client = "codex" THEN "WARN" ELSE "PASS"
    BY <1>6 DEF DuplicateHooks
<1>8. QED
    BY <1>1, <1>2, <1>4, <1>5, <1>7

LEMMA InspectionIsRight ==
    ASSUME DoctorInv, world # NotAsked
    PROVE  InspectionIsTold
<1> DEFINE told == OfHooks(world)
<1>1. IsWorld(world) /\ client \in {"claude", "codex", "copilot"}
    BY DEF DoctorInv, IsWorld, IsDoc, Worlds
<1>2. \A e \in Events : (\E row \in CoverageRows(world) : row.event = e) <=> e \in Registered
  <2>1. RowsFit(world)
      BY <1>1, RowsAre
  <2>2. QED
      BY <2>1, Zenon DEF RowsFit
<1>3. ASSUME Seen(world), NEW e \in Events, Inspections(world, e) > 1
      PROVE  told.duplicate_hooks = "FAIL"
    BY <1>1, <1>3, TwiceIsTold, HooksAre
<1>4. ASSUME NEW e \in Registered, Inspections(world, e) = 0
      PROVE  \E n \in DOMAIN told \ {"hook_activation", "duplicate_hooks"} : told[n] \in {"WARN", "FAIL"}
  <2>1. Unheard(world) \/ Coverage(world) = "WARN" \/ Runner(world) = "FAIL"
      BY <1>1, <1>4, NothingIsTold
  <2>2. Unheard(world) => HooksFeature(world.has) = "FAIL"
      BY DEF Unheard, HooksFeature
  <2>3. told["hooks_feature"] = "FAIL" \/ told["coverage"] = "WARN" \/ told["runner"] = "FAIL"
      BY <2>1, <2>2, HooksAre
  <2>4. {"hooks_feature", "coverage", "runner"} \subseteq DOMAIN told \ {"hook_activation", "duplicate_hooks"}
      BY HooksAre DEF HookChecks
  <2> HIDE DEF told
  <2>5. QED
      BY <2>3, <2>4
<1>5. ASSUME ~Unusable(world.doc), world.runs, world.has.feature = "on", world.plugins = {}, ~Has020(world),
             ~world.has.names, Elsewhere(world) = {}, Installed(world) = Registered, ~world.skewed,
             \A e \in Events : Inspections(world, e) = IF e \in Registered THEN 1 ELSE 0,
             NEW n \in DOMAIN told \ {"hook_activation"}
      PROVE  told[n] \in {"PASS", "none"} \/ (n = "duplicate_hooks" /\ client = "codex")
  <2>1. ~Unheard(world) /\ \A e \in Events : Inspections(world, e) <= 1
      BY <1>5 DEF Unheard
  <2>2. ~InTheFileTwice(world)
      BY <1>1, <1>5, <2>1, AloneIsOnce
  <2>3. /\ HooksFeature(world.has) \in {"PASS", "none"} /\ LegacyNames(world) = "PASS" /\ Runner(world) = "PASS"
        /\ Resolution(world) = "PASS" /\ Coverage(world) = "PASS"
        /\ HookConfiguration(world, Has020(world) \/ Installed(world) # {}) \in {"PASS", "none"}
        /\ DuplicateHooks(world) = IF client = "codex" THEN "WARN" ELSE "PASS"
      BY <1>1, <1>5, <2>2, AloneIsHealthy
  <2>4. n \in HookChecks \ {"hook_activation"}
      BY HooksAre
  <2> HIDE DEF told
  <2>5. QED
      BY <2>3, <2>4, HooksAre DEF HookChecks, told
<1>6. QED
    BY <1>2, <1>3, <1>4, <1>5 DEF InspectionIsTold

(* Settings that cannot be read are the first check's to tell.             *)
LEMMA OneCause ==
    ASSUME DoctorInv, world # NotAsked
    PROVE  OneCauseIsToldOnce
<1> SUFFICES ASSUME world.has.file = "unreadable"
             PROVE  /\ { n \in {"entity_settings", "custom_patterns", "mode_defaults", "ledger"} :
                            OfSettings(world.has)[n] # "none" } = {"entity_settings"}
                    /\ Status(world) = "error"
    BY DEF OneCauseIsToldOnce
<1>1. /\ EntitySettings(world.has) = "FAIL" /\ CustomPatterns(world.has) = "none"
      /\ ModeDefaults(world.has) = "none" /\ Ledger(world.has) = "none"
    BY DEF EntitySettings, CustomPatterns, ModeDefaults, Ledger
<1>2. { n \in {"entity_settings", "custom_patterns", "mode_defaults", "ledger"} :
            OfSettings(world.has)[n] # "none" } = {"entity_settings"}
    BY <1>1, SettingsAreOf
<1>3. "FAIL" \in Statuses(OfSettings(world.has))
    BY <1>1, SettingsAreOf DEF Statuses, SettingChecks
<1>4. QED
    BY <1>2, <1>3 DEF Status

-----------------------------------------------------------------------------
(* The checks that do not pass, and what each raises. *)
AsCheck(w, n) == [name |-> n, status |-> StatusOf(w, n), code |-> Codes(w)[n]]
Open(w) == { n \in Checks : StatusOf(w, n) \notin {"none", "PASS"} }
Failing(w) == { c \in ChecksOf(w) : c.status # "PASS" }
Raise(c) ==
    [FindingOf(c.code, App(client), << 1 >>, {c.name}, << >>, NoImpact) EXCEPT
        !.severity = IF c.status = "FAIL" THEN "high" ELSE @]

LEMMA ChecksAre ==
    ASSUME NEW w
    PROVE  ChecksOf(w) = {AsCheck(w, n) : n \in { m \in Checks : StatusOf(w, m) # "none" }}
<1> DEFINE check(n, result) == [name |-> n, status |-> result, code |-> Codes(w)[n]]
<1>1. HookChecks \cap SettingChecks = {}
    BY DEF HookChecks, SettingChecks
<1>2. DOMAIN OfHooks(w) = HookChecks /\ DOMAIN OfSettings(w.has) = SettingChecks
    BY HooksAre, SettingsAreOf
<1>3. ChecksOf(w) = { c \in { check(n, OfHooks(w)[n]) : n \in DOMAIN OfHooks(w) }
                             \cup { check(n, OfSettings(w.has)[n]) : n \in DOMAIN OfSettings(w.has) } :
                         c.status # "none" }
    BY DEF ChecksOf
<1>4. { check(n, OfHooks(w)[n]) : n \in DOMAIN OfHooks(w) } = {AsCheck(w, n) : n \in HookChecks}
    BY <1>2 DEF AsCheck, StatusOf
<1>5. { check(n, OfSettings(w.has)[n]) : n \in DOMAIN OfSettings(w.has) } = {AsCheck(w, n) : n \in SettingChecks}
    BY <1>1, <1>2 DEF AsCheck, StatusOf
<1>6. \A n : AsCheck(w, n).status = StatusOf(w, n)
    BY DEF AsCheck
<1> HIDE DEF check
<1>7. QED
    BY <1>3, <1>4, <1>5, <1>6 DEF Checks

LEMMA FailingAre ==
    ASSUME NEW w
    PROVE  /\ Failing(w) = {AsCheck(w, n) : n \in Open(w)}
           /\ \A n : /\ AsCheck(w, n).name = n /\ AsCheck(w, n).status = StatusOf(w, n)
                     /\ AsCheck(w, n).code = Codes(w)[n]
<1>1. \A n : /\ AsCheck(w, n).name = n /\ AsCheck(w, n).status = StatusOf(w, n)
             /\ AsCheck(w, n).code = Codes(w)[n]
    BY DEF AsCheck
<1>2. Failing(w) = {AsCheck(w, n) : n \in Open(w)}
    BY <1>1, ChecksAre DEF Failing, Open
<1>3. QED
    BY <1>1, <1>2

LEMMA RaisedAre ==
    ASSUME NEW w
    PROVE  /\ DoctorFindings(w) = {Raise(AsCheck(w, n)) : n \in Open(w)}
           /\ \A c : /\ Raise(c).id = << c.code, App(client) >> /\ Raise(c).risk = RuleOf(c.code).risk
                     /\ Raise(c).severity = IF c.status = "FAIL" THEN "high" ELSE RuleOf(c.code).severity
<1>1. DoctorFindings(w) = {Raise(c) : c \in Failing(w)}
    BY DEF DoctorFindings, FromChecks, Raise, Failing
<1>2. DoctorFindings(w) = {Raise(AsCheck(w, n)) : n \in Open(w)}
    BY <1>1, FailingAre
<1>3. \A c : /\ Raise(c).id = << c.code, App(client) >> /\ Raise(c).risk = RuleOf(c.code).risk
             /\ Raise(c).severity = IF c.status = "FAIL" THEN "high" ELSE RuleOf(c.code).severity
    BY DEF Raise, FindingOf
<1>4. QED
    BY <1>2, <1>3

(* What a check that does not pass raises, by its name.                     *)
LEMMA RaiseIs ==
    ASSUME NEW w, NEW n
    PROVE  /\ Raise(AsCheck(w, n)).id = << Codes(w)[n], App(client) >>
           /\ Raise(AsCheck(w, n)).risk = RuleOf(Codes(w)[n]).risk
           /\ Raise(AsCheck(w, n)).severity = IF StatusOf(w, n) = "FAIL" THEN "high" ELSE RuleOf(Codes(w)[n]).severity
<1> DEFINE c == AsCheck(w, n)
<1>1. c.status = StatusOf(w, n) /\ c.code = Codes(w)[n]
    BY FailingAre
<1>2. \A d : /\ Raise(d).id = << d.code, App(client) >> /\ Raise(d).risk = RuleOf(d.code).risk
             /\ Raise(d).severity = IF d.status = "FAIL" THEN "high" ELSE RuleOf(d.code).severity
    BY RaisedAre
<1> HIDE DEF c
<1>3. /\ Raise(c).id = << c.code, App(client) >> /\ Raise(c).risk = RuleOf(c.code).risk
      /\ Raise(c).severity = IF c.status = "FAIL" THEN "high" ELSE RuleOf(c.code).severity
    BY <1>2
<1>4. QED
    BY <1>1, <1>3 DEF c

LEMMA FoundAre ==
    ASSUME NEW w
    PROVE  \A f : f \in DoctorFindings(w) <=> \E n \in Open(w) : f = Raise(AsCheck(w, n))
<1>1. DoctorFindings(w) = {Raise(AsCheck(w, n)) : n \in Open(w)}
    BY RaisedAre
<1>2. QED
    BY <1>1

(* As many as the names, if no two names have the same.                    *)
LEMMA AsMany ==
    ASSUME NEW S, IsFiniteSet(S), NEW f, DOMAIN f = S, f = [x \in S |-> f[x]],
           \A x, y \in S : f[x] = f[y] => x = y
    PROVE  Cardinality({f[x] : x \in S}) = Cardinality(S)
<1> DEFINE T == {f[x] : x \in S}
<1>1. f \in [S -> T] /\ \A t \in T : \E x \in S : f[x] = t
    OBVIOUS
<1> HIDE DEF T
<1>2. f \in Bijection(S, T)
    BY <1>1 DEF Bijection, Injection, Surjection, IsInjective
<1>3. ExistsBijection(S, T)
    BY <1>2 DEF ExistsBijection
<1>4. QED
    BY <1>3, FS_Bijection DEF T

LEMMA ChecksAreFinite ==
    IsFiniteSet(Checks)
<1>1. /\ IsFiniteSet({"hooks_feature"}) /\ IsFiniteSet({"hook_configuration"}) /\ IsFiniteSet({"legacy_names"})
      /\ IsFiniteSet({"runner"}) /\ IsFiniteSet({"hook_resolution"}) /\ IsFiniteSet({"duplicate_hooks"})
      /\ IsFiniteSet({"coverage"}) /\ IsFiniteSet({"hook_activation"}) /\ IsFiniteSet({"client"})
      /\ IsFiniteSet({"entity_settings"}) /\ IsFiniteSet({"custom_patterns"}) /\ IsFiniteSet({"mode_defaults"})
      /\ IsFiniteSet({"ledger"}) /\ IsFiniteSet({"session_record"})
    BY FS_Singleton
<1> DEFINE a == {"hooks_feature"} \cup {"hook_configuration"}
           b == {"legacy_names"} \cup {"runner"}
           c == {"hook_resolution"} \cup {"duplicate_hooks"}
           d == {"coverage"} \cup {"hook_activation"}
           e == {"client"} \cup {"entity_settings"}
           f == {"custom_patterns"} \cup {"mode_defaults"}
           g == {"ledger"} \cup {"session_record"}
<1>2. /\ IsFiniteSet(a) /\ IsFiniteSet(b) /\ IsFiniteSet(c) /\ IsFiniteSet(d)
      /\ IsFiniteSet(e) /\ IsFiniteSet(f) /\ IsFiniteSet(g)
    BY <1>1, FS_Union
<1>3. Checks = a \cup b \cup c \cup d \cup e \cup f \cup g
    BY DEF Checks, HookChecks, SettingChecks
<1> HIDE DEF a, b, c, d, e, f, g
<1>4. IsFiniteSet(a \cup b) /\ IsFiniteSet(c \cup d) /\ IsFiniteSet(e \cup f)
    BY <1>2, FS_Union
<1>5. IsFiniteSet((a \cup b) \cup (c \cup d)) /\ IsFiniteSet((e \cup f) \cup g)
    BY <1>2, <1>4, FS_Union
<1>6. IsFiniteSet(((a \cup b) \cup (c \cup d)) \cup ((e \cup f) \cup g))
    BY <1>5, FS_Union
<1>7. Checks = ((a \cup b) \cup (c \cup d)) \cup ((e \cup f) \cup g)
    BY <1>3
<1>8. QED
    BY <1>6, <1>7

(* Each check that does not pass raises one finding, of its own id.        *)
LEMMA OneFindingEach ==
    ASSUME NEW w
    PROVE  Cardinality({ f.id : f \in DoctorFindings(w) }) = Cardinality(Failing(w))
<1>1. IsFiniteSet(Open(w)) /\ Open(w) \subseteq Checks
    BY ChecksAreFinite, FS_Subset DEF Open
<1> DEFINE id == [n \in Open(w) |-> << Codes(w)[n], App(client) >>]
           check == [n \in Open(w) |-> AsCheck(w, n)]
<1>2. \A n, m \in Open(w) : id[n] = id[m] => n = m
  <2>1. \A n, m \in Open(w) : Codes(w)[n] = Codes(w)[m] => n = m
      BY <1>1, OwnersAre
  <2>2. QED
      BY <2>1
<1>3. Cardinality({id[n] : n \in Open(w)}) = Cardinality(Open(w))
  <2>1. DOMAIN id = Open(w) /\ id = [n \in Open(w) |-> id[n]]
      OBVIOUS
  <2> HIDE DEF id
  <2>2. QED
      BY <1>1, <1>2, <2>1, AsMany
<1>4. \A n, m \in Open(w) : check[n] = check[m] => n = m
    BY FailingAre
<1>5. Cardinality({check[n] : n \in Open(w)}) = Cardinality(Open(w))
  <2>1. DOMAIN check = Open(w) /\ check = [n \in Open(w) |-> check[n]]
      OBVIOUS
  <2> HIDE DEF check
  <2>2. QED
      BY <1>1, <1>4, <2>1, AsMany
<1>6. {check[n] : n \in Open(w)} = Failing(w)
    BY FailingAre
<1>7. {id[n] : n \in Open(w)} = { f.id : f \in DoctorFindings(w) }
  <2>1. \A n : Raise(AsCheck(w, n)).id = << Codes(w)[n], App(client) >>
      BY RaiseIs
  <2>2. \A n \in Open(w) : id[n] = Raise(AsCheck(w, n)).id
      BY <2>1
  <2> HIDE DEF id
  <2>3. DoctorFindings(w) = {Raise(AsCheck(w, n)) : n \in Open(w)}
      BY RaisedAre
  <2>4. QED
      BY <2>2, <2>3
<1>8. QED
    BY <1>3, <1>5, <1>6, <1>7

(* The codes that are a matter of privacy, and the one that are usual.     *)
LEMMA CodesHaveRules ==
    ASSUME NEW w, NEW n \in Checks
    PROVE  Codes(w)[n] \in DOMAIN DoctorRules \cup DOMAIN UsualRules \cup DOMAIN ExposingRules
<1>1. {"CLIENT_NOT_FOUND", "CLIENT_VERSION_UNKNOWN", "CLIENT_TOO_OLD", "CLIENT_NEWER_THAN_TESTED",
       "CODEX_HOOKS_UNCHECKED", "LEGACY_NAMES_PRESENT", "CUSTOM_PATTERN_UNSAFE", "ARCHIVE_VERSION_SKEW",
       "SESSION_RECORDS_UNWRITABLE", "LEDGER_FOLDER_UNSAFE", "CLIENT_SETTINGS_MALFORMED"} \subseteq DOMAIN DoctorRules
    BY DEF DoctorRules
<1>2. {"SETTINGS_FILE_ABSENT", "PLUGIN_NOT_DISCOVERABLE", "HOOK_ACTIVATION_UNVERIFIED"} \subseteq DOMAIN UsualRules
    BY DEF UsualRules
<1>3. {"CODEX_HOOKS_DISABLED", "HOOK_NOT_INSTALLED", "DETECTION_DISABLED", "HOOK_RUNNER_FAILED",
       "HOOK_RESOLUTION_FAILED", "CUSTOM_PATTERNS_INACTIVE", "MODE_DEFAULT_WEAKENS", "DUPLICATE_HOOKS",
       "HOOK_EVENTS_MISSING", "SETTINGS_INVALID"} \subseteq DOMAIN ExposingRules
    BY DEF ExposingRules
<1>4. CASE n \in HookChecks
    BY <1>1, <1>2, <1>3, <1>4, CodesAre DEF HookChecks
<1>5. CASE n \in SettingChecks
    BY <1>1, <1>2, <1>3, <1>5, CodesAre DEF SettingChecks
<1>6. QED
    BY <1>4, <1>5 DEF Checks

(* One finding is high if and only if doctor exits with an error.          *)
LEMMA HighIsAnError ==
    ASSUME NEW w
    PROVE  (\E f \in DoctorFindings(w) : f.severity = "high") <=> Status(w) = "error"
<1>1. \A n \in Checks : RuleOf(Codes(w)[n]).severity # "high"
    BY CodesHaveRules, RulesAre
<1>2. ASSUME NEW n \in Checks
      PROVE  Raise(AsCheck(w, n)).severity = "high" <=> StatusOf(w, n) = "FAIL"
  <2>1. RuleOf(Codes(w)[n]).severity # "high"
      BY <1>1
  <2>2. Raise(AsCheck(w, n)).severity = IF StatusOf(w, n) = "FAIL" THEN "high" ELSE RuleOf(Codes(w)[n]).severity
      BY RaiseIs
  <2>3. QED
      BY <2>1, <2>2
<1>3. \A n \in Checks : StatusOf(w, n) = "FAIL" => n \in Open(w)
    BY DEF Open
<1>4. Open(w) \subseteq Checks
    BY DEF Open
<1>5. (\E f \in DoctorFindings(w) : f.severity = "high") <=> \E n \in Checks : StatusOf(w, n) = "FAIL"
    BY <1>2, <1>3, <1>4, FoundAre
<1>6. Status(w) = "error" <=> "FAIL" \in {StatusOf(w, n) : n \in Checks}
    BY LabelsAre DEF Status
<1>7. QED
    BY <1>5, <1>6

(* What a check that does not pass says is a matter of privacy.            *)
LEMMA OfPrivacy ==
    ASSUME NEW w, NEW n \in Checks, StatusOf(w, n) \in {"WARN", "FAIL"}, Codes(w)[n] \in DOMAIN ExposingRules
    PROVE  \E f \in DoctorFindings(w) : f.risk = "privacy"
<1>1. n \in Open(w)
    BY DEF Open
<1>2. Raise(AsCheck(w, n)).risk = "privacy"
  <2>1. RuleOf(Codes(w)[n]).risk = "privacy"
      BY RulesAre
  <2>2. QED
      BY <2>1, RaiseIs
<1>3. QED
    BY <1>1, <1>2, FoundAre

LEMMA HooksExpose ==
    ASSUME NEW w, IsWorld(w), client \in {"claude", "codex", "copilot"},
           \/ \E e \in Registered : Inspections(w, e) = 0
           \/ Seen(w) /\ \E e \in Events : Inspections(w, e) > 1
    PROVE  \E f \in DoctorFindings(w) : f.risk = "privacy"
<1>1. {"hooks_feature", "coverage", "runner", "duplicate_hooks"} \subseteq HookChecks /\ HookChecks \subseteq Checks
    BY DEF Checks, HookChecks
<1>2. {"CODEX_HOOKS_DISABLED", "HOOK_RUNNER_FAILED", "DUPLICATE_HOOKS", "HOOK_EVENTS_MISSING"} \subseteq DOMAIN ExposingRules
    BY DEF ExposingRules
<1>3. /\ StatusOf(w, "hooks_feature") = HooksFeature(w.has) /\ StatusOf(w, "coverage") = Coverage(w)
      /\ StatusOf(w, "runner") = Runner(w) /\ StatusOf(w, "duplicate_hooks") = DuplicateHooks(w)
    BY <1>1, HooksAre DEF StatusOf
<1>4. CASE Unheard(w)
  <2>1. HooksFeature(w.has) = "FAIL"
      BY <1>4 DEF Unheard, HooksFeature
  <2>2. w.has.version # "none" /\ w.has.feature = "off"
      BY <1>4, ShownAre DEF Unheard
  <2>3. Codes(w)["hooks_feature"] = "CODEX_HOOKS_DISABLED"
      BY <2>2 DEF Codes
  <2>4. QED
      BY <1>1, <1>2, <1>3, <2>1, <2>3, OfPrivacy
<1>5. CASE Coverage(w) = "WARN"
    BY <1>1, <1>2, <1>3, <1>5, CodesAre, OfPrivacy
<1>6. CASE Runner(w) = "FAIL"
    BY <1>1, <1>2, <1>3, <1>6, CodesAre, OfPrivacy
<1>7. CASE DuplicateHooks(w) = "FAIL"
  <2>1. Codes(w)["duplicate_hooks"] = "DUPLICATE_HOOKS"
      BY <1>7 DEF Codes
  <2>2. QED
      BY <1>1, <1>2, <1>3, <1>7, <2>1, OfPrivacy
<1>8. Unheard(w) \/ Coverage(w) = "WARN" \/ Runner(w) = "FAIL" \/ DuplicateHooks(w) = "FAIL"
    BY NothingIsTold, TwiceIsTold
<1>9. QED
    BY <1>4, <1>5, <1>6, <1>7, <1>8

LEMMA SettingsExpose ==
    ASSUME NEW w, IsWorld(w), Unmasked(w.has)
    PROVE  \E f \in DoctorFindings(w) : f.risk = "privacy"
<1> DEFINE s == w.has
<1>1. /\ {"entity_settings", "custom_patterns", "mode_defaults"} \subseteq SettingChecks \ HookChecks
      /\ SettingChecks \subseteq Checks
    BY DEF Checks, HookChecks, SettingChecks
<1>2. {"SETTINGS_INVALID", "DETECTION_DISABLED", "CUSTOM_PATTERNS_INACTIVE", "MODE_DEFAULT_WEAKENS"} \subseteq DOMAIN ExposingRules
    BY DEF ExposingRules
<1>3. /\ StatusOf(w, "entity_settings") = EntitySettings(s) /\ StatusOf(w, "custom_patterns") = CustomPatterns(s)
      /\ StatusOf(w, "mode_defaults") = ModeDefaults(s)
    BY <1>1, SettingsAreOf DEF StatusOf
<1>4. CASE s.file = "unreadable"
  <2>1. EntitySettings(s) = "FAIL" /\ Codes(w)["entity_settings"] = "SETTINGS_INVALID"
      BY <1>4 DEF EntitySettings, Codes
  <2>2. QED
      BY <1>1, <1>2, <1>3, <2>1, OfPrivacy
<1>5. CASE s.file # "unreadable" /\ ~s.entities
  <2>1. EntitySettings(s) = "WARN" /\ Codes(w)["entity_settings"] = "DETECTION_DISABLED"
      BY <1>5 DEF EntitySettings, Codes
  <2>2. QED
      BY <1>1, <1>2, <1>3, <2>1, OfPrivacy
<1>6. CASE s.file # "unreadable" /\ s.custom = "off"
  <2>1. CustomPatterns(s) = "WARN" /\ Codes(w)["custom_patterns"] = "CUSTOM_PATTERNS_INACTIVE"
      BY <1>6 DEF CustomPatterns, Codes
  <2>2. QED
      BY <1>1, <1>2, <1>3, <2>1, OfPrivacy
<1>7. CASE s.file = "read" /\ s.weakened
  <2>1. ModeDefaults(s) = "WARN"
      BY <1>7 DEF ModeDefaults
  <2>2. QED
      BY <1>1, <1>2, <1>3, <2>1, CodesAre, OfPrivacy
<1>8. QED
    BY <1>4, <1>5, <1>6, <1>7 DEF Unmasked

(* A healthy install raises what is informational at most.                 *)
LEMMA HealthyIsInformational ==
    ASSUME NEW w, IsWorld(w), client \in {"claude", "codex", "copilot"},
           \A n \in DOMAIN OfSettings(w.has) :
              \/ OfSettings(w.has)[n] \in {"PASS", "none"}
              \/ n = "entity_settings" /\ w.has.entities /\ w.has.file = "absent",
           w.runs, ~w.skewed, ~w.has.names, w.has.feature = "on", w.plugins = {},
           Installed(w) = Registered, ~Has020(w), Elsewhere(w) = {}, HookConfiguration(w, TRUE) = "PASS"
    PROVE  \A f \in DoctorFindings(w) : f.severity = "informational"
<1>1. ~Unusable(w.doc) /\ Added(w.doc, Me) = w.doc
  <2>1. ~Unusable(w.doc)
      BY DEF HookConfiguration
  <2>2. QED
      BY <2>1 DEF HookConfiguration
<1>2. ~InTheFileTwice(w)
    BY <1>1, InPlaceIs DEF InPlace, IsWorld
<1>3. /\ HooksFeature(w.has) \in {"PASS", "none"} /\ LegacyNames(w) = "PASS" /\ Runner(w) = "PASS"
      /\ Resolution(w) = "PASS" /\ Coverage(w) = "PASS"
      /\ HookConfiguration(w, Has020(w) \/ Installed(w) # {}) \in {"PASS", "none"}
      /\ DuplicateHooks(w) = IF client = "codex" THEN "WARN" ELSE "PASS"
    BY <1>1, <1>2, AloneIsHealthy
<1>4. {"SETTINGS_FILE_ABSENT", "PLUGIN_NOT_DISCOVERABLE", "HOOK_ACTIVATION_UNVERIFIED"} \subseteq DOMAIN UsualRules
    BY DEF UsualRules
<1>5. ASSUME NEW n \in Open(w)
      PROVE  StatusOf(w, n) # "FAIL" /\ Codes(w)[n] \in DOMAIN UsualRules
  <2>1. StatusOf(w, n) \notin {"none", "PASS"} /\ n \in Checks
      BY DEF Open
  <2>2. CASE n \in HookChecks
    <3>1. StatusOf(w, n) = OfHooks(w)[n]
        BY <2>2 DEF StatusOf
    <3>2. n \in {"duplicate_hooks", "hook_activation"}
        BY <1>3, <2>1, <2>2, <3>1, HooksAre DEF HookChecks
    <3>3. CASE n = "duplicate_hooks"
      <4>1. DuplicateHooks(w) = "WARN" /\ StatusOf(w, n) = "WARN"
          BY <1>3, <2>1, <3>1, <3>3, HooksAre
      <4>2. Codes(w)["duplicate_hooks"] = "PLUGIN_NOT_DISCOVERABLE"
          BY <4>1 DEF Codes
      <4>3. QED
          BY <1>4, <3>3, <4>1, <4>2
    <3>4. CASE n = "hook_activation"
      <4>1. StatusOf(w, n) \in {"PASS", "WARN"}
          BY <3>1, <3>4, HooksAre DEF Activation
      <4>2. QED
          BY <1>4, <3>4, <4>1, CodesAre
    <3>5. QED
        BY <3>2, <3>3, <3>4
  <2>3. CASE n \notin HookChecks
    <3>1. n \in DOMAIN OfSettings(w.has) /\ StatusOf(w, n) = OfSettings(w.has)[n]
        BY <2>1, <2>3, SettingsAreOf DEF StatusOf, Checks
    <3>2. n = "entity_settings" /\ w.has.entities /\ w.has.file = "absent"
        BY <2>1, <3>1
    <3>3. EntitySettings(w.has) = "WARN" /\ Codes(w)["entity_settings"] = "SETTINGS_FILE_ABSENT"
        BY <3>2 DEF EntitySettings, Codes
    <3>4. QED
        BY <1>4, <3>1, <3>2, <3>3, SettingsAreOf
  <2>4. QED
      BY <2>2, <2>3
<1>6. ASSUME NEW n \in Open(w)
      PROVE  Raise(AsCheck(w, n)).severity = "informational"
  <2>1. StatusOf(w, n) # "FAIL" /\ Codes(w)[n] \in DOMAIN UsualRules
      BY <1>5
  <2>2. RuleOf(Codes(w)[n]).severity = "informational"
      BY <2>1, RulesAre
  <2>3. QED
      BY <2>1, <2>2, RaiseIs
<1>7. QED
    BY <1>6, FoundAre

LEMMA FindingsAreRight ==
    ASSUME DoctorInv, world # NotAsked
    PROVE  FindingsFit
<1>1. IsWorld(world) /\ client \in {"claude", "codex", "copilot"}
    BY DEF DoctorInv, IsWorld, IsDoc, Worlds
<1>2. \A c \in Failing(world) : c.code \in DOMAIN DoctorRules \cup DOMAIN UsualRules \cup DOMAIN ExposingRules
    BY CodesHaveRules, FailingAre DEF Open
<1>3. Cardinality({ f.id : f \in DoctorFindings(world) }) = Cardinality(Failing(world))
    BY OneFindingEach
<1>4. (\E f \in DoctorFindings(world) : f.severity = "high") <=> Status(world) = "error"
    BY HighIsAnError
<1>5. \/ \E e \in Registered : Inspections(world, e) = 0
      \/ Seen(world) /\ \E e \in Events : Inspections(world, e) > 1
      \/ Unmasked(world.has)
      => \E f \in DoctorFindings(world) : f.risk = "privacy"
    BY <1>1, HooksExpose, SettingsExpose
<1>6. /\ \A n \in DOMAIN OfSettings(world.has) :
            \/ OfSettings(world.has)[n] \in {"PASS", "none"}
            \/ n = "entity_settings" /\ world.has.entities /\ world.has.file = "absent"
      /\ world.runs /\ ~world.skewed /\ ~world.has.names /\ world.has.feature = "on" /\ world.plugins = {}
      /\ Installed(world) = Registered /\ ~Has020(world) /\ Elsewhere(world) = {}
      /\ HookConfiguration(world, TRUE) = "PASS"
      => \A f \in DoctorFindings(world) : f.severity = "informational"
    BY <1>1, HealthyIsInformational
<1>7. QED
    BY <1>2, <1>3, <1>4, <1>5, <1>6 DEF FindingsFit, Failing

-----------------------------------------------------------------------------
(* Doctor's steps: what it looks at stays a file that a client may have.   *)
LEMMA AskKeepsDoctor ==
    ASSUME DoctorInv, RunDoctor, UNCHANGED << client, doc, oldFile >>
    PROVE  DoctorInv'
<1>1. PICK plugins \in SUBSET Plugins, gone, runs, skewed \in BOOLEAN,
           source \in {"path", "plugin", "none"}, has \in Settings,
           file \in {doc} \cup IF doc.kind = "file" THEN {With(doc)} ELSE {} :
         /\ skewed => source = "path"
         /\ gone => Shim("other") \in Groups(file)
         /\ world' = [doc |-> file, old |-> oldFile, plugins |-> plugins, gone |-> gone, runs |-> runs,
                      source |-> source, skewed |-> skewed, has |-> has]
    BY Zenon DEF RunDoctor
<1>2. doc \in Docs /\ (doc.kind = "file" \/ doc.of = NoGroups) /\ oldFile \in {"none", "ours", "theirs"}
    BY DEF DoctorInv
<1>3. With(doc) \in Docs /\ With(doc).kind = "file"
  <2> DEFINE groups == [e \in Events |-> IF e \in Registered THEN Append(doc.of[e], Shim(Me)) ELSE doc.of[e]]
  <2>1. Shim(Me) \in HookGroups
      BY DoctorAssumption DEF Shim, HookGroups, Installations
  <2>2. \A e \in Events : doc.of[e] \in Seq(HookGroups)
      BY <1>2 DEF Docs
  <2>3. \A e \in Events : Append(doc.of[e], Shim(Me)) \in Seq(HookGroups)
      BY <2>1, <2>2, AppendProperties
  <2>4. groups \in [Events -> Seq(HookGroups)]
      BY <2>2, <2>3
  <2> HIDE DEF groups
  <2>5. QED
      BY <2>4, FileIsDoc DEF With, groups
<1>4. file \in Docs /\ (file.kind = "file" \/ file.of = NoGroups)
    BY <1>1, <1>2, <1>3
<1>5. world' \in Worlds /\ world'.doc = file
  <2> DEFINE w == [doc |-> file, old |-> oldFile, plugins |-> plugins, gone |-> gone, runs |-> runs,
                   source |-> source, skewed |-> skewed, has |-> has]
  <2>1. file \in Docs /\ oldFile \in {"none", "ours", "theirs"} /\ has \in Settings
      BY <1>2, <1>4
  <2>2. w \in Worlds /\ w.doc = file
      BY <2>1 DEF Worlds
  <2>3. world' = w
      BY <1>1
  <2> HIDE DEF w
  <2>4. QED
      BY <2>2, <2>3
<1>6. QED
    BY <1>2, <1>4, <1>5 DEF DoctorInv

LEMMA FollowKeepsDoctor ==
    ASSUME DoctorInv, world # NotAsked, Follow, UNCHANGED << client, doc, oldFile >>
    PROVE  DoctorInv'
<1>1. world \in Worlds /\ (world.doc.kind = "file" \/ world.doc.of = NoGroups)
    BY DEF DoctorInv
<1>2. IsDoc(world.doc) /\ Me \in Installers
    BY <1>1, DoctorAssumption DEF IsDoc, Worlds
<1>3. ASSUME NEW unlinked \in BOOLEAN, world' = AfterInstall(world, unlinked)
      PROVE  world' \in Worlds /\ (world'.doc.kind = "file" \/ world'.doc.of = NoGroups)
  <2>1. CASE ~Installs(world)
      BY <1>1, <1>3, <2>1 DEF AfterInstall
  <2>2. CASE Installs(world)
    <3>1. Added(world.doc, Me) \in Docs /\ Added(world.doc, Me).kind = "file"
        BY <1>2, <2>2, AddedDoc DEF Installs
    <3> DEFINE file == Added(world.doc, Me)
               old == IF world.old = "ours" /\ unlinked THEN "none" ELSE world.old
    <3>2. world' = [world EXCEPT !.doc = file, !.old = old]
        BY <1>1, <1>3, <2>2 DEF AfterInstall, Worlds
    <3>3. old \in {"none", "ours", "theirs"}
        BY <1>1 DEF Worlds
    <3> HIDE DEF file, old
    <3>4. file \in Docs /\ file.kind = "file"
        BY <3>1 DEF file
    <3>5. world' \in Worlds /\ world'.doc = file
        BY <1>1, <3>2, <3>3, <3>4 DEF Worlds
    <3>6. QED
        BY <3>4, <3>5
  <2>3. QED
      BY <2>1, <2>2
<1>4. ASSUME world' = AfterRevert(world)
      PROVE  world' \in Worlds /\ (world'.doc.kind = "file" \/ world'.doc.of = NoGroups)
  <2>1. CASE Unusable(world.doc)
      BY <1>1, <1>4, <2>1 DEF AfterRevert
  <2>2. CASE ~Unusable(world.doc)
    <3> DEFINE file == Removed(world.doc)
    <3>1. file \in Docs /\ (file.kind = "file" \/ file.of = NoGroups)
        BY <1>2, RemovedDoc
    <3>2. world' = [world EXCEPT !.doc = file]
        BY <1>1, <1>4, <2>2 DEF AfterRevert, Worlds
    <3> HIDE DEF file
    <3>3. world' \in Worlds /\ world'.doc = file
        BY <1>1, <3>1, <3>2 DEF Worlds
    <3>4. QED
        BY <3>1, <3>3
  <2>3. QED
      BY <2>1, <2>2
<1>5. CASE FollowInstall
    BY <1>3, <1>5 DEF FollowInstall, DoctorInv
<1>6. CASE FollowRevert
    BY <1>4, <1>6 DEF FollowRevert, DoctorInv
<1>7. CASE FollowUninstall
  <2>1. world' = [world EXCEPT !.plugins = {"shim-cli"}] /\ {"shim-cli"} \in SUBSET Plugins
      BY <1>7 DEF FollowUninstall, Plugins
  <2>2. world' \in Worlds /\ world'.doc = world.doc
      BY <1>1, <2>1 DEF Worlds
  <2>3. QED
      BY <1>1, <2>2 DEF DoctorInv
<1>8. CASE LeaveIt
    BY <1>8 DEF LeaveIt, DoctorInv
<1>9. QED
    BY <1>5, <1>6, <1>7, <1>8 DEF Follow

LEMMA DoctorInitially == HooksInit /\ DoctorInit => DoctorInv
<1> SUFFICES ASSUME HooksInit, DoctorInit
             PROVE  DoctorInv
    OBVIOUS
<1>1. HooksTypeOK
    BY HooksInitially DEF HooksInv
<1>2. QED
    BY <1>1 DEF HooksTypeOK, DoctorInv, DoctorInit

LEMMA DoctorStep == DoctorInv /\ [DoctorNext]_docvars => DoctorInv'
<1> SUFFICES ASSUME DoctorInv, [DoctorNext]_docvars
             PROVE  DoctorInv'
    OBVIOUS
<1>1. CASE RunDoctor /\ UNCHANGED << client, doc, oldFile >>
    BY <1>1, AskKeepsDoctor
<1>2. CASE world # NotAsked /\ Follow /\ UNCHANGED << client, doc, oldFile >>
    BY <1>2, FollowKeepsDoctor
<1>3. CASE UNCHANGED docvars
    BY <1>3 DEF docvars, DoctorInv
<1>4. QED
    BY <1>1, <1>2, <1>3 DEF DoctorNext

(* What doctor looks at is a file that a client may have, whatever was     *)
(* advised and followed before (FollowInstall, FollowRevert).              *)
THEOREM DoctorInvariant == DoctorSpec => []DoctorInv
<1>1. HooksInit /\ DoctorInit => DoctorInv
    BY DoctorInitially
<1>2. DoctorInv /\ [DoctorNext]_docvars => DoctorInv'
    BY DoctorStep
<1>3. QED
    BY <1>1, <1>2, PTL DEF DoctorSpec

(* What doctor says fits what is inspected, what it advises helps, one     *)
(* cause is told once and its findings fit its checks (DoctorIsRight),     *)
(* for lists of hooks of any length and any installation and settings.     *)
THEOREM DoctorAnswers == DoctorSpec => []DoctorIsRight
<1>1. DoctorInv => DoctorIsRight
    BY InspectionIsRight, AdviceIsRight, OneCause, FindingsAreRight DEF DoctorIsRight
<1>2. QED
    BY <1>1, DoctorInvariant, PTL
=============================================================================
