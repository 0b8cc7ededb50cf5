----------------------------- MODULE Numbering -----------------------------
(***************************************************************************)
(* The numbers of placeholders: guard/evaluate.py, as one event's fields   *)
(* are masked one after the other with one numbering.                      *)
(*                                                                         *)
(* The event's texts may hold placeholders already, of shim's or of        *)
(* someone else's writing.  Numbers start above the highest of them, so    *)
(* that none stands for two things.                                        *)
(***************************************************************************)
EXTENDS Naturals, FiniteSets

CONSTANTS
    Kinds,      \* the types of values
    Values,     \* the values, as _key has them
    MaxFloor,   \* _MAX_FLOOR
    MaxNumber   \* the highest number a placeholder in a text is read with

ASSUME NumberingAssumption == MaxFloor \in Nat /\ MaxNumber \in Nat

VARIABLES
    inText,     \* the placeholders the event's texts hold
    floors,     \* the numbering: per type, the number it starts above,
    given       \* and the number of each value it has

numvars == << inText, floors, given >>

(* Mutant: numbers start at one. *)
MutantIsFloor(k, n) == n = 0

(* numbering_for: the highest number its texts hold. *)
IsFloor(k, n) ==
    /\ n = 0 \/ (<< k, n >> \in inText /\ n < MaxFloor)
    /\ \A m \in 1..MaxNumber : << k, m >> \in inText /\ m < MaxFloor => m <= n

NumberingInit ==
    /\ inText \in SUBSET (Kinds \X (1..MaxNumber))
    /\ floors \in [Kinds -> 0..MaxNumber] /\ \A k \in Kinds : IsFloor(k, floors[k])
    /\ given = [k \in Kinds |-> [v \in {} |-> 0]]

(* evaluate on a value found in one of the fields: it has a number, or is  *)
(* given the next of its type.                                             *)
Mask(k, v) ==
    /\ v \notin DOMAIN given[k]
    /\ given' = [given EXCEPT ![k] =
            [w \in DOMAIN @ \cup {v} |->
                IF w = v THEN floors[k] + Cardinality(DOMAIN @) + 1 ELSE @[w]]]
    /\ UNCHANGED << inText, floors >>

NumberingNext == \E k \in Kinds, v \in Values : Mask(k, v)

NumberingSpec == NumberingInit /\ [][NumberingNext]_numvars

Numbers(k) == { given[k][v] : v \in DOMAIN given[k] }

(* issued: the names the session keeps, (type, first, last). *)
IssuedNumbers(k) == (floors[k] + 1)..(floors[k] + Cardinality(DOMAIN given[k]))

-----------------------------------------------------------------------------
Huge(k) == \E n \in MaxFloor..MaxNumber : << k, n >> \in inText

(* A value keeps one number, two values never share one, the names kept    *)
(* for the session are the numbers given, and none of them is in a text of *)
(* the event already unless that is numbered _MAX_FLOOR or higher.         *)
NamesAreUnique ==
    \A k \in Kinds :
        /\ \A v, w \in DOMAIN given[k] : given[k][v] = given[k][w] => v = w
        /\ Numbers(k) = IssuedNumbers(k)
        /\ ~Huge(k) => \A n \in Numbers(k) : << k, n >> \notin inText

(* The inductive invariant: a numbering is above its texts, and a bijection *)
(* of the values it has onto the numbers it issued.                        *)
NumberingOf(k) ==
    /\ floors[k] \in Nat /\ IsFloor(k, floors[k])
    /\ IsFiniteSet(DOMAIN given[k])
    /\ \A v \in DOMAIN given[k] : given[k][v] \in IssuedNumbers(k)
    /\ \A n \in IssuedNumbers(k) : \E v \in DOMAIN given[k] : given[k][v] = n
    /\ \A v, w \in DOMAIN given[k] : given[k][v] = given[k][w] => v = w

NumberingInv ==
    /\ inText \subseteq Kinds \X (1..MaxNumber)
    /\ DOMAIN floors = Kinds /\ DOMAIN given = Kinds
    /\ given = [k \in Kinds |-> given[k]]
    /\ \A k \in Kinds : NumberingOf(k)

(* "A numbering for one event that issues no placeholder its `texts`       *)
(* already hold" (guard/evaluate.py:51).                                   *)
NamesAreFresh ==
    \A k \in Kinds : \A n \in Numbers(k) : << k, n >> \notin inText
=============================================================================
