---------------------------- MODULE Recognizers -----------------------------
(***************************************************************************)
(* What guard/recognizers.py does with what its patterns match: the        *)
(* checksums a match must pass, the duplicates that are dropped, the bare  *)
(* numbers that count only in a list that says what they are, and the card *)
(* numbers that are the middle of an IBAN.                                 *)
(*                                                                         *)
(* The patterns are not modelled: a text is what they read in it.          *)
(***************************************************************************)
EXTENDS Integers, Sequences, FiniteSets, SequencesExt, FiniteSetsExt

CONSTANTS
    Entities,   \* the types of matches,
    Custom,     \* and the score and name of each custom pattern
    Reach,      \* bound: characters of a text
    MaxMatches, \* bound: matches in it
    Typed,      \* the digits the numbers checked are made of
    MaxWords    \* bound: words of a text that has bare numbers

ASSUME RecognizersAssumption ==
    /\ Typed \subseteq 0..9 /\ Typed \cap 1..9 # {}
    /\ {Reach, MaxMatches, MaxWords} \subseteq Nat

VARIABLES
    matches,    \* what the patterns match
    digits,     \* the digits of a number, without those that check it
    words       \* a text with bare numbers

recvars == << matches, digits, words >>

-----------------------------------------------------------------------------
(* deduplicate. *)

Hit(e, from, to, name) ==
    [entity |-> e, from |-> from, to |-> to, score |-> name[1], label |-> name[2]]

Key(m) == << -m.score, m.from, m.from - m.to >>
Sooner(a, b) == \E i \in DOMAIN a : a[i] < b[i] /\ \A j \in 1..(i - 1) : a[j] = b[j]

(* The orders sorted() may give the matches of a type: what differs only   *)
(* by its label comes as the set happens to yield it.                      *)
OfType(ms, e) == { m \in ms : m.entity = e }
Orders(ms) ==
    { o \in SetToSeqs(ms) : \A i, j \in DOMAIN o : Sooner(Key(o[i]), Key(o[j])) => i < j }

(* The Fenwick tree: a cell holds the furthest end of as many starts as    *)
(* its lowest bit says.                                                    *)
LowBit(n) == Max({ b \in {1, 2, 4, 8} : n % b = 0 })
StartsOf(ms) == { m.from : m \in ms }
IndexOf(ms, m) == Cardinality({ s \in StartsOf(ms) : s <= m.from })

(* The cells read for the starts up to `index`, and the cells that hold it. *)
Below(index) == { c \in 1..index : \E b \in {1, 2, 4, 8} : c = (index \div b) * b }

(* Mutant: the cell of the item's own start, and no other, learns its end. *)
MutantAbove(index, size) == {index}

Above(index, size) == { c \in index..size : c - LowBit(c) < index }

KeptByTree(ms, order) ==
    LET size == Cardinality(StartsOf(ms))
        Step(acc, m) ==
            LET index == IndexOf(ms, m) IN
            IF Max({ acc.tree[c] : c \in Below(index) }) >= m.to THEN acc
            ELSE [kept |-> Append(acc.kept, m),
                  tree |-> [c \in 1..size |-> IF c \in Above(index, size)
                                              THEN Max({acc.tree[c], m.to}) ELSE acc.tree[c]]]
    IN FoldLeft(Step, [kept |-> << >>, tree |-> [c \in 1..size |-> -1]], order).kept

(* One score and label: the order is by start, longest first. *)
KeptByReach(order) ==
    LET Step(acc, m) == IF m.to > acc.furthest
                        THEN [kept |-> Append(acc.kept, m), furthest |-> m.to] ELSE acc
    IN FoldLeft(Step, [kept |-> << >>, furthest |-> -1], order).kept

KeptOf(ms, order) ==
    IF Cardinality({ << m.score, m.label >> : m \in ms }) = 1
    THEN KeptByReach(order) ELSE KeptByTree(ms, order)

(* What is found in a text with such matches. *)
Found(ms) ==
    UNION { Range(KeptOf(OfType(ms, e), CHOOSE o \in Orders(OfType(ms, e)) : TRUE)) : e \in Entities }

-----------------------------------------------------------------------------
(* The checksums. *)

Total(s) == FoldLeft(LAMBDA a, b : a + b, 0, s)
At(s, S) == FoldSet(LAMBDA i, n : s[i] + n, 0, S \cap DOMAIN s)
Odds == {1, 3, 5, 7, 9}
Evens == {2, 4, 6, 8}

(* _validate_card: Luhn's, from the last digit back. *)
DigitSum(n) == (n \div 10) + (n % 10)
CardSum(s) ==
    LET Worth(i) == IF (Len(s) - i) % 2 = 0 THEN s[i] ELSE DigitSum(2 * s[i])
    IN FoldSet(LAMBDA i, n : Worth(i) + n, 0, DOMAIN s)
ValidCard(s) == CardSum(s) % 10 = 0

ValidTckn(s) ==
    /\ Len(s) = 11 /\ s[1] # 0
    /\ ((7 * At(s, Odds)) - At(s, Evens)) % 10 = s[10]
    /\ Total(SubSeq(s, 1, 10)) % 10 = s[11]

Adjusted(s, i) == (s[i] + 10 - i) % 10
VknDigit(s) ==
    LET Worth(i) == (Adjusted(s, i) * 2^(10 - i)) % 9
    IN (10 - (FoldSet(LAMBDA i, n : Worth(i) + n, 0, 1..9) % 10)) % 10
ValidVkn(s) == Len(s) = 10 /\ Cardinality(Range(s)) > 1 /\ s[10] = VknDigit(s)

(* _validate_iban of a Turkish one, whose format is two letters and 24     *)
(* digits; a letter counts two digits.                                     *)
TR == << 29, 27 >>
Mod97(s) == FoldLeft(LAMBDA n, v : IF v > 9 THEN (n * 100 + v) % 97 ELSE (n * 10 + v) % 97, 0, s)
IbanCheck(body) == 98 - Mod97(body \o TR \o << 0, 0 >>)
ValidIban(check, body) == IbanCheck(body) = check

-----------------------------------------------------------------------------
(* _scan_ssn: bare nine digits count after a cue, or after nine that count *)
(* in a list.  A gap is three separator characters: a cue may be eight     *)
(* away, the next of a list four; a denied number is no match.             *)
WordKinds == {"cue", "number", "denied", "dashed", "gap", "other"}
GapsBetween(ws, i, j) == \A k \in (i + 1)..(j - 1) : ws[k] = "gap"

Cued(ws) ==
    LET Step(cued, i) ==
            LET afterCue == \E c \in 1..(i - 1) :
                    ws[c] = "cue" /\ i - c <= 3 /\ GapsBetween(ws, c, i)
                listed == cued # {} /\ i - Max(cued) <= 2 /\ GapsBetween(ws, Max(cued), i)
            IN IF ws[i] = "number" /\ (afterCue \/ listed) THEN cued \cup {i} ELSE cued
    IN FoldLeft(Step, {}, [i \in DOMAIN ws |-> i])
Ssns(ws) == Cued(ws) \cup { i \in DOMAIN ws : ws[i] = "dashed" }

(* analyze_text drops a card number inside an IBAN. *)
Analyzed(ms) ==
    { m \in ms : m.entity = "CREDIT_CARD" =>
        ~\E n \in ms : n.entity = "IBAN_CODE" /\ n.from <= m.from /\ m.to <= n.to }

-----------------------------------------------------------------------------
RecognizersInit == matches = {} /\ digits = << >> /\ words = << >>

(* Custom patterns have scores and names of their own. *)
Named(e) == IF e = "CUSTOM" THEN Custom ELSE {<< 100, "" >>}

MatchPattern ==
    /\ Cardinality(matches) < MaxMatches
    /\ \E e \in Entities, f, t \in 0..Reach : \E n \in Named(e) :
          f < t /\ matches' = matches \cup {Hit(e, f, t, n)}
    /\ UNCHANGED << digits, words >>

TypeDigit ==
    /\ Len(digits) < 9
    /\ \E d \in Typed : (digits = << >> => d # 0) /\ digits' = Append(digits, d)
    /\ UNCHANGED << matches, words >>

(* Words that stand together without a separator would match otherwise. *)
Follows(ws, w) ==
    (ws # << >> /\ "gap" \notin {w, Last(ws)})
        => (Last(ws) = "cue" /\ w \in {"number", "denied"})

Write ==
    /\ Len(words) < MaxWords
    /\ \E w \in WordKinds :
          /\ Follows(words, w)
          /\ words' = Append(words, w)
    /\ UNCHANGED << matches, digits >>

RecognizersNext == MatchPattern \/ TypeDigit \/ Write

-----------------------------------------------------------------------------
Covers(n, m) == n.entity = m.entity /\ n.from <= m.from /\ m.to <= n.to

(* Of the matches of a type, those are kept that no better one of the type *)
(* takes in; which of two that differ only by their label is kept depends  *)
(* on the order, and no span or type does.  What is dropped is always      *)
(* inside something kept, also when card numbers inside an IBAN are gone.  *)
DuplicatesAreDropped ==
    /\ \A e \in Entities : \A order \in Orders(OfType(matches, e)) :
          KeptOf(OfType(matches, e), order) =
          SelectSeq(order, LAMBDA m :
              ~\E i, j \in DOMAIN order : order[j] = m /\ i < j /\ Covers(order[i], m))
    /\ \A m \in matches : \E k \in Found(matches) : Covers(k, m)
    /\ \A m \in matches : \E k \in Analyzed(Found(matches)) : k.from <= m.from /\ m.to <= k.to

Typos(s) == { [s EXCEPT ![i] = d] : i \in DOMAIN s, d \in 0..9 } \ {s}

(* "Where a checksum exists it is verified, so a mistyped IBAN or Turkish  *)
(* national ID is not reported" (docs/privacy.md:125): the number with its *)
(* check digits counts, and no other that differs by one digit, but for a  *)
(* tax number, where the checksum is blind to one change.                  *)
TyposAreCaught ==
    Len(digits) = 9 =>
        LET tenth == ((7 * At(digits, Odds)) - At(digits, Evens)) % 10
            tckn == digits \o << tenth, (Total(digits) + tenth) % 10 >>
            card == Append(digits, (10 - (CardSum(Append(digits, 0)) % 10)) % 10)
            vkn == Append(digits, VknDigit(digits))
            check == IbanCheck(digits)
        IN /\ ValidTckn(tckn) /\ \A t \in Typos(tckn) : ~ValidTckn(t)
           /\ ValidCard(card) /\ \A t \in Typos(card) : ~ValidCard(t)
           /\ \A t \in Typos(digits) : ~ValidIban(check, t)
           /\ \A t \in Typos(vkn) :
                 ValidVkn(vkn) /\ ValidVkn(t) =>
                     \E i \in 1..9 : {Adjusted(vkn, i), Adjusted(t, i)} = {0, 9}

(* Nine bare digits count "only right after an ssn cue, with up to eight   *)
(* separator characters between, or right after such an SSN in a list"     *)
(* (docs/privacy.md:128): between the cue and a number that counts there   *)
(* are only numbers that count, one gap apart.                             *)
BareNumbersAreCued ==
    \A i \in DOMAIN words :
        words[i] = "number" =>
            (i \in Ssns(words) <=>
               \E c, first \in 1..i :
                   /\ words[c] = "cue" /\ first \in (c + 1)..(c + 3) /\ GapsBetween(words, c, first)
                   /\ (i - first) % 2 = 0
                   /\ \A k \in first..i :
                         words[k] = IF (k - first) % 2 = 0 THEN "number" ELSE "gap")

(* Of what the patterns match, exactly the matches that count are found.   *)
MatchesAreSound == DuplicatesAreDropped /\ TyposAreCaught /\ BareNumbersAreCued
=============================================================================
