------------------------------ MODULE Payload -------------------------------
(***************************************************************************)
(* What is read of one event and how it is put together again, masked      *)
(* (events/payload.py): the walk over its keys and texts, a text read with *)
(* its key in front, a page masked as its conversion will read             *)
(* (events/html_text.py), and the value rebuilt with every replacement.    *)
(*                                                                         *)
(* A text is a sequence of characters.  "d" is half of a value and "D" the *)
(* same half written wider, "K" a cue that makes what follows a value, "a" *)
(* a letter, "b" a blank, ":" the quote a key is framed with, "t" an       *)
(* inline tag and "T" one that ends a line, "(" and ")" the tags of an     *)
(* element whose text is dropped, "e" an entity that is "d" once decoded;  *)
(* "P" is a placeholder as text, "p" and "q" its two halves, "E" one       *)
(* written with entities and "X" one that masking put there.  A text that  *)
(* was worked on is a sequence of << character, where it comes from, the   *)
(* value it stands for >>; one value has one placeholder (Numbering).      *)
(* Left out: blanks at the ends of lines, the line breaks a placeholder    *)
(* keeps, and the size a page must have to be worth converting.            *)
(***************************************************************************)
EXTENDS Integers, Sequences, FiniteSets, SequencesExt, FiniteSetsExt

CONSTANTS
    Chars,          \* what texts are written from
    MaxChars,       \* bound: characters in a text
    Keys,           \* what a text is read under, << >> for nothing
    Paths,          \* where a payload has text, by its keys; << >>: an item
    Atoms,          \* the texts, numbers and bytes of payloads
    MaxAtoms,       \* bound: of them in a payload
    MaxFailing,     \* bound: the leaves that may fail
    KeyContext,     \* KEY_CONTEXT
    MaxDepth,       \* MAX_DEPTH
    MaxCharacters   \* MAX_TEXT_CHARACTERS

ASSUME PayloadAssumption ==
    {MaxChars, MaxAtoms, MaxFailing, KeyContext, MaxDepth, MaxCharacters} \subseteq Nat /\ KeyContext > 0

VARIABLES
    written,    \* a text
    under,      \* the key it is read under, << >> for none
    event,      \* a payload: << where it stands, what it is >>, in order
    inbound,    \* it is a result the model will read
    fails       \* << the leaf whose reading fails, 0 for none, and how >>

payvars == << written, under, event, inbound, fails >>

-----------------------------------------------------------------------------
(* The detector: two halves that nothing is glued to, and whatever follows *)
(* a cue up to a blank, even across a tag; values that overlap are one.    *)

Tags == {"t", "T", "(", ")"}
Halves == {"d", "D"}
Letters == Halves \cup {"a", "p", "q", "e"}
Running == Letters \cup {"t", "(", ")"}
CharAt(s, i) == IF i \in DOMAIN s THEN s[i] ELSE "b"

IsPair(s, i, j) ==
    /\ j = i + 1 /\ {CharAt(s, i), CharAt(s, j)} \subseteq Halves
    /\ CharAt(s, i - 1) \notin Letters /\ CharAt(s, j + 1) \notin Letters
IsCued(s, i, j) ==
    /\ CharAt(s, i - 1) = "K" \/ (CharAt(s, i - 1) = ":" /\ CharAt(s, i - 2) = "K")
    /\ CharAt(s, i) \in Letters /\ \A k \in i..j : CharAt(s, k) \in Running
    /\ CharAt(s, j + 1) \notin Running

Positions(spans) == UNION { x[1]..x[2] : x \in spans }

(* The spans found, none within another. *)
SpansIn(s) ==
    LET spans == { x \in (DOMAIN s) \X (DOMAIN s) :
                     x[1] <= x[2] /\ (IsPair(s, x[1], x[2]) \/ IsCued(s, x[1], x[2])) }
    IN { x \in spans : ~\E y \in spans : y # x /\ y[1] <= x[1] /\ x[2] <= y[2] }

(* A value as its number knows it: however wide it is written. *)
ValueOf(s, x) ==
    LET read == SubSeq(s, x[1], x[2]) IN [i \in DOMAIN read |-> IF read[i] = "D" THEN "d" ELSE read[i]]

(* A placeholder that is text: as written, or once entities are decoded. *)
Literal(s) == \E i \in DOMAIN s : s[i] \in {"P", "E"} \/ (s[i] = "p" /\ CharAt(s, i + 1) = "q")

-----------------------------------------------------------------------------
(* _merged: regions are << from, to, value >>; those that overlap are      *)
(* masked as one, named by the first.                                      *)

Sorted(regions) ==
    SetToSortSeq(regions, LAMBDA x, y : x[1] < y[1] \/ (x[1] = y[1] /\ x[2] > y[2]))

United(regions) ==
    Range(FoldLeft(LAMBDA out, r :
                       IF out # << >> /\ r[1] <= Last(out)[2]
                       THEN [out EXCEPT ![Len(out)] = << @[1], Max({@[2], r[2]}), @[3] >>]
                       ELSE Append(out, r),
                   << >>, Sorted(regions)))

Merged(text, regions) ==
    FlattenSeq([i \in DOMAIN text |->
        LET r == { x \in United(regions) : i \in x[1]..x[2] } IN
        IF r = {} THEN << text[i] >>
        ELSE LET x == CHOOSE x \in r : TRUE IN
             IF x[1] = i THEN << << "X", text[i][2], x[3] >> >> ELSE << >>])

Traced(s) == [i \in DOMAIN s |-> << s[i], i, << >> >>]
Shown(text) == [i \in DOMAIN text |-> text[i][1]]
Regions(s, spans) == { << x[1], x[2], ValueOf(s, x) >> : x \in spans }

-----------------------------------------------------------------------------
(* _read: a text alone and, under a key, framed with it too.  The start of *)
(* a long one tells whether the key adds anything.                         *)

Framed(key, s) == key \o << ":" >> \o s \o << "b" >>

(* Mutant: a value that ends where the start was cut counts as read whole. *)
MutantAddsNothing(s, key) ==
    LET start == Len(key) + 1
    IN \A x \in SpansIn(Framed(key, SubSeq(s, 1, KeyContext))) :
           x[2] <= start \/ << x[1] - start, x[2] - start >> \in SpansIn(s)

AddsNothing(s, key) ==
    LET start == Len(key) + 1
    IN \A x \in SpansIn(Framed(key, SubSeq(s, 1, KeyContext))) :
           x[2] <= start \/ (<< x[1] - start, x[2] - start >> \in SpansIn(s) /\ x[2] < start + KeyContext)

NearSpans(s, key) ==
    { x \in SpansIn(Framed(key, s)) : x[2] > Len(key) + 1 /\ x[1] <= Len(key) + 1 + Len(s) }

ReadUnder(s, key) ==
    LET start == Len(key) + 1
        within(x) == << Max({x[1] - start, 1}), Min({x[2] - start, Len(s)}), ValueOf(Framed(key, s), x) >>
        alone == Regions(s, SpansIn(s))
    IN United(IF key = << >> \/ (Len(s) > KeyContext /\ AddsNothing(s, key)) THEN alone
              ELSE alone \cup { within(x) : x \in NearSpans(s, key) })

-----------------------------------------------------------------------------
(* html_text.to_text: tags go, some end a line, entities decode, blanks in *)
(* a row are one, and an element's text is dropped.                        *)

DroppedAt(text) ==
    LET open[i \in 0..Len(text)] ==
            IF i = 0 THEN 0
            ELSE CASE text[i][1] = "(" -> open[i - 1] + 1
                   [] text[i][1] = ")" -> Max({open[i - 1] - 1, 0})
                   [] OTHER -> open[i - 1]
    IN open

(* An element that does not end keeps the page as it is. *)
Converts(text) == DroppedAt(text)[Len(text)] = 0

HandleData(out, c) ==
    IF c[1] = "b" /\ (out = << >> \/ Last(out)[1] \in {"b", "n"}) THEN out
    ELSE Append(out, [c EXCEPT ![1] = CASE @ = "e" -> "d" [] @ = "E" -> "P" [] OTHER -> @])

EndLine(out, c) ==
    IF out = << >> \/ Last(out)[1] = "n" THEN out ELSE Append(out, [c EXCEPT ![1] = "n"])

Converted(text) ==
    FoldLeft(LAMBDA out, i :
                 IF DroppedAt(text)[i] > 0 \/ text[i][1] \in {"t", "(", ")"} THEN out
                 ELSE IF text[i][1] = "T" THEN EndLine(out, text[i])
                 ELSE HandleData(out, text[i]),
             << >>, [i \in DOMAIN text |-> i])

-----------------------------------------------------------------------------
(* _page: a value across tags is masked before the conversion; the page is *)
(* read as the model will, and a value of the markup that its reading does *)
(* not cover whole is masked where it landed.                              *)

(* Mutant: the values of the markup are left to the reading of the page. *)
MutantJoined(landed, covered) == FALSE

Joined(landed, covered) == ~(landed \subseteq covered)

(* Where a value of the markup is on the page, and what is beside all.     *)
Lands(page, r) == { i \in DOMAIN page : page[i][2] \in r[1]..r[2] }
Beside(page, regions) ==
    [i \in DOMAIN page |-> IF \E r \in regions : i \in Lands(page, r) THEN "b" ELSE page[i][1]]
JoinedOf(page, read, regions) ==
    { r \in regions : Lands(page, r) # {} /\ Joined(Lands(page, r), Positions(read)) }

ReadPage(s, regions, page, read) ==
    [possible |-> Literal(Beside(page, regions)) => Literal(s),
     page |-> page, read |-> read,
     text |-> Merged(page, Regions(Shown(page), read)
                  \cup { << Min(Lands(page, r)), Max(Lands(page, r)), r[3] >> : r \in JoinedOf(page, read, regions) })]

PageOf(s, regions, page) == ReadPage(s, regions, page, SpansIn(Shown(page)))

Convert(s, regions, marked) ==
    [PageOf(s, regions, Converted(marked)) EXCEPT !.possible = @ /\ Converts(marked)]

Page(s, regions) ==
    Convert(s, regions, Merged(Traced(s), { r \in regions : \E i \in r[1]..r[2] : s[i] \in Tags }))

(* _shrink: what cannot be converted is masked as it is. *)
Best(page, s, regions) == IF page.possible THEN page.text ELSE Merged(Traced(s), regions)
Shrunk(s, regions) == Best(Page(s, regions), s, regions)

-----------------------------------------------------------------------------
(* walk: keys, texts and numbers are leaves, a key before what it holds.   *)

PathOf(i) == event[i][1]
PathTo(i, n) == SubSeq(PathOf(i), 1, n)
KeyLeaf(i, n) == [kind |-> "key", at |-> PathTo(i, n), text |-> PathOf(i)[n]]

(* The keys not met before; none of an object below the depth limit. *)
NewKeys(i) ==
    { n \in DOMAIN PathOf(i) :
        /\ n <= MaxDepth + 1 /\ PathOf(i)[n] # << >>
        /\ i > 1 => ~IsPrefix(PathTo(i, n), PathOf(i - 1)) }

Leaves ==
    LET own(i) == [kind |-> event[i][2].kind, at |-> PathOf(i), text |-> event[i][2].text]
        keys(i) == [k \in 1..Cardinality(NewKeys(i)) |-> KeyLeaf(i, SetToSortSeq(NewKeys(i), <)[k])]
    IN FlattenSeq([i \in DOMAIN event |->
           keys(i) \o IF Len(PathOf(i)) <= MaxDepth THEN << own(i) >> ELSE << >>])

(* Traversal.add: what no longer fits is passed by, and counted. *)
Add(found, leaf) ==
    IF found.characters + Len(leaf.text) > MaxCharacters THEN [found EXCEPT !.skipped = @ + 1]
    ELSE [found EXCEPT !.leaves = Append(@, leaf), !.characters = @ + Len(leaf.text)]

Walk ==
    FoldLeft(Add, [leaves |-> << >>, characters |-> 0,
                   skipped |-> Cardinality({ i \in DOMAIN event : Len(PathOf(i)) > MaxDepth })],
             Leaves)

(* _key: an entry's value is read under its name, an item or a key alone.  *)
KeyOf(leaf) ==
    IF leaf.kind \in {"key", "image", "picture"} \/ leaf.at = << >> THEN << >>
    ELSE LET named == { i \in DOMAIN event : /\ PathOf(i) = Append(Front(leaf.at), << "name" >>)
                                             /\ event[i][2].kind = "text" }
         IN IF Last(leaf.at) = << "value" >> /\ named # {}
            THEN event[CHOOSE i \in named : TRUE][2].text
            ELSE Last(leaf.at)

(* A picture the model will see is not read; bytes cannot be masked. *)
IsPicture(leaf) == inbound /\ leaf.kind = "picture"
IsOpaque(leaf) == leaf.kind \in {"image", "picture"}
HasFinding(leaf) == ReadUnder(leaf.text, KeyOf(leaf)) # {}

(* inspect, of one leaf: results may be converted, in their texts only.    *)
Reshapes(leaf) == inbound /\ leaf.kind = "text"

(* How the reading of a leaf fails: the deadline is "late", the detector   *)
(* "failed" on all of it or on a "piece", or the deadline met the "reshape". *)
NoFailure == << 0, "" >>
FailsAt(found, n) ==
    /\ n = fails[1] /\ ~IsPicture(found.leaves[n])
    /\ fails[2] = "reshape" => Reshapes(found.leaves[n])

(* A leaf whose conversion the deadline ends is masked as it is. *)
MaskedLeaf(found, n) ==
    LET leaf == found.leaves[n]
        regions == ReadUnder(leaf.text, KeyOf(leaf)) IN
    IF Reshapes(leaf) /\ ~FailsAt(found, n) THEN Shrunk(leaf.text, regions)
    ELSE Merged(Traced(leaf.text), regions)

(* _replace, of a path: each key as it was masked. *)
Rendered(text) == [i \in DOMAIN text |-> << text[i][1], text[i][3] >>]
MaskedPath(path) ==
    [n \in DOMAIN path |-> Rendered(Merged(Traced(path[n]), ReadUnder(path[n], << >>)))]

Collide ==
    \E i, j \in DOMAIN event : \E n \in 1..Min({Len(PathOf(i)), Len(PathOf(j))}) :
        /\ PathTo(i, n - 1) = PathTo(j, n - 1) /\ PathOf(i)[n] # PathOf(j)[n]
        /\ MaskedPath(PathOf(i))[n] = MaskedPath(PathOf(j))[n]

(* What a failure leaves unread, of the leaf and the `after` that follow.  *)
Left(after) ==
    CASE fails[2] = "late" -> after + 1
      [] fails[2] = "reshape" -> after
      [] OTHER -> 1

(* Mutant: a leaf or a piece the detector failed on is passed by. *)
MutantUnread(found) ==
    found.skipped + IF fails[2] \in {"late", "reshape"} /\ \E n \in DOMAIN found.leaves : FailsAt(found, n)
                    THEN Left(Len(found.leaves) - fails[1]) ELSE 0

Unread(found) ==
    found.skipped + IF \E n \in DOMAIN found.leaves : FailsAt(found, n)
                    THEN Left(Len(found.leaves) - fails[1]) ELSE 0

(* The leaves whose findings are masked; the rest of a piece's leaf is.    *)
ReadLeaves(found) ==
    { n \in DOMAIN found.leaves :
        /\ ~IsPicture(found.leaves[n])
        /\ \A m \in 1..n : FailsAt(found, m) =>
               CASE fails[2] = "late" -> FALSE
                 [] fails[2] = "failed" -> m < n
                 [] fails[2] = "reshape" -> m = n
                 [] OTHER -> TRUE }

(* What is handed on: << >> when a part was not read or cannot be masked. *)
Inspected ==
    LET found == Walk
        seen == ReadLeaves(found)
        unmaskable == Collide \/ \E n \in seen : IsOpaque(found.leaves[n]) /\ HasFinding(found.leaves[n])
        masked(at) == { n \in seen : found.leaves[n].at = at /\ found.leaves[n].kind # "key" }
    IN IF Unread(found) > 0 \/ unmaskable THEN << >>
       ELSE [i \in DOMAIN event |->
                << MaskedPath(PathOf(i)),
                   IF masked(PathOf(i)) = {} THEN Traced(event[i][2].text)
                   ELSE MaskedLeaf(found, CHOOSE n \in masked(PathOf(i)) : TRUE) >>]

-----------------------------------------------------------------------------
PayloadInit ==
    /\ written = << >> /\ under \in Keys
    /\ event = << >> /\ inbound \in BOOLEAN
    /\ fails \in {NoFailure} \cup (1..MaxFailing) \X {"late", "failed", "piece", "reshape"}

(* A text grows. *)
WriteText ==
    /\ Len(written) < MaxChars
    /\ \E c \in Chars : written' = Append(written, c)
    /\ UNCHANGED << under, event, inbound, fails >>

(* A payload grows: at its end, so that what stands together stays so.  A  *)
(* list has one item, and is no object.                                    *)
MayFollow(path) ==
    \A i \in DOMAIN event :
        /\ ~IsPrefix(path, PathOf(i)) /\ ~IsPrefix(PathOf(i), path)
        /\ LET n == Cardinality({ k \in DOMAIN path : k <= Len(PathOf(i)) /\ PathTo(i, k) = SubSeq(path, 1, k) })
           IN /\ << >> \notin {path[n + 1], PathOf(i)[n + 1]}
              /\ IsPrefix(SubSeq(path, 1, n), PathOf(Len(event)))

AddAtom ==
    /\ Len(event) < MaxAtoms
    /\ \E path \in Paths, atom \in Atoms :
           /\ MayFollow(path)
           /\ event' = Append(event, << path, atom >>)
    /\ UNCHANGED << written, under, inbound, fails >>

-----------------------------------------------------------------------------
(* PROPERTIES *)

Standing(text) == { text[i][2] : i \in { k \in DOMAIN text : text[k][1] # "X" } }

(* The shortcut for a long value loses nothing: what is masked of a text   *)
(* is what either reading of it, alone or with its key, finds in it.       *)
KeyOnlyAdds ==
    LET start == Len(under) + 1
        near == IF under = << >> THEN {}
                ELSE { p - start : p \in Positions(SpansIn(Framed(under, written))) } \cap DOMAIN written
    IN Positions(ReadUnder(written, under)) = Positions(SpansIn(written)) \cup near

IsMasked(text, p, found) ==
    /\ Standing(text) = (IF p.possible THEN Standing(p.page) \ { p.page[i][2] : i \in Positions(p.read) }
                         ELSE DOMAIN written) \ found
    /\ \A i, j \in DOMAIN text : i < j => text[i][2] < text[j][2]
    /\ Literal(Shown(text)) => Literal(written)

(* A page hands on no part of a value, neither of one the markup showed    *)
(* nor of one the page does, and nothing else of it is lost or moves: a    *)
(* value that tags cut in two, that an entity completes or that is joined  *)
(* to the text beside it on the page is masked all the same.  Text that    *)
(* only the page shows to be a placeholder is never handed on.             *)
PageIsMasked == LET regions == ReadUnder(written, under)
                IN IsMasked(Shrunk(written, regions), Page(written, regions), Positions(regions))

(* Where there is a value in a leaf. *)
ValuesOf(leaf) == IF IsPicture(leaf) THEN {} ELSE Positions(ReadUnder(leaf.text, KeyOf(leaf)))

IsWhole(handed, leaves, values) ==
    LET total == MapThenSumSet(LAMBDA n : Len(leaves[n].text), DOMAIN leaves)
        unread(n) ==
            /\ n = fails[1] /\ ~IsPicture(leaves[n])
            /\ fails[2] = "reshape" => Reshapes(leaves[n]) /\ n < Len(leaves)
        tooMuch == total > MaxCharacters \/ \E i \in DOMAIN event : Len(PathOf(i)) > MaxDepth
        partly == \E n \in DOMAIN leaves : unread(n)
    IN IF handed = << >>
       THEN \/ event = << >> \/ tooMuch \/ partly \/ Collide
            \/ \E n \in DOMAIN leaves : IsOpaque(leaves[n]) /\ values[n] # {}
       ELSE /\ ~tooMuch /\ ~partly
            /\ \A i, j \in DOMAIN event : i # j => handed[i][1] # handed[j][1]
            /\ \A n \in DOMAIN leaves : \A i \in DOMAIN event :
                   leaves[n].kind # "key" /\ leaves[n].at = PathOf(i) =>
                       Standing(handed[i][2]) \cap values[n] = {}
            /\ \A i \in DOMAIN event : \A n \in DOMAIN PathOf(i) :
                   SpansIn(PathOf(i)[n]) # {} => handed[i][1][n] # Rendered(Traced(PathOf(i)[n]))

(* A version of an event is handed on only when all of it was read: then   *)
(* it has the shape of the event, keys that differed still differ, and no  *)
(* part of a value is left in a key, a text or a number; and it is refused *)
(* only when it is too deep or too long, when the deadline came before all *)
(* of it was read, when the detector failed on a text or a piece of one,   *)
(* or when it cannot be masked.  A conversion the deadline ends costs the  *)
(* leaves after it: the last one's hands on the text, masked as it was.    *)
EventIsMasked ==
    IsWhole(Inspected, Leaves, [n \in DOMAIN Leaves |-> ValuesOf(Leaves[n])])

(* All three: what is handed on of an event is masked whole (inspect).     *)
MaskedWhole == KeyOnlyAdds /\ PageIsMasked /\ EventIsMasked
=============================================================================
