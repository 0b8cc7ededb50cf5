------------------------------- MODULE Spans -------------------------------
(***************************************************************************)
(* What the detector does with the spans it finds: guard/analyze.py,       *)
(* guard/normalize.py and the pieces of guard/evaluate.py.                 *)
(*                                                                         *)
(* A text too long for one pass is cut in pieces; a piece is decoded and   *)
(* normalized, which drops, joins and multiplies characters; matches of    *)
(* the normalized text are united where they overlap and mapped back to    *)
(* the source.  A span is [from, to), as in the code.  A finding's `value` *)
(* is its own span once others were united with it, and << >> before.      *)
(***************************************************************************)
EXTENDS Integers, Sequences, FiniteSets, SequencesExt, FiniteSetsExt

CONSTANTS
    Types,          \* the finding types, in alphabetical order
    Priority,       \* _PRIORITY of each
    Length,         \* bound: characters of the text findings are in
    MaxFound,       \* bound: findings at once
    Tokens,         \* bound: tokens of a source text
    Lines,          \* bound: characters of the text that is cut
    Size, Overlap   \* MAX_SOURCE_CHARACTERS and _OVERLAP

ASSUME SpansAssumption ==
    /\ \A t \in Range(Types) : Priority[t] \in Nat
    /\ {Length, MaxFound, Tokens, Lines, Overlap} \subseteq Nat /\ Size \in Nat
    /\ Overlap < Size

VARIABLES
    found,      \* a set of findings
    source,     \* a source text, as tokens
    text,       \* the text that is cut, as what is a newline in it
    cutting     \* the pieces of it: those to be read, those that were, and
                \* whether one could not be

spanvars == << found, source, text, cutting >>

-----------------------------------------------------------------------------
(* _resolve_overlaps. *)

Finding(t, from, to, value) == [type |-> t, from |-> from, to |-> to, value |-> value]
Width(f) == f.to - f.from
Alphabetical(t) == CHOOSE i \in DOMAIN Types : Types[i] = t

(* The lexicographic order of two sequences of numbers. *)
Less(a, b) == \E i \in DOMAIN a : a[i] < b[i] /\ \A j \in 1..(i - 1) : a[j] = b[j]

Before(f, g) == Less(<< f.from, f.to, Alphabetical(f.type) >>,
                     << g.from, g.to, Alphabetical(g.type) >>)

Stronger(f, g) ==
    Less(<< -Priority[f.type], -Width(f), Alphabetical(f.type), f.from, f.to >>,
         << -Priority[g.type], -Width(g), Alphabetical(g.type), g.from, g.to >>)

End(component) == Max({ f.to : f \in component })

Collapse(component) ==
    IF Cardinality(component) = 1 THEN CHOOSE f \in component : TRUE
    ELSE LET winner == CHOOSE f \in component :       \* of two alike, the one found first
                           \A g \in component \ {f} : Stronger(f, g) \/ (~Stronger(g, f) /\ f.value # << >>)
         IN Finding(winner.type, Min({ f.from : f \in component }), End(component),
                    IF winner.value = << >> THEN << winner.from, winner.to >> ELSE winner.value)

(* Mutant: a component ends where its last finding does. *)
MutantJoins(component, f) == \E g \in component : f.from < g.to /\ g.from >= f.from

Joins(component, f) == component # {} /\ f.from < End(component)

Resolve(findings) ==
    LET Step(acc, f) ==
            IF Joins(acc.open, f) \/ acc.open = {} THEN [acc EXCEPT !.open = @ \cup {f}]
            ELSE [done |-> Append(acc.done, Collapse(acc.open)), open |-> {f}]
        last == FoldLeft(Step, [done |-> << >>, open |-> {}], SetToSortSeq(findings, Before))
    IN IF last.open = {} THEN << >> ELSE Append(last.done, Collapse(last.open))

(* _unclaimed: the bare numbers no finding overlaps. *)
Unclaimed(bare, resolved) ==
    Cardinality({ b \in bare :
        LET index == Cardinality({ i \in DOMAIN resolved : resolved[i].from < b.to })
        IN index = 0 \/ resolved[index].to <= b.from })

(* _not_placeholders: what is found in shim's own placeholders alone, at   *)
(* `own`, but for marks that are no letter or digit, is no value.          *)
NotPlaceholders(findings, own, marks) ==
    { f \in findings :
        LET at == f.from .. (f.to - 1)
            outside == { p \in at : \A o \in own : p < o[1] \/ o[2] <= p }
        IN outside = at \/ ~(outside \subseteq marks) }

(* analyze_counting: what is found in the text as it is decoded, and, where *)
(* that is another text, what is found in it as it is written.             *)
AnalyzeCounting(claimed, written, own, marks) ==
    LET decoded == Resolve(NotPlaceholders(claimed, own, marks))
        asWritten == NotPlaceholders(written, own, marks)
    IN IF asWritten = {} THEN decoded ELSE Resolve(Range(decoded) \cup asWritten)

-----------------------------------------------------------------------------
(* normalize: a token of the source is a character of its own, an escape   *)
(* or two that decode to one, an escape that decodes to nothing and stays  *)
(* as written, an invisible character, a combining mark, or a character    *)
(* that decomposes into two.                                               *)

TokenWidth == [plain |-> 1, escape |-> 3, escapes |-> 6, bad |-> 3,
               invisible |-> 1, mark |-> 1, wide |-> 1]
Start(src, k) == FoldLeft(LAMBDA n, t : n + TokenWidth[t], 0, SubSeq(src, 1, k - 1))
TokenSpan(src, k) == << Start(src, k), Start(src, k) + TokenWidth[src[k]] >>

(* _decode_percent, without the invisible characters: the characters and   *)
(* the source span of each.                                                *)
Decoded(src) ==
    FlattenSeq([k \in DOMAIN src |->
        LET at == Start(src, k) IN
        CASE src[k] = "bad" -> [i \in 1..3 |-> [of |-> "plain", span |-> << at + i - 1, at + i >>]]
          [] src[k] = "invisible" -> << >>
          [] OTHER -> << [of |-> src[k], span |-> TokenSpan(src, k)] >>])

MostMarks == 2      \* _MOST_MARKS

(* The runs of characters that normalize together: a base and its marks,   *)
(* cut when the marks are too many.                                        *)
RunsOf(chars) ==
    LET Step(acc, c) ==
            IF c.of = "mark" /\ acc.runs # << >> /\ acc.marks < MostMarks
            THEN [runs |-> [acc.runs EXCEPT ![Len(acc.runs)] = Append(@, c)],
                  marks |-> acc.marks + 1]
            ELSE [runs |-> Append(acc.runs, << c >>),
                  marks |-> IF c.of = "mark" THEN 1 ELSE 0]
    IN FoldLeft(Step, [runs |-> << >>, marks |-> 0], chars).runs

(* NFC: a base takes its first mark in, and the others stay. *)
Composed(run) ==
    LET marks == Len(SelectSeq(run, LAMBDA c : c.of = "mark"))
        bases == IF run[1].of = "wide" THEN 2 ELSE IF run[1].of = "mark" THEN 0 ELSE 1
    IN IF bases > 0 /\ marks > 0 THEN bases + marks - 1 ELSE bases + marks

(* Mutant: a run is as long in the source as its first character. *)
MutantRunSpan(run) == run[1].span

RunSpan(run) == << run[1].span[1], Last(run).span[2] >>

(* The run each normalized character is of. *)
RunOf(src) ==
    LET runs == RunsOf(Decoded(src)) IN
    FoldLeft(LAMBDA s, run : s \o [i \in 1..Composed(run) |-> run], << >>, runs)

(* _normalize_unicode: the source span of each normalized character. *)
SourceSpans(src) == LET of == RunOf(src) IN [i \in DOMAIN of |-> RunSpan(of[i])]

(* _source_findings, before the findings are resolved again. *)
ToSource(f, spans) ==
    Finding(f.type, spans[f.from + 1][1], spans[f.to][2],
            IF f.value = << >> THEN << >>
            ELSE << spans[f.value[1] + 1][1], spans[f.value[2]][2] >>)

InOrder(spans) ==
    \A i \in DOMAIN spans :
        /\ spans[i][1] < spans[i][2]
        /\ i > 1 => spans[i][1] >= spans[i - 1][2] \/ spans[i] = spans[i - 1]

-----------------------------------------------------------------------------
(* _pieces: of the characters from `lo` to `hi`, `nls` being newlines. *)

(* Mutant: the next piece starts where this one ends. *)
MutantNextStart(start, end, cut) == end

NextStart(start, end, cut) == IF cut > start THEN end ELSE Max({end - Overlap, start + 1})

LastOf(positions) == IF positions = {} THEN -1 ELSE Max(positions)

CutPiece(acc, hi, nls, size) ==
    IF acc.start >= hi THEN acc ELSE
    LET limit == Min({acc.start + size, hi})
        cut == IF limit < hi THEN LastOf({ n \in nls : acc.start <= n /\ n < limit }) ELSE -1
        end == IF cut > acc.start THEN cut + 1 ELSE limit
    IN [pieces |-> Append(acc.pieces, << acc.start, end >>),
        start |-> IF end = hi THEN hi ELSE NextStart(acc.start, end, cut)]

Pieces(lo, hi, nls, size) ==
    LET upTo[i \in 0..(hi - lo)] ==
            IF i = 0 THEN [pieces |-> << >>, start |-> lo]
            ELSE CutPiece(upTo[i - 1], hi, nls, size)
    IN upTo[hi - lo].pieces

-----------------------------------------------------------------------------
Uncut == [begun |-> FALSE, pending |-> << >>, read |-> {}, partial |-> FALSE]

SpansInit == found = {} /\ source = << >> /\ text = << >> /\ cutting = Uncut

Spots(n) == { s \in (0..(n - 1)) \X (1..n) : s[1] < s[2] }

Match ==
    /\ Cardinality(found) < MaxFound
    /\ \E t \in Range(Types), s \in Spots(Length) :
          found' = found \cup { Finding(t, s[1], s[2], << >>) }
    /\ UNCHANGED << source, text, cutting >>

Extend ==
    /\ Len(source) < Tokens
    /\ \E t \in DOMAIN TokenWidth : source' = Append(source, t)
    /\ UNCHANGED << found, text, cutting >>

Lengthen ==
    /\ Len(text) < Lines /\ cutting = Uncut
    /\ \E newline \in BOOLEAN : text' = Append(text, newline)
    /\ UNCHANGED << found, source, cutting >>

(* _findings_in_pieces, and evaluate() where the text is one piece: the    *)
(* first of those left is analysed; refused once normalized, it is cut     *)
(* again where it stopped fitting, past the overlap, as a character is     *)
(* eighteen at most; or it cannot be read, alone or with all that are left. *)
Newlines == { n \in 0..(Len(text) - 1) : text[n + 1] }
First == Head(cutting.pending)
Rest == Tail(cutting.pending)

BeginPieces ==
    /\ ~cutting.begun
    /\ cutting' = [cutting EXCEPT !.begun = TRUE, !.pending = Pieces(0, Len(text), Newlines, Size)]
    /\ UNCHANGED << found, source, text >>

ReadPiece ==
    /\ cutting.pending # << >>
    /\ cutting' = [cutting EXCEPT !.pending = Rest, !.read = @ \cup {First}]
    /\ UNCHANGED << found, source, text >>

CutAgain ==
    /\ cutting.pending # << >>
    /\ \E fits \in (Overlap + 1)..(First[2] - First[1] - 1) :
          cutting' = [cutting EXCEPT !.pending = Pieces(First[1], First[2], Newlines, fits) \o Rest]
    /\ UNCHANGED << found, source, text >>

PieceFails ==
    /\ cutting.pending # << >>
    /\ cutting' = [cutting EXCEPT !.pending = Rest, !.partial = TRUE]
    /\ UNCHANGED << found, source, text >>

PiecesTimeOut ==
    /\ cutting.pending # << >>
    /\ cutting' = [cutting EXCEPT !.pending = << >>, !.partial = TRUE]
    /\ UNCHANGED << found, source, text >>

ReadPieces == BeginPieces \/ ReadPiece \/ CutAgain \/ PieceFails \/ PiecesTimeOut

SpansNext == Match \/ Extend \/ Lengthen \/ ReadPieces

SpansSpec == SpansInit /\ [][SpansNext]_spanvars

-----------------------------------------------------------------------------
(* The positions where no finding crosses, in the order of the text. *)
Cuts(findings) == { p \in 0..Length : \A f \in findings : f.to <= p \/ f.from >= p }

(* Resolved findings cover exactly what was found, apart from each other,  *)
(* one between two positions that nothing crosses; each has the strongest  *)
(* type among those it unites, and a value of that type inside it; doing   *)
(* it again changes nothing; and a bare number is counted unless a finding *)
(* overlaps it.                                                            *)
OverlapsAreUnited ==
    LET resolved == Resolve(found) IN
    /\ { << r.from, r.to >> : r \in Range(resolved) }
       = { s \in Cuts(found) \X Cuts(found) :
             /\ s[1] < s[2] /\ ~\E p \in Cuts(found) : s[1] < p /\ p < s[2]
             /\ \E f \in found : s[1] <= f.from /\ f.to <= s[2] }
    /\ \A r \in Range(resolved) :
          LET within == { f \in found : r.from <= f.from /\ f.to <= r.to }
              value == IF r.value = << >> THEN << r.from, r.to >> ELSE r.value
          IN /\ Priority[r.type] = Max({ Priority[f.type] : f \in within })
             /\ \E f \in within : f.type = r.type /\ << f.from, f.to >> = value
    /\ Resolve(Range(resolved)) = resolved
    /\ \A s \in Spots(Length) :
          Unclaimed({[from |-> s[1], to |-> s[2]]}, resolved) =
          IF \E f \in found, p \in s[1]..(s[2] - 1) : f.from <= p /\ p < f.to THEN 0 ELSE 1

(* Nothing of a value is lost between the two readings of a text: what     *)
(* either finds is masked whole, in one finding or in another, and a match *)
(* of placeholders and marks alone adds nothing (analyze_counting).        *)
Covered(findings) == UNION { f.from .. (f.to - 1) : f \in findings }
BothReadingsCount ==
    \A written \in SUBSET found, s \in Spots(Length), marks \in {{}, {0}} :
        LET read == AnalyzeCounting(found \ written, written, {s}, marks)
            values == { f \in found : Covered({f}) \ (s[1] .. (s[2] - 1)) # {} /\ marks = {} } IN
        /\ Covered(Range(read)) = Covered(NotPlaceholders(found, {s}, marks))
        /\ Covered(values) \subseteq Covered(Range(read))
        /\ \A f \in Range(read) : ~(s[1] <= f.from /\ f.to <= s[2])
        /\ \A i \in DOMAIN read : i > 1 => read[i - 1].to <= read[i].from

(* A finding mapped back to the source takes in the whole of every token   *)
(* that any of its characters came from, so that nothing of a value stays  *)
(* beside its placeholder, and two findings apart stay in order.           *)
MaskTakesWhole ==
    LET of == RunOf(source)
        spans == SourceSpans(source)
        total == Start(source, Len(source) + 1)
        tokens == { TokenSpan(source, k) : k \in { j \in DOMAIN source : source[j] # "bad" } }
    IN /\ InOrder(spans)
       /\ \A s \in Spots(Len(spans)) :
             LET m == ToSource(Finding("any", s[1], s[2], << >>), spans) IN
             /\ 0 <= m.from /\ m.to <= total
             /\ \A i \in (s[1] + 1)..s[2] : \A c \in Range(of[i]) :
                   m.from <= c.span[1] /\ c.span[2] <= m.to
             /\ \A t \in tokens :
                   m.from < t[2] /\ t[1] < m.to => m.from <= t[1] /\ t[2] <= m.to

(* However a text is cut, and cut again, when all that is left was read    *)
(* every run of _OVERLAP characters or fewer that holds no newline was read *)
(* whole, unless the text is said to be read in part.                      *)
Unbroken(s, nls) == s[2] - s[1] <= Overlap /\ \A n \in nls : n < s[1] \/ s[2] <= n
Within(s, p) == p[1] <= s[1] /\ s[2] <= p[2]
PiecesReadAll ==
    cutting.begun /\ cutting.pending = << >> /\ ~cutting.partial =>
        \A s \in Spots(Len(text)) :
            Unbroken(s, Newlines) => \E p \in cutting.read : Within(s, p)

(* A value no longer than the overlap is read whole, and masked whole.     *)
ValuesAreWhole == PiecesReadAll /\ MaskTakesWhole

(* All three: what is found is counted and masked as it lies in the text   *)
(* (resolve_overlaps, analyze_counting, _pieces, normalize).               *)
SpansAreWhole == OverlapsAreUnited /\ BothReadingsCount /\ ValuesAreWhole
=============================================================================
