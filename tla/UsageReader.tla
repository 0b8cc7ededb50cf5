---------------------------- MODULE UsageReader -----------------------------
(***************************************************************************)
(* How `shim watch` reads an answer while it relays it: _stream() of       *)
(* watch/proxy.py and the UsageReader of watch/measure.py.                 *)
(*                                                                         *)
(* The answer is a stream of server-sent events, or one JSON document, cut *)
(* into chunks anywhere.  A token stands for some characters of it:        *)
(* <<e, 1>> and <<e, 2>> for the halves of the document of event e, NL and *)
(* CR for the line ends, Other for a line that is not data.  Lengths count *)
(* tokens; feed() reads a chunk one token at a time.                       *)
(***************************************************************************)
EXTENDS Integers, Sequences, SequencesExt, FiniteSets

CONSTANTS
    Events,         \* names of documents
    Broken,         \* those that are not JSON
    Docs,           \* what each of the others says
    Answers,        \* the answers of upstream: sequences of lines
    MaxPending,     \* MAX_PENDING
    MaxText,        \* MAX_RESPONSE_CHARACTERS
    MaxChunk        \* a bound: tokens in a chunk

Forms == {"one", "two", "crlf", "open", "other", "json"}
Amounts == [input : Int, output : Int, writes : Int, hour : Int, reads : Int]

(* The media type of the answer. *)
IsJson(lines) == \E i \in DOMAIN lines : lines[i].form = "json"

ASSUME ReaderAssumption ==
    /\ {MaxPending, MaxText, MaxChunk} \subseteq Nat \ {0}
    /\ Answers \subseteq Seq([form : Forms, ev : Events])
    /\ \A lines \in Answers : IsJson(lines) => Len(lines) = 1
    /\ \A e \in Events \ Broken : Docs[e].usage \in Amounts /\ Docs[e].size \in Nat

VARIABLES
    answer,     \* the answer, in lines
    place,      \* the line and the token of it that were read last
    left,       \* how many tokens of the chunk are still to be read
    reader,     \* the UsageReader
    readable,   \* whether the bytes could be decoded so far
    phase,      \* "stream", or how _stream() ended
    noted       \* what it left in the exchange

uvars == << answer, place, left, reader, readable, phase, noted >>

-----------------------------------------------------------------------------
(* Documents and the wire. *)

NL == <<"nl", 0>>
CR == <<"cr", 0>>
Other == <<"other", 0>>

(* The lines of an answer: an event in one line or in two, with or without *)
(* carriage returns, and lines that carry no data.                         *)
Wire(line) ==
    CASE line.form = "one" -> << <<line.ev, 1>>, <<line.ev, 2>>, NL, NL >>
      [] line.form = "two" -> << <<line.ev, 1>>, NL, <<line.ev, 2>>, NL, NL >>
      [] line.form = "crlf" -> << <<line.ev, 1>>, <<line.ev, 2>>, CR, NL, CR, NL >>
      [] line.form = "open" -> << <<line.ev, 1>>, <<line.ev, 2>>, NL >>
      [] line.form = "other" -> << Other, NL >>
      [] line.form = "json" -> << <<line.ev, 1>>, <<line.ev, 2>> >>

(* What is read next, how far that is, and how much there is from there on. *)
AtEnd == place[1] > Len(answer)
Coming == Wire(answer[place[1]])[place[2] + 1]
Beyond ==
    IF place[2] + 1 < Len(Wire(answer[place[1]])) THEN << place[1], place[2] + 1 >>
    ELSE << place[1] + 1, 0 >>
Ahead ==
    FoldLeft(LAMBDA n, line : n + Len(Wire(line)), -place[2], SubSeq(answer, place[1], Len(answer)))

NoUsage == [input |-> -1, output |-> -1, writes |-> -1, hour |-> -1, reads |-> -1]

(* _int *)
Counted(n) == IF n >= 0 THEN n ELSE 0

Smaller(a, b) == IF a < b THEN a ELSE b
Larger(a, b) == IF a > b THEN a ELSE b
Or(a, b) == IF a # 0 THEN a ELSE b

Zero == [input |-> 0, output |-> 0, writes |-> 0, hour |-> 0, reads |-> 0]

(* usage_from: an hour's writes are part of the writes. *)
UsageFrom(u) ==
    [input |-> Counted(u.input), output |-> Counted(u.output),
     writes |-> Counted(u.writes),
     hour |-> Smaller(Counted(u.hour), Counted(u.writes)),
     reads |-> Counted(u.reads)]

(* Mutant: the later count of the output wins. *)
MutantMerge(a, b) ==
    LET w == IF a.writes # 0 THEN a ELSE b IN
    [input |-> Or(a.input, b.input), output |-> Or(b.output, a.output),
     writes |-> w.writes, hour |-> w.hour, reads |-> Or(a.reads, b.reads)]

(* Usage.merge: the two kinds of writes come from the same document. *)
Merge(a, b) ==
    LET w == IF a.writes # 0 THEN a ELSE b IN
    [input |-> Or(a.input, b.input), output |-> Larger(a.output, b.output),
     writes |-> w.writes, hour |-> w.hour, reads |-> Or(a.reads, b.reads)]

-----------------------------------------------------------------------------
(* The reader. *)

NewReader(json) ==
    [json |-> json, pending |-> << >>, data |-> << >>, dataSize |-> 0, failed |-> FALSE,
     texts |-> [e \in {} |-> 0], kept |-> 0, capped |-> FALSE,
     framed |-> 0, unframed |-> FALSE, fields |-> {}, usage |-> Zero,
     status |-> "unavailable", stop |-> "", model |-> ""]

Partly(rd) == IF rd.fields # {} THEN "partial" ELSE "unavailable"

Unframed(rd) == [rd EXCEPT !.unframed = TRUE, !.status = Partly(rd)]

(* _keep: up to the bound, and marked when it is reached. *)
Keep(rd, block, size) ==
    LET room == MaxText - rd.kept
        taken == IF size >= room THEN Larger(0, room) ELSE size
        known == IF block \in DOMAIN rd.texts THEN rd.texts[block] ELSE 0
        capped == rd.capped \/ size >= room IN
    IF taken = 0 THEN [rd EXCEPT !.capped = capped]
    ELSE [rd EXCEPT !.capped = capped, !.kept = @ + taken,
              !.texts = [b \in DOMAIN @ \cup {block} |->
                             IF b = block THEN known + taken ELSE @[b]]]

(* The usage block of a document, the fields it names, and the status.     *)
CountUsage(rd, u) ==
    LET named == {f \in {"input", "output"} : u[f] >= 0}
        fields == rd.fields \cup named IN
    [rd EXCEPT !.fields = fields, !.usage = Merge(@, UsageFrom(u)),
         !.status = IF Cardinality(fields) = 2 THEN "known"
                    ELSE IF fields # {} THEN "partial" ELSE "unavailable"]

AbsorbText(rd, doc) == IF doc.size = 0 THEN rd ELSE Keep(rd, doc.block, doc.size)

(* _consume: a document, if the data lines of an event make one. *)
Consume(rd, tokens) ==
    LET whole == {e \in Events \ Broken : tokens = << <<e, 1>>, <<e, 2>> >>} IN
    IF whole = {} THEN Unframed(rd)
    ELSE LET doc == Docs[CHOOSE e \in whole : TRUE]
             seen == [AbsorbText([rd EXCEPT !.framed = @ + 1], doc) EXCEPT
                          !.stop = IF @ = "" THEN doc.stop ELSE @,
                          !.model = IF @ = "" THEN doc.model ELSE @] IN
         IF doc.usage = NoUsage THEN seen ELSE CountUsage(seen, doc.usage)

Bare(line) ==
    IF line # << >> /\ Last(line) = CR THEN Front(line) ELSE line

(* A line: the end of an event, data of one, or something else. *)
Line(rd, line) ==
    CASE line = << >> /\ rd.data # << >> ->
             [Consume(rd, rd.data) EXCEPT !.data = << >>, !.dataSize = 0]
      [] line # << >> /\ Head(line) # Other ->
             [rd EXCEPT !.data = @ \o line, !.dataSize = @ + Len(line) + 1]
      [] OTHER -> rd

(* A token: of a document, which waits for the end; of a line, which is    *)
(* read when it is complete.                                               *)
Token(rd, token) ==
    IF rd.json \/ token # NL THEN [rd EXCEPT !.pending = Append(@, token)]
    ELSE [Line(rd, Bare(rd.pending)) EXCEPT !.pending = << >>]

Fails(rd) ==
    [Unframed(rd) EXCEPT !.failed = TRUE, !.pending = << >>, !.data = << >>]

Fits(rd, n) == Len(rd.pending) + n + rd.dataSize <= MaxPending

(* feed(), before it reads the chunk: the bound is on what is held with it. *)
Feed(rd, n) == IF rd.failed \/ Fits(rd, n) THEN rd ELSE Fails(rd)

(* finish(): the document is there, or something of the stream is left.    *)
Finish(rd) ==
    CASE rd.json /\ ~rd.failed -> [Consume(rd, rd.pending) EXCEPT !.pending = << >>]
      [] ~rd.json /\ (rd.pending # << >> \/ rd.data # << >>) -> Unframed(rd)
      [] OTHER -> rd

(* response_status *)
ResponseStatus(rd) ==
    IF rd.unframed THEN (IF rd.framed > 0 THEN "partial" ELSE "unavailable")
    ELSE IF rd.capped THEN "partial" ELSE "known"

-----------------------------------------------------------------------------
(* _stream() *)

NoExchange == [usage |-> Zero, usageStatus |-> "unavailable", stop |-> "",
               model |-> "", scan |-> "unavailable", scanned |-> [e \in {} |-> 0]]

UInit ==
    /\ answer \in Answers
    /\ place = << 1, 0 >> /\ left = 0
    /\ reader = NewReader(IsJson(answer)) /\ readable = TRUE
    /\ phase = "stream" /\ noted = NoExchange

Reading == phase = "stream" /\ left > 0
Between == phase = "stream" /\ left = 0

(* A chunk comes, is relayed and, while the bytes can be decoded, fed. *)
Chunk(n) ==
    /\ Between /\ n <= Ahead
    /\ left' = n
    /\ reader' = IF readable THEN Feed(reader, n) ELSE reader
    /\ UNCHANGED << answer, place, readable, phase, noted >>

(* What decompression gives is over the bound, or is not text. *)
Undecodable(n) ==
    /\ Between /\ n <= Ahead
    /\ left' = n
    /\ readable' = FALSE
    /\ UNCHANGED << answer, place, reader, phase, noted >>

(* The next token of the chunk. *)
ReadToken ==
    /\ Reading /\ ~AtEnd
    /\ left' = left - 1 /\ place' = Beyond
    /\ reader' = IF readable /\ ~reader.failed THEN Token(reader, Coming) ELSE reader
    /\ UNCHANGED << answer, readable, phase, noted >>

(* A read fails: what was counted is kept, and never called known. *)
UpstreamFails ==
    /\ Between
    /\ phase' = "failed"
    /\ noted' = [noted EXCEPT !.usage = reader.usage, !.stop = reader.stop,
                     !.usageStatus = IF reader.status = "unavailable"
                                     THEN "unavailable" ELSE "partial"]
    /\ UNCHANGED << answer, place, left, reader, readable >>

(* The client is gone when a chunk is written to it. *)
ClientGone ==
    /\ Between /\ ~AtEnd
    /\ phase' = "gone"
    /\ UNCHANGED << answer, place, left, reader, readable, noted >>

(* The end of the answer: finish(), and the texts are scanned. *)
Ends ==
    /\ Between /\ AtEnd
    /\ LET rd == IF readable THEN Finish(reader) ELSE reader
           scan == IF readable THEN ResponseStatus(rd) ELSE "unavailable" IN
       /\ reader' = rd
       /\ noted' = [usage |-> rd.usage,
                    usageStatus |-> IF readable THEN rd.status ELSE "unavailable",
                    stop |-> rd.stop, model |-> rd.model, scan |-> scan,
                    scanned |-> IF scan = "unavailable" THEN [e \in {} |-> 0] ELSE rd.texts]
    /\ phase' = "ended"
    /\ UNCHANGED << answer, place, left, readable >>

UOver == phase # "stream" /\ UNCHANGED uvars

UNext ==
    \/ \E n \in 1..MaxChunk : Chunk(n) \/ Undecodable(n)
    \/ ReadToken \/ UpstreamFails \/ ClientGone \/ Ends \/ UOver

USpec == UInit /\ [][UNext]_uvars

-----------------------------------------------------------------------------
(* Properties. *)

(* An event that is left open goes on with the next line of data.          *)
Glued(lines, i) ==
    \E j \in 1..(i - 1) :
        lines[j].form = "open" /\ \A k \in (j + 1)..(i - 1) : lines[k].form = "other"

(* The documents of the first lines of an answer, whatever way it was cut. *)
Closes(lines, i) == lines[i].form \notin {"other", "open"}
IsDocument(lines, i) == Closes(lines, i) /\ lines[i].ev \notin Broken /\ ~Glued(lines, i)
Documents(lines, n) == {i \in 1..n : IsDocument(lines, i)}
Doc(lines, i) == Docs[lines[i].ev]

(* What the first of them that counts any of a field says of it, and the   *)
(* most that any says.                                                     *)
IsFirst(count, field, lines, n) ==
    \/ count = 0 /\ \A i \in Documents(lines, n) : Doc(lines, i).usage[field] <= 0
    \/ /\ count > 0
       /\ \E i \in Documents(lines, n) :
             /\ Doc(lines, i).usage[field] = count
             /\ \A j \in Documents(lines, i - 1) : Doc(lines, j).usage[field] <= 0
IsHighest(count, field, lines, n) ==
    /\ count = 0 \/ \E i \in Documents(lines, n) : Doc(lines, i).usage[field] = count
    /\ count >= 0 /\ \A i \in Documents(lines, n) : Doc(lines, i).usage[field] <= count
IsNamed(field, lines, n) == \E i \in Documents(lines, n) : Doc(lines, i).usage[field] >= 0

(* What the first n lines say of the usage. *)
IsUsage(usage, lines, n) ==
    /\ \A field \in {"input", "writes", "reads"} : IsFirst(usage[field], field, lines, n)
    /\ IsHighest(usage.output, "output", lines, n)
    /\ usage.hour <= usage.writes

(* A usage reported as known is the usage of the whole answer: no failure, *)
(* no cut of a chunk and no bound of the reader changes a count of it.     *)
KnownUsageIsExact ==
    phase # "stream" /\ noted.usageStatus = "known"
    => /\ phase = "ended" /\ readable /\ ~reader.failed
       /\ IsUsage(noted.usage, answer, Len(answer))
       /\ \A field \in {"input", "output"} : IsNamed(field, answer, Len(answer))

(* The characters of each block of the model's text, up to each line. *)
SizeIn(lines, i, block) ==
    IF IsDocument(lines, i) /\ Doc(lines, i).block = block THEN Doc(lines, i).size ELSE 0
Written(lines, block) ==
    LET upTo[i \in 0..Len(lines)] == IF i = 0 THEN 0 ELSE upTo[i - 1] + SizeIn(lines, i, block)
    IN upTo
Blocks(lines, n) ==
    {Doc(lines, i).block : i \in {j \in Documents(lines, n) : Doc(lines, j).size > 0}}

(* A response scanned as known is the whole of what the model wrote, every *)
(* event of it well formed; and no scan holds more than the bound.         *)
KnownScanIsWhole ==
    /\ noted.scan = "known" =>
           /\ phase = "ended" /\ readable
           /\ \A i \in 1..Len(answer) : answer[i].form = "other" \/ IsDocument(answer, i)
           /\ DOMAIN noted.scanned = Blocks(answer, Len(answer))
           /\ \A b \in DOMAIN noted.scanned : noted.scanned[b] = Written(answer, b)[Len(answer)]
    /\ reader.kept <= MaxText

(* What is read of an answer, however it arrives in chunks, is exactly what *)
(* it says or is said to be unknown (UsageReader of watch/measure.py).      *)
KnownIsExact == KnownUsageIsExact /\ KnownScanIsWhole
=============================================================================
