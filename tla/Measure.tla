------------------------------ MODULE Measure -------------------------------
(***************************************************************************)
(* What `shim watch` measures of one request: inspect_request() of         *)
(* watch/measure.py, over a document whose history is a sequence of the    *)
(* blocks of its messages.  A text is a sequence of tokens ("open" and     *)
(* "close" of a reminder, the "marker" of an @ file, and others); sizes    *)
(* count bytes, a token being one.                                         *)
(***************************************************************************)
EXTENDS Integers, Sequences, SequencesExt, FiniteSets, FiniteSetsExt, Functions

Sections == {"tools", "system", "messages"}

-----------------------------------------------------------------------------
(* attribute() *)

(* The section with the most bytes, the last by name of equals; Rank orders *)
(* the names.                                                               *)
Rank == [images |-> 0, messages |-> 1, other |-> 2, system |-> 3, tools |-> 4]
Largest(bytes) ==
    CHOOSE s \in DOMAIN bytes : \A t \in DOMAIN bytes :
        bytes[t] < bytes[s] \/ (bytes[t] = bytes[s] /\ Rank[t] <= Rank[s])

(* Mutant: what the division leaves is nobody's. *)
MutantAttribute(bytes, exact) ==
    IF SumFunction(bytes) = 0 \/ exact <= 0 THEN << >>
    ELSE [s \in DOMAIN bytes |-> (exact * bytes[s]) \div SumFunction(bytes)]

(* Shares by bytes, and what the division leaves to the largest. *)
Attribute(bytes, exact) ==
    IF SumFunction(bytes) = 0 \/ exact <= 0 THEN << >>
    ELSE LET share == [s \in DOMAIN bytes |-> (exact * bytes[s]) \div SumFunction(bytes)]
         IN [share EXCEPT ![Largest(bytes)] = @ + exact - SumFunction(share)]

-----------------------------------------------------------------------------
(* at_files() *)

(* The first place from i on where a text has a token; 0 if there is none. *)
Find(text, token, i) ==
    LET places == {j \in i..Len(text) : text[j] = token} IN
    IF places = {} THEN 0 ELSE Min(places)

None == [count |-> 0, bytes |-> 0]

(* Where the search for the next block starts. *)
After(open, close) == close + 1

(* The reminders of a text from a place on that hold an @ file: the loop.  *)
TextFiles(text) ==
    LET from[i \in 1..(Len(text) + 1)] ==
        LET open == Find(text, "open", i)
            close == IF open = 0 THEN 0 ELSE Find(text, "close", open) IN
        IF close = 0 THEN None
        ELSE LET rest == from[After(open, close)] IN
             IF \E j \in open..close : text[j] = "marker"
             THEN [count |-> rest.count + 1, bytes |-> rest.bytes + close - open + 1]
             ELSE rest
    IN from[1]

Texts(doc) == SelectSeq(doc.history, LAMBDA b : b.kind = "text")

AtFiles(doc) ==
    FoldLeft(LAMBDA n, b : [count |-> n.count + TextFiles(b.text).count,
                            bytes |-> n.bytes + TextFiles(b.text).bytes],
             None, Texts(doc))

-----------------------------------------------------------------------------
(* images_and_results() *)

(* The images of a block: its own, or those of a tool result. *)
ImagesOf(b) ==
    CASE b.kind = "image" -> << b.image >>
      [] b.kind = "result" -> b.images
      [] OTHER -> << >>
Images(doc) == FlattenSeq([i \in DOMAIN doc.history |-> ImagesOf(doc.history[i])])

(* One block: a result's size replaces what an earlier one of its id gave.  *)
ReadBlock(found, b) ==
    CASE b.kind = "use" ->
             [found EXCEPT !.names = [id \in DOMAIN @ \cup {b.id} |->
                                          IF id = b.id THEN b.name ELSE @[id]]]
      [] b.kind = "result" ->
             [found EXCEPT !.sizes = [id \in DOMAIN @ \cup {b.id} |->
                                          IF id = b.id THEN b.size ELSE @[id]]]
      [] OTHER -> found

(* The names are looked up when every block is read, so that a result that *)
(* comes before its tool_use has one.                                      *)
ToolResults(doc) ==
    LET found == FoldLeft(ReadBlock, [names |-> << >>, sizes |-> << >>], doc.history)
    IN [id \in DOMAIN found.sizes |->
            [tool |-> IF id \in DOMAIN found.names THEN found.names[id]
                      ELSE "unknown tool",
             size |-> found.sizes[id]]]

-----------------------------------------------------------------------------
(* inspect_request() *)

(* What a block takes of the body, its base64 included. *)
BlockBytes(b) ==
    (CASE b.kind = "text" -> Len(b.text)
       [] b.kind = "result" -> b.size
       [] OTHER -> 1) + SumFunction([i \in DOMAIN ImagesOf(b) |-> ImagesOf(b)[i].bytes])

(* sections(): the sizes of the fields, the unknown ones together. *)
SectionBytes(doc) ==
    LET messages == 1 + SumFunction([i \in DOMAIN doc.history |-> BlockBytes(doc.history[i])])
        found == [s \in DOMAIN doc.fields \cup {"messages"} |->
                      IF s = "messages" THEN messages ELSE doc.fields[s]]
    IN [s \in {t \in DOMAIN found : t # "other" \/ found[t] > 0} |-> found[s]]

RequestBytes(doc) == SumFunction(SectionBytes(doc))

(* A tool result with half of a character that takes two: JSON has it, but *)
(* it cannot be encoded, and reading the images and results fails on it.   *)
Unencodable(doc) == \E i \in DOMAIN doc.history : doc.history[i].kind = "unencodable"

Known(image) == image.tokens > 0

(* The images whose size was read: they have tokens of their own. *)
Sized(doc) == SelectSeq(Images(doc), Known)

(* _size() and the except path: the messages have no size, and the images, *)
(* the results and the conversation are unknown; the request is measured.  *)
InspectUnencodable(doc) ==
    [sections |-> [SectionBytes(doc) EXCEPT !["messages"] = 0],
     requestBytes |-> RequestBytes(doc), atFiles |-> AtFiles(doc), images |-> << >>,
     imageTokens |-> 0, results |-> << >>, conversation |-> << >>]

(* An image whose size was not read stays in messages. *)
InspectEncodable(doc) ==
    LET bytes(images) == SumFunction([i \in DOMAIN images |-> images[i].bytes])
        known == Sized(doc) IN
    [sections |-> [SectionBytes(doc) EXCEPT !["messages"] = @ - bytes(known)],
     requestBytes |-> RequestBytes(doc),
     atFiles |-> AtFiles(doc),
     images |-> [d \in {Images(doc)[i].digest : i \in DOMAIN Images(doc)} |->
                     \E i \in DOMAIN known : known[i].digest = d],
     imageTokens |-> SumFunction([i \in DOMAIN Images(doc) |-> Images(doc)[i].tokens]),
     results |-> ToolResults(doc),
     conversation |-> << Head(doc.history) >>]

Inspect(doc) == IF Unencodable(doc) THEN InspectUnencodable(doc) ELSE InspectEncodable(doc)

(* tokens_by_section(): the images first, the rest by bytes. *)
TokensBySection(e) ==
    LET images == Min({e.imageTokens, e.input})
        shares == Attribute(e.sections, e.input - images) IN
    IF images = 0 THEN shares
    ELSE [s \in DOMAIN shares \cup {"images"} |->
              IF s = "images" THEN images ELSE shares[s]]
=============================================================================
