------------------------------- MODULE Report -------------------------------
(***************************************************************************)
(* The session of `shim watch` as its report reads it (watch/report.py):   *)
(* the requests of a client whose history grows, is cut or starts again,   *)
(* each inspected as Measure says and billed as upstream says; and what    *)
(* the report adds up over them: its JSON document (as_json), the lines of *)
(* its text (render), and the findings raised from the document.  One type *)
(* of findings stands for each; widths, shares and the order of lines are  *)
(* left out.                                                               *)
(***************************************************************************)
EXTENDS Measure, Findings

CONSTANTS
    Asked,          \* what a request may be: its document, its model, what was
                    \* found in it and in its answer, the usage upstream bills,
                    \* and whether it was inspected whole, in part or not
    ModelId,        \* the model a name stands for: a snapshot's date is no part of it
    MaxRequests,    \* a bound: requests of the session
    Prices,         \* the rates of each model that has a price
    LongPrices,     \* the rates of a long prompt, for the models that have them
    LongPrompt      \* the input above which a prompt is long

ASSUME ReportAssumption ==
    /\ MaxRequests \in Nat
    /\ \A a \in Asked :
           /\ {a.usage.fresh, a.usage.writes, a.usage.reads, a.usage.hour, a.usage.output} \subseteq Nat
           /\ a.usage.hour <= a.usage.writes /\ a.model \in DOMAIN ModelId
    /\ DOMAIN LongPrices \subseteq DOMAIN Prices /\ LongPrompt \in Nat

VARIABLE exchanges  \* the exchanges of the session

RInit == exchanges = << >>

(* A request, its answer and its inspection; one that was not inspected    *)
(* leaves the exchange without sections, and one that was in part, because *)
(* it had too much text for the detector, is not measured either.          *)
Request(a) ==
    LET found == Inspect(a.doc)
        or(value, none) == IF a.inspected # "not" THEN value ELSE none IN
    /\ Len(exchanges) < MaxRequests
    /\ exchanges' = Append(exchanges,
           [doc |-> a.doc, usage |-> a.usage, measured |-> a.inspected = "whole", asked |-> a,
            input |-> a.usage.fresh + a.usage.writes + a.usage.reads,
            requestBytes |-> RequestBytes(a.doc),
            conversation |-> or(found.conversation, << >>),
            sections |-> or(found.sections, << >>),
            atFiles |-> or(found.atFiles, None),
            images |-> or(found.images, << >>),
            imageTokens |-> or(found.imageTokens, 0),
            results |-> or(found.results, << >>)])

RNext == \E a \in Asked : Request(a)

RSpec == RInit /\ [][RNext]_exchanges

-----------------------------------------------------------------------------
(* The report. *)

(* section_totals(): tokens by section over all requests. *)
SectionTotals ==
    FoldLeft(LAMBDA sum, e : LET mine == TokensBySection(e) IN
                 [s \in DOMAIN sum \cup DOMAIN mine |->
                      (IF s \in DOMAIN sum THEN sum[s] ELSE 0)
                      + (IF s \in DOMAIN mine THEN mine[s] ELSE 0)],
             << >>, exchanges)

(* The chain of a request: its model and its conversation. *)
ChainOf(e) == << ModelId[e.asked.model], e.conversation >>

(* One request in cache_rewrites(): against the one before it in its chain, *)
(* and whether that chain has read from the cache.                         *)
Chained(found, i) ==
    LET e == exchanges[i]
        before == IF ChainOf(e) \in DOMAIN found.chains THEN found.chains[ChainOf(e)]
                  ELSE [last |-> i, warm |-> FALSE]
        previous == exchanges[before.last]
        shorter == e.requestBytes < previous.requestBytes
        warm == before.warm /\ ~shorter
        again == warm /\ 10 * e.usage.reads < 9 * previous.input /\ e.usage.writes > 0
    IN [rewrites |-> IF again THEN found.rewrites \cup {i} ELSE found.rewrites,
        chains |-> [k \in DOMAIN found.chains \cup {ChainOf(e)} |->
                        IF k = ChainOf(e)
                        THEN [last |-> i, warm |-> warm \/ e.usage.reads > 0]
                        ELSE found.chains[k]]]

(* Mutant: an answer without usage takes part in its chain. *)
MutantBilled(i) == TRUE

(* An answer without usage, an error, says nothing about the cache. *)
Billed(i) == exchanges[i].input > 0

CacheRewrites ==
    FoldLeft(LAMBDA found, i : IF Billed(i) THEN Chained(found, i) ELSE found,
             [rewrites |-> {}, chains |-> << >>],
             [i \in DOMAIN exchanges |-> i]).rewrites

(* largest_tool_result() of what absorb() kept of each id.                 *)
Kept(kept, mine) ==
    [id \in DOMAIN kept \cup DOMAIN mine |->
        LET old == IF id \in DOMAIN kept THEN kept[id]
                   ELSE [tool |-> "unknown tool", size |-> 0, carried |-> 0] IN
        IF id \notin DOMAIN mine \/ mine[id].size < old.size THEN old
        ELSE [tool |-> mine[id].tool, size |-> mine[id].size,
              carried |-> IF mine[id].size > old.size THEN 1 ELSE old.carried + 1]]
Results == FoldLeft(LAMBDA kept, e : Kept(kept, e.results), << >>, exchanges)
SessionImages ==
    FoldLeft(LAMBDA kept, e : [d \in DOMAIN kept \cup DOMAIN e.images |->
                 IF d \in DOMAIN e.images THEN e.images[d] ELSE kept[d]],
             << >>, exchanges)

-----------------------------------------------------------------------------
(* Totals. *)

Of(Test(_)) == { i \in DOMAIN exchanges : Test(exchanges[i]) }
Sum(Amount(_), group) == MapThenSumSet(LAMBDA i : Amount(exchanges[i]), group)
All == DOMAIN exchanges

-----------------------------------------------------------------------------
(* Spend. *)

Id(e) == ModelId[e.asked.model]

(* _price: by the whole input of the request. *)
Rates(e) ==
    IF Id(e) \in DOMAIN LongPrices /\ e.input > LongPrompt THEN LongPrices[Id(e)] ELSE Prices[Id(e)]

(* Mutant: a write for an hour is billed as one for five minutes too.      *)
MutantWritesCost(e) ==
    e.usage.writes * Rates(e).five + e.usage.hour * Rates(e).hour

(* _cost: the writes, and the rest. *)
WritesCost(e) == (e.usage.writes - e.usage.hour) * Rates(e).five + e.usage.hour * Rates(e).hour
RestCost(e) ==
    e.usage.fresh * Rates(e).fresh + e.usage.reads * Rates(e).read + e.usage.output * Rates(e).output
Cost(e) == WritesCost(e) + RestCost(e)

Priced == Of(LAMBDA e : Id(e) \in DOMAIN Prices)
Spend == Sum(Cost, Priced)
Unpriced == { exchanges[i].asked.model : i \in All \ Priced } \ {""}

(* spend_basis. *)
Basis ==
    LET routes == { exchanges[i].asked.route : i \in Priced } IN
    CASE routes \in {{"api-key"}, {"subscription"}} -> CHOOSE r \in routes : TRUE
      [] routes = {} \/ "" \in routes -> "unknown"
      [] OTHER -> "mixed"

(* cache_rewrite_totals and duplicate_totals. *)
RewriteTotals ==
    LET rewrites == CacheRewrites
        priced == rewrites \cap Priced IN
    [requests |-> rewrites,
     tokens |-> Sum(LAMBDA e : e.usage.writes, rewrites),
     usd |-> IF priced = {} THEN << >> ELSE << Sum(WritesCost, priced) >>]
Twice == Of(LAMBDA e : e.asked.twice)
DuplicateTotals == [count |-> Cardinality(Twice), input |-> Sum(LAMBDA e : e.input, Twice)]

-----------------------------------------------------------------------------
(* What was found. *)

Places == Sections \cup {"other"}
ReplyKinds == {"text", "thinking"}
InRequests(place) == Sum(LAMBDA e : IF place \in DOMAIN e.asked.found THEN e.asked.found[place] ELSE 0, All)
InReplies(kind) == Sum(LAMBDA e : IF kind \in DOMAIN e.asked.said THEN e.asked.said[kind] ELSE 0, All)

(* response_scan, and usage_status. *)
Overall(status) ==
    CASE All # {} /\ \A i \in All : status[i] = "known" -> "known"
      [] \E i \in All : status[i] \notin {"known", "unavailable"} -> "partial"
      [] OTHER -> IF \E i \in All : status[i] = "known" THEN "partial" ELSE "unavailable"
ScanOf == [i \in All |-> exchanges[i].asked.scan]
UsageOf == [i \in All |-> exchanges[i].asked.status]
Unscanned == Of(LAMBDA e : e.asked.scan # "known")

(* response_scan_reason: why the request was not measured comes first. *)
ScanReason(e) ==
    CASE e.asked.scan = "known" -> ""
      [] e.asked.scan # "known" /\ ~e.measured /\ e.asked.reason # "" -> e.asked.reason
      [] OTHER -> e.asked.scan

(* image_totals, largest_tool_result and stop_reason_totals. *)
ImagesOfOne(e) == Cardinality(DOMAIN e.images)
ImageTotals ==
    [distinct |-> Cardinality(DOMAIN SessionImages), requests |-> Cardinality(Of(LAMBDA e : ImagesOfOne(e) > 0)),
     tokens |-> Sum(LAMBDA e : e.imageTokens, All),
     unknown |-> Cardinality({ d \in DOMAIN SessionImages : ~SessionImages[d] })]
LargestResult ==
    IF Results = << >> THEN {}
    ELSE { CHOOSE r \in Range(Results) : \A s \in Range(Results) : s.size <= r.size }
Truncated == {"max_tokens", "max_output_tokens", "length"}
CutOff == Of(LAMBDA e : e.asked.stop \in Truncated)

AsJson ==
    [exchanges |-> [i \in All |->
        [pricedAs |-> IF i \in Priced THEN Id(exchanges[i]) ELSE "other", writes |-> exchanges[i].usage.writes,
         usd |-> IF i \in Priced THEN << Cost(exchanges[i]) >> ELSE << >>,
         twice |-> i \in Twice, cut |-> i \in CutOff, images |-> ImagesOfOne(exchanges[i]),
         reason |-> ScanReason(exchanges[i])]],
     incomplete |-> Cardinality(Of(LAMBDA e : ~e.measured)),
     usage |-> Overall(UsageOf), scan |-> Overall(ScanOf),
     spend |-> IF Priced = {} THEN << >> ELSE << Spend >>, unpriced |-> Unpriced, basis |-> Basis,
     found |-> [p \in Places |-> InRequests(p)], said |-> [k \in ReplyKinds |-> InReplies(k)],
     rewrites |-> RewriteTotals, duplicates |-> DuplicateTotals,
     images |-> ImageTotals, largest |-> LargestResult]

-----------------------------------------------------------------------------
(* render: a line is a label, what it is about, and a number. *)

Says(label, about, number) == << label, about, number >>
When(condition, line) == IF condition THEN {line} ELSE {}

(* totals, and what is not known of them. *)
UsageLines ==
    LET read == Sum(LAMBDA e : e.usage.reads, All)
        written == Sum(LAMBDA e : e.usage.writes, All)
        output == Sum(LAMBDA e : e.usage.output, All)
        input == Sum(LAMBDA e : e.input, All)
        unknown == Of(LAMBDA e : e.asked.status # "known") IN
    When(unknown # {}, Says("usage unknown", {}, Cardinality(unknown)))
    \cup When(input > 0, Says("input", {}, input))
    \cup When(read > 0, Says("cache read", {}, read)) \cup When(written > 0, Says("cache write", {}, written))
    \cup When(output > 0, Says("output", {}, output))

(* What was found besides the messages is "also" only beside them.         *)
RequestLines ==
    LET besides == { p \in Places \ {"messages"} : InRequests(p) > 0 }
        elsewhere == MapThenSumSet(InRequests, besides) IN
    When(InRequests("messages") > 0, Says("request", {"messages"}, InRequests("messages")))
    \cup When(elsewhere > 0, Says(IF InRequests("messages") > 0 THEN "also" ELSE "request", besides, elsewhere))

ReplyLines ==
    IF \A i \in All : exchanges[i].asked.scan = "unavailable" THEN {}
    ELSE LET said == { k \in ReplyKinds : InReplies(k) > 0 } IN
         IF said = {} THEN {Says("response", {}, 0)}
         ELSE { Says("response", {k}, InReplies(k)) : k \in said }

CompareLines ==
    LET asked == MapThenSumSet(InRequests, Places)
        said == MapThenSumSet(InReplies, ReplyKinds) IN
    When(asked + said > 0, Says("compare", {}, << asked, said >>))

(* Mutant: the reasons of all requests are counted, of the scanned ones too. *)
MutantGivenFor(group, why) == Cardinality(Of(LAMBDA e : e.asked.reason = why))

(* The requests of a group for each reason. *)
GivenFor(group, why) == Cardinality({ i \in group : ScanReason(exchanges[i]) = why })

ScanLines ==
    { Says("unscanned", why, GivenFor(Unscanned, why)) : why \in { ScanReason(exchanges[i]) : i \in Unscanned } }
IncompleteLines ==
    LET unmeasured == Of(LAMBDA e : ~e.measured) IN
    { Says("incomplete", why, Cardinality({ i \in unmeasured : exchanges[i].asked.reason = why })) :
        why \in { exchanges[i].asked.reason : i \in unmeasured } }

SpendLines ==
    LET subscribed == Cardinality({ i \in Priced : exchanges[i].asked.route = "subscription" }) IN
    When(Priced # {}, Says("spend", IF Basis \in {"subscription", "api-key"} THEN << Basis >>
                                    ELSE << subscribed, Cardinality(Priced) >>, Spend))
    \cup When(Cardinality(Priced) >= 2, Says("costliest", {}, Max({ Cost(exchanges[i]) : i \in Priced })))
    \cup When(Unpriced # {}, Says("not priced", Unpriced, Cardinality(Unpriced)))

WasteLines ==
    LET images == ImageTotals
        rewrites == RewriteTotals IN
    When(images.requests > 0, Says("images", {}, images.distinct))
    \cup { Says("largest tool result", {}, r.size) : r \in { s \in LargestResult : s.size > 0 } }
    \cup When(rewrites.requests # {}, Says("cache", rewrites.usd, Cardinality(rewrites.requests)))
    \cup When(Twice # {}, Says("duplicates", {}, Cardinality(Twice)))
    \cup When(CutOff # {}, Says("cut off", { exchanges[i].asked.stop : i \in CutOff }, Cardinality(CutOff)))

Render == UsageLines \cup RequestLines \cup ReplyLines \cup CompareLines \cup ScanLines \cup IncompleteLines
          \cup SpendLines \cup WasteLines

-----------------------------------------------------------------------------
(* Properties. *)

(* Every token of an inspected request's input is some section's, none has   *)
(* less than nothing, and but for the images and the largest a share is    *)
(* its bytes' share of what is not images, rounded down; so the totals of  *)
(* the report add up to the tokens that were billed.                       *)
SplitIsExact ==
    /\ \A i \in DOMAIN exchanges :
           LET e == exchanges[i]
               tokens == TokensBySection(e)
               bytes == SumFunction(e.sections) IN
           bytes > 0 =>
               /\ SumFunction(tokens) = e.input
               /\ \A s \in DOMAIN tokens : tokens[s] >= 0
               /\ \A s \in DOMAIN tokens \ {"images"} :
                      LET rest == e.input - (IF "images" \in DOMAIN tokens
                                             THEN tokens["images"] ELSE 0) IN
                      tokens[s] * bytes \in
                          (rest * e.sections[s] - bytes + 1)
                          ..(rest * e.sections[s] + bytes * Cardinality(DOMAIN tokens))
    /\ SumFunction(SectionTotals)
           = SumFunction([i \in DOMAIN exchanges |->
                              IF SumFunction(exchanges[i].sections) > 0 THEN exchanges[i].input ELSE 0])

(* The requests of one conversation, in order, that were billed.           *)
Same(i, j) ==
    /\ exchanges[i].input > 0 /\ exchanges[j].input > 0
    /\ ChainOf(exchanges[i]) = ChainOf(exchanges[j])
Previous(i) == {j \in 1..(i - 1) : Same(i, j) /\ ~\E k \in (j + 1)..(i - 1) : Same(i, k)}
Starts(i) ==
    \A j \in Previous(i) : exchanges[i].requestBytes < exchanges[j].requestBytes

(* A rewrite is a request that is no shorter than the one before it in its *)
(* conversation, wrote, and read less than nine tenths of that one's input *)
(* although its chain, since the last request that was shorter than the    *)
(* one before it, had read from the cache before.                          *)
RewritesAreRereads ==
    CacheRewrites =
        {i \in DOMAIN exchanges :
            /\ exchanges[i].input > 0 /\ ~Starts(i) /\ exchanges[i].usage.writes > 0
            /\ \E j \in Previous(i) :
                   10 * exchanges[i].usage.reads < 9 * exchanges[j].input
            /\ \E k \in 1..(i - 1) :
                   /\ Same(i, k) /\ exchanges[k].usage.reads > 0
                   /\ \A m \in (k + 1)..i : Same(i, m) => ~Starts(m)}

(* A history is sent again with every request, and what it holds is        *)
(* counted as it is: each @ file of a text once, an image by its digest, a *)
(* tool result at its size in the last block of its id, under the name of  *)
(* the last tool_use of it in that request.  Of a request with a result    *)
(* that cannot be encoded, no image and no result is counted.              *)
Closed(text) == {j \in DOMAIN text : text[j] = "close"}
Reminders(text) ==
    {<< i, j >> \in (DOMAIN text) \X Closed(text) :
        LET since == {k \in Closed(text) : k < j}
            start == IF since = {} THEN 1 ELSE Max(since) + 1 IN
        i >= start /\ text[i] = "open" /\ \A k \in start..(i - 1) : text[k] # "open"}
Inlined(text) == {r \in Reminders(text) : \E k \in r[1]..r[2] : text[k] = "marker"}

HistoryIsCountedOnce ==
    \A i \in DOMAIN exchanges : exchanges[i].sections # << >> =>
        LET h == exchanges[i].doc.history
            texts == {p \in DOMAIN h : h[p].kind = "text"}
            of(kind, id) == {p \in DOMAIN h : h[p].kind = kind /\ h[p].id = id}
            ids == IF Unencodable(exchanges[i].doc) THEN {}
                   ELSE {h[p].id : p \in {q \in DOMAIN h : h[q].kind = "result"}} IN
        /\ exchanges[i].atFiles.count
               = MapThenSumSet(LAMBDA p : Cardinality(Inlined(h[p].text)), texts)
        /\ exchanges[i].atFiles.bytes
               = MapThenSumSet(LAMBDA p : MapThenSumSet(LAMBDA r : r[2] - r[1] + 1,
                                                        Inlined(h[p].text)), texts)
        /\ DOMAIN exchanges[i].results = ids
        /\ \A id \in ids :
               /\ exchanges[i].results[id].size = h[Max(of("result", id))].size
               /\ of("use", id) # {} =>
                      exchanges[i].results[id].tool = h[Max(of("use", id))].name
               /\ Results[id].size >= exchanges[i].results[id].size
        /\ DOMAIN exchanges[i].images \subseteq DOMAIN SessionImages

(* However often what was sent before is sent again, it is billed as it    *)
(* was and counted once.                                                   *)
RepeatsAreKnown == RewritesAreRereads /\ HistoryIsCountedOnce

(* Both: the report's totals are those of the bills (totals).               *)
BillIsExplained == SplitIsExact /\ RepeatsAreKnown

NumberOf(lines) == MapThenSumSet(LAMBDA l : l[3], lines)

(* The text and the JSON tell one story: what was found is on one line of  *)
(* the requests' and compared at that number, a scan is known unless some  *)
(* request is given a reason, each that is not known or measured has one,  *)
(* and what is spent is what each model's tokens cost at its rates.        *)
StoriesAgree(json, lines) ==
    LET labelled(label) == { l \in lines : l[1] = label }
        found == MapThenSumSet(LAMBDA p : json.found[p], Places)
        rates == [i \in Priced |-> << Id(exchanges[i]), Rates(exchanges[i]) >>]
        total(rate, Amount(_)) == Sum(Amount, { i \in DOMAIN rates : rates[i] = rate }) IN
    /\ NumberOf(labelled("request") \cup labelled("also")) = found
    /\ \A l \in labelled("compare") :
           l[3] = << found, NumberOf({ r \in labelled("response") : r[2] # {} }) >>
    /\ All # {} => ((json.scan = "known") <=> labelled("unscanned") = {})
    /\ (json.scan = "unavailable") <=> labelled("response") = {}
    /\ (json.usage = "known") => labelled("usage unknown") = {}
    /\ NumberOf(labelled("costliest")) <= Spend
    /\ NumberOf(labelled("unscanned")) = Cardinality(Unscanned)
    /\ NumberOf(labelled("incomplete")) = json.incomplete
    /\ \A l \in labelled("unscanned") \cup labelled("incomplete") : l[2] # ""
    /\ Spend = MapThenSumSet(LAMBDA rate :
           total(rate, LAMBDA e : e.usage.fresh) * rate[2].fresh
           + total(rate, LAMBDA e : e.usage.reads) * rate[2].read
           + total(rate, LAMBDA e : e.usage.output) * rate[2].output
           + total(rate, LAMBDA e : e.usage.hour) * rate[2].hour
           + (total(rate, LAMBDA e : e.usage.writes) - total(rate, LAMBDA e : e.usage.hour)) * rate[2].five,
           Range(rates))

(* A finding is raised for each line of waste, of all its requests once;   *)
(* what a model's rewrites cost is said only where it is theirs alone, and *)
(* is then a part of what is spent.                                        *)
WasteIsExplained(json, lines) ==
    LET raised == FromWatch(json)
        of(rule) == { f \in raised : f.id[1] = rule }
        occurs(rule) == MapThenSumSet(LAMBDA f : f.occurrences[1], of(rule))
        line(label) == NumberOf({ l \in lines : l[1] = label })
        rewritten == of("cache_rewrite") IN
    /\ Cardinality({ f.id : f \in raised }) = Cardinality(raised)
    /\ \A f \in raised : Cardinality(f.evidence) <= MaxEvidence
    /\ occurs("cache_rewrite") = line("cache") /\ occurs("duplicate_in_flight") = line("duplicates")
    /\ occurs("output_cut_off") = line("cut off")
    /\ (of("image_tokens") = {}) <=> \A l \in lines : l[1] # "images"
    /\ of("large_tool_result") # {} <=> line("largest tool result") > LargeResult
    /\ MapThenSumSet(LAMBDA f : f.measures.tokens, rewritten) = json.rewrites.tokens
    /\ \A f \in rewritten :
           /\ f.impact.usd # << >> =>
                  /\ f.impact.usd[1] = Sum(WritesCost, { i \in CacheRewrites \cap Priced :
                                                           Id(exchanges[i]) = f.id[2][2] })
                  /\ f.impact.usd[1] <= Spend
           /\ f.impact.usd = << >> => Cardinality(rewritten) > 1 \/ f.id[2][2] = "other"

(* All of it: the report's sums are those of the bills, its text and JSON  *)
(* agree and its findings explain them (as_json, render, from_watch).      *)
ReportAddsUp ==
    /\ BillIsExplained
    /\ LET json == AsJson
           lines == Render
       IN StoriesAgree(json, lines) /\ WasteIsExplained(json, lines)
=============================================================================
