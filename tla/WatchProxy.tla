----------------------------- MODULE WatchProxy -----------------------------
(***************************************************************************)
(* The forwarding proxy of `shim watch` (watch/proxy.py): one thread per   *)
(* request of the client, the session they share, and the report that is   *)
(* written when the client has ended (watch/report.py).                    *)
(*                                                                         *)
(* A request is counted in, takes a measuring slot if one is free, sends   *)
(* its body upstream, waits for the answer, records its exchange, relays   *)
(* the answer, is inspected and counted out.  Upstream, the client and the *)
(* inspection may fail at any of these.  stop() waits DRAIN_SECONDS for    *)
(* the requests that have begun; the threads of the others are daemons and *)
(* run on while the report is read from the same session.                  *)
(***************************************************************************)
EXTENDS Integers, FiniteSets, Sequences

CONSTANTS
    Requests,   \* the requests the client may send
    Bodies,     \* distinct bodies
    MaySend,    \* the bodies each request may have
    Oversized,  \* bodies over MAX_BODY_BYTES
    Results,    \* the sizes of the tool results each body carries, by id
    Slots       \* _measurement_slots

ASSUME ProxyAssumption ==
    /\ MaySend \in [Requests -> SUBSET Bodies] /\ Oversized \subseteq Bodies
    /\ Slots \in Nat /\ IsFiniteSet(Requests)
    /\ \A b \in Bodies : /\ IsFiniteSet(DOMAIN Results[b])
                         /\ \A id \in DOMAIN Results[b] : Results[b][id] \in Nat

VARIABLES
    at,         \* what each request's thread does next
    body,       \* its body, by path and digest
    slot,       \* whether it took a measuring slot
    entered,    \* whether its body was counted in flight (pending)
    answered,   \* whether upstream answered it (responded)
    duplicate,  \* duplicate_in_flight of its exchange
    reason,     \* incomplete_reason of its exchange
    measured,   \* measured of its exchange
    inFlight,   \* _in_flight
    idle,       \* the event _idle
    free,       \* slots nobody holds
    pending,    \* _pending_bodies
    exchanges,  \* the exchanges of the session, in the order of their answers
    results,    \* tool_results of the session: size, and requests at that size
    absorbed,   \* the requests whose results were folded in
    server,     \* the listening socket
    stop,       \* how far stop() and the report are
    timedOut,   \* drain() gave up
    counted,    \* exchanges the report counted as not measured
    explained,  \* those of them it gave a reason for
    seen,       \* how many tool results the report's iteration started with
    late        \* requests that began when drain() was over

pvars == << at, body, slot, entered, answered, duplicate, reason, measured, inFlight,
            idle, free, pending, exchanges, results, absorbed, server,
            stop, timedOut, counted, explained, seen, late >>

exchange == << body, entered, answered, duplicate, reason, measured >>
session == << inFlight, idle, free, pending, exchanges, results, absorbed >>
stopping == << server, stop, timedOut, counted, explained, seen, late >>

Points == {"unsent", "accepted", "begun", "body", "last", "sent",
           "relay", "inspect", "conclude", "explain", "fail", "leave",
           "release", "end", "done"}

(* The points where upstream has the body and may not have answered yet, or *)
(* its answer is still in the thread's hands.                               *)
InFlight == {"sent", "relay", "inspect", "conclude", "explain"}

Reasons == {"", "unfinished", "too large", "slots busy", "not analysed"}

PTypeOK ==
    /\ at \in [Requests -> Points]
    /\ body \in [Requests -> Bodies]
    /\ slot \in [Requests -> BOOLEAN]
    /\ entered \in [Requests -> BOOLEAN]
    /\ answered \in [Requests -> BOOLEAN]
    /\ duplicate \in [Requests -> BOOLEAN]
    /\ reason \in [Requests -> Reasons]
    /\ measured \in [Requests -> BOOLEAN]
    /\ inFlight \in Nat /\ idle \in BOOLEAN
    /\ free \in 0..Slots
    /\ pending \in [Bodies -> Nat]
    /\ exchanges \in Seq(Requests)
    /\ absorbed \subseteq Requests
    /\ server \in {"serving", "bound", "closed"}
    /\ stop \in {"no", "drain", "close", "count", "explain", "iterate", "results",
                 "written", "raised"}
    /\ timedOut \in BOOLEAN
    /\ counted \subseteq Requests /\ explained \subseteq counted
    /\ seen \in Nat /\ late \subseteq Requests

PInit ==
    /\ at = [r \in Requests |-> "unsent"]
    /\ body \in [Requests -> Bodies] /\ \A r \in Requests : body[r] \in MaySend[r]
    /\ slot = [r \in Requests |-> FALSE]
    /\ entered = [r \in Requests |-> FALSE]
    /\ answered = [r \in Requests |-> FALSE]
    /\ duplicate = [r \in Requests |-> FALSE]
    /\ reason = [r \in Requests |-> ""]
    /\ measured = [r \in Requests |-> FALSE]
    /\ inFlight = 0 /\ idle = TRUE /\ free = Slots
    /\ pending = [b \in Bodies |-> 0]
    /\ exchanges = << >>
    /\ results = << >> /\ absorbed = {}
    /\ server = "serving" /\ stop = "no" /\ timedOut = FALSE
    /\ counted = {} /\ explained = {} /\ seen = 0 /\ late = {}

Goto(r, from, to) ==
    /\ at[r] = from
    /\ at' = [at EXCEPT ![r] = to]

-----------------------------------------------------------------------------
(* A request up to its answer. *)

(* serve_forever accepts it and starts a thread. *)
Accept(r) ==
    /\ server = "serving"
    /\ Goto(r, "unsent", "accepted")
    /\ UNCHANGED << slot, exchange, session, stopping >>

(* began() *)
Begin(r) ==
    /\ Goto(r, "accepted", "begun")
    /\ inFlight' = inFlight + 1
    /\ idle' = FALSE
    /\ late' = IF stop \in {"no", "drain"} THEN late ELSE late \cup {r}
    /\ UNCHANGED << slot, exchange, free, pending, exchanges, results,
                    absorbed, server, stop, timedOut, counted, explained, seen >>

(* Ambiguous framing: an error of the proxy's own, and no exchange. *)
RejectFraming(r) ==
    /\ Goto(r, "begun", "end")
    /\ UNCHANGED << slot, exchange, session, stopping >>

(* Mutant: a request that takes a slot has a reason only once it failed. *)
MutantStanding(takes, large) ==
    CASE takes -> "" [] large -> "too large" [] OTHER -> "slots busy"

(* The reason an exchange has until it is measured. *)
Standing(takes, large) ==
    CASE takes -> "unfinished" [] large -> "too large" [] OTHER -> "slots busy"

(* A slot is taken without waiting, and the reason that stands until the   *)
(* request is measured is set before it is.                                *)
TakeSlot(r) ==
    LET large == body[r] \in Oversized
        takes == ~large /\ free > 0 IN
    /\ Goto(r, "begun", "body")
    /\ slot' = [slot EXCEPT ![r] = takes]
    /\ free' = IF takes THEN free - 1 ELSE free
    /\ reason' = [reason EXCEPT ![r] = Standing(takes, large)]
    /\ UNCHANGED << body, entered, answered, duplicate, measured, inFlight, idle, pending,
                    exchanges, results, absorbed, stopping >>

(* Mutant: the body is counted in once upstream has it. *)
MutantEntersAt == "sent"

(* Where a body is counted in flight: before its last chunk leaves. *)
EntersAt == "body"

Enters(r, now) ==
    IF now THEN /\ pending' = [pending EXCEPT ![body[r]] = @ + 1]
                /\ duplicate' = [duplicate EXCEPT ![r] = pending[body[r]] > 0]
                /\ entered' = [entered EXCEPT ![r] = TRUE]
    ELSE UNCHANGED << pending, duplicate, entered >>

(* entered(): the last chunk is read and not yet sent. *)
Enter(r) ==
    /\ Goto(r, "body", "last")
    /\ Enters(r, EntersAt = "body")
    /\ UNCHANGED << slot, body, answered, reason, measured, inFlight, idle, free,
                    exchanges, results, absorbed, stopping >>

SendLast(r) ==
    /\ Goto(r, "last", "sent")
    /\ UNCHANGED << slot, exchange, session, stopping >>

(* The connection, the tunnel, a chunk of the client's body or upstream's  *)
(* answer fails.                                                            *)
FailBefore(r) ==
    /\ at[r] \in {"body", "last", "sent"}
    /\ at' = [at EXCEPT ![r] = "fail"]
    /\ UNCHANGED << slot, exchange, session, stopping >>

(* getresponse, and record(), before a byte of the answer goes to the       *)
(* client.                                                                  *)
Answer(r) ==
    /\ Goto(r, "sent", "relay")
    /\ answered' = [answered EXCEPT ![r] = TRUE]
    /\ exchanges' = Append(exchanges, r)
    /\ Enters(r, EntersAt = "sent")
    /\ UNCHANGED << slot, body, reason, measured, inFlight, idle, free,
                    results, absorbed, stopping >>

-----------------------------------------------------------------------------
(* The answer, the inspection and the end of a request. *)

AfterRelay(r) == IF slot[r] THEN "inspect" ELSE "leave"

(* _stream returns: at the end of the answer, because the client is gone   *)
(* when a chunk is written, or because a read from upstream fails.         *)
Relay(r) ==
    /\ Goto(r, "relay", AfterRelay(r))
    /\ UNCHANGED << slot, exchange, session, stopping >>

(* It is gone when the headers are written: an error, and no inspection. *)
HeadersFail(r) ==
    /\ Goto(r, "relay", "fail")
    /\ UNCHANGED << slot, exchange, session, stopping >>

(* inspect_request raises. *)
InspectFails(r) ==
    /\ Goto(r, "inspect", "leave")
    /\ reason' = [reason EXCEPT ![r] = "not analysed"]
    /\ UNCHANGED << slot, body, entered, answered, duplicate, measured, session, stopping >>

(* Mutant: a result of the same size starts its count again. *)
MutantFold(old, size) ==
    IF size >= old.size THEN [size |-> size, carried |-> 1] ELSE old

(* One result of a request against what the session knows of its id. *)
Fold(old, size) ==
    CASE size > old.size -> [size |-> size, carried |-> 1]
      [] size = old.size -> [old EXCEPT !.carried = @ + 1]
      [] OTHER -> old

Known(id) == IF id \in DOMAIN results THEN results[id] ELSE [size |-> 0, carried |-> 0]

(* It returns, and absorb() folds in its results under the session's lock. *)
Absorb(r) ==
    LET mine == Results[body[r]] IN
    /\ Goto(r, "inspect", "conclude")
    /\ results' = [id \in DOMAIN results \cup DOMAIN mine |->
                       IF id \in DOMAIN mine THEN Fold(Known(id), mine[id])
                       ELSE results[id]]
    /\ absorbed' = absorbed \cup {r}
    /\ UNCHANGED << slot, exchange, inFlight, idle, free, pending, exchanges,
                    stopping >>

(* measured is written, and then the reason. *)
Conclude(r) ==
    /\ Goto(r, "conclude", "explain")
    /\ \E whole \in BOOLEAN : measured' = [measured EXCEPT ![r] = whole]
    /\ UNCHANGED << slot, body, entered, answered, duplicate, reason, session, stopping >>

Explain(r) ==
    /\ Goto(r, "explain", "leave")
    /\ reason' = [reason EXCEPT ![r] = IF measured[r] THEN "" ELSE "not analysed"]
    /\ UNCHANGED << slot, body, entered, answered, duplicate, measured, session, stopping >>

(* failed(), and an error of the proxy's own if upstream gave none. *)
Fail(r) ==
    /\ Goto(r, "fail", "leave")
    /\ UNCHANGED << slot, exchange, inFlight, idle, free, pending, exchanges,
                    results, absorbed, stopping >>

(* left(), in the `finally`: the body is no longer in flight. *)
Leave(r) ==
    /\ Goto(r, "leave", "release")
    /\ pending' = IF entered[r] THEN [pending EXCEPT ![body[r]] = @ - 1] ELSE pending
    /\ UNCHANGED << slot, exchange, inFlight, idle, free, exchanges, results,
                    absorbed, stopping >>

(* Mutant: the slot goes back only after an answer. *)
MutantGivesBack(r) == slot[r] /\ answered[r]

(* Whether the thread has a slot to give back. *)
GivesBack(r) == slot[r]

Release(r) ==
    /\ Goto(r, "release", "end")
    /\ free' = IF GivesBack(r) THEN free + 1 ELSE free
    /\ slot' = [slot EXCEPT ![r] = FALSE]
    /\ UNCHANGED << exchange, inFlight, idle, pending, exchanges, results,
                    absorbed, stopping >>

(* ended() *)
End(r) ==
    /\ Goto(r, "end", "done")
    /\ inFlight' = inFlight - 1
    /\ idle' = (inFlight = 1)
    /\ UNCHANGED << slot, exchange, free, pending, exchanges, results,
                    absorbed, stopping >>

-----------------------------------------------------------------------------
(* The end of the session, in the main thread. *)

(* stop(): no request is accepted any more; the socket stays bound. *)
BeginStop ==
    /\ stop = "no"
    /\ stop' = "drain" /\ server' = "bound"
    /\ UNCHANGED << at, slot, exchange, session, timedOut, counted, explained, seen,
                    late >>

(* _idle.wait returns TRUE. *)
Drained == idle

Drain ==
    /\ stop = "drain" /\ Drained
    /\ stop' = "close"
    /\ UNCHANGED << at, slot, exchange, session, server, timedOut, counted,
                    explained, seen, late >>

DrainTimesOut ==
    /\ stop = "drain" /\ ~idle
    /\ stop' = "close" /\ timedOut' = TRUE
    /\ UNCHANGED << at, slot, exchange, session, server, counted, explained, seen,
                    late >>

CloseServer ==
    /\ stop = "close"
    /\ stop' = "count" /\ server' = "closed"
    /\ UNCHANGED << at, slot, exchange, session, timedOut, counted, explained, seen,
                    late >>

Unmeasured == {exchanges[i] : i \in {j \in DOMAIN exchanges : ~measured[exchanges[j]]}}

(* render() counts the requests that were not measured ... *)
CountUnmeasured ==
    /\ stop = "count"
    /\ stop' = "explain" /\ counted' = Unmeasured
    /\ UNCHANGED << at, slot, exchange, session, server, timedOut, explained, seen,
                    late >>

(* ... and looks at them again for the reasons. *)
ExplainUnmeasured ==
    /\ stop = "explain"
    /\ stop' = "iterate"
    /\ explained' = {r \in counted \cap Unmeasured : reason[r] # ""}
    /\ UNCHANGED << at, slot, exchange, session, server, timedOut, counted, seen,
                    late >>

(* largest_tool_result goes through the session's dictionary without its   *)
(* lock: an iteration raises when an id was added meanwhile.               *)
StartIteration ==
    /\ stop = "iterate"
    /\ stop' = "results" /\ seen' = Cardinality(DOMAIN results)
    /\ UNCHANGED << at, slot, exchange, session, server, timedOut, counted,
                    explained, late >>

EndIteration ==
    /\ stop = "results"
    /\ stop' = IF seen \in {0, Cardinality(DOMAIN results)} THEN "written" ELSE "raised"
    /\ UNCHANGED << at, slot, exchange, session, server, timedOut, counted,
                    explained, seen, late >>

RequestStep(r) ==
    Begin(r) \/ RejectFraming(r) \/ TakeSlot(r) \/ Enter(r)
    \/ SendLast(r) \/ FailBefore(r) \/ Answer(r) \/ Relay(r)
    \/ HeadersFail(r) \/ InspectFails(r) \/ Absorb(r)
    \/ Conclude(r) \/ Explain(r) \/ Fail(r) \/ Leave(r) \/ Release(r) \/ End(r)
ReportStep == CountUnmeasured \/ ExplainUnmeasured \/ StartIteration \/ EndIteration

PNext ==
    \/ \E r \in Requests : Accept(r) \/ RequestStep(r)
    \/ BeginStop \/ Drain \/ DrainTimesOut \/ CloseServer \/ ReportStep

PSpec == PInit /\ [][PNext]_pvars

-----------------------------------------------------------------------------
(* Properties. *)

IsRecorded(r) == \E i \in DOMAIN exchanges : exchanges[i] = r

(* The requests that began and did not end, those with a slot, and those   *)
(* whose body is counted in flight.                                        *)
Begun == {r \in Requests : at[r] \notin {"unsent", "accepted", "done"}}
Holders == {r \in Requests : slot[r]}
Inside(b) == {r \in Requests : body[r] = b /\ entered[r] /\ at[r] \notin {"release", "end", "done"}}

(* What the session counts is what its threads hold, on every path out of  *)
(* _forward(): the requests in flight and the event that says there are    *)
(* none, the slots, and the bodies in flight.                              *)
Accounts ==
    /\ inFlight = Cardinality(Begun)
    /\ idle <=> inFlight = 0
    /\ free = Slots - Cardinality(Holders)
    /\ \A b \in Bodies : pending[b] = Cardinality(Inside(b))

(* Of two identical requests upstream has at the same time one is marked a *)
(* duplicate, whichever is answered first (proxy.py:179).                  *)
DuplicatesMarked ==
    \A r, s \in Requests :
        /\ r # s /\ body[r] = body[s]
        /\ at[r] \in InFlight /\ at[s] \in InFlight
        => duplicate[r] \/ duplicate[s]

(* An exchange of the session that is not measured has a reason at every   *)
(* step of its thread, as the report may read it at any.                   *)
UnmeasuredSaysWhy ==
    \A r \in Requests : IsRecorded(r) /\ ~measured[r] => reason[r] # ""

(* A report after a drain that did not time out has every request the      *)
(* client had an answer of, says why for each it counts as not measured,   *)
(* and is written; but for a request that began when the drain was over.   *)
ReportIsWhole ==
    stop \in {"written", "raised"} /\ ~timedOut /\ late = {}
    => /\ stop = "written"
       /\ counted = explained
       /\ \A r \in Requests : answered[r] => IsRecorded(r) /\ at[r] = "done"

(* Nothing a report counts is left without its explanation.                *)
ReportAccounts == UnmeasuredSaysWhy /\ ReportIsWhole

(* Whatever the order in which requests are folded in, a tool result is    *)
(* known at its largest size, with the number of requests that carried it  *)
(* at that size.                                                           *)
CarriedAtFullSize ==
    \A id \in DOMAIN results :
        LET carriers == {r \in absorbed : id \in DOMAIN Results[body[r]]}
            size(r) == Results[body[r]][id] IN
        /\ \A r \in carriers : size(r) <= results[id].size
        /\ results[id].carried =
               Cardinality({r \in carriers : size(r) = results[id].size})

(* All three, of what the threads share under the session's lock (Session, *)
(* _forward).                                                              *)
SharedIsRight == Accounts /\ DuplicatesMarked /\ CarriedAtFullSize

(* The inductive invariant behind both. *)

Before == {"unsent", "accepted", "begun"}
After == {"conclude", "explain", "leave", "release", "end", "done"}

(* Where a thread is says what it has: a slot and a body in flight only    *)
(* between taking and giving them back, an answer only after it came.      *)
ThreadInv ==
    \A r \in Requests :
        /\ at[r] \in Before \cup {"end", "done"} => ~slot[r]
        /\ at[r] \in Before \cup {"body"} => ~entered[r]
        /\ at[r] \in InFlight \cup {"last"} => entered[r]
        /\ at[r] \in Before \cup {"body", "last", "sent"} => ~answered[r]
        /\ at[r] \in Before \cup {"body", "last", "sent", "relay", "inspect", "conclude"} => ~measured[r]
        /\ r \in absorbed => at[r] \in After

(* The session has the exchanges that were answered. *)
RecordedInv == \A r \in Requests : answered[r] <=> IsRecorded(r)

(* Of two requests with one body that are both counted in flight the later *)
(* is marked.                                                              *)
InsideInv ==
    \A b \in Bodies : \A r, s \in Inside(b) : r # s => duplicate[r] \/ duplicate[s]

(* From the slot on, a request that is not measured has a reason, if it is *)
(* one the session will know of.                                           *)
ReasonInv ==
    \A r \in Requests :
        (at[r] \in {"body", "last", "sent"} \/ answered[r]) /\ ~measured[r] => reason[r] # ""

(* The results the session knows are those of the requests folded in, at   *)
(* the size of one of them.                                                *)
ResultsInv ==
    /\ IsFiniteSet(DOMAIN results) /\ results = [id \in DOMAIN results |-> results[id]]
    /\ \A id \in DOMAIN results : results[id] \in [size : Nat, carried : Nat]
    /\ \A r \in absorbed : DOMAIN Results[body[r]] \subseteq DOMAIN results
    /\ CarriedAtFullSize

(* After a drain that did not time out, and as long as nobody began, the   *)
(* report reads a session nobody changes.                                  *)
Quiet == stop \notin {"no", "drain"} /\ ~timedOut /\ late = {}
ReportInv ==
    /\ Quiet => \A r \in Requests : at[r] \in {"unsent", "accepted", "done"}
    /\ stop \in {"no", "drain", "close", "count"} => explained = {}
    /\ Quiet /\ stop = "explain" => counted = Unmeasured
    /\ Quiet /\ stop \in {"iterate", "results", "written", "raised"} => counted = explained
    /\ Quiet /\ stop = "results" => seen = Cardinality(DOMAIN results)
    /\ Quiet => stop # "raised"
    /\ server = "serving" <=> stop = "no"
    /\ timedOut => stop \notin {"no", "drain"}

PInv ==
    /\ PTypeOK /\ Accounts /\ ThreadInv /\ RecordedInv
    /\ InsideInv /\ ReasonInv /\ ResultsInv /\ ReportInv

(* architecture.md:300, "saturation and shutdown leave explicit incomplete *)
(* measurements": violated, where an inspection outlives the drain and     *)
(* adds a tool result while the report goes through them.                  *)
ReportIsWritten == stop # "raised"

(* report.py:376, an incomplete inspection "with no cause is unactionable": *)
(* violated, where a request is measured between the count and the reasons. *)
IncompleteIsExplained == stop = "written" => counted = explained
=============================================================================
