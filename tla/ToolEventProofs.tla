--------------------------- MODULE ToolEventProofs ---------------------------
(***************************************************************************)
(* Proofs about ToolEvent, for any placeholders, any settings of the modes *)
(* and any number of leaves.                                               *)
(***************************************************************************)
EXTENDS ToolEvent, TLAPS

Actions == {"none", "allow", "report", "mask", "reshape", "deny", "uninspected"}
Given == << session, event, issued, shown >>

(* There is an event to start from. *)
LEMMA EventExists == NoEvent \in EventSet
<1> DEFINE e == [hook |-> << "claude", "pre" >>, tool |-> "local",
                 modes |-> [key \in ModeKeys |-> Unset],
                 body |-> "none", control |-> "no", diet |-> "no", writes |-> {}]
<1>1. e \in EventSet
    BY DEF EventSet, Hooks, Tools, Modes, Unset
<1> QED
    BY <1>1 DEF NoEvent

(* What a policy comes to, for this event and this client. *)
LEMMA DecidedIs ==
    /\ Decided \in {"allow", "report", "mask", "deny"}
    /\ Decided = "mask" =>
           unmaskable # "yes"
    /\ Decided = "mask" => Power # "report-only" /\ ~Unrouted
    /\ Mode = "enforce" /\ Power # "report-only" /\ Direction # "local-tool" =>
           Decided \in {"mask", "deny"}
<1>1. PolicyAction \in {"allow", "report", "mask", "deny"}
    BY DEF PolicyAction
<1>2. Capped \in {"allow", "report", "mask", "deny"}
    BY <1>1 DEF Capped
<1>3. Capped = "mask" => Power # "report-only" /\ ~Unrouted
    BY <1>1 DEF Capped
<1>4. Mode = "enforce" /\ Direction # "local-tool" => PolicyAction \in {"mask", "deny"}
    BY DEF PolicyAction
<1>5. Mode = "enforce" /\ Power # "report-only" /\ Direction # "local-tool" =>
          Capped \in {"mask", "deny"}
    BY <1>4 DEF Capped
<1> QED
    BY <1>2, <1>3, <1>5 DEF Decided

(* What an encoder makes of an action. *)
LEMMA EncodedIs ==
    ASSUME event \in EventSet, NEW asked \in Actions \ {"none"}
    PROVE  /\ asked = "allow" => Encoded(asked) = "silent"
           /\ asked \in {"report", "mask", "reshape"} => Encoded(asked) = asked
           /\ asked \in {"deny", "uninspected"} =>
                  /\ Encoded(asked) \in {"deny", "withhold", "report"}
                  /\ event.hook[2] = "pre" => Encoded(asked) = "deny"
                  /\ event.body # "none" /\ Power # "report-only" =>
                         Encoded(asked) \in {"deny", "withhold"}
<1>1. event.hook \in Hooks
    BY DEF EventSet
<1> QED
    BY <1>1 DEF Encoded, Power, Hooks, Actions

(* A hook that can only report is never made to refuse. *)
LEMMA ReportsOnly ==
    ASSUME event \in EventSet, Power = "report-only"
    PROVE  /\ Encoded("uninspected") = "report"
           /\ "deny" \notin Encodable
<1>1. event.hook \in Hooks
    BY DEF EventSet
<1> QED
    BY <1>1 DEF Encoded, Power, Hooks, Encodable

(* The fixed answer denies a call, withholds or reports a result. *)
LEMMA FixedIs ==
    ASSUME event \in EventSet
    PROVE  /\ FixedAnswers \subseteq {"deny", "withhold", "report"}
           /\ event.hook[2] = "pre" => FixedAnswers = {"deny"}
           /\ Power # "report-only" /\ ~(IsResult /\ event.tool # "mcp") =>
                  FixedAnswers \subseteq {"deny", "withhold"}
<1>1. event.hook \in Hooks
    BY DEF EventSet
<1> QED
    BY <1>1 DEF FixedAnswers, Power, Hooks, IsResult

(* Only a call can write. *)
LEMMA WritersAreCalls ==
    ASSUME event \in EventSet, MayWrite
    PROVE  event.hook[2] = "pre"
<1>1. event.hook \in Hooks /\ event.tool \in Tools
    BY DEF EventSet
<1> QED
    BY <1>1 DEF MayWrite, Unrouted, Direction, IsResult, ToolKind, Hooks

(* Every step keeps every variable in its type. *)
LEMMA TypeStep == IInv /\ [Next]_vars => TypeOK'
<1> SUFFICES ASSUME IInv, [Next]_vars PROVE TypeOK'
    OBVIOUS
<1> USE SizesAssumption DEF At, IInv, TypeOK, Fresh, Read, Reading, Ask
<1>1. CASE Arrives
    BY <1>1 DEF Arrives
<1>2. CASE Ends
    BY <1>2, EventExists DEF Ends
<1>3. CASE NoPayload
    BY <1>3 DEF NoPayload
<1>4. CASE ProtectShim
    BY <1>4 DEF ProtectShim
<1>5. CASE WriteBack
    BY <1>5 DEF WriteBack
<1>6. CASE StartReading
    BY <1>6 DEF StartReading
<1>7. CASE ReadClean
    BY <1>7 DEF ReadClean
<1>8. CASE ReadFinding
    BY <1>8 DEF ReadFinding, NewNames
<1>9. CASE ReadUnmaskable
    BY <1>9 DEF ReadUnmaskable
<1>10. CASE ReadInPart
    BY <1>10 DEF ReadInPart
<1>11. CASE OutOfTime
    BY <1>11 DEF OutOfTime
<1>12. CASE AllRead
    BY <1>12 DEF AllRead
<1>13. CASE Uninspected
    BY <1>13 DEF Uninspected
<1>14. CASE NothingFound
    BY <1>14 DEF NothingFound
<1>15. CASE Decide
    BY <1>15, DecidedIs DEF Decide
<1>16. CASE Issue
    BY <1>16 DEF Issue
<1>17. CASE Encode
  <2>1. action \in Actions \ {"none"}
      BY <1>17 DEF Encode, Actions, DecisionInv
  <2>2. Encoded(action) \in {"silent", "report", "mask", "reshape", "deny", "withhold"}
      BY <2>1, EncodedIs DEF Actions
  <2>3. answer' \in {"silent", "report", "mask", "reshape", "deny", "withhold"}
      BY <1>17, <2>2 DEF Encode
  <2>4. shown' \subseteq Names
      BY <1>17 DEF Encode
  <2> QED
      BY <1>17, <2>3, <2>4 DEF Encode
<1>18. CASE Fails
  <2>1. Encoded("uninspected") \in {"report", "deny", "withhold"}
      BY EncodedIs DEF Actions
  <2>2. answer' \in {"report", "deny", "withhold"} /\ action' \in {"uninspected", "fallback"}
      BY <1>18, <2>1, FixedIs DEF Fails
  <2> QED
      BY <1>18, <2>2 DEF Fails
<1>19. CASE UNCHANGED vars
    BY <1>19 DEF vars
<1> QED
    BY <1>1, <1>2, <1>3, <1>4, <1>5, <1>6, <1>7, <1>8, <1>9, <1>10, <1>11, <1>12, <1>13, <1>14, <1>15, <1>16, <1>17, <1>18, <1>19 DEF Next, Inspect

(* Nothing is found before it is looked for, nor where there is no payload, *)
(* and every finding is accounted for.                                     *)
LEMMA ReadStep == IInv /\ [Next]_vars => FreshInv' /\ BodyInv' /\ FoundInv'
<1> SUFFICES ASSUME IInv, [Next]_vars PROVE FreshInv' /\ BodyInv' /\ FoundInv'
    OBVIOUS
<1> USE DEF At, IInv, TypeOK, FreshInv, BodyInv, FoundInv, Fresh, Read, Reading, Ask
<1>1. CASE Arrives
    BY <1>1 DEF Arrives
<1>2. CASE Ends
    BY <1>2 DEF Ends
<1>3. CASE NoPayload
    BY <1>3 DEF NoPayload
<1>4. CASE ProtectShim
    BY <1>4 DEF ProtectShim, Protects
<1>5. CASE WriteBack
    BY <1>5 DEF WriteBack
<1>6. CASE StartReading
    BY <1>6 DEF StartReading
<1>7. CASE ReadClean
    BY <1>7 DEF ReadClean
<1>8. CASE ReadFinding
    BY <1>8 DEF ReadFinding
<1>9. CASE ReadUnmaskable
    BY <1>9 DEF ReadUnmaskable
<1>10. CASE ReadInPart
    BY <1>10 DEF ReadInPart
<1>11. CASE OutOfTime
    BY <1>11 DEF OutOfTime
<1>12. CASE AllRead
    BY <1>12 DEF AllRead
<1>13. CASE Uninspected
    BY <1>13 DEF Uninspected
<1>14. CASE NothingFound
    BY <1>14 DEF NothingFound
<1>15. CASE Decide
    BY <1>15 DEF Decide
<1>16. CASE Issue
    BY <1>16 DEF Issue
<1>17. CASE Encode
    BY <1>17 DEF Encode
<1>18. CASE Fails
    BY <1>18 DEF Fails
<1>19. CASE UNCHANGED vars
    BY <1>19 DEF vars
<1> QED
    BY <1>1, <1>2, <1>3, <1>4, <1>5, <1>6, <1>7, <1>8, <1>9, <1>10, <1>11, <1>12, <1>13, <1>14, <1>15, <1>16, <1>17, <1>18, <1>19 DEF Next, Inspect

(* The policy's word does not change while an event is on its way. *)
LEMMA SameWord ==
    ASSUME event' = event
    PROVE  /\ Power' = Power /\ Direction' = Direction /\ Mode' = Mode
           /\ Capped' = Capped /\ Unrouted' = Unrouted /\ MayWrite' = MayWrite
<1>1. /\ Power' = Power /\ ToolKind' = ToolKind /\ IsResult' = IsResult
    BY DEF Power, ToolKind, IsResult, Client
<1>2. Direction' = Direction
    BY <1>1 DEF Direction
<1>3. Unrouted' = Unrouted
    BY <1>1, <1>2 DEF Unrouted
<1>4. ChoseMode' = ChoseMode /\ PolicyMode' = PolicyMode
    BY <1>2 DEF ChoseMode, PolicyMode, IsNamed, DefaultMode
<1>5. Mode' = Mode
    BY <1>1, <1>4 DEF Mode
<1>6. PolicyAction' = PolicyAction
    BY <1>2, <1>5 DEF PolicyAction
<1>7. Capped' = Capped
    BY <1>1, <1>3, <1>6 DEF Capped
<1>8. MayWrite' = MayWrite
    BY <1>2, <1>3 DEF MayWrite
<1> QED
    BY <1>1, <1>2, <1>3, <1>5, <1>7, <1>8

(* What is asked of an adapter, and kept on record, is what was decided. *)
LEMMA DecisionStep == IInv /\ [Next]_vars => DecisionInv' /\ RecordInv'
<1> SUFFICES ASSUME IInv, [Next]_vars PROVE DecisionInv' /\ RecordInv'
    OBVIOUS
<1>0. event' = event => Power' = Power /\ (unmaskable' = unmaskable => Decided' = Decided)
  <2> SUFFICES ASSUME event' = event
               PROVE  Power' = Power /\ (unmaskable' = unmaskable => Decided' = Decided)
      OBVIOUS
  <2> QED
      BY SameWord DEF Decided
<1> USE DEF At, IInv, TypeOK, FreshInv, DecisionInv, RecordInv, Fresh, Read, Reading, Ask
<1>1. CASE Arrives
    BY <1>1 DEF Arrives
<1>2. CASE Ends
    BY <1>2 DEF Ends
<1>3. CASE NoPayload
    BY <1>3, <1>0 DEF NoPayload
<1>4. CASE ProtectShim
    BY <1>4, <1>0 DEF ProtectShim
<1>5. CASE WriteBack
    BY <1>5, <1>0 DEF WriteBack
<1>6. CASE StartReading
    BY <1>6 DEF StartReading
<1>7. CASE ReadClean \/ ReadFinding \/ ReadUnmaskable \/ ReadInPart \/ OutOfTime \/ AllRead
    BY <1>7 DEF ReadClean, ReadFinding, ReadUnmaskable, ReadInPart, OutOfTime, AllRead
<1>13. CASE Uninspected
    BY <1>13, <1>0 DEF Uninspected
<1>14. CASE NothingFound
    BY <1>14, <1>0 DEF NothingFound, NotRead
<1>15. CASE Decide
    BY <1>15, <1>0, DecidedIs DEF Decide, NotRead
<1>16. CASE Issue
    BY <1>16, <1>0 DEF Issue
<1>17. CASE Encode
    BY <1>17, <1>0 DEF Encode
<1>18. CASE Fails
    BY <1>18, <1>0 DEF Fails
<1>19. CASE UNCHANGED vars
    BY <1>19, <1>0 DEF vars
<1> QED
    BY <1>1, <1>2, <1>3, <1>4, <1>5, <1>6, <1>7, <1>13, <1>14, <1>15, <1>16, <1>17, <1>18, <1>19 DEF Next, Inspect

(* The answer is what the adapter encoded, and the record tells of it. *)
LEMMA AnswerStep == IInv /\ [Next]_vars => AnswerInv' /\ RecordIsTrue'
<1> SUFFICES ASSUME IInv, [Next]_vars, pc' = "answered"
             PROVE  AnswerInv' /\ RecordIsTrue'
    BY DEF AnswerInv, RecordIsTrue, Answered
<1>1. CASE Encode
  <2>1. action \in Actions \ {"none"} /\ action \in Encodable /\ event \in EventSet
      BY <1>1 DEF Encode, At, IInv, DecisionInv, TypeOK, Actions
  <2>2. answer' = Encoded(action) /\ event' = event /\ action' = action
      BY <1>1 DEF Encode
  <2>3. record' = record /\ RecordInv /\ BodyInv /\ pc = "encode"
      BY <1>1 DEF Encode, At, IInv
  <2>4. AnswerInv'
      BY <2>1, <2>2 DEF AnswerInv, Encoded, Actions
  <2>5. CASE action \in {"allow", "report", "mask", "reshape"}
    <3>1. Encoded(action) = IF action = "allow" THEN "silent" ELSE action
        BY <2>1, <2>5, EncodedIs
    <3>2. record = IF action = "reshape" THEN "allow" ELSE action
        BY <2>3, <2>5 DEF RecordInv
    <3> QED
        BY <2>2, <2>3, <2>4, <2>5, <3>1, <3>2 DEF RecordIsTrue, Refused
  <2>6. CASE action \in {"deny", "uninspected"}
    <3>1. event.body # "none"
        BY <2>3, <2>6 DEF BodyInv
    <3>2. CASE Power = "report-only"
      <4>1. action = "uninspected" /\ Encoded(action) = "report"
          BY <2>1, <2>6, <3>2, ReportsOnly
      <4>2. record = "report"
          BY <2>3, <3>2, <4>1 DEF RecordInv
      <4> QED
          BY <2>2, <2>3, <2>4, <4>1, <4>2 DEF RecordIsTrue, Refused
    <3>3. CASE Power # "report-only"
      <4>1. Encoded(action) \in {"deny", "withhold"}
          BY <2>1, <2>6, <3>1, <3>3, EncodedIs
      <4>2. record = "deny"
          BY <2>3, <2>6, <3>3 DEF RecordInv
      <4> QED
          BY <2>2, <2>3, <2>4, <4>1, <4>2 DEF RecordIsTrue, Refused
    <3> QED
        BY <3>2, <3>3
  <2> QED
      BY <2>1, <2>5, <2>6 DEF Actions
<1>2. CASE Fails
  <2>1. Encoded("uninspected") \in {"deny", "withhold", "report"}
      BY EncodedIs DEF IInv, TypeOK, Actions
  <2>2. /\ event' = event
        /\ \/ action' = "uninspected" /\ answer' = Encoded("uninspected")
           \/ action' = "fallback" /\ answer' \in FixedAnswers
        /\ record' = IF answer' = "report" THEN "report" ELSE "deny"
      BY <1>2 DEF Fails
  <2>3. AnswerInv'
      BY <2>2 DEF AnswerInv, Encoded, FixedAnswers
  <2>4. answer' \in {"deny", "withhold", "report"}
      BY <2>1, <2>2, FixedIs DEF IInv, TypeOK
  <2> QED
      BY <2>2, <2>3, <2>4 DEF RecordIsTrue, Refused
<1>3. CASE UNCHANGED vars
    BY <1>3 DEF vars, IInv, AnswerInv, RecordIsTrue, Refused, Answered, Encoded, FixedAnswers
<1> QED
    BY <1>1, <1>2, <1>3 DEF Next, Inspect, Arrives, Ends, NoPayload, ProtectShim, WriteBack,
       StartReading, ReadClean, ReadFinding, ReadUnmaskable, ReadInPart, OutOfTime, AllRead,
       Uninspected, NothingFound, Decide, Issue, Ask, Read, Reading, At

(* What was shown stays apart from what a call that goes through writes:   *)
(* names are issued before they are shown, and a call that may write is    *)
(* compared with what was issued before it is read.                        *)
LEMMA ShownStep == IInv /\ [Next]_vars => ShownInv' /\ WriteInv'
<1> SUFFICES ASSUME IInv, [Next]_vars PROVE ShownInv' /\ WriteInv'
    OBVIOUS
<1>0. event' = event => MayWrite' = MayWrite
    BY SameWord
<1> USE DEF At, IInv, TypeOK, ShownInv, WriteInv, Fresh, Read, Reading, Ask, Answered, Refused
<1>1. CASE Arrives
    BY <1>1 DEF Arrives, FreshInv
<1>2. CASE Ends
    BY <1>2 DEF Ends
<1>3. CASE NoPayload
    BY <1>3, <1>0 DEF NoPayload, MayWrite
<1>4. CASE ProtectShim
    BY <1>4, <1>0 DEF ProtectShim
<1>5. CASE WriteBack
    BY <1>5, <1>0 DEF WriteBack
<1>6. CASE StartReading
    BY <1>6, <1>0 DEF StartReading, Known
<1>7. CASE ReadClean \/ ReadUnmaskable \/ ReadInPart \/ OutOfTime \/ AllRead
    BY <1>7, <1>0 DEF ReadClean, ReadUnmaskable, ReadInPart, OutOfTime, AllRead
<1>8. CASE ReadFinding
    BY <1>8, <1>0 DEF ReadFinding, NewNames
<1>13. CASE Uninspected
    BY <1>13, <1>0 DEF Uninspected
<1>14. CASE NothingFound
    BY <1>14, <1>0 DEF NothingFound
<1>15. CASE Decide
    BY <1>15, <1>0 DEF Decide, NeedsNames
<1>16. CASE Issue
    BY <1>16, <1>0 DEF Issue
<1>17. CASE Encode
  <2>1. action \in Actions \ {"none"} /\ event \in EventSet
      BY <1>17 DEF Encode, DecisionInv, Actions
  <2>2. /\ answer' = Encoded(action) /\ event' = event /\ given' = given
        /\ issued' = issued /\ session' = session /\ pc' = "answered"
        /\ shown' = IF answer' = "mask" THEN shown \cup given ELSE shown
      BY <1>17 DEF Encode
  <2>3. Encoded(action) = "mask" => action = "mask"
      BY <2>1, EncodedIs DEF Actions
  <2>4. ShownInv'
      BY <1>17, <2>2, <2>3 DEF Encode
  <2>5. MayWrite /\ action \in {"deny", "uninspected"} => Encoded(action) = "deny"
      BY <2>1, EncodedIs, WritersAreCalls
  <2>6. WriteInv'
      BY <1>17, <1>0, <2>2, <2>5 DEF Encode
  <2> QED
      BY <2>4, <2>6
<1>18. CASE Fails
  <2>1. MayWrite => Encoded("uninspected") = "deny" /\ FixedAnswers = {"deny"}
      BY EncodedIs, FixedIs, WritersAreCalls DEF Actions
  <2>2. MayWrite => answer' = "deny"
      BY <1>18, <2>1 DEF Fails
  <2> QED
      BY <1>18, <1>0, <2>2 DEF Fails
<1>19. CASE UNCHANGED vars
    BY <1>19, <1>0 DEF vars
<1> QED
    BY <1>1, <1>2, <1>3, <1>4, <1>5, <1>6, <1>7, <1>8, <1>13, <1>14, <1>15, <1>16, <1>17, <1>18, <1>19 DEF Next, Inspect

(* The invariant: every part holds at the start and is kept by every step. *)
THEOREM Invariant == Spec => []IInv
<1>1. Init => IInv
  <2> SUFFICES ASSUME Init PROVE IInv
      OBVIOUS
  <2>1. TypeOK
      BY EventExists, SizesAssumption DEF Init, TypeOK
  <2> QED
      BY <2>1 DEF Init, IInv, FreshInv, BodyInv, FoundInv, DecisionInv, AnswerInv, RecordInv,
         RecordIsTrue, ShownInv, WriteInv, Answered
<1>2. IInv /\ [Next]_vars => IInv'
    BY TypeStep, ReadStep, DecisionStep, AnswerStep, ShownStep DEF IInv
<1> QED
    BY <1>1, <1>2, PTL DEF Spec

(* Every variable keeps its type. *)
THEOREM TypeCorrect == Spec => []TypeOK
<1>1. IInv => TypeOK
    BY DEF IInv
<1> QED
    BY <1>1, Invariant, PTL

(* In a session, no call whose input may reach a file goes through with a  *)
(* placeholder the model was shown in it (pipeline._write_back, D3).       *)
THEOREM WriteBackRefused == Spec => []NeverWrittenBack
<1>1. IInv => NeverWrittenBack
    BY DEF IInv, ShownInv, WriteInv, NeverWrittenBack
<1> QED
    BY <1>1, Invariant, PTL

(* The fixed answer holds what the client can be made to hold, but for the *)
(* result of a tool that is not an MCP server's.                           *)
LEMMA FallbackHolds ==
    ASSUME IInv, Answered, action = "fallback", event \in EventSet
    PROVE  /\ answer \in {"deny", "withhold", "report"}
           /\ Power # "report-only" => Refused \/ OnlyReported
<1>1. answer \in FixedAnswers
    BY DEF IInv, AnswerInv, Answered
<1> QED
    BY <1>1, FixedIs DEF Refused, OnlyReported

(* A value found in an enforced event does not stay where it was, where    *)
(* the client can do anything about it, but for the fixed report           *)
(* (pipeline._decide, the encoders and hook._fallback_output).             *)
THEOREM Enforced == Spec => []EnforceHolds
<1>1. IInv => EnforceHolds
  <2> SUFFICES ASSUME IInv, Answered, found = "yes", Mode = "enforce",
                      Power # "report-only", Direction # "local-tool"
               PROVE  Refused \/ answer = "mask" \/ OnlyReported
      BY DEF EnforceHolds
  <2>1. action \in {"mask", "deny", "uninspected", "fallback"}
      BY DecidedIs DEF IInv, DecisionInv, Answered
  <2>2. event.body # "none" /\ event \in EventSet
      BY DEF IInv, BodyInv, TypeOK, Answered
  <2>3. CASE action = "fallback"
      BY <2>2, <2>3, FallbackHolds
  <2>4. CASE action # "fallback"
    <3>1. answer = Encoded(action)
        BY <2>4 DEF IInv, AnswerInv, Answered
    <3> QED
        BY <2>1, <2>2, <2>4, <3>1, EncodedIs DEF Refused, Actions
  <2> QED
      BY <2>3, <2>4
<1> QED
    BY <1>1, Invariant, PTL

(* What was not read to its end is refused where the client can refuse it, *)
(* in every mode, but for the fixed report, and no part of it is handed on *)
(* rewritten (pipeline.process, hook._not_inspected).                      *)
THEOREM UnreadRefused == Spec => []UnreadIsRefused
<1>1. IInv => UnreadIsRefused
  <2> SUFFICES ASSUME IInv, Answered, skipped = "yes"
               PROVE  /\ answer \notin {"mask", "reshape", "silent"}
                      /\ Power # "report-only" => Refused \/ OnlyReported
      BY DEF UnreadIsRefused
  <2>1. action \in {"uninspected", "fallback"} /\ event.body # "none" /\ event \in EventSet
      BY DEF IInv, DecisionInv, BodyInv, TypeOK, Answered
  <2>2. CASE action = "fallback"
      BY <2>1, <2>2, FallbackHolds
  <2>3. CASE action = "uninspected"
    <3>1. answer = Encoded("uninspected")
        BY <2>3 DEF IInv, AnswerInv, Answered
    <3> QED
        BY <2>1, <3>1, EncodedIs DEF Refused, Actions
  <2> QED
      BY <2>1, <2>2, <2>3
<1> QED
    BY <1>1, Invariant, PTL

(* A masked answer has every finding replaced, and goes only where shim    *)
(* knows its input to go (payload.inspect and pipeline.process).           *)
THEOREM WholeMask == Spec => []MaskIsWhole
<1>1. IInv => MaskIsWhole
  <2> SUFFICES ASSUME IInv, Answered, answer = "mask"
               PROVE  skipped = "no" /\ unmaskable = "no" /\ replaced = "yes" /\ ~Unrouted
      BY DEF MaskIsWhole
  <2>0. event \in EventSet /\ action # "fallback"
      BY FallbackHolds DEF IInv, TypeOK
  <2>1. action \in Actions \ {"none"} /\ event \in EventSet /\ answer = Encoded(action)
      BY <2>0 DEF IInv, DecisionInv, AnswerInv, TypeOK, Answered, Actions
  <2>2. action = "mask"
      BY <2>1, EncodedIs DEF Actions
  <2>3. found = "yes" /\ Decided = "mask" /\ skipped # "yes"
      BY <2>2 DEF IInv, DecisionInv, Answered
  <2> QED
      BY <2>3, DecidedIs DEF IInv, TypeOK, FoundInv
<1> QED
    BY <1>1, Invariant, PTL

(* The record of an event tells what the client was asked to do            *)
(* (pipeline.process and hook._not_inspected).                             *)
THEOREM TrueRecord == Spec => []RecordIsTrue
<1>1. IInv => RecordIsTrue
    BY DEF IInv
<1> QED
    BY <1>1, Invariant, PTL

(* Every finding is masked or refused, and so is what was not read, as far *)
(* as the client and the settings let shim, but for a result of one of the *)
(* client's own tools whose refusal could not be built, which is reported  *)
(* (pipeline.process, hook._not_inspected and _fallback_output).           *)
THEOREM Held == Spec => []FindingsAreHeld
<1>1. EnforceHolds /\ UnreadIsRefused /\ MaskIsWhole => FindingsAreHeld
    BY DEF FindingsAreHeld
<1> QED
    BY <1>1, Enforced, UnreadRefused, WholeMask, PTL

(* What a client can rewrite, it can be asked for; what it can only report, *)
(* it is asked to report.                                                  *)
LEMMA PowerIs ==
    ASSUME event \in EventSet
    PROVE  /\ {"allow", "report", "uninspected"} \subseteq Encodable
           /\ Power = "rewrite" => {"mask", "reshape", "deny"} \subseteq Encodable
           /\ Power = "refuse" => "deny" \in Encodable
           /\ event.hook[2] = "pre" => Power \in {"rewrite", "refuse"}
           /\ Power \in {"rewrite", "refuse", "report-only"}
<1>1. event.hook \in Hooks
    BY DEF EventSet
<1> QED
    BY <1>1 DEF Power, Hooks, Encodable

(* The decision is one the client's encoder takes. *)
LEMMA DecidedIsEncodable ==
    ASSUME event \in EventSet
    PROVE  Decided \in Encodable
<1>1. PolicyAction \in {"allow", "report", "mask", "deny"}
    BY DEF PolicyAction
<1>2. CASE Power = "rewrite"
    BY <1>2, PowerIs, DecidedIs
<1>3. CASE Power = "refuse"
  <2>1. Capped \in {"allow", "report", "deny"}
      BY <1>1, <1>3 DEF Capped
  <2> QED
      BY <1>3, <2>1, PowerIs DEF Decided
<1>4. CASE Power = "report-only"
  <2>1. Capped \in {"allow", "report"}
      BY <1>1, <1>4 DEF Capped
  <2> QED
      BY <2>1, PowerIs DEF Decided
<1> QED
    BY <1>2, <1>3, <1>4, PowerIs

(* A call refused before it is read is a call, which its client can refuse. *)
LEMMA RefusedCalls ==
    ASSUME event \in EventSet, Protects \/ (MayWrite /\ event.writes # {})
    PROVE  "deny" \in Encodable
<1>1. event.hook[2] = "pre"
    BY WritersAreCalls DEF EventSet, Protects
<1> QED
    BY <1>1, PowerIs

(* Every step keeps it. *)
LEMMA AskedStep == IInv /\ AskedInv /\ [Next]_vars => AskedInv'
<1> SUFFICES ASSUME IInv, AskedInv, [Next]_vars PROVE AskedInv'
    OBVIOUS
<1> USE DEF At, Read, Reading, Ask
<1>0. event \in EventSet /\ replaced' \in {"no", "yes"}
    BY TypeStep DEF IInv, TypeOK
<1>1. CASE event' = event /\ (replaced' = "yes" => replaced = "yes" /\ (found = "yes" => found' = "yes"))
           /\ (pc' \in {"issue", "encode"} => action' \in Encodable)
           /\ (pc' \in {"idle", "check"} => pc' = pc)
    BY <1>0, <1>1 DEF AskedInv, Shrinkable, Encodable, Direction, IsResult, ToolKind, Client, Mode,
       PolicyMode, ChoseMode, IsNamed, DefaultMode, Power
<1>2. CASE Arrives
    BY <1>2 DEF Arrives, AskedInv
<1>3. CASE Ends
    BY <1>3 DEF Ends, Fresh, AskedInv
<1>4. CASE NoPayload
    BY <1>4, <1>0, <1>1, PowerIs DEF NoPayload
<1>5. CASE ProtectShim
    BY <1>5, <1>0, <1>1, RefusedCalls DEF ProtectShim
<1>6. CASE WriteBack
    BY <1>6, <1>0, <1>1, RefusedCalls DEF WriteBack
<1>7. CASE StartReading
    BY <1>7, <1>1 DEF StartReading
<1>8. CASE ReadClean
  <2>1. Shrinkable' = Shrinkable
      BY <1>8 DEF ReadClean, Shrinkable, Direction, IsResult, ToolKind, Client, Mode,
         PolicyMode, ChoseMode, IsNamed, DefaultMode, Power
  <2> QED
      BY <1>8, <2>1 DEF ReadClean, AskedInv
<1>9. CASE ReadFinding
    BY <1>9 DEF ReadFinding, AskedInv
<1>10. CASE ReadUnmaskable
    BY <1>10 DEF ReadUnmaskable, AskedInv
<1>11. CASE ReadInPart
  <2>1. CASE UNCHANGED << found, replaced >>
      BY <1>11, <2>1, <1>1 DEF ReadInPart
  <2>2. CASE found' = "yes"
      BY <1>11, <2>2 DEF ReadInPart, AskedInv
  <2> QED
      BY <1>11, <2>1, <2>2 DEF ReadInPart
<1>12. CASE OutOfTime
    BY <1>12, <1>1 DEF OutOfTime
<1>13. CASE AllRead
    BY <1>13, <1>1 DEF AllRead
<1>14. CASE Uninspected
    BY <1>14, <1>0, <1>1, PowerIs DEF Uninspected
<1>15. CASE NothingFound
  <2>1. replaced = "yes" => Power = "rewrite"
      BY <1>15 DEF NothingFound, AskedInv, Shrinkable
  <2>2. action' \in Encodable
      BY <1>15, <2>1, <1>0, PowerIs DEF NothingFound
  <2> QED
      BY <1>15, <2>2, <1>1 DEF NothingFound
<1>16. CASE Decide
  <2>1. action' \in Encodable
      BY <1>16, <1>0, DecidedIsEncodable DEF Decide
  <2> QED
      BY <1>16, <2>1, <1>1 DEF Decide
<1>17. CASE Issue
    BY <1>17, <1>1 DEF Issue, AskedInv
<1>18. CASE Encode
    BY <1>18, <1>1 DEF Encode
<1>19. CASE Fails
    BY <1>19, <1>1 DEF Fails
<1>20. CASE UNCHANGED vars
    BY <1>20, <1>1 DEF vars, AskedInv
<1> QED
    BY <1>2, <1>3, <1>4, <1>5, <1>6, <1>7, <1>8, <1>9, <1>10, <1>11, <1>12, <1>13, <1>14,
       <1>15, <1>16, <1>17, <1>18, <1>19, <1>20 DEF Next, Inspect

(* A mode that is named is one of the three, and so is a direction's own. *)
LEMMA ModesAre ==
    ASSUME event \in EventSet
    PROVE  PolicyMode \in Modes
<1> DEFINE First(i) == IsNamed(Ranked[i]) /\ \A j \in 1..4 : j < i => ~IsNamed(Ranked[j])
<1>1. \A key \in ModeKeys : event.modes[key] \in Modes \cup {Unset}
    BY DEF EventSet
<1>2. ASSUME ChoseMode PROVE \E i \in 1..4 : First(i)
  <2>1. PICK key \in ModeKeys : IsNamed(key)
      BY <1>2 DEF ChoseMode
  <2>2. key \in {"tool", "event", "direction", "default"}
      BY <2>1, SizesAssumption
  <2>3. /\ Ranked[1] = "tool" /\ Ranked[2] = "event"
        /\ Ranked[3] = "direction" /\ Ranked[4] = "default"
      BY DEF Ranked
  <2>4. \E i \in 1..4 : IsNamed(Ranked[i])
      BY <2>1, <2>2, <2>3
  <2>5. First(1) \/ First(2) \/ First(3) \/ First(4)
      BY <2>4
  <2> QED
      BY <2>5
<1>3. ASSUME ChoseMode PROVE PolicyMode \in Modes
  <2>1. PICK i \in 1..4 : First(i) /\ PolicyMode = event.modes[Ranked[i]]
      BY <1>2, <1>3 DEF PolicyMode
  <2> QED
      BY <1>1, <2>1 DEF IsNamed
<1>4. DefaultMode \in Modes
    BY DEF DefaultMode, Modes
<1> QED
    BY <1>3, <1>4 DEF PolicyMode

(* With a mode named for the tool, that mode is the mode. *)
LEMMA ToolComesFirst ==
    ASSUME IsNamed("tool")
    PROVE  PolicyMode = event.modes["tool"]
<1> DEFINE First(i) == i \in 1..4 /\ IsNamed(Ranked[i]) /\ \A j \in 1..4 : j < i => ~IsNamed(Ranked[j])
<1>1. Ranked[1] = "tool"
    BY DEF Ranked
<1>2. First(1)
    BY <1>1
<1>3. \A i \in 1..4 : First(i) => i = 1
    BY <1>1
<1>4. (CHOOSE i \in 1..4 : IsNamed(Ranked[i]) /\ \A j \in 1..4 : j < i => ~IsNamed(Ranked[j])) = 1
    BY <1>2, <1>3
<1>5. ChoseMode
    BY DEF ChoseMode, IsNamed
<1> QED
    BY <1>1, <1>4, <1>5 DEF PolicyMode

(* A call is refused for what was found in it only where masking is        *)
(* possible or a settings file named the mode; a mode named for the tool   *)
(* is the mode; and no encoder is asked for what it raises at              *)
(* (policy.Policy.mode_for, pipeline._tool_output and the adapters).       *)
THEOREM AsAsked == Spec => []RefusesAsAsked
<1>1. Init => AskedInv
    BY DEF Init, AskedInv
<1>2. IInv => RefusalWasAsked
  <2> SUFFICES ASSUME IInv, Answered, action = "deny", found = "yes", Power # "rewrite"
               PROVE  ChoseMode
      BY DEF RefusalWasAsked
  <2>1. Decided = "deny"
      BY DEF IInv, DecisionInv, Answered
  <2>2. event \in EventSet
      BY DEF IInv, TypeOK
  <2>3. Power = "refuse"
      BY <2>1, <2>2, PowerIs DEF Decided, Capped, PolicyAction
  <2>4. PolicyAction \in {"mask", "deny"}
      BY <2>1, <2>3 DEF Decided, Capped
  <2>5. Mode # "observe" /\ Mode # "warn"
      BY <2>4 DEF PolicyAction
  <2> QED
      BY <2>3, <2>5, <2>2, ModesAre DEF Mode, Modes
<1>3. IInv => ToolsModeRules
  <2> SUFFICES ASSUME IInv, Answered, IsNamed("tool"), event.modes["tool"] = "observe",
                      found = "yes", action \notin {"uninspected", "fallback"}
               PROVE  answer = "silent"
      BY DEF ToolsModeRules
  <2>1. Mode = "observe"
      BY ToolComesFirst DEF Mode
  <2>2. Decided = "allow"
      BY <2>1 DEF PolicyAction, Capped, Decided
  <2>3. action = "allow" /\ answer = Encoded(action)
      BY <2>2 DEF IInv, DecisionInv, AnswerInv, Answered
  <2> QED
      BY <2>3 DEF Encoded
<1>4. AskedInv => AskedIsEncodable
    BY DEF AskedInv, AskedIsEncodable, At
<1>5. RefusalWasAsked /\ ToolsModeRules /\ AskedIsEncodable => RefusesAsAsked
    BY DEF RefusesAsAsked
<1>6. Spec => []AskedInv
    BY <1>1, AskedStep, Invariant, PTL DEF Spec
<1> QED
    BY <1>2, <1>3, <1>4, <1>5, <1>6, Invariant, PTL

===============================================================================
