-------------------------- MODULE HookAnswerProofs --------------------------
(***************************************************************************)
(* Proofs about HookAnswer, for every Deadline, AnswerBy and Timeout; and   *)
(* about the pieces of Spans, for every text, Size and Overlap.             *)
(***************************************************************************)
EXTENDS HookAnswer, Spans, NaturalsInduction, WellFoundedInduction,
        SequenceTheorems, TLAPS

(* Every step keeps every variable in its type: what is written is always  *)
(* one of the answers an adapter can shape for the event.                  *)
LEMMA TypeStep ==
    TypeOK /\ OutputInv /\ [Next]_vars => TypeOK'
<1> SUFFICES ASSUME TypeOK, OutputInv, [Next]_vars
             PROVE  TypeOK'
    OBVIOUS
<1> USE TimesAssumption DEF At, Outside, Running, Redirected, Restored, TypeOK, Events, Answers, None, DueAnswers, Fallback, MainPoints, OutputInv
<1>1. CASE StartMain
    BY <1>1 DEF StartMain, TimerIsArmed
<1>2. CASE ReadEvent
    BY <1>2 DEF ReadEvent
<1>3. CASE Redirect
    BY <1>3 DEF Redirect
<1>4. CASE Inspected
    BY <1>4 DEF Inspected
<1>5. CASE IssueNames
    BY <1>5 DEF IssueNames
<1>6. CASE KeepRecord
    BY <1>6 DEF KeepRecord, RecordOf
<1>7. CASE Returned
    BY <1>7 DEF Returned
<1>8. CASE InspectionFails
    BY <1>8 DEF InspectionFails
<1>8a. CASE FailsInLastHandler
    BY <1>8a DEF FailsInLastHandler
<1>9. CASE Refuse
    BY <1>9 DEF Refuse, Refusals, FixedRefusal, AfterRefusal
<1>10. CASE RecordRefusal
    BY <1>10 DEF RecordRefusal, RefusalRecorded, AfterRefusal
<1>11. CASE Restore
    BY <1>11 DEF Restore
<1>12. CASE Disarm
    BY <1>12 DEF Disarm
<1>13. CASE Acquire
    BY <1>13 DEF Acquire
<1>14. CASE WriteAnswer
  <2>1. written' \subseteq {"main", "timer"} /\ delivered' \in Answers \cup {None}
    BY <1>14 DEF WriteAnswer
  <2>2. QED
    BY <1>14, <2>1 DEF WriteAnswer
<1>15. CASE AlarmInMain
    BY <1>15 DEF AlarmInMain, AlarmStrikes
<1>16. CASE AlarmInInspection
    BY <1>16 DEF AlarmInInspection, AlarmStrikes
<1>16a. CASE AlarmInLastHandler
  <2>1. records' \subseteq {"allow", "report", "mask", "deny"}
      BY <1>16a DEF AlarmInLastHandler, RefusalRecorded
  <2>2. QED
      BY <1>16a, <2>1 DEF AlarmInLastHandler, AlarmStrikes
<1>16b. CASE AlarmInRefusal
  <2>1. records' \subseteq {"allow", "report", "mask", "deny"}
      BY <1>16b DEF AlarmInRefusal, RefusalRecorded
  <2>2. QED
      BY <1>16b, <2>1 DEF AlarmInRefusal, AlarmStrikes
<1>17. CASE AlarmSwallowed
    BY <1>17 DEF AlarmSwallowed, AlarmStrikes, AfterRefusal
<1>18. CASE AlarmInRedirection
    BY <1>18 DEF AlarmInRedirection, AlarmStrikes
<1>19. CASE TimerFires
    BY <1>19 DEF TimerFires, Unanswered, AnswerIsDue
<1>20. CASE TimerWrites
    BY <1>20 DEF TimerWrites, FixedRefusal
<1>21. CASE TimerExits
    BY <1>21 DEF TimerExits
<1>22. CASE Tick
    BY <1>22 DEF Tick, KeepsUp, AnswerIsDue
<1>23. CASE ClientKills
    BY <1>23 DEF ClientKills
<1>24. CASE UNCHANGED vars
    BY <1>24 DEF vars
<1>25. QED
    BY <1>1, <1>2, <1>3, <1>4, <1>5, <1>6, <1>7, <1>8, <1>8a, <1>9, <1>10, <1>11,
       <1>12, <1>13, <1>14, <1>15, <1>16, <1>16a, <1>16b, <1>17, <1>18, <1>19, <1>20, <1>21,
       <1>22, <1>23, <1>24 DEF Next, Main, Alarm, Timer, Over

(* Every step keeps the lock's invariant: one holder, and only the holder  *)
(* writes.                                                                 *)
LEMMA LockStep ==
    TypeOK /\ LockInv /\ [Next]_vars => LockInv'
<1> SUFFICES ASSUME TypeOK, LockInv, [Next]_vars
             PROVE  LockInv'
    OBVIOUS
<1> USE TimesAssumption DEF At, Outside, Running, Redirected, Restored, TypeOK, Events, Answers, None, DueAnswers, Fallback, MainPoints, LockInv
<1>1. CASE StartMain
    BY <1>1 DEF StartMain, TimerIsArmed
<1>2. CASE ReadEvent
    BY <1>2 DEF ReadEvent
<1>3. CASE Redirect
    BY <1>3 DEF Redirect
<1>4. CASE Inspected
    BY <1>4 DEF Inspected
<1>5. CASE IssueNames
    BY <1>5 DEF IssueNames
<1>6. CASE KeepRecord
    BY <1>6 DEF KeepRecord, RecordOf
<1>7. CASE Returned
    BY <1>7 DEF Returned
<1>8. CASE InspectionFails
    BY <1>8 DEF InspectionFails
<1>8a. CASE FailsInLastHandler
    BY <1>8a DEF FailsInLastHandler
<1>9. CASE Refuse
    BY <1>9 DEF Refuse, Refusals, FixedRefusal, AfterRefusal
<1>10. CASE RecordRefusal
    BY <1>10 DEF RecordRefusal, RefusalRecorded, AfterRefusal
<1>11. CASE Restore
    BY <1>11 DEF Restore
<1>12. CASE Disarm
    BY <1>12 DEF Disarm
<1>13. CASE Acquire
    BY <1>13 DEF Acquire
<1>14. CASE WriteAnswer
    BY <1>14 DEF WriteAnswer
<1>15. CASE AlarmInMain
    BY <1>15 DEF AlarmInMain, AlarmStrikes
<1>16. CASE AlarmInInspection
    BY <1>16 DEF AlarmInInspection, AlarmStrikes
<1>16a. CASE AlarmInLastHandler
    BY <1>16a DEF AlarmInLastHandler, RefusalRecorded, AlarmStrikes
<1>16b. CASE AlarmInRefusal
    BY <1>16b DEF AlarmInRefusal, RefusalRecorded, AlarmStrikes
<1>17. CASE AlarmSwallowed
    BY <1>17 DEF AlarmSwallowed, AlarmStrikes, AfterRefusal
<1>18. CASE AlarmInRedirection
    BY <1>18 DEF AlarmInRedirection, AlarmStrikes
<1>19. CASE TimerFires
    BY <1>19 DEF TimerFires, Unanswered, AnswerIsDue
<1>20. CASE TimerWrites
    BY <1>20 DEF TimerWrites, FixedRefusal
<1>21. CASE TimerExits
    BY <1>21 DEF TimerExits
<1>22. CASE Tick
    BY <1>22 DEF Tick, KeepsUp, AnswerIsDue
<1>23. CASE ClientKills
    BY <1>23 DEF ClientKills
<1>24. CASE UNCHANGED vars
    BY <1>24 DEF vars
<1>25. QED
    BY <1>1, <1>2, <1>3, <1>4, <1>5, <1>6, <1>7, <1>8, <1>8a, <1>9, <1>10, <1>11,
       <1>12, <1>13, <1>14, <1>15, <1>16, <1>16a, <1>16b, <1>17, <1>18, <1>19, <1>20, <1>21,
       <1>22, <1>23, <1>24 DEF Next, Main, Alarm, Timer, Over

(* Every step keeps what stands in main's output: the inspection's answer, *)
(* with its names issued, or a refusal.                                    *)
LEMMA OutputStep ==
    TypeOK /\ OutputInv /\ [Next]_vars => OutputInv'
<1> SUFFICES ASSUME TypeOK, OutputInv, [Next]_vars
             PROVE  OutputInv'
    OBVIOUS
<1> USE TimesAssumption DEF At, Outside, Running, Redirected, Restored, TypeOK, Events, Answers, None, DueAnswers, Fallback, MainPoints, OutputInv, ShowsNames
<1>1. CASE StartMain
    BY <1>1 DEF StartMain, TimerIsArmed
<1>2. CASE ReadEvent
    BY <1>2 DEF ReadEvent
<1>3. CASE Redirect
    BY <1>3 DEF Redirect
<1>4. CASE Inspected
    BY <1>4 DEF Inspected
<1>5. CASE IssueNames
    BY <1>5 DEF IssueNames
<1>6. CASE KeepRecord
    BY <1>6 DEF KeepRecord, RecordOf
<1>7. CASE Returned
    BY <1>7 DEF Returned
<1>8. CASE InspectionFails
    BY <1>8 DEF InspectionFails
<1>8a. CASE FailsInLastHandler
    BY <1>8a DEF FailsInLastHandler
<1>9. CASE Refuse
    BY <1>9 DEF Refuse, Refusals, FixedRefusal, AfterRefusal
<1>10. CASE RecordRefusal
    BY <1>10 DEF RecordRefusal, RefusalRecorded, AfterRefusal
<1>11. CASE Restore
    BY <1>11 DEF Restore
<1>12. CASE Disarm
    BY <1>12 DEF Disarm
<1>13. CASE Acquire
    BY <1>13 DEF Acquire
<1>14. CASE WriteAnswer
    BY <1>14 DEF WriteAnswer
<1>15. CASE AlarmInMain
    BY <1>15 DEF AlarmInMain, AlarmStrikes
<1>16. CASE AlarmInInspection
    BY <1>16 DEF AlarmInInspection, AlarmStrikes
<1>16a. CASE AlarmInLastHandler
    BY <1>16a DEF AlarmInLastHandler, RefusalRecorded, AlarmStrikes
<1>16b. CASE AlarmInRefusal
    BY <1>16b DEF AlarmInRefusal, RefusalRecorded, AlarmStrikes
<1>17. CASE AlarmSwallowed
    BY <1>17 DEF AlarmSwallowed, AlarmStrikes, AfterRefusal
<1>18. CASE AlarmInRedirection
    BY <1>18 DEF AlarmInRedirection, AlarmStrikes
<1>19. CASE TimerFires
    BY <1>19 DEF TimerFires, Unanswered, AnswerIsDue
<1>20. CASE TimerWrites
    BY <1>20 DEF TimerWrites, FixedRefusal
<1>21. CASE TimerExits
    BY <1>21 DEF TimerExits
<1>22. CASE Tick
    BY <1>22 DEF Tick, KeepsUp, AnswerIsDue
<1>23. CASE ClientKills
    BY <1>23 DEF ClientKills
<1>24. CASE UNCHANGED vars
    BY <1>24 DEF vars
<1>25. QED
    BY <1>1, <1>2, <1>3, <1>4, <1>5, <1>6, <1>7, <1>8, <1>8a, <1>9, <1>10, <1>11,
       <1>12, <1>13, <1>14, <1>15, <1>16, <1>16a, <1>16b, <1>17, <1>18, <1>19, <1>20, <1>21,
       <1>22, <1>23, <1>24 DEF Next, Main, Alarm, Timer, Over

(* Every step keeps the record of a refusal apart from any answer that is  *)
(* weaker than a refusal of the event.                                     *)
LEMMA RecordStep ==
    TypeOK /\ OutputInv /\ RecordInv /\ [Next]_vars => RecordInv'
<1> SUFFICES ASSUME TypeOK, OutputInv, RecordInv, [Next]_vars
             PROVE  RecordInv'
    OBVIOUS
<1> USE TimesAssumption DEF At, Outside, Running, Redirected, Restored, TypeOK, Events, Answers, None, DueAnswers, Fallback, MainPoints, OutputInv, RecordInv, Refusing
<1>1. CASE StartMain
    BY <1>1 DEF StartMain, TimerIsArmed
<1>2. CASE ReadEvent
    BY <1>2 DEF ReadEvent
<1>3. CASE Redirect
    BY <1>3 DEF Redirect
<1>4. CASE Inspected
    BY <1>4 DEF Inspected
<1>5. CASE IssueNames
    BY <1>5 DEF IssueNames
<1>6. CASE KeepRecord
    BY <1>6 DEF KeepRecord, RecordOf
<1>7. CASE Returned
    BY <1>7 DEF Returned
<1>8. CASE InspectionFails
    BY <1>8 DEF InspectionFails
<1>8a. CASE FailsInLastHandler
    BY <1>8a DEF FailsInLastHandler
<1>9. CASE Refuse
    BY <1>9 DEF Refuse, Refusals, FixedRefusal, AfterRefusal
<1>10. CASE RecordRefusal
    BY <1>10 DEF RecordRefusal, RefusalRecorded, AfterRefusal
<1>11. CASE Restore
    BY <1>11 DEF Restore
<1>12. CASE Disarm
    BY <1>12 DEF Disarm
<1>13. CASE Acquire
    BY <1>13 DEF Acquire
<1>14. CASE WriteAnswer
    BY <1>14 DEF WriteAnswer
<1>15. CASE AlarmInMain
    BY <1>15 DEF AlarmInMain, AlarmStrikes
<1>16. CASE AlarmInInspection
    BY <1>16 DEF AlarmInInspection, AlarmStrikes
<1>16a. CASE AlarmInLastHandler
    BY <1>16a DEF AlarmInLastHandler, RefusalRecorded, AlarmStrikes
<1>16b. CASE AlarmInRefusal
    BY <1>16b DEF AlarmInRefusal, RefusalRecorded, AlarmStrikes
<1>17. CASE AlarmSwallowed
    BY <1>17 DEF AlarmSwallowed, AlarmStrikes, AfterRefusal
<1>18. CASE AlarmInRedirection
    BY <1>18 DEF AlarmInRedirection, AlarmStrikes
<1>19. CASE TimerFires
    BY <1>19 DEF TimerFires, Unanswered, AnswerIsDue
<1>20. CASE TimerWrites
    BY <1>20 DEF TimerWrites, FixedRefusal
<1>21. CASE TimerExits
    BY <1>21 DEF TimerExits
<1>22. CASE Tick
    BY <1>22 DEF Tick, KeepsUp, AnswerIsDue
<1>23. CASE ClientKills
    BY <1>23 DEF ClientKills
<1>24. CASE UNCHANGED vars
    BY <1>24 DEF vars
<1>25. QED
    BY <1>1, <1>2, <1>3, <1>4, <1>5, <1>6, <1>7, <1>8, <1>8a, <1>9, <1>10, <1>11,
       <1>12, <1>13, <1>14, <1>15, <1>16, <1>16a, <1>16b, <1>17, <1>18, <1>19, <1>20, <1>21,
       <1>22, <1>23, <1>24 DEF Next, Main, Alarm, Timer, Over

(* Every step keeps the link from what was delivered to who wrote it. *)
LEMMA DeliveredStep ==
    TypeOK /\ LockInv /\ OutputInv /\ DeliveredInv /\ [Next]_vars => DeliveredInv'
<1> SUFFICES ASSUME TypeOK, LockInv, OutputInv, DeliveredInv, [Next]_vars
             PROVE  DeliveredInv'
    OBVIOUS
<1> USE TimesAssumption DEF At, Outside, Running, Redirected, Restored, TypeOK, Events, Answers, None, DueAnswers, Fallback, MainPoints, LockInv, OutputInv, DeliveredInv
<1>1. CASE StartMain
    BY <1>1 DEF StartMain, TimerIsArmed
<1>2. CASE ReadEvent
    BY <1>2 DEF ReadEvent
<1>3. CASE Redirect
    BY <1>3 DEF Redirect
<1>4. CASE Inspected
    BY <1>4 DEF Inspected
<1>5. CASE IssueNames
    BY <1>5 DEF IssueNames
<1>6. CASE KeepRecord
    BY <1>6 DEF KeepRecord, RecordOf
<1>7. CASE Returned
    BY <1>7 DEF Returned
<1>8. CASE InspectionFails
    BY <1>8 DEF InspectionFails
<1>8a. CASE FailsInLastHandler
    BY <1>8a DEF FailsInLastHandler
<1>9. CASE Refuse
    BY <1>9 DEF Refuse, Refusals, FixedRefusal, AfterRefusal
<1>10. CASE RecordRefusal
    BY <1>10 DEF RecordRefusal, RefusalRecorded, AfterRefusal
<1>11. CASE Restore
    BY <1>11 DEF Restore
<1>12. CASE Disarm
    BY <1>12 DEF Disarm
<1>13. CASE Acquire
    BY <1>13 DEF Acquire
<1>14. CASE WriteAnswer
    BY <1>14 DEF WriteAnswer
<1>15. CASE AlarmInMain
    BY <1>15 DEF AlarmInMain, AlarmStrikes
<1>16. CASE AlarmInInspection
    BY <1>16 DEF AlarmInInspection, AlarmStrikes
<1>16a. CASE AlarmInLastHandler
    BY <1>16a DEF AlarmInLastHandler, RefusalRecorded, AlarmStrikes
<1>16b. CASE AlarmInRefusal
    BY <1>16b DEF AlarmInRefusal, RefusalRecorded, AlarmStrikes
<1>17. CASE AlarmSwallowed
    BY <1>17 DEF AlarmSwallowed, AlarmStrikes, AfterRefusal
<1>18. CASE AlarmInRedirection
    BY <1>18 DEF AlarmInRedirection, AlarmStrikes
<1>19. CASE TimerFires
    BY <1>19 DEF TimerFires, Unanswered, AnswerIsDue
<1>20. CASE TimerWrites
    BY <1>20 DEF TimerWrites, FixedRefusal
<1>21. CASE TimerExits
    BY <1>21 DEF TimerExits
<1>22. CASE Tick
    BY <1>22 DEF Tick, KeepsUp, AnswerIsDue
<1>23. CASE ClientKills
    BY <1>23 DEF ClientKills
<1>24. CASE UNCHANGED vars
    BY <1>24 DEF vars
<1>25. QED
    BY <1>1, <1>2, <1>3, <1>4, <1>5, <1>6, <1>7, <1>8, <1>8a, <1>9, <1>10, <1>11,
       <1>12, <1>13, <1>14, <1>15, <1>16, <1>16a, <1>16b, <1>17, <1>18, <1>19, <1>20, <1>21,
       <1>22, <1>23, <1>24 DEF Next, Main, Alarm, Timer, Over

(* Every step keeps the timer's invariant: time never runs out on an armed *)
(* timer that is due.                                                      *)
LEMMA TimerStep ==
    TypeOK /\ LockInv /\ TimerInv /\ [Next]_vars => TimerInv'
<1> SUFFICES ASSUME TypeOK, LockInv, TimerInv, [Next]_vars
             PROVE  TimerInv'
    OBVIOUS
<1> USE TimesAssumption DEF At, Outside, Running, Redirected, Restored, TypeOK, Events, Answers, None, DueAnswers, Fallback, MainPoints, LockInv, TimerInv, NoTimer
<1>1. CASE StartMain
    BY <1>1 DEF StartMain, TimerIsArmed
<1>2. CASE ReadEvent
    BY <1>2 DEF ReadEvent
<1>3. CASE Redirect
    BY <1>3 DEF Redirect
<1>4. CASE Inspected
    BY <1>4 DEF Inspected
<1>5. CASE IssueNames
    BY <1>5 DEF IssueNames
<1>6. CASE KeepRecord
    BY <1>6 DEF KeepRecord, RecordOf
<1>7. CASE Returned
    BY <1>7 DEF Returned
<1>8. CASE InspectionFails
    BY <1>8 DEF InspectionFails
<1>8a. CASE FailsInLastHandler
    BY <1>8a DEF FailsInLastHandler
<1>9. CASE Refuse
    BY <1>9 DEF Refuse, Refusals, FixedRefusal, AfterRefusal
<1>10. CASE RecordRefusal
    BY <1>10 DEF RecordRefusal, RefusalRecorded, AfterRefusal
<1>11. CASE Restore
    BY <1>11 DEF Restore
<1>12. CASE Disarm
    BY <1>12 DEF Disarm
<1>13. CASE Acquire
    BY <1>13 DEF Acquire
<1>14. CASE WriteAnswer
    BY <1>14 DEF WriteAnswer
<1>15. CASE AlarmInMain
    BY <1>15 DEF AlarmInMain, AlarmStrikes
<1>16. CASE AlarmInInspection
    BY <1>16 DEF AlarmInInspection, AlarmStrikes
<1>16a. CASE AlarmInLastHandler
    BY <1>16a DEF AlarmInLastHandler, RefusalRecorded, AlarmStrikes
<1>16b. CASE AlarmInRefusal
    BY <1>16b DEF AlarmInRefusal, RefusalRecorded, AlarmStrikes
<1>17. CASE AlarmSwallowed
    BY <1>17 DEF AlarmSwallowed, AlarmStrikes, AfterRefusal
<1>18. CASE AlarmInRedirection
    BY <1>18 DEF AlarmInRedirection, AlarmStrikes
<1>19. CASE TimerFires
    BY <1>19 DEF TimerFires, Unanswered, AnswerIsDue
<1>20. CASE TimerWrites
    BY <1>20 DEF TimerWrites, FixedRefusal
<1>21. CASE TimerExits
    BY <1>21 DEF TimerExits
<1>22. CASE Tick
    BY <1>22 DEF Tick, KeepsUp, AnswerIsDue
<1>23. CASE ClientKills
    BY <1>23 DEF ClientKills
<1>24. CASE UNCHANGED vars
    BY <1>24 DEF vars
<1>25. QED
    BY <1>1, <1>2, <1>3, <1>4, <1>5, <1>6, <1>7, <1>8, <1>8a, <1>9, <1>10, <1>11,
       <1>12, <1>13, <1>14, <1>15, <1>16, <1>16a, <1>16b, <1>17, <1>18, <1>19, <1>20, <1>21,
       <1>22, <1>23, <1>24 DEF Next, Main, Alarm, Timer, Over

(* IInv is inductive, and holds of every behaviour. *)
THEOREM Invariant == Spec => []IInv
<1>1. Init => IInv
    BY TimesAssumption DEF Init, IInv, TypeOK, LockInv, OutputInv, RecordInv,
       DeliveredInv, TimerInv, NoTimer, Running, Events, Answers, None, DueAnswers, Fallback,
       MainPoints, ShowsNames
<1>2. IInv /\ [Next]_vars => IInv'
    BY TypeStep, LockStep, OutputStep, RecordStep, DeliveredStep, TimerStep DEF IInv
<1>3. QED
    BY <1>1, <1>2, PTL DEF Spec

(* Main and the timer never both write, and main never ends the timer half *)
(* way through its answer.                                                 *)
THEOREM OneAnswer == Spec => []WrittenOnceWhole
<1>1. IInv => WrittenOnceWhole
    BY DEF IInv, TypeOK, LockInv, WrittenOnceWhole, MainPoints
<1>2. QED
    BY <1>1, Invariant, PTL

(* No placeholder reaches the model before its name is on disk. *)
THEOREM NamesFirst == Spec => []NamesBeforeShown
<1>1. IInv => NamesBeforeShown
  <2> SUFFICES ASSUME IInv, ShowsNames(delivered) PROVE names = "issued"
      BY DEF NamesBeforeShown
  <2> USE DEF IInv, TypeOK, LockInv, OutputInv, DeliveredInv, ShowsNames, Events,
              Fallback, None
  <2>1. written # {} /\ "timer" \notin written
      OBVIOUS
  <2>2. "main" \in written
      BY <2>1
  <2>3. QED
      BY <2>2
<1>2. QED
    BY <1>1, Invariant, PTL

(* Every variable keeps its type: whatever fails on the way, what is       *)
(* written is an answer the client knows.                                  *)
THEOREM TypeCorrect == Spec => []TypeOK
<1>1. IInv => TypeOK
    BY DEF IInv
<1>2. QED
    BY <1>1, Invariant, PTL

(* A hook that armed its timer has answered when the client would kill it. *)
THEOREM InTime == Spec => []AnsweredInTime
<1>1. IInv => AnsweredInTime
    BY DEF IInv, TimerInv, AnsweredInTime
<1>2. QED
    BY <1>1, Invariant, PTL

(* An event goes on as it was only as its inspection decided, or in one of *)
(* the corners FailsClosed names.                                          *)
THEOREM Closed == Spec => []FailsClosed
<1>1. IInv => FailsClosed
  <2> SUFFICES ASSUME IInv, PassedOn
               PROVE  FailsClosed
      BY DEF FailsClosed
  <2> USE DEF IInv, TypeOK, LockInv, OutputInv, DeliveredInv, TimerInv, PassedOn,
              FailsClosed, Told, Refusing, Fallback, Events, None, Answers
  <2>1. CASE "main" \in written
    <3>1. delivered = output /\ Told = output /\ output # None
        BY <2>1
    <3>2. CASE output = due
        BY <2>1, <3>1, <3>2
    <3>3. CASE output = "block"
        BY <2>1, <3>1, <3>3
    <3>4. CASE output = Fallback[event] /\ output # "block"
        BY <2>1, <3>1, <3>4
    <3>5. CASE output = "withhold" /\ event = "builtinResult"
        BY <2>1, <3>1, <3>5
    <3>6. QED
        BY <3>1, <3>2, <3>3, <3>4, <3>5
  <2>2. CASE "timer" \in written
      BY <2>2
  <2>3. CASE written = {}
      BY <2>3
  <2>4. QED
      BY <2>1, <2>2, <2>3
<1>2. QED
    BY <1>1, Invariant, PTL

(* Main and the timer share one answer, given before the client's timeout  *)
(* (hook.main, hook._answer_by).                                           *)
THEOREM OneInTime == Spec => []OneAnswerInTime
<1>1. WrittenOnceWhole /\ AnsweredInTime => OneAnswerInTime
    BY DEF OneAnswerInTime
<1>2. QED
    BY <1>1, OneAnswer, InTime, PTL

(* Every step keeps what holds until the deadline: no alarm and no timer   *)
(* has struck, and an answer that is on record as a refusal stays one.     *)
LEMMA OnTimeStep ==
    IInv /\ OnTimeInv /\ [Next]_vars => OnTimeInv'
<1> SUFFICES ASSUME TypeOK, LockInv, OutputInv, OnTimeInv, [Next]_vars
             PROVE  OnTimeInv'
    BY DEF IInv
<1> USE TimesAssumption DEF At, Outside, Running, Redirected, Restored, TypeOK, Events, Answers, None, DueAnswers, Fallback, MainPoints, OutputInv, LockInv, OnTimeInv, Refusing, RecordOf
<1>1. CASE StartMain
    BY <1>1 DEF StartMain, TimerIsArmed
<1>2. CASE ReadEvent
    BY <1>2 DEF ReadEvent
<1>3. CASE Redirect
    BY <1>3 DEF Redirect
<1>4. CASE Inspected
    BY <1>4 DEF Inspected
<1>5. CASE IssueNames
    BY <1>5 DEF IssueNames
<1>6. CASE KeepRecord
    BY <1>6 DEF KeepRecord, RecordOf
<1>7. CASE Returned
    BY <1>7 DEF Returned
<1>8. CASE InspectionFails
    BY <1>8 DEF InspectionFails
<1>8a. CASE FailsInLastHandler
    BY <1>8a DEF FailsInLastHandler
<1>9. CASE Refuse
    BY <1>9 DEF Refuse, Refusals, FixedRefusal, AfterRefusal
<1>10. CASE RecordRefusal
    BY <1>10 DEF RecordRefusal, RefusalRecorded, AfterRefusal
<1>11. CASE Restore
    BY <1>11 DEF Restore
<1>12. CASE Disarm
    BY <1>12 DEF Disarm
<1>13. CASE Acquire
    BY <1>13 DEF Acquire
<1>14. CASE WriteAnswer
    BY <1>14 DEF WriteAnswer
<1>15. CASE AlarmInMain
    BY <1>15 DEF AlarmInMain, AlarmStrikes
<1>16. CASE AlarmInInspection
    BY <1>16 DEF AlarmInInspection, AlarmStrikes
<1>16a. CASE AlarmInLastHandler
    BY <1>16a DEF AlarmInLastHandler, RefusalRecorded, AlarmStrikes
<1>16b. CASE AlarmInRefusal
    BY <1>16b DEF AlarmInRefusal, RefusalRecorded, AlarmStrikes
<1>17. CASE AlarmSwallowed
    BY <1>17 DEF AlarmSwallowed, AlarmStrikes, AfterRefusal
<1>18. CASE AlarmInRedirection
    BY <1>18 DEF AlarmInRedirection, AlarmStrikes
<1>19. CASE TimerFires
    BY <1>19 DEF TimerFires, Unanswered, AnswerIsDue
<1>20. CASE TimerWrites
    BY <1>20 DEF TimerWrites, FixedRefusal
<1>21. CASE TimerExits
    BY <1>21 DEF TimerExits
<1>22. CASE Tick
    BY <1>22 DEF Tick, KeepsUp, AnswerIsDue
<1>23. CASE ClientKills
    BY <1>23 DEF ClientKills
<1>24. CASE UNCHANGED vars
    BY <1>24 DEF vars
<1>25. QED
    BY <1>1, <1>2, <1>3, <1>4, <1>5, <1>6, <1>7, <1>8, <1>8a, <1>9, <1>10, <1>11,
       <1>12, <1>13, <1>14, <1>15, <1>16, <1>16a, <1>16b, <1>17, <1>18, <1>19, <1>20, <1>21,
       <1>22, <1>23, <1>24 DEF Next, Main, Alarm, Timer, Over

(* An event that is on record as refused goes on as it was only past the   *)
(* deadline, and then only as a built-in tool's result with the fixed      *)
(* report, with a prompt's block for its answer, or with none              *)
(* (pipeline.process, hook._not_inspected).                                *)
THEOREM RecordedInTime == Spec => []RecordsAreTrue
<1>1. Init => OnTimeInv
    BY TimesAssumption DEF Init, OnTimeInv, None
<1>2. Spec => []OnTimeInv
    BY <1>1, OnTimeStep, Invariant, PTL DEF Spec
<1>3. IInv /\ OnTimeInv => RecordsAreTrue
  <2> SUFFICES ASSUME IInv, OnTimeInv, "deny" \in records, PassedOn
               PROVE  /\ clock >= Deadline
                      /\ \/ event = "builtinResult" /\ Told = "report"
                         \/ event # "prompt" /\ Told = "block"
                         \/ delivered = None /\ (stdout = "lost" \/ NoTimer)
      BY DEF RecordsAreTrue
  <2> USE DEF IInv, TypeOK, LockInv, OutputInv, DeliveredInv, OnTimeInv, PassedOn, Told
  <2>1. clock >= Deadline
    <3> SUFFICES ASSUME clock < Deadline
                 PROVE  FALSE
        BY TimesAssumption
    <3>1. ended = "exited" /\ pc = "done" /\ stdout # "lost" /\ output \in Refusing[event]
        OBVIOUS
    <3>2. "main" \in written /\ delivered = output /\ output # None
        BY <3>1
    <3>3. QED
        BY <3>1, <3>2
  <2>2. event \notin {"failure", "stop"} /\ output \in Refusing[event] \cup {Fallback[event], "block"}
      BY DEF RecordInv
  <2>3. CASE "main" \in written
    <3>1. delivered = output /\ output # None /\ Told = output
        BY <2>3
    <3>2. output \notin Refusing[event]
        BY <3>1
    <3>3. QED
        BY <2>1, <2>2, <3>1, <3>2 DEF Refusing, Fallback, Events
  <2>4. CASE "timer" \in written
    <3>1. delivered \in {Fallback[event], "block"} /\ delivered # None /\ Told = delivered
        BY <2>4 DEF Fallback, Events, None
    <3>2. QED
        BY <2>1, <2>2, <3>1 DEF Refusing, Fallback, Events
  <2>5. CASE written = {}
    <3>1. delivered = None /\ (stdout = "lost" \/ NoTimer)
        BY <2>5 DEF TimerInv
    <3>2. QED
        BY <2>1, <3>1
  <2>6. QED
      BY <2>3, <2>4, <2>5
<1>4. QED
    BY <1>2, <1>3, Invariant, PTL

-----------------------------------------------------------------------------
(* Spans: the pieces of a long text.                                        *)

(* A set of numbers has a least one, *)
LEMMA LeastOf ==
    ASSUME NEW S, S \subseteq Nat, S # {}
    PROVE  \E x \in S : \A y \in S : x <= y
<1> DEFINE R == {ss \in Nat \X Nat : ss[1] < ss[2]}
<1>1. IsWellFoundedOn(R, Nat)
    BY NatLessThanWellFounded DEF OpToRel
<1>2. \E x \in S : \A y \in S : << y, x >> \notin R
  <2> HIDE DEF R
  <2> QED
      BY <1>1, WFMin
<1>3. PICK x \in S : \A y \in S : << y, x >> \notin R
    BY <1>2
<1>4. ASSUME NEW y \in S
      PROVE  x <= y
  <2>1. x \in Nat /\ y \in Nat
      OBVIOUS
  <2>2. ~(y < x)
      BY <1>3, <2>1
  <2>3. QED
      BY <2>1, <2>2
<1>5. QED
    BY <1>4

(* and one below a bound a greatest one. *)
LEMMA GreatestOf ==
    ASSUME NEW S, S # {}, NEW h \in Nat, \A x \in S : x \in Nat /\ x <= h
    PROVE  Max(S) \in S /\ \A y \in S : y <= Max(S)
<1> DEFINE D == {h - x : x \in S}
<1>1. D \subseteq Nat /\ D # {}
    OBVIOUS
<1>2. PICK d \in D : \A e \in D : d <= e
  <2> HIDE DEF D
  <2> QED
      BY <1>1, LeastOf
<1>3. PICK x \in S : d = h - x
    OBVIOUS
<1>4. ASSUME NEW y \in S
      PROVE  x >= y
  <2>1. h - y \in D /\ d \in Nat
      BY <1>1
  <2>2. d <= h - y
      BY <1>2, <2>1
  <2>3. QED
      BY <1>3, <2>2
<1>5. \E z \in S : \A y \in S : z >= y
    BY <1>4
<1>6. Max(S) \in S /\ \A y \in S : Max(S) >= y
    BY <1>5 DEF Max
<1>7. QED
    BY <1>6

LEMMA OfTwo ==
    ASSUME NEW a \in Int, NEW b \in Int
    PROVE  /\ Min({a, b}) = IF a <= b THEN a ELSE b
           /\ Max({a, b}) = IF a >= b THEN a ELSE b
<1>1. PICK x \in {a, b} : \A y \in {a, b} : x <= y
    OBVIOUS
<1>2. Min({a, b}) \in {a, b} /\ \A y \in {a, b} : Min({a, b}) <= y
    BY <1>1 DEF Min
<1>3. PICK z \in {a, b} : \A y \in {a, b} : z >= y
    OBVIOUS
<1>4. Max({a, b}) \in {a, b} /\ \A y \in {a, b} : Max({a, b}) >= y
    BY <1>3 DEF Max
<1>5. QED
    BY <1>2, <1>4

(* What holds at first, and of a number when it held before, holds of all. *)
LEMMA Climb ==
    ASSUME NEW m \in Nat, NEW P, 0 \in P, \A n \in 1..m : n - 1 \in P => n \in P
    PROVE  0..m \subseteq P
<1> DEFINE odd == (0..m) \ P
<1>1. SUFFICES ASSUME odd # {}
               PROVE  FALSE
    OBVIOUS
<1>2. PICK x \in odd : \A y \in odd : x <= y
  <2>1. odd \subseteq Nat
      OBVIOUS
  <2> HIDE DEF odd
  <2>2. QED
      BY <1>1, <2>1, LeastOf
<1>3. x \in 1..m /\ x - 1 \in 0..m /\ ~(x <= x - 1)
    OBVIOUS
<1>4. x - 1 \in P
    BY <1>2, <1>3
<1>5. QED
    BY <1>3, <1>4

(* What pieces of a sequence are. *)
LEMMA OfSequences ==
    ASSUME NEW T
    PROVE  /\ Range(<< >>) = {}
           /\ \A s \in Seq(T), x \in T : Range(Append(s, x)) = Range(s) \cup {x}
           /\ \A s, t \in Seq(T) : Range(s \o t) = Range(s) \cup Range(t)
           /\ \A s \in Seq(T) : s # << >> => Range(s) = {Head(s)} \cup Range(Tail(s))
           /\ \A s \in Seq(T) : Range(s) \subseteq T
<1>1. Range(<< >>) = {}
    BY DEF Range
<1>2. ASSUME NEW s \in Seq(T), NEW x \in T
      PROVE  Range(Append(s, x)) = Range(s) \cup {x}
  <2> DEFINE t == Append(s, x)
             n == Len(s)
  <2>1. /\ n \in Nat /\ DOMAIN s = 1..n /\ DOMAIN t = 1..(n + 1)
        /\ \A i \in 1..n : t[i] = s[i]
        /\ t[n + 1] = x
      BY AppendProperties, LenProperties
  <2> HIDE DEF t, n
  <2>2. 1..(n + 1) = 1..n \cup {n + 1}
      BY <2>1
  <2>3. QED
      BY <2>1, <2>2 DEF Range, t
<1>3. ASSUME NEW s \in Seq(T), NEW t \in Seq(T)
      PROVE  Range(s \o t) = Range(s) \cup Range(t)
  <2>1. /\ DOMAIN s = 1..Len(s) /\ DOMAIN t = 1..Len(t) /\ Len(s) \in Nat /\ Len(t) \in Nat
        /\ DOMAIN (s \o t) = 1..(Len(s) + Len(t))
        /\ \A i \in 1..(Len(s) + Len(t)) : (s \o t)[i] = IF i <= Len(s) THEN s[i] ELSE t[i - Len(s)]
      OBVIOUS
  <2>2. \A i \in 1..Len(s) : s[i] = (s \o t)[i] /\ i \in 1..(Len(s) + Len(t))
      BY <2>1
  <2>3. \A i \in 1..Len(t) : t[i] = (s \o t)[i + Len(s)] /\ i + Len(s) \in 1..(Len(s) + Len(t))
      BY <2>1
  <2>4. Range(s) \cup Range(t) \subseteq Range(s \o t)
    <3>1. \A i \in DOMAIN s : s[i] \in Range(s \o t)
        BY <2>1, <2>2 DEF Range
    <3>2. \A i \in DOMAIN t : t[i] \in Range(s \o t)
        BY <2>1, <2>3 DEF Range
    <3>3. QED
        BY <3>1, <3>2 DEF Range
  <2>5. ASSUME NEW i \in 1..(Len(s) + Len(t))
        PROVE  (s \o t)[i] \in Range(s) \cup Range(t)
    <3>1. CASE i <= Len(s)
        BY <2>1, <3>1 DEF Range
    <3>2. CASE ~(i <= Len(s))
      <4>1. i - Len(s) \in 1..Len(t)
          BY <2>1, <3>2
      <4>2. QED
          BY <2>1, <3>2, <4>1 DEF Range
    <3>3. QED
        BY <3>1, <3>2
  <2>6. Range(s \o t) \subseteq Range(s) \cup Range(t)
      BY <2>1, <2>5 DEF Range
  <2>7. QED
      BY <2>4, <2>6
<1>4. ASSUME NEW s \in Seq(T), s # << >>
      PROVE  Range(s) = {Head(s)} \cup Range(Tail(s))
  <2>1. /\ DOMAIN s = 1..Len(s) /\ Len(s) \in Nat \ {0} /\ Head(s) = s[1]
        /\ DOMAIN Tail(s) = 1..(Len(s) - 1) /\ \A i \in 1..(Len(s) - 1) : Tail(s)[i] = s[i + 1]
      BY <1>4
  <2>2. \A i \in 1..(Len(s) - 1) : Tail(s)[i] = s[i + 1] /\ i + 1 \in 1..Len(s)
      BY <2>1
  <2>3. {Head(s)} \cup Range(Tail(s)) \subseteq Range(s)
      BY <2>1, <2>2 DEF Range
  <2>4. \A i \in 2..Len(s) : s[i] = Tail(s)[i - 1] /\ i - 1 \in 1..(Len(s) - 1)
      BY <2>1
  <2>5. \A i \in 1..Len(s) : i = 1 \/ i \in 2..Len(s)
      BY <2>1
  <2>6. Range(s) \subseteq {Head(s)} \cup Range(Tail(s))
    <3>1. \A i \in DOMAIN s : s[i] \in {Head(s)} \cup Range(Tail(s))
        BY <2>1, <2>4, <2>5 DEF Range
    <3>2. QED
        BY <3>1 DEF Range
  <2>7. QED
      BY <2>3, <2>6
<1>5. ASSUME NEW s \in Seq(T)
      PROVE  Range(s) \subseteq T
    BY DEF Range
<1>6. QED
    BY <1>1, <1>2, <1>3, <1>4, <1>5

-----------------------------------------------------------------------------
(* One cut after another. *)

Bounds == Nat \X Nat
Cutting == [pieces : Seq(Bounds), start : Nat]
Begun(lo) == [pieces |-> << >>, start |-> lo]

AreOf(pieces, lo, hi) == \A p \in pieces : lo <= p[1] /\ p[1] < p[2] /\ p[2] <= hi

(* The runs of characters in a line that begin before `start` are each in  *)
(* a piece.                                                                *)
Run(lo, hi) == { s \in Bounds : lo <= s[1] /\ s[1] < s[2] /\ s[2] <= hi }
ReadTo(acc, lo, hi, nls) ==
    /\ acc \in Cutting /\ lo <= acc.start /\ acc.start <= hi
    /\ AreOf(Range(acc.pieces), lo, hi)
    /\ \A s \in Run(lo, hi) :
          s[1] < acc.start /\ Unbroken(s, nls) => \E p \in Range(acc.pieces) : Within(s, p)

LEMMA ACut ==
    ASSUME NEW lo \in Nat, NEW hi \in Nat, NEW nls, nls \subseteq Nat,
           NEW size \in Nat, Overlap < size,
           NEW acc, ReadTo(acc, lo, hi, nls)
    PROVE  LET next == CutPiece(acc, hi, nls, size) IN
           ReadTo(next, lo, hi, nls) /\ (next.start = hi \/ next.start > acc.start)
<1> DEFINE start == acc.start
           limit == Min({start + size, hi})
           before == { n \in nls : start <= n /\ n < limit }
           cut == IF limit < hi THEN LastOf(before) ELSE -1
           end == IF cut > start THEN cut + 1 ELSE limit
           from == IF end = hi THEN hi ELSE NextStart(start, end, cut)
           piece == << start, end >>
           next == [pieces |-> Append(acc.pieces, piece), start |-> from]
<1>1. /\ acc \in Cutting /\ start \in Nat /\ lo <= start /\ start <= hi /\ acc.pieces \in Seq(Bounds)
      /\ Overlap \in Nat
    BY SpansAssumption DEF ReadTo, Cutting
<1>2. CASE start >= hi
  <2>1. CutPiece(acc, hi, nls, size) = acc
      BY <1>2 DEF CutPiece
  <2>2. QED
      BY <1>1, <1>2, <2>1
<1>3. CASE start < hi
  <2>1. ~(acc.start >= hi)
      BY <1>1, <1>3
  <2>2. CutPiece(acc, hi, nls, size) = next
      BY <2>1, Zenon DEF CutPiece
  <2>3. limit \in Nat /\ start < limit /\ limit <= hi /\ (limit < hi => limit = start + size)
      BY <1>1, <1>3, OfTwo
  <2>4. before # {} => LastOf(before) \in before
    <3>1. SUFFICES ASSUME before # {}
                   PROVE  Max(before) \in before
        BY DEF LastOf
    <3>2. \A x \in before : x \in Nat /\ x <= limit
        BY <2>3
    <3> HIDE DEF before
    <3>3. QED
        BY <2>3, <3>1, <3>2, GreatestOf
  <2>5. before = {} => LastOf(before) = -1
      BY DEF LastOf
  <2>6. cut \in Int /\ (cut > start => limit < hi /\ cut \in nls /\ cut < limit)
    <3> HIDE DEF limit
    <3>1. \A x \in before : x \in nls /\ x \in Nat /\ x < limit
        OBVIOUS
    <3> HIDE DEF before
    <3>2. LastOf(before) = -1 \/ (LastOf(before) \in nls /\ LastOf(before) \in Nat /\ LastOf(before) < limit)
        BY <2>4, <2>5, <3>1
    <3>3. CASE limit < hi
      <4>1. cut = LastOf(before)
          BY <3>3
      <4> HIDE DEF cut
      <4>2. QED
          BY <1>1, <3>2, <3>3, <4>1
    <3>4. CASE ~(limit < hi)
      <4>1. cut = -1
          BY <3>4
      <4> HIDE DEF cut
      <4>2. QED
          BY <1>1, <4>1
    <3>5. QED
        BY <3>3, <3>4
  <2> HIDE DEF cut, limit, before
  <2>7. end \in Nat /\ start < end /\ end <= hi
      BY <1>1, <2>3, <2>6
  <2>8. cut > start => from = end
      BY <2>6, <2>7 DEF NextStart
  <2>9. ~(cut > start) /\ end # hi => from = end - Overlap /\ from > start
    <3>1. SUFFICES ASSUME ~(cut > start), end # hi
                   PROVE  from = end - Overlap /\ from > start
        OBVIOUS
    <3>2. end = start + size
        BY <1>1, <2>3, <3>1
    <3>3. end - Overlap >= start + 1 /\ end - Overlap \in Int /\ start + 1 \in Int
        BY <1>1, <2>7, <3>2
    <3>4. Max({end - Overlap, start + 1}) = end - Overlap
        BY <3>3, OfTwo
    <3>5. from = end - Overlap
        BY <3>1, <3>4 DEF NextStart
    <3>6. QED
        BY <1>1, <3>3, <3>5
  <2>10. from \in Nat /\ from <= hi /\ from > start
    <3>1. CASE cut > start
        BY <1>1, <2>7, <2>8, <3>1
    <3>2. CASE end = hi
        BY <1>1, <1>3, <3>2
    <3>3. CASE ~(cut > start) /\ end # hi
      <4> HIDE DEF from, end
      <4> QED
        BY <1>1, <2>7, <2>9, <3>3
    <3>4. QED
        BY <3>1, <3>2, <3>3
  <2> HIDE DEF end, from
  <2>11. Range(next.pieces) = Range(acc.pieces) \cup {piece} /\ next \in Cutting /\ piece \in Bounds
    <3>1. piece \in Bounds
        BY <1>1, <2>7 DEF Bounds
    <3>2. QED
        BY <1>1, <2>10, <3>1, OfSequences DEF Cutting
  <2>12. AreOf(Range(next.pieces), lo, hi)
      BY <1>1, <2>7, <2>11 DEF ReadTo, AreOf
  <2>13. ASSUME NEW s \in Run(lo, hi), s[1] < from, Unbroken(s, nls)
         PROVE  \E p \in Range(next.pieces) : Within(s, p)
    <3>1. s[1] \in Nat /\ s[2] \in Nat /\ s[1] < s[2] /\ s[2] <= hi /\ s[2] - s[1] <= Overlap
        BY <2>13 DEF Run, Bounds, Unbroken
    <3>2. CASE s[1] < start
        BY <2>11, <2>13, <3>2 DEF ReadTo
    <3>3. CASE s[1] >= start
      <4>1. s[2] <= end
        <5>1. CASE end = hi
            BY <3>1, <5>1
        <5>2. CASE cut > start
          <6>1. end = cut + 1 /\ cut \in nls /\ cut \in Int
              BY <2>6, <5>2 DEF end
          <6>2. s[1] < cut + 1
              BY <2>8, <2>13, <5>2, <6>1
          <6>3. cut < s[1] \/ s[2] <= cut
              BY <2>13, <6>1 DEF Unbroken
          <6>4. QED
              BY <3>1, <6>1, <6>2, <6>3
        <5>3. CASE ~(cut > start) /\ end # hi
          <6>1. s[1] < end - Overlap
              BY <2>9, <2>13, <5>3
          <6>2. QED
              BY <1>1, <2>7, <3>1, <6>1
        <5>4. QED
            BY <5>1, <5>2, <5>3
      <4>2. Within(s, piece)
          BY <3>3, <4>1, <1>1, <3>1 DEF Within
      <4>3. QED
          BY <2>11, <4>2
    <3>4. QED
        BY <1>1, <3>1, <3>2, <3>3
  <2>14. next.start = from
      OBVIOUS
  <2>15. ReadTo(next, lo, hi, nls)
    <3> HIDE DEF next
    <3> QED
      BY <1>1, <2>10, <2>11, <2>12, <2>13, <2>14 DEF ReadTo
  <2>16. QED
      BY <2>2, <2>10, <2>14, <2>15
<1>4. QED
    BY <1>1, <1>2, <1>3

(* The cuts, one after another, are a function of how many there were.      *)
CutsAre(lo, hi, nls, size, f) ==
    f = [i \in 0..(hi - lo) |-> IF i = 0 THEN Begun(lo) ELSE CutPiece(f[i - 1], hi, nls, size)]

LEMMA CutsExist ==
    ASSUME NEW lo \in Nat, NEW hi \in Nat, lo <= hi, NEW nls, NEW size
    PROVE  \E f : CutsAre(lo, hi, nls, size, f)
<1> DEFINE m == hi - lo
           step(x) == CutPiece(x, hi, nls, size)
           IsUpTo(k, f) == f = [i \in 0..k |-> IF i = 0 THEN Begun(lo) ELSE step(f[i - 1])]
           P == { k \in 0..m : \E f : IsUpTo(k, f) }
<1>1. m \in Nat
    OBVIOUS
<1> HIDE DEF step, m
<1>2. 0 \in P
  <2> DEFINE g == [i \in 0..0 |-> Begun(lo)]
  <2>1. g = [i \in 0..0 |-> IF i = 0 THEN Begun(lo) ELSE step(g[i - 1])]
      OBVIOUS
  <2>2. IsUpTo(0, g)
    <3> HIDE DEF g
    <3> QED
        BY <2>1
  <2> HIDE DEF g
  <2>3. QED
      BY <1>1, <2>2
<1>3. ASSUME NEW k \in 1..m, k - 1 \in P
      PROVE  k \in P
  <2>1. PICK f : IsUpTo(k - 1, f)
      BY <1>3
  <2> DEFINE g == [i \in 0..k |-> IF i = k THEN step(f[k - 1]) ELSE f[i]]
  <2>2. \A i \in 0..(k - 1) : f[i] = IF i = 0 THEN Begun(lo) ELSE step(f[i - 1])
      BY <2>1
  <2>3. \A i \in 0..k : g[i] = IF i = 0 THEN Begun(lo) ELSE step(g[i - 1])
    <3>1. SUFFICES ASSUME NEW i \in 0..k
                   PROVE  g[i] = IF i = 0 THEN Begun(lo) ELSE step(g[i - 1])
        OBVIOUS
    <3>2. CASE i = k
      <4>1. k - 1 \in 0..k /\ k - 1 # k /\ k # 0 /\ k \in 0..k
          OBVIOUS
      <4>2. g[k] = step(f[k - 1]) /\ g[k - 1] = f[k - 1]
          BY <4>1
      <4>3. QED
          BY <3>2, <4>1, <4>2
    <3>3. CASE i # k /\ i # 0
      <4>1. i \in 0..(k - 1) /\ i - 1 \in 0..k /\ i - 1 # k
          BY <3>3
      <4>2. g[i] = f[i] /\ g[i - 1] = f[i - 1]
          BY <3>3, <4>1
      <4>3. QED
          BY <2>2, <3>3, <4>1, <4>2
    <3>4. CASE i # k /\ i = 0
      <4>1. 0 \in 0..(k - 1)
          OBVIOUS
      <4>2. QED
          BY <2>2, <3>4, <4>1
    <3>5. QED
        BY <3>2, <3>3, <3>4
  <2>4. g = [i \in 0..k |-> g[i]]
      OBVIOUS
  <2>5. IsUpTo(k, g)
    <3> HIDE DEF g
    <3> QED
        BY <2>3, <2>4
  <2>6. k \in 0..m
      BY <1>1
  <2>7. QED
      BY <2>5, <2>6
<1>4. m \in P
  <2> HIDE DEF P
  <2>1. 0..m \subseteq P
      BY <1>1, <1>2, <1>3, Climb
  <2>2. QED
      BY <1>1, <2>1
<1>5. QED
    BY <1>4 DEF CutsAre, step, m

LEMMA PiecesChosen ==
    ASSUME NEW lo, NEW hi, NEW nls, NEW size
    PROVE  Pieces(lo, hi, nls, size) = (CHOOSE f : CutsAre(lo, hi, nls, size, f))[hi - lo].pieces
BY DEF Pieces, CutsAre, Begun

(* Every run of a line that is no longer than the overlap is in a piece.    *)
LEMMA PiecesHold ==
    ASSUME NEW lo \in Nat, NEW hi \in Nat, lo <= hi, NEW nls, nls \subseteq Nat,
           NEW size \in Nat, Overlap < size
    PROVE  /\ Pieces(lo, hi, nls, size) \in Seq(Bounds)
           /\ AreOf(Range(Pieces(lo, hi, nls, size)), lo, hi)
           /\ \A s \in Run(lo, hi) :
                 Unbroken(s, nls) => \E p \in Range(Pieces(lo, hi, nls, size)) : Within(s, p)
<1> DEFINE m == hi - lo
           f == CHOOSE f : CutsAre(lo, hi, nls, size, f)
           Done(i) == ReadTo(f[i], lo, hi, nls) /\ (f[i].start = hi \/ f[i].start >= lo + i)
           P == { i \in 0..m : Done(i) }
<1>1. m \in Nat
    OBVIOUS
<1>2. CutsAre(lo, hi, nls, size, f)
    BY CutsExist
<1> HIDE DEF f
<1>3. \A i \in 0..m : f[i] = IF i = 0 THEN Begun(lo) ELSE CutPiece(f[i - 1], hi, nls, size)
    BY <1>2 DEF CutsAre
<1>4. 0 \in P
  <2>1. f[0] = Begun(lo)
      BY <1>1, <1>3
  <2>2. << >> \in Seq(Bounds) /\ Range(<< >>) = {}
      BY OfSequences
  <2>3. ReadTo(Begun(lo), lo, hi, nls)
    <3>1. /\ Begun(lo) \in Cutting /\ Begun(lo).start = lo /\ Begun(lo).pieces = << >>
        BY <2>2 DEF Begun, Cutting
    <3>2. \A s \in Run(lo, hi) : ~(s[1] < lo)
        BY DEF Run, Bounds
    <3>3. QED
        BY <2>2, <3>1, <3>2 DEF ReadTo, AreOf
  <2>4. Begun(lo).start = lo
      BY DEF Begun
  <2>5. QED
      BY <1>1, <2>1, <2>3, <2>4
<1>5. ASSUME NEW i \in 1..m, i - 1 \in P
      PROVE  i \in P
  <2> DEFINE acc == f[i - 1]
  <2>1. f[i] = CutPiece(acc, hi, nls, size)
      BY <1>1, <1>3
  <2>2. ReadTo(acc, lo, hi, nls) /\ (acc.start = hi \/ acc.start >= lo + (i - 1))
      BY <1>5
  <2> HIDE DEF acc
  <2>3. ReadTo(f[i], lo, hi, nls) /\ (f[i].start = hi \/ f[i].start > acc.start)
      BY <2>1, <2>2, ACut
  <2>4. acc.start \in Nat /\ f[i].start \in Nat /\ acc.start <= hi /\ f[i].start <= hi
      BY <2>2, <2>3 DEF ReadTo, Cutting
  <2>5. f[i].start = hi \/ f[i].start >= lo + i
    <3> DEFINE x == f[i].start
               y == acc.start
    <3> HIDE DEF x, y
    <3>1. x \in Nat /\ y \in Nat /\ x <= hi /\ (x = hi \/ x > y) /\ (y = hi \/ y >= lo + (i - 1))
        BY <2>2, <2>3, <2>4 DEF x, y
    <3>2. x = hi \/ x >= lo + i
        BY <1>1, <3>1
    <3>3. QED
        BY <3>2 DEF x
  <2>6. QED
      BY <1>1, <2>3, <2>5
<1>6. m \in P
  <2> HIDE DEF P, m
  <2>1. 0..m \subseteq P
      BY <1>1, <1>4, <1>5, Climb
  <2>2. QED
      BY <1>1, <2>1
<1>7. ReadTo(f[m], lo, hi, nls) /\ f[m].start \in Nat /\ f[m].start <= hi
    BY <1>6 DEF ReadTo, Cutting
<1>8. f[m].start = hi
    BY <1>1, <1>6, <1>7
<1>9. Pieces(lo, hi, nls, size) = f[m].pieces
    BY PiecesChosen DEF f
<1>10. \A s \in Run(lo, hi) : s[1] < hi
    BY DEF Run, Bounds
<1> HIDE DEF m
<1>11. QED
    BY <1>7, <1>8, <1>9, <1>10 DEF ReadTo, Cutting

-----------------------------------------------------------------------------
(* The text, read in pieces.                                                *)

CuttingTyped ==
    /\ text \in Seq(BOOLEAN)
    /\ cutting \in [begun : BOOLEAN, pending : Seq(Bounds), read : SUBSET Bounds, partial : BOOLEAN]
    /\ AreOf(Range(cutting.pending), 0, Len(text))

(* What is pending or read holds every run of a line, until a piece fails.  *)
PiecesInv ==
    /\ CuttingTyped
    /\ cutting.begun /\ ~cutting.partial =>
           \A s \in Run(0, Len(text)) : Unbroken(s, Newlines) =>
               \E p \in Range(cutting.pending) \cup cutting.read : Within(s, p)

LEMMA PiecesFromTheStart ==
    SpansInit => PiecesInv
<1> SUFFICES ASSUME SpansInit
             PROVE  PiecesInv
    OBVIOUS
<1>1. text = << >> /\ cutting = Uncut /\ Range(<< >>) = {}
    BY OfSequences DEF SpansInit
<1>2. << >> \in Seq(BOOLEAN) /\ << >> \in Seq(Bounds)
    OBVIOUS
<1>3. QED
    BY <1>1, <1>2 DEF PiecesInv, CuttingTyped, Uncut, AreOf

LEMMA NewlinesTyped ==
    ASSUME CuttingTyped
    PROVE  Newlines \subseteq Nat /\ Len(text) \in Nat
BY DEF Newlines, CuttingTyped

LEMMA PiecesStep ==
    PiecesInv /\ [SpansNext]_spanvars => PiecesInv'
<1> SUFFICES ASSUME PiecesInv, [SpansNext]_spanvars
             PROVE  PiecesInv'
    OBVIOUS
<1> DEFINE n == Len(text)
<1>1. Newlines \subseteq Nat /\ n \in Nat
    BY NewlinesTyped DEF PiecesInv
<1>2. cutting.pending \in Seq(Bounds) /\ AreOf(Range(cutting.pending), 0, n)
    BY DEF PiecesInv, CuttingTyped
<1>3. ASSUME cutting.pending # << >>
      PROVE  /\ Range(cutting.pending) = {First} \cup Range(Rest) /\ Rest \in Seq(Bounds)
             /\ First \in Bounds /\ First[1] < First[2] /\ First[2] <= n
             /\ AreOf(Range(Rest), 0, n)
  <2>1. /\ Range(cutting.pending) = {First} \cup Range(Rest) /\ Rest \in Seq(Bounds)
        /\ First \in Bounds
      BY <1>2, <1>3, OfSequences, HeadTailProperties DEF First, Rest
  <2>2. QED
      BY <1>2, <2>1 DEF AreOf
<1>4. CASE Match \/ Extend \/ UNCHANGED spanvars
  <2>1. text' = text /\ cutting' = cutting
      BY <1>4 DEF Match, Extend, spanvars
  <2>2. QED
      BY <2>1 DEF PiecesInv, CuttingTyped, Newlines
<1>5. CASE Lengthen
  <2>1. cutting' = Uncut /\ text' \in Seq(BOOLEAN)
      BY <1>5 DEF Lengthen, PiecesInv, CuttingTyped
  <2>2. QED
      BY <2>1, OfSequences DEF PiecesInv, CuttingTyped, Uncut, AreOf
<1>6. CASE BeginPieces
  <2> DEFINE pieces == Pieces(0, n, Newlines, Size)
  <2>1. /\ text' = text /\ cutting.begun = FALSE
        /\ cutting' = [cutting EXCEPT !.begun = TRUE, !.pending = pieces]
      BY <1>6 DEF BeginPieces, PiecesInv, CuttingTyped
  <2>2. 0 \in Nat /\ 0 <= n /\ Size \in Nat /\ Overlap < Size
      BY <1>1, SpansAssumption
  <2>3. /\ pieces \in Seq(Bounds) /\ AreOf(Range(pieces), 0, n)
        /\ \A s \in Run(0, n) : Unbroken(s, Newlines) => \E p \in Range(pieces) : Within(s, p)
    <3> HIDE DEF n
    <3> QED
      BY <1>1, <2>2, PiecesHold
  <2> HIDE DEF pieces
  <2>4. Newlines' = Newlines
      BY <2>1 DEF Newlines
  <2>5. QED
      BY <2>1, <2>3, <2>4 DEF PiecesInv, CuttingTyped
<1>7. CASE ReadPiece
  <2>1. /\ text' = text /\ cutting.pending # << >>
        /\ cutting' = [cutting EXCEPT !.pending = Rest, !.read = @ \cup {First}]
      BY <1>7 DEF ReadPiece
  <2>2. Newlines' = Newlines
      BY <2>1 DEF Newlines
  <2>3. Range(cutting.pending) \cup cutting.read = Range(Rest) \cup (cutting.read \cup {First})
      BY <1>3, <2>1
  <2>4. QED
      BY <1>3, <2>1, <2>2, <2>3 DEF PiecesInv, CuttingTyped
<1>8. CASE CutAgain
  <2>1. PICK fits \in (Overlap + 1)..(First[2] - First[1] - 1) :
            cutting' = [cutting EXCEPT !.pending = Pieces(First[1], First[2], Newlines, fits) \o Rest]
      BY <1>8 DEF CutAgain
  <2> DEFINE pieces == Pieces(First[1], First[2], Newlines, fits)
  <2>2. text' = text /\ cutting.pending # << >>
      BY <1>8 DEF CutAgain
  <2>3. Newlines' = Newlines
      BY <2>2 DEF Newlines
  <2>4. /\ First[1] \in Nat /\ First[2] \in Nat /\ First[1] <= First[2]
        /\ fits \in Nat /\ Overlap < fits
      BY <1>3, <2>2, SpansAssumption DEF Bounds
  <2>5. /\ pieces \in Seq(Bounds) /\ AreOf(Range(pieces), First[1], First[2])
        /\ \A s \in Run(First[1], First[2]) : Unbroken(s, Newlines) => \E p \in Range(pieces) : Within(s, p)
      BY <1>1, <2>4, PiecesHold
  <2>6. cutting' = [cutting EXCEPT !.pending = pieces \o Rest]
      BY <2>1
  <2> HIDE DEF pieces
  <2>7. pieces \o Rest \in Seq(Bounds) /\ Range(pieces \o Rest) = Range(pieces) \cup Range(Rest)
      BY <1>3, <2>2, <2>5, OfSequences, ConcatProperties
  <2>8. AreOf(Range(pieces \o Rest), 0, n)
    <3>1. ASSUME NEW p \in Range(pieces)
          PROVE  0 <= p[1] /\ p[1] < p[2] /\ p[2] <= n
      <4>1. p \in Bounds
          BY <2>5, OfSequences
      <4>2. First[1] <= p[1] /\ p[1] < p[2] /\ p[2] <= First[2]
          BY <2>5 DEF AreOf
      <4>3. QED
          BY <1>1, <1>3, <2>2, <2>4, <4>1, <4>2 DEF Bounds
    <3>2. QED
        BY <1>3, <2>2, <2>7, <3>1 DEF AreOf
  <2>9. ASSUME cutting.begun, ~cutting.partial, NEW s \in Run(0, n), Unbroken(s, Newlines)
        PROVE  \E p \in Range(pieces \o Rest) \cup cutting.read : Within(s, p)
    <3>1. PICK p \in Range(cutting.pending) \cup cutting.read : Within(s, p)
        BY <2>9 DEF PiecesInv
    <3>2. CASE p = First
      <4>1. s \in Run(First[1], First[2])
          BY <3>1, <3>2 DEF Run, Within
      <4>2. QED
          BY <2>5, <2>7, <2>9, <4>1
    <3>3. CASE p # First
        BY <1>3, <2>2, <2>7, <3>1, <3>3
    <3>4. QED
        BY <3>2, <3>3
  <2>10. cutting' \in [begun : BOOLEAN, pending : Seq(Bounds), read : SUBSET Bounds, partial : BOOLEAN]
      BY <2>6, <2>7 DEF PiecesInv, CuttingTyped
  <2>11. /\ cutting'.pending = pieces \o Rest /\ cutting'.begun = cutting.begun
         /\ cutting'.partial = cutting.partial /\ cutting'.read = cutting.read
      BY <2>6 DEF PiecesInv, CuttingTyped
  <2>12. QED
      BY <2>2, <2>3, <2>8, <2>9, <2>10, <2>11 DEF PiecesInv, CuttingTyped
<1>9. CASE PieceFails
  <2>1. /\ text' = text /\ cutting.pending # << >>
        /\ cutting' = [cutting EXCEPT !.pending = Rest, !.partial = TRUE]
      BY <1>9 DEF PieceFails
  <2>2. QED
      BY <1>3, <2>1 DEF PiecesInv, CuttingTyped
<1>10. CASE PiecesTimeOut
  <2>1. /\ text' = text /\ cutting' = [cutting EXCEPT !.pending = << >>, !.partial = TRUE]
      BY <1>10 DEF PiecesTimeOut
  <2>2. << >> \in Seq(Bounds) /\ Range(<< >>) = {}
      BY OfSequences
  <2>3. QED
      BY <2>1, <2>2 DEF PiecesInv, CuttingTyped, AreOf
<1>11. QED
    BY <1>4, <1>5, <1>6, <1>7, <1>8, <1>9, <1>10 DEF SpansNext, ReadPieces

(* However a long text is cut, and cut again where a piece grows past what  *)
(* the detector reads, a run of a line that is no longer than the overlap   *)
(* is read whole, unless it is said that the text is not (_pieces and       *)
(* _findings_in_pieces of guard/evaluate.py).                               *)
THEOREM PiecesAreRead == SpansSpec => []PiecesReadAll
<1>1. PiecesInv => PiecesReadAll
  <2> SUFFICES ASSUME PiecesInv, cutting.begun, cutting.pending = << >>, ~cutting.partial,
                      NEW s \in Spots(Len(text)), Unbroken(s, Newlines)
               PROVE  \E p \in cutting.read : Within(s, p)
      BY DEF PiecesReadAll
  <2>1. Len(text) \in Nat
      BY NewlinesTyped DEF PiecesInv
  <2>2. s \in Run(0, Len(text))
      BY <2>1 DEF Spots, Run, Bounds
  <2>3. Range(cutting.pending) = {}
      BY OfSequences
  <2>4. QED
      BY <2>2, <2>3 DEF PiecesInv
<1>2. QED
    BY <1>1, PiecesFromTheStart, PiecesStep, PTL DEF SpansSpec

=============================================================================
