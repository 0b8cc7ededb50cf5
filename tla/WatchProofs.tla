---------------------------- MODULE WatchProofs -----------------------------
(* Proofs of the properties of Watch: any finite number of requests, any    *)
(* bodies and results, any slots and signals; and of UsageReader: any       *)
(* answers, in any chunks, and any bounds.                                  *)
EXTENDS Watch, UsageReader, NaturalsInduction, WellFoundedInduction,
        SequenceTheorems, FiniteSetTheorems, TLAPS

(* What a step that moves a thread on says of where threads are. *)
LEMMA OneMore ==
    ASSUME NEW S, IsFiniteSet(S), NEW r, r \notin S
    PROVE  Cardinality(S \cup {r}) = Cardinality(S) + 1 /\ Cardinality(S) \in Nat
    BY FS_AddElement, FS_CardinalityType

LEMMA OneLess ==
    ASSUME NEW S, IsFiniteSet(S), NEW r \in S
    PROVE  Cardinality(S \ {r}) = Cardinality(S) - 1 /\ Cardinality(S) \in Nat /\ Cardinality(S) > 0
    BY FS_RemoveElement, FS_EmptySet, FS_CardinalityType

LEMMA Finite ==
    /\ IsFiniteSet(Begun) /\ IsFiniteSet(Holders) /\ \A b : IsFiniteSet(Inside(b))
    BY FS_Subset, ProxyAssumption DEF Begun, Holders, Inside

-----------------------------------------------------------------------------
(* The proxy, one lemma for each part of its invariant. *)

(* Where a body is counted in flight. *)
LEMMA EntersTyped ==
    ASSUME PTypeOK, NEW r \in Requests, NEW now \in BOOLEAN, Enters(r, now)
    PROVE  /\ pending' \in [Bodies -> Nat] /\ duplicate' \in [Requests -> BOOLEAN]
           /\ entered' \in [Requests -> BOOLEAN]
<1>1. CASE now
  <2>1. PICK x \in BOOLEAN : duplicate' = [duplicate EXCEPT ![r] = x]
    <3>1. (pending[body[r]] > 0) \in BOOLEAN
        OBVIOUS
    <3>2. QED
        BY <1>1, <3>1, Zenon DEF Enters
  <2>2. body[r] \in Bodies /\ pending[body[r]] + 1 \in Nat
      BY DEF PTypeOK
  <2>3. pending' = [pending EXCEPT ![body[r]] = @ + 1] /\ entered' = [entered EXCEPT ![r] = TRUE]
      BY <1>1 DEF Enters
  <2>4. pending \in [Bodies -> Nat] /\ duplicate \in [Requests -> BOOLEAN] /\ entered \in [Requests -> BOOLEAN]
      BY DEF PTypeOK
  <2>5. pending' \in [Bodies -> Nat]
      BY <2>2, <2>3, <2>4
  <2>6. QED
      BY <2>1, <2>3, <2>4, <2>5
<1>2. CASE ~now
    BY <1>2 DEF Enters, PTypeOK
<1>3. QED
    BY <1>1, <1>2

LEMMA ProxyTypeKept ==
    ASSUME PInv, [PNext]_pvars
    PROVE  PTypeOK'
<1> USE ProxyAssumption DEF PTypeOK, Points, Reasons
<1>1. PTypeOK
    BY DEF PInv
<1>2. ASSUME NEW r \in Requests, Accept(r)
      PROVE  PTypeOK'
    BY <1>1, <1>2 DEF Accept, Goto, exchange, session, stopping
<1>3. ASSUME NEW r \in Requests, Begin(r)
      PROVE  PTypeOK'
  <2>1. late' \subseteq Requests
      BY <1>1, <1>3 DEF Begin
  <2>2. at' \in [Requests -> Points]
      BY <1>1, <1>3 DEF Begin, Goto
  <2>3. inFlight' \in Nat
    <3>1. inFlight \in Nat /\ inFlight' = inFlight + 1
        BY <1>1, <1>3 DEF Begin
    <3>2. QED
        BY <3>1
  <2>4. idle' \in BOOLEAN
      BY <1>3 DEF Begin
  <2>5. QED
      BY <1>1, <1>3, <2>1, <2>2, <2>3, <2>4 DEF Begin, exchange
<1>4. ASSUME NEW r \in Requests, RejectFraming(r)
      PROVE  PTypeOK'
    BY <1>1, <1>4 DEF RejectFraming, Goto, exchange, session, stopping
<1>5. ASSUME NEW r \in Requests, TakeSlot(r)
      PROVE  PTypeOK'
  <2>1. free' \in 0..Slots
    <3>1. free \in 0..Slots /\ Slots \in Nat
        BY <1>1
    <3>2. free' = free \/ (free > 0 /\ free' = free - 1)
        BY <1>5, Zenon DEF TakeSlot
    <3>3. QED
        BY <3>1, <3>2
  <2>2. slot' \in [Requests -> BOOLEAN]
    <3>1. PICK x \in BOOLEAN : slot' = [slot EXCEPT ![r] = x]
      <4>1. slot' = [slot EXCEPT ![r] = ~(body[r] \in Oversized) /\ free > 0]
          BY <1>5 DEF TakeSlot
      <4>2. (~(body[r] \in Oversized) /\ free > 0) \in BOOLEAN
          OBVIOUS
      <4>3. QED
          BY <4>1, <4>2, Zenon
    <3>2. QED
        BY <1>1, <3>1
  <2>3. reason' \in [Requests -> Reasons]
      BY <1>1, <1>5 DEF TakeSlot, Standing
  <2>4. at' \in [Requests -> Points]
      BY <1>1, <1>5 DEF TakeSlot, Goto
  <2>5. QED
      BY <1>1, <1>5, <2>1, <2>2, <2>3, <2>4 DEF TakeSlot, stopping
<1>6. ASSUME NEW r \in Requests, Enter(r)
      PROVE  PTypeOK'
  <2>1. Enters(r, EntersAt = "body") => /\ pending' \in [Bodies -> Nat] /\ duplicate' \in [Requests -> BOOLEAN]
                        /\ entered' \in [Requests -> BOOLEAN]
      BY <1>1, EntersTyped
  <2>2. at' \in [Requests -> Points]
      BY <1>1, <1>6 DEF Enter, Goto
  <2>3. QED
      BY <1>1, <1>6, <2>1, <2>2 DEF Enter, stopping, EntersAt
<1>7. ASSUME NEW r \in Requests, SendLast(r)
      PROVE  PTypeOK'
    BY <1>1, <1>7 DEF SendLast, Goto, exchange, session, stopping
<1>8. ASSUME NEW r \in Requests, FailBefore(r)
      PROVE  PTypeOK'
    BY <1>1, <1>8 DEF FailBefore, Goto, exchange, session, stopping
<1>9. ASSUME NEW r \in Requests, Answer(r)
      PROVE  PTypeOK'
  <2>1. Enters(r, EntersAt = "sent") => /\ pending' \in [Bodies -> Nat] /\ duplicate' \in [Requests -> BOOLEAN]
                        /\ entered' \in [Requests -> BOOLEAN]
      BY <1>1, EntersTyped
  <2>2. at' \in [Requests -> Points]
      BY <1>1, <1>9 DEF Answer, Goto
  <2>3. answered' \in [Requests -> BOOLEAN]
      BY <1>1, <1>9 DEF Answer
  <2>4. exchanges' \in Seq(Requests)
    <3>1. exchanges \in Seq(Requests)
        BY <1>1
    <3>2. QED
        BY <1>9, <3>1 DEF Answer
  <2>5. QED
      BY <1>1, <1>9, <2>1, <2>2, <2>3, <2>4 DEF Answer, stopping, EntersAt
<1>10. ASSUME NEW r \in Requests, Relay(r)
      PROVE  PTypeOK'
    BY <1>1, <1>10 DEF Relay, Goto, exchange, session, stopping, AfterRelay
<1>11. ASSUME NEW r \in Requests, HeadersFail(r)
      PROVE  PTypeOK'
    BY <1>1, <1>11 DEF HeadersFail, Goto, exchange, session, stopping
<1>12. ASSUME NEW r \in Requests, InspectFails(r)
      PROVE  PTypeOK'
    BY <1>1, <1>12 DEF InspectFails, Goto, exchange, session, stopping
<1>13. ASSUME NEW r \in Requests, Absorb(r)
      PROVE  PTypeOK'
    BY <1>1, <1>13 DEF Absorb, Goto, exchange, session, stopping
<1>14. ASSUME NEW r \in Requests, Conclude(r)
      PROVE  PTypeOK'
    BY <1>1, <1>14 DEF Conclude, Goto, exchange, session, stopping
<1>15. ASSUME NEW r \in Requests, Explain(r)
      PROVE  PTypeOK'
    BY <1>1, <1>15 DEF Explain, Goto, exchange, session, stopping
<1>16. ASSUME NEW r \in Requests, Fail(r)
      PROVE  PTypeOK'
    BY <1>1, <1>16 DEF Fail, Goto, exchange, session, stopping
<1>17. ASSUME NEW r \in Requests, Leave(r)
      PROVE  PTypeOK'
  <2>1. pending' \in [Bodies -> Nat]
    <3>1. CASE entered[r]
      <4>1. body[r] \in Bodies /\ r \in Inside(body[r])
          BY <1>1, <1>17, <3>1 DEF Leave, Goto, Inside
      <4>2. Cardinality(Inside(body[r])) \in Nat /\ Cardinality(Inside(body[r])) > 0
          BY <4>1, Finite, OneLess
      <4>3. pending[body[r]] = Cardinality(Inside(body[r]))
          BY <4>1 DEF PInv, Accounts
      <4>4. pending[body[r]] - 1 \in Nat
          BY <4>2, <4>3
      <4>5. QED
          BY <1>1, <1>17, <3>1, <4>1, <4>4 DEF Leave
    <3>2. CASE ~entered[r]
        BY <1>1, <1>17, <3>2 DEF Leave
    <3>3. QED
        BY <3>1, <3>2
  <2>2. at' \in [Requests -> Points]
      BY <1>1, <1>17 DEF Leave, Goto
  <2>3. QED
      BY <1>1, <1>17, <2>1, <2>2 DEF Leave, exchange, stopping
<1>18. ASSUME NEW r \in Requests, Release(r)
      PROVE  PTypeOK'
  <2>1. free' \in 0..Slots
    <3>1. CASE slot[r]
      <4>1. r \in Holders
          BY <3>1 DEF Holders
      <4>2. free = Slots - Cardinality(Holders) /\ Cardinality(Holders) \in Nat /\ Cardinality(Holders) > 0
          BY <4>1, Finite, OneLess DEF PInv, Accounts
      <4>3. free' = free + 1
          BY <1>18, <3>1 DEF Release, GivesBack
      <4>4. free + 1 \in 0..Slots
        <5>1. free \in 0..Slots /\ Slots \in Nat
            BY <1>1
        <5>2. PICK k \in Nat : k > 0 /\ free = Slots - k
            BY <4>2
        <5>3. QED
            BY <5>1, <5>2
      <4>5. QED
          BY <4>3, <4>4
    <3>2. CASE ~slot[r]
        BY <1>1, <1>18, <3>2 DEF Release, GivesBack
    <3>3. QED
        BY <3>1, <3>2
  <2>2. at' \in [Requests -> Points] /\ slot' \in [Requests -> BOOLEAN]
      BY <1>1, <1>18 DEF Release, Goto
  <2>3. QED
      BY <1>1, <1>18, <2>1, <2>2 DEF Release, exchange, stopping
<1>19. ASSUME NEW r \in Requests, End(r)
      PROVE  PTypeOK'
  <2>1. r \in Begun
      BY <1>19 DEF End, Goto, Begun
  <2>2. inFlight - 1 \in Nat
    <3>1. Cardinality(Begun) \in Nat /\ Cardinality(Begun) > 0
        BY <2>1, Finite, OneLess
    <3>2. inFlight = Cardinality(Begun)
        BY DEF PInv, Accounts
    <3>3. QED
        BY <3>1, <3>2
  <2>3. inFlight' \in Nat
      BY <1>19, <2>2 DEF End
  <2>4. idle' \in BOOLEAN
      BY <1>19 DEF End
  <2>5. at' \in [Requests -> Points]
      BY <1>1, <1>19 DEF End, Goto
  <2>6. QED
      BY <1>1, <1>19, <2>3, <2>4, <2>5 DEF End, exchange, stopping
<1>20. CASE BeginStop
    BY <1>1, <1>20 DEF BeginStop, exchange, session
<1>21. CASE Drain
    BY <1>1, <1>21 DEF Drain, exchange, session
<1>22. CASE DrainTimesOut
    BY <1>1, <1>22 DEF DrainTimesOut, exchange, session
<1>23. CASE CloseServer
    BY <1>1, <1>23 DEF CloseServer, exchange, session
<1>24. CASE CountUnmeasured
  <2>1. Unmeasured \subseteq Requests
    <3>1. exchanges \in Seq(Requests)
        BY <1>1
    <3>2. \A i \in DOMAIN exchanges : exchanges[i] \in Requests
        BY <3>1
    <3>3. QED
        BY <3>2 DEF Unmeasured
  <2>2. explained' = {} /\ counted' = Unmeasured /\ stop' = "explain"
      BY <1>24 DEF CountUnmeasured, PInv, ReportInv
  <2>3. UNCHANGED << at, slot, exchange, session, server, timedOut, seen, late >>
      BY <1>24 DEF CountUnmeasured
  <2>4. QED
      BY <1>1, <2>1, <2>2, <2>3 DEF exchange, session
<1>25. CASE ExplainUnmeasured
    BY <1>1, <1>25 DEF ExplainUnmeasured, exchange, session, Unmeasured
<1>26. CASE StartIteration
  <2>1. seen' \in Nat
      BY <1>26, FS_CardinalityType DEF StartIteration, PInv, ResultsInv
  <2>2. QED
      BY <1>1, <1>26, <2>1 DEF StartIteration, exchange, session
<1>27. CASE EndIteration
    BY <1>1, <1>27 DEF EndIteration, exchange, session
<1>28. CASE UNCHANGED pvars
    BY <1>1, <1>28 DEF pvars
<1>29. QED
    BY <1>2, <1>3, <1>4, <1>5, <1>6, <1>7, <1>8, <1>9, <1>10, <1>11, <1>12,
       <1>13, <1>14, <1>15, <1>16, <1>17, <1>18, <1>19, <1>20, <1>21, <1>22,
       <1>23, <1>24, <1>25, <1>26, <1>27, <1>28
       DEF PNext, RequestStep, ReportStep

LEMMA AccountsKept ==
    ASSUME PInv, [PNext]_pvars
    PROVE  Accounts'
<1>1. PTypeOK /\ Accounts /\ ThreadInv
    BY DEF PInv
<1>2. ASSUME NEW r \in Requests, Accept(r)
      PROVE  Accounts'
  <2>1. UNCHANGED << inFlight, idle, free, pending, slot, entered, body >>
      BY <1>2 DEF Accept, Goto, exchange, session, stopping
  <2>2. Begun' = Begun /\ Holders' = Holders
      BY <1>1, <1>2, <2>1 DEF Accept, Goto, Begun, Holders, PTypeOK
  <2>3. \A b \in Bodies : Inside(b)' = Inside(b)
      BY <1>1, <1>2, <2>1 DEF Accept, Goto, Inside, PTypeOK, ThreadInv, Before
  <2>4. QED
      BY <1>1, <2>1, <2>2, <2>3 DEF Accounts
<1>3. ASSUME NEW r \in Requests, Begin(r)
      PROVE  Accounts'
  <2>1. r \notin Begun /\ Begun' = Begun \cup {r} /\ Holders' = Holders
      BY <1>1, <1>3 DEF Begin, Goto, Begun, Holders, PTypeOK
  <2>2. \A b \in Bodies : Inside(b)' = Inside(b)
      BY <1>1, <1>3 DEF Begin, Goto, exchange, Inside, PTypeOK, ThreadInv, Before
  <2>3. Cardinality(Begun') = Cardinality(Begun) + 1 /\ Cardinality(Begun) \in Nat
      BY <2>1, Finite, OneMore
  <2>4. inFlight' = inFlight + 1 /\ ~idle' /\ UNCHANGED << free, pending >>
      BY <1>3 DEF Begin
  <2>5. QED
      BY <1>1, <2>1, <2>2, <2>3, <2>4 DEF Accounts
<1>4. ASSUME NEW r \in Requests, RejectFraming(r)
      PROVE  Accounts'
  <2>1. UNCHANGED << inFlight, idle, free, pending, slot, entered, body >>
      BY <1>4 DEF RejectFraming, Goto, exchange, session, stopping
  <2>2. Begun' = Begun /\ Holders' = Holders
      BY <1>1, <1>4, <2>1 DEF RejectFraming, Goto, Begun, Holders, PTypeOK
  <2>3. \A b \in Bodies : Inside(b)' = Inside(b)
      BY <1>1, <1>4, <2>1 DEF RejectFraming, Goto, Inside, PTypeOK, ThreadInv, Before
  <2>4. QED
      BY <1>1, <2>1, <2>2, <2>3 DEF Accounts
<1>5. ASSUME NEW r \in Requests, TakeSlot(r)
      PROVE  Accounts'
  <2>1. Begun' = Begun
      BY <1>1, <1>5 DEF TakeSlot, Goto, Begun, PTypeOK
  <2>2. \A b \in Bodies : Inside(b)' = Inside(b)
      BY <1>1, <1>5 DEF TakeSlot, Goto, Inside, PTypeOK, ThreadInv, Before
  <2>3. UNCHANGED << inFlight, idle, pending >> /\ ~slot[r]
      BY <1>1, <1>5 DEF TakeSlot, Goto, ThreadInv, Before
  <2>4. free' = Slots - Cardinality(Holders')
    <3>1. \/ slot' = [slot EXCEPT ![r] = TRUE] /\ free' = free - 1
          \/ slot' = [slot EXCEPT ![r] = FALSE] /\ free' = free
      <4>1. CASE ~(body[r] \in Oversized) /\ free > 0
          BY <1>5, <4>1, Zenon DEF TakeSlot
      <4>2. CASE ~(~(body[r] \in Oversized) /\ free > 0)
          BY <1>5, <4>2, Zenon DEF TakeSlot
      <4>3. QED
          BY <4>1, <4>2
    <3>2. CASE slot' = [slot EXCEPT ![r] = TRUE] /\ free' = free - 1
      <4>1. r \notin Holders /\ Holders' = Holders \cup {r}
          BY <1>1, <2>3, <3>2 DEF Holders, PTypeOK
      <4>2. Cardinality(Holders') = Cardinality(Holders) + 1 /\ Cardinality(Holders) \in Nat
          BY <4>1, Finite, OneMore
      <4>3. free = Slots - Cardinality(Holders) /\ Slots \in Nat
          BY <1>1, ProxyAssumption DEF Accounts
      <4>4. QED
          BY <3>2, <4>2, <4>3
    <3>3. CASE slot' = [slot EXCEPT ![r] = FALSE] /\ free' = free
      <4>1. Holders' = Holders
          BY <1>1, <2>3, <3>3 DEF Holders, PTypeOK
      <4>2. QED
          BY <1>1, <3>3, <4>1 DEF Accounts
    <3>4. QED
        BY <3>1, <3>2, <3>3
  <2>5. QED
      BY <1>1, <2>1, <2>2, <2>3, <2>4 DEF Accounts
<1>6. ASSUME NEW r \in Requests, Enter(r)
      PROVE  Accounts'
  <2>1. Begun' = Begun /\ Holders' = Holders
      BY <1>1, <1>6 DEF Enter, Goto, Begun, Holders, PTypeOK
  <2>2. /\ pending' = [pending EXCEPT ![body[r]] = @ + 1]
        /\ entered' = [entered EXCEPT ![r] = TRUE]
      BY <1>6 DEF Enter, Enters, EntersAt
  <2>3. UNCHANGED << inFlight, idle, free, body >> /\ ~entered[r]
      BY <1>1, <1>6 DEF Enter, Goto, ThreadInv
  <2>4. at' = [at EXCEPT ![r] = "last"] /\ at[r] = "body"
      BY <1>6 DEF Enter, Goto
  <2>5. body[r] \in Bodies
      BY <1>1 DEF PTypeOK
  <2>6. ASSUME NEW b \in Bodies
        PROVE  pending'[b] = Cardinality(Inside(b)')
    <3>1. pending[b] = Cardinality(Inside(b)) /\ pending[b] \in Nat
        BY <1>1 DEF Accounts, PTypeOK
    <3>2. CASE b = body[r]
      <4>1. r \notin Inside(b) /\ Inside(b)' = Inside(b) \cup {r}
          BY <1>1, <2>2, <2>3, <2>4, <3>2 DEF Inside, PTypeOK
      <4>2. Cardinality(Inside(b)') = Cardinality(Inside(b)) + 1
          BY <4>1, Finite, OneMore
      <4>3. pending'[b] = pending[b] + 1
          BY <1>1, <2>2, <3>2 DEF PTypeOK
      <4>4. QED
          BY <3>1, <4>2, <4>3
    <3>3. CASE b # body[r]
      <4>1. Inside(b)' = Inside(b)
          BY <1>1, <2>2, <2>3, <2>4, <3>3 DEF Inside, PTypeOK
      <4>2. pending'[b] = pending[b]
          BY <1>1, <2>2, <2>5, <3>3 DEF PTypeOK
      <4>3. QED
          BY <3>1, <4>1, <4>2
    <3>4. QED
        BY <3>2, <3>3
  <2>7. QED
      BY <1>1, <2>1, <2>3, <2>6 DEF Accounts
<1>7. ASSUME NEW r \in Requests, SendLast(r)
      PROVE  Accounts'
  <2>1. UNCHANGED << inFlight, idle, free, pending, slot, entered, body >>
      BY <1>7 DEF SendLast, Goto, exchange, session, stopping
  <2>2. Begun' = Begun /\ Holders' = Holders
      BY <1>1, <1>7, <2>1 DEF SendLast, Goto, Begun, Holders, PTypeOK
  <2>3. \A b \in Bodies : Inside(b)' = Inside(b)
      BY <1>1, <1>7, <2>1 DEF SendLast, Goto, Inside, PTypeOK
  <2>4. QED
      BY <1>1, <2>1, <2>2, <2>3 DEF Accounts
<1>8. ASSUME NEW r \in Requests, FailBefore(r)
      PROVE  Accounts'
  <2>1. UNCHANGED << inFlight, idle, free, pending, slot, entered, body >>
      BY <1>8 DEF FailBefore, Goto, exchange, session, stopping
  <2>2. Begun' = Begun /\ Holders' = Holders
      BY <1>1, <1>8, <2>1 DEF FailBefore, Goto, Begun, Holders, PTypeOK
  <2>3. \A b \in Bodies : Inside(b)' = Inside(b)
      BY <1>1, <1>8, <2>1 DEF FailBefore, Goto, Inside, PTypeOK
  <2>4. QED
      BY <1>1, <2>1, <2>2, <2>3 DEF Accounts
<1>9. ASSUME NEW r \in Requests, Answer(r)
      PROVE  Accounts'
  <2>1. UNCHANGED << inFlight, idle, free, pending, slot, entered, body >>
      BY <1>9 DEF Answer, Goto, exchange, session, stopping, Enters, EntersAt
  <2>2. Begun' = Begun /\ Holders' = Holders
      BY <1>1, <1>9, <2>1 DEF Answer, Goto, Begun, Holders, PTypeOK
  <2>3. \A b \in Bodies : Inside(b)' = Inside(b)
      BY <1>1, <1>9, <2>1 DEF Answer, Goto, Inside, PTypeOK
  <2>4. QED
      BY <1>1, <2>1, <2>2, <2>3 DEF Accounts
<1>10. ASSUME NEW r \in Requests, Relay(r)
      PROVE  Accounts'
  <2>1. UNCHANGED << inFlight, idle, free, pending, slot, entered, body >>
      BY <1>10 DEF Relay, Goto, exchange, session, stopping, AfterRelay
  <2>2. Begun' = Begun /\ Holders' = Holders
      BY <1>1, <1>10, <2>1 DEF Relay, Goto, Begun, Holders, PTypeOK, AfterRelay
  <2>3. \A b \in Bodies : Inside(b)' = Inside(b)
      BY <1>1, <1>10, <2>1 DEF Relay, Goto, Inside, PTypeOK, AfterRelay
  <2>4. QED
      BY <1>1, <2>1, <2>2, <2>3 DEF Accounts
<1>11. ASSUME NEW r \in Requests, HeadersFail(r)
      PROVE  Accounts'
  <2>1. UNCHANGED << inFlight, idle, free, pending, slot, entered, body >>
      BY <1>11 DEF HeadersFail, Goto, exchange, session, stopping
  <2>2. Begun' = Begun /\ Holders' = Holders
      BY <1>1, <1>11, <2>1 DEF HeadersFail, Goto, Begun, Holders, PTypeOK
  <2>3. \A b \in Bodies : Inside(b)' = Inside(b)
      BY <1>1, <1>11, <2>1 DEF HeadersFail, Goto, Inside, PTypeOK
  <2>4. QED
      BY <1>1, <2>1, <2>2, <2>3 DEF Accounts
<1>12. ASSUME NEW r \in Requests, InspectFails(r)
      PROVE  Accounts'
  <2>1. UNCHANGED << inFlight, idle, free, pending, slot, entered, body >>
      BY <1>12 DEF InspectFails, Goto, exchange, session, stopping
  <2>2. Begun' = Begun /\ Holders' = Holders
      BY <1>1, <1>12, <2>1 DEF InspectFails, Goto, Begun, Holders, PTypeOK
  <2>3. \A b \in Bodies : Inside(b)' = Inside(b)
      BY <1>1, <1>12, <2>1 DEF InspectFails, Goto, Inside, PTypeOK
  <2>4. QED
      BY <1>1, <2>1, <2>2, <2>3 DEF Accounts
<1>13. ASSUME NEW r \in Requests, Absorb(r)
      PROVE  Accounts'
  <2>1. UNCHANGED << inFlight, idle, free, pending, slot, entered, body >>
      BY <1>13 DEF Absorb, Goto, exchange, session, stopping
  <2>2. Begun' = Begun /\ Holders' = Holders
      BY <1>1, <1>13, <2>1 DEF Absorb, Goto, Begun, Holders, PTypeOK
  <2>3. \A b \in Bodies : Inside(b)' = Inside(b)
      BY <1>1, <1>13, <2>1 DEF Absorb, Goto, Inside, PTypeOK
  <2>4. QED
      BY <1>1, <2>1, <2>2, <2>3 DEF Accounts
<1>14. ASSUME NEW r \in Requests, Conclude(r)
      PROVE  Accounts'
  <2>1. UNCHANGED << inFlight, idle, free, pending, slot, entered, body >>
      BY <1>14 DEF Conclude, Goto, exchange, session, stopping
  <2>2. Begun' = Begun /\ Holders' = Holders
      BY <1>1, <1>14, <2>1 DEF Conclude, Goto, Begun, Holders, PTypeOK
  <2>3. \A b \in Bodies : Inside(b)' = Inside(b)
      BY <1>1, <1>14, <2>1 DEF Conclude, Goto, Inside, PTypeOK
  <2>4. QED
      BY <1>1, <2>1, <2>2, <2>3 DEF Accounts
<1>15. ASSUME NEW r \in Requests, Explain(r)
      PROVE  Accounts'
  <2>1. UNCHANGED << inFlight, idle, free, pending, slot, entered, body >>
      BY <1>15 DEF Explain, Goto, exchange, session, stopping
  <2>2. Begun' = Begun /\ Holders' = Holders
      BY <1>1, <1>15, <2>1 DEF Explain, Goto, Begun, Holders, PTypeOK
  <2>3. \A b \in Bodies : Inside(b)' = Inside(b)
      BY <1>1, <1>15, <2>1 DEF Explain, Goto, Inside, PTypeOK
  <2>4. QED
      BY <1>1, <2>1, <2>2, <2>3 DEF Accounts
<1>16. ASSUME NEW r \in Requests, Fail(r)
      PROVE  Accounts'
  <2>1. UNCHANGED << inFlight, idle, free, pending, slot, entered, body >>
      BY <1>16 DEF Fail, Goto, exchange, session, stopping
  <2>2. Begun' = Begun /\ Holders' = Holders
      BY <1>1, <1>16, <2>1 DEF Fail, Goto, Begun, Holders, PTypeOK
  <2>3. \A b \in Bodies : Inside(b)' = Inside(b)
      BY <1>1, <1>16, <2>1 DEF Fail, Goto, Inside, PTypeOK
  <2>4. QED
      BY <1>1, <2>1, <2>2, <2>3 DEF Accounts
<1>17. ASSUME NEW r \in Requests, Leave(r)
      PROVE  Accounts'
  <2>1. Begun' = Begun /\ Holders' = Holders
      BY <1>1, <1>17 DEF Leave, Goto, Begun, Holders, PTypeOK
  <2>2. UNCHANGED << inFlight, idle, free, body, entered >>
      BY <1>17 DEF Leave, exchange
  <2>3. at' = [at EXCEPT ![r] = "release"] /\ at[r] = "leave"
      BY <1>17 DEF Leave, Goto
  <2>4. body[r] \in Bodies
      BY <1>1 DEF PTypeOK
  <2>5. ASSUME NEW b \in Bodies
        PROVE  pending'[b] = Cardinality(Inside(b)')
    <3>1. pending[b] = Cardinality(Inside(b)) /\ pending[b] \in Nat
        BY <1>1 DEF Accounts, PTypeOK
    <3>2. CASE b = body[r] /\ entered[r]
      <4>1. r \in Inside(b) /\ Inside(b)' = Inside(b) \ {r}
          BY <1>1, <2>2, <2>3, <3>2 DEF Inside, PTypeOK
      <4>2. Cardinality(Inside(b)') = Cardinality(Inside(b)) - 1
          BY <4>1, Finite, OneLess
      <4>3. pending'[b] = pending[b] - 1
          BY <1>1, <1>17, <3>2 DEF Leave, PTypeOK
      <4>4. QED
          BY <3>1, <4>2, <4>3
    <3>3. CASE b # body[r] \/ ~entered[r]
      <4>1. Inside(b)' = Inside(b)
          BY <1>1, <2>2, <2>3, <3>3 DEF Inside, PTypeOK
      <4>2. pending'[b] = pending[b]
          BY <1>1, <1>17, <2>4, <3>3 DEF Leave, PTypeOK
      <4>3. QED
          BY <3>1, <4>1, <4>2
    <3>4. QED
        BY <3>2, <3>3
  <2>6. QED
      BY <1>1, <2>1, <2>2, <2>5 DEF Accounts
<1>18. ASSUME NEW r \in Requests, Release(r)
      PROVE  Accounts'
  <2>1. Begun' = Begun
      BY <1>1, <1>18 DEF Release, Goto, Begun, PTypeOK
  <2>2. \A b \in Bodies : Inside(b)' = Inside(b)
      BY <1>1, <1>18 DEF Release, Goto, exchange, Inside, PTypeOK
  <2>3. UNCHANGED << inFlight, idle, pending >> /\ slot' = [slot EXCEPT ![r] = FALSE]
      BY <1>18 DEF Release
  <2>4. free = Slots - Cardinality(Holders) /\ Slots \in Nat
      BY <1>1, ProxyAssumption DEF Accounts
  <2>5. free' = Slots - Cardinality(Holders')
    <3>1. CASE slot[r]
      <4>1. r \in Holders /\ Holders' = Holders \ {r}
          BY <1>1, <2>3, <3>1 DEF Holders, PTypeOK
      <4>2. Cardinality(Holders') = Cardinality(Holders) - 1 /\ Cardinality(Holders) \in Nat
          BY <4>1, Finite, OneLess
      <4>3. free' = free + 1
          BY <1>18, <3>1 DEF Release, GivesBack
      <4>4. QED
          BY <2>4, <4>2, <4>3
    <3>2. CASE ~slot[r]
      <4>1. Holders' = Holders /\ free' = free
          BY <1>1, <1>18, <2>3, <3>2 DEF Holders, PTypeOK, Release, GivesBack
      <4>2. QED
          BY <2>4, <4>1
    <3>3. QED
        BY <3>1, <3>2
  <2>6. QED
      BY <1>1, <2>1, <2>2, <2>3, <2>5 DEF Accounts
<1>19. ASSUME NEW r \in Requests, End(r)
      PROVE  Accounts'
  <2>1. r \in Begun /\ Begun' = Begun \ {r} /\ Holders' = Holders
      BY <1>1, <1>19 DEF End, Goto, Begun, Holders, PTypeOK
  <2>2. \A b \in Bodies : Inside(b)' = Inside(b)
      BY <1>1, <1>19 DEF End, Goto, exchange, Inside, PTypeOK
  <2>3. Cardinality(Begun') = Cardinality(Begun) - 1 /\ Cardinality(Begun) \in Nat
      BY <2>1, Finite, OneLess
  <2>4. inFlight' = inFlight - 1 /\ UNCHANGED << free, pending >>
      BY <1>19 DEF End
  <2>5. inFlight = Cardinality(Begun)
      BY <1>1 DEF Accounts
  <2>6. idle' <=> inFlight' = 0
    <3>1. idle' <=> inFlight = 1
        BY <1>19 DEF End
    <3>2. QED
        BY <2>3, <2>4, <2>5, <3>1
  <2>7. QED
      BY <1>1, <2>1, <2>2, <2>3, <2>4, <2>5, <2>6 DEF Accounts
<1>20. CASE BeginStop
    BY <1>1, <1>20 DEF BeginStop, exchange, session, Accounts, Begun, Holders, Inside
<1>21. CASE Drain
    BY <1>1, <1>21 DEF Drain, exchange, session, Accounts, Begun, Holders, Inside
<1>22. CASE DrainTimesOut
    BY <1>1, <1>22 DEF DrainTimesOut, exchange, session, Accounts, Begun, Holders, Inside
<1>23. CASE CloseServer
    BY <1>1, <1>23 DEF CloseServer, exchange, session, Accounts, Begun, Holders, Inside
<1>24. CASE CountUnmeasured
    BY <1>1, <1>24 DEF CountUnmeasured, exchange, session, Accounts, Begun, Holders, Inside
<1>25. CASE ExplainUnmeasured
    BY <1>1, <1>25 DEF ExplainUnmeasured, exchange, session, Accounts, Begun, Holders, Inside
<1>26. CASE StartIteration
    BY <1>1, <1>26 DEF StartIteration, exchange, session, Accounts, Begun, Holders, Inside
<1>27. CASE EndIteration
    BY <1>1, <1>27 DEF EndIteration, exchange, session, Accounts, Begun, Holders, Inside
<1>28. CASE UNCHANGED pvars
    BY <1>1, <1>28 DEF pvars, Accounts, Begun, Holders, Inside
<1>29. QED
    BY <1>2, <1>3, <1>4, <1>5, <1>6, <1>7, <1>8, <1>9, <1>10, <1>11, <1>12,
       <1>13, <1>14, <1>15, <1>16, <1>17, <1>18, <1>19, <1>20, <1>21, <1>22,
       <1>23, <1>24, <1>25, <1>26, <1>27, <1>28
       DEF PNext, RequestStep, ReportStep

(* Which exchanges there are after one more, and after none. *)
LEMMA Recorded ==
    ASSUME PTypeOK, NEW r \in Requests
    PROVE  /\ exchanges' = Append(exchanges, r) =>
                 \A s \in Requests : IsRecorded(s)' <=> IsRecorded(s) \/ s = r
           /\ exchanges' = exchanges => \A s \in Requests : IsRecorded(s)' <=> IsRecorded(s)
<1>1. exchanges \in Seq(Requests)
    BY DEF PTypeOK
<1>2. ASSUME exchanges' = Append(exchanges, r), NEW s \in Requests
      PROVE  IsRecorded(s)' <=> IsRecorded(s) \/ s = r
  <2>1. /\ DOMAIN exchanges = 1..Len(exchanges) /\ Len(exchanges) \in Nat
        /\ DOMAIN exchanges' = 1..(Len(exchanges) + 1)
        /\ exchanges'[Len(exchanges) + 1] = r
        /\ \A i \in 1..Len(exchanges) : exchanges'[i] = exchanges[i]
      BY <1>1, <1>2
  <2>2. ASSUME NEW i \in 1..(Len(exchanges) + 1), i \notin 1..Len(exchanges)
        PROVE  i = Len(exchanges) + 1
      BY <2>1, <2>2
  <2>3. QED
      BY <2>1, <2>2 DEF IsRecorded
<1>3. exchanges' = exchanges => \A s \in Requests : IsRecorded(s)' <=> IsRecorded(s)
    BY DEF IsRecorded
<1>4. QED
    BY <1>2, <1>3

LEMMA ThreadKept ==
    ASSUME PInv, [PNext]_pvars
    PROVE  ThreadInv'
<1> USE DEF PTypeOK, ThreadInv, Before, After, InFlight
<1>1. PTypeOK /\ ThreadInv
    BY DEF PInv
<1>2. ASSUME NEW r \in Requests, Accept(r)
      PROVE  ThreadInv'
    BY <1>1, <1>2 DEF Accept, Goto, exchange, session, stopping
<1>3. ASSUME NEW r \in Requests, Begin(r)
      PROVE  ThreadInv'
    BY <1>1, <1>3 DEF Begin, Goto, exchange, session, stopping
<1>4. ASSUME NEW r \in Requests, RejectFraming(r)
      PROVE  ThreadInv'
    BY <1>1, <1>4 DEF RejectFraming, Goto, exchange, session, stopping
<1>5. ASSUME NEW r \in Requests, TakeSlot(r)
      PROVE  ThreadInv'
    BY <1>1, <1>5 DEF TakeSlot, Goto, exchange, session, stopping, Standing
<1>6. ASSUME NEW r \in Requests, Enter(r)
      PROVE  ThreadInv'
    BY <1>1, <1>6 DEF Enter, Goto, exchange, session, stopping, Enters, EntersAt
<1>7. ASSUME NEW r \in Requests, SendLast(r)
      PROVE  ThreadInv'
    BY <1>1, <1>7 DEF SendLast, Goto, exchange, session, stopping
<1>8. ASSUME NEW r \in Requests, FailBefore(r)
      PROVE  ThreadInv'
    BY <1>1, <1>8 DEF FailBefore, Goto, exchange, session, stopping
<1>9. ASSUME NEW r \in Requests, Answer(r)
      PROVE  ThreadInv'
    BY <1>1, <1>9 DEF Answer, Goto, exchange, session, stopping, Enters, EntersAt
<1>10. ASSUME NEW r \in Requests, Relay(r)
      PROVE  ThreadInv'
    BY <1>1, <1>10 DEF Relay, Goto, exchange, session, stopping, AfterRelay
<1>11. ASSUME NEW r \in Requests, HeadersFail(r)
      PROVE  ThreadInv'
    BY <1>1, <1>11 DEF HeadersFail, Goto, exchange, session, stopping
<1>12. ASSUME NEW r \in Requests, InspectFails(r)
      PROVE  ThreadInv'
    BY <1>1, <1>12 DEF InspectFails, Goto, exchange, session, stopping
<1>13. ASSUME NEW r \in Requests, Absorb(r)
      PROVE  ThreadInv'
    BY <1>1, <1>13 DEF Absorb, Goto, exchange, session, stopping
<1>14. ASSUME NEW r \in Requests, Conclude(r)
      PROVE  ThreadInv'
    BY <1>1, <1>14 DEF Conclude, Goto, exchange, session, stopping
<1>15. ASSUME NEW r \in Requests, Explain(r)
      PROVE  ThreadInv'
    BY <1>1, <1>15 DEF Explain, Goto, exchange, session, stopping
<1>16. ASSUME NEW r \in Requests, Fail(r)
      PROVE  ThreadInv'
    BY <1>1, <1>16 DEF Fail, Goto, exchange, session, stopping
<1>17. ASSUME NEW r \in Requests, Leave(r)
      PROVE  ThreadInv'
    BY <1>1, <1>17 DEF Leave, Goto, exchange, session, stopping
<1>18. ASSUME NEW r \in Requests, Release(r)
      PROVE  ThreadInv'
    BY <1>1, <1>18 DEF Release, Goto, exchange, session, stopping, GivesBack
<1>19. ASSUME NEW r \in Requests, End(r)
      PROVE  ThreadInv'
    BY <1>1, <1>19 DEF End, Goto, exchange, session, stopping
<1>20. CASE BeginStop
    BY <1>1, <1>20 DEF BeginStop, exchange, session
<1>21. CASE Drain
    BY <1>1, <1>21 DEF Drain, exchange, session
<1>22. CASE DrainTimesOut
    BY <1>1, <1>22 DEF DrainTimesOut, exchange, session
<1>23. CASE CloseServer
    BY <1>1, <1>23 DEF CloseServer, exchange, session
<1>24. CASE CountUnmeasured
    BY <1>1, <1>24 DEF CountUnmeasured, exchange, session
<1>25. CASE ExplainUnmeasured
    BY <1>1, <1>25 DEF ExplainUnmeasured, exchange, session
<1>26. CASE StartIteration
    BY <1>1, <1>26 DEF StartIteration, exchange, session
<1>27. CASE EndIteration
    BY <1>1, <1>27 DEF EndIteration, exchange, session
<1>28. CASE UNCHANGED pvars
    BY <1>1, <1>28 DEF pvars
<1>29. QED
    BY <1>2, <1>3, <1>4, <1>5, <1>6, <1>7, <1>8, <1>9, <1>10, <1>11, <1>12,
       <1>13, <1>14, <1>15, <1>16, <1>17, <1>18, <1>19, <1>20, <1>21, <1>22,
       <1>23, <1>24, <1>25, <1>26, <1>27, <1>28
       DEF PNext, RequestStep, ReportStep

LEMMA RecordedKept ==
    ASSUME PInv, [PNext]_pvars
    PROVE  RecordedInv'
<1>1. PTypeOK /\ RecordedInv
    BY DEF PInv
<1>2. ASSUME UNCHANGED << answered, exchanges >>
      PROVE  RecordedInv'
    BY <1>1, <1>2 DEF RecordedInv, IsRecorded
<1>3. ASSUME NEW r \in Requests, Accept(r)
      PROVE  RecordedInv'
    BY <1>2, <1>3 DEF Accept, Goto, exchange, session, stopping
<1>4. ASSUME NEW r \in Requests, Begin(r)
      PROVE  RecordedInv'
    BY <1>2, <1>4 DEF Begin, Goto, exchange, session, stopping
<1>5. ASSUME NEW r \in Requests, RejectFraming(r)
      PROVE  RecordedInv'
    BY <1>2, <1>5 DEF RejectFraming, Goto, exchange, session, stopping
<1>6. ASSUME NEW r \in Requests, TakeSlot(r)
      PROVE  RecordedInv'
    BY <1>2, <1>6 DEF TakeSlot, Goto, exchange, session, stopping, Standing
<1>7. ASSUME NEW r \in Requests, Enter(r)
      PROVE  RecordedInv'
    BY <1>2, <1>7 DEF Enter, Goto, exchange, session, stopping, Enters, EntersAt
<1>8. ASSUME NEW r \in Requests, SendLast(r)
      PROVE  RecordedInv'
    BY <1>2, <1>8 DEF SendLast, Goto, exchange, session, stopping
<1>9. ASSUME NEW r \in Requests, FailBefore(r)
      PROVE  RecordedInv'
    BY <1>2, <1>9 DEF FailBefore, Goto, exchange, session, stopping
<1>10. ASSUME NEW r \in Requests, Answer(r)
      PROVE  RecordedInv'
  <2>1. \A s \in Requests : IsRecorded(s)' <=> IsRecorded(s) \/ s = r
      BY <1>1, <1>10, Recorded DEF Answer
  <2>2. \A s \in Requests : answered'[s] <=> answered[s] \/ s = r
      BY <1>1, <1>10 DEF Answer, PTypeOK
  <2>3. QED
      BY <1>1, <2>1, <2>2 DEF RecordedInv
<1>11. ASSUME NEW r \in Requests, Relay(r)
      PROVE  RecordedInv'
    BY <1>2, <1>11 DEF Relay, Goto, exchange, session, stopping, AfterRelay
<1>12. ASSUME NEW r \in Requests, HeadersFail(r)
      PROVE  RecordedInv'
    BY <1>2, <1>12 DEF HeadersFail, Goto, exchange, session, stopping
<1>13. ASSUME NEW r \in Requests, InspectFails(r)
      PROVE  RecordedInv'
    BY <1>2, <1>13 DEF InspectFails, Goto, exchange, session, stopping
<1>14. ASSUME NEW r \in Requests, Absorb(r)
      PROVE  RecordedInv'
    BY <1>2, <1>14 DEF Absorb, Goto, exchange, session, stopping
<1>15. ASSUME NEW r \in Requests, Conclude(r)
      PROVE  RecordedInv'
    BY <1>2, <1>15 DEF Conclude, Goto, exchange, session, stopping
<1>16. ASSUME NEW r \in Requests, Explain(r)
      PROVE  RecordedInv'
    BY <1>2, <1>16 DEF Explain, Goto, exchange, session, stopping
<1>17. ASSUME NEW r \in Requests, Fail(r)
      PROVE  RecordedInv'
    BY <1>2, <1>17 DEF Fail, Goto, exchange, session, stopping
<1>18. ASSUME NEW r \in Requests, Leave(r)
      PROVE  RecordedInv'
    BY <1>2, <1>18 DEF Leave, Goto, exchange, session, stopping
<1>19. ASSUME NEW r \in Requests, Release(r)
      PROVE  RecordedInv'
    BY <1>2, <1>19 DEF Release, Goto, exchange, session, stopping, GivesBack
<1>20. ASSUME NEW r \in Requests, End(r)
      PROVE  RecordedInv'
    BY <1>2, <1>20 DEF End, Goto, exchange, session, stopping
<1>21. CASE BeginStop
    BY <1>2, <1>21 DEF BeginStop, exchange, session
<1>22. CASE Drain
    BY <1>2, <1>22 DEF Drain, exchange, session
<1>23. CASE DrainTimesOut
    BY <1>2, <1>23 DEF DrainTimesOut, exchange, session
<1>24. CASE CloseServer
    BY <1>2, <1>24 DEF CloseServer, exchange, session
<1>25. CASE CountUnmeasured
    BY <1>2, <1>25 DEF CountUnmeasured, exchange, session
<1>26. CASE ExplainUnmeasured
    BY <1>2, <1>26 DEF ExplainUnmeasured, exchange, session
<1>27. CASE StartIteration
    BY <1>2, <1>27 DEF StartIteration, exchange, session
<1>28. CASE EndIteration
    BY <1>2, <1>28 DEF EndIteration, exchange, session
<1>29. CASE UNCHANGED pvars
    BY <1>2, <1>29 DEF pvars
<1>30. QED
    BY <1>3, <1>4, <1>5, <1>6, <1>7, <1>8, <1>9, <1>10, <1>11, <1>12, <1>13,
       <1>14, <1>15, <1>16, <1>17, <1>18, <1>19, <1>20, <1>21, <1>22, <1>23,
       <1>24, <1>25, <1>26, <1>27, <1>28, <1>29
       DEF PNext, RequestStep, ReportStep

LEMMA InsideKept ==
    ASSUME PInv, [PNext]_pvars
    PROVE  InsideInv'
<1>1. PTypeOK /\ Accounts /\ ThreadInv /\ InsideInv
    BY DEF PInv
<1>2. ASSUME NEW r \in Requests, Accept(r)
      PROVE  InsideInv'
  <2>1. \A b \in Bodies : Inside(b)' \subseteq Inside(b)
      BY <1>1, <1>2 DEF Inside, PTypeOK, ThreadInv, Before, Accept, Goto, exchange, session, stopping
  <2>2. duplicate' = duplicate
      BY <1>2 DEF Accept, Goto, exchange, session, stopping
  <2>3. QED
      BY <1>1, <2>1, <2>2 DEF InsideInv
<1>3. ASSUME NEW r \in Requests, Begin(r)
      PROVE  InsideInv'
  <2>1. \A b \in Bodies : Inside(b)' \subseteq Inside(b)
      BY <1>1, <1>3 DEF Inside, PTypeOK, ThreadInv, Before, Begin, Goto, exchange, session, stopping
  <2>2. duplicate' = duplicate
      BY <1>3 DEF Begin, Goto, exchange, session, stopping
  <2>3. QED
      BY <1>1, <2>1, <2>2 DEF InsideInv
<1>4. ASSUME NEW r \in Requests, RejectFraming(r)
      PROVE  InsideInv'
  <2>1. \A b \in Bodies : Inside(b)' \subseteq Inside(b)
      BY <1>1, <1>4 DEF Inside, PTypeOK, ThreadInv, Before, RejectFraming, Goto, exchange, session, stopping
  <2>2. duplicate' = duplicate
      BY <1>4 DEF RejectFraming, Goto, exchange, session, stopping
  <2>3. QED
      BY <1>1, <2>1, <2>2 DEF InsideInv
<1>5. ASSUME NEW r \in Requests, TakeSlot(r)
      PROVE  InsideInv'
  <2>1. \A b \in Bodies : Inside(b)' \subseteq Inside(b)
      BY <1>1, <1>5 DEF Inside, PTypeOK, ThreadInv, Before, TakeSlot, Goto, exchange, session, stopping, Standing
  <2>2. duplicate' = duplicate
      BY <1>5 DEF TakeSlot, Goto, exchange, session, stopping, Standing
  <2>3. QED
      BY <1>1, <2>1, <2>2 DEF InsideInv
<1>6. ASSUME NEW r \in Requests, Enter(r)
      PROVE  InsideInv'
  <2>1. /\ duplicate' = [duplicate EXCEPT ![r] = pending[body[r]] > 0]
        /\ entered' = [entered EXCEPT ![r] = TRUE] /\ at' = [at EXCEPT ![r] = "last"]
        /\ body' = body
      BY <1>6 DEF Enter, Enters, EntersAt, Goto
  <2>2. ASSUME NEW b \in Bodies, NEW s \in Inside(b)', s # r
        PROVE  s \in Inside(b) /\ duplicate'[s] = duplicate[s]
      BY <1>1, <2>1, <2>2 DEF Inside, PTypeOK
  <2>3. ASSUME NEW b \in Bodies, NEW s \in Inside(b), b = body[r]
        PROVE  duplicate'[r]
    <3>1. Cardinality(Inside(b)) > 0
        BY Finite, OneLess
    <3>2. pending[body[r]] > 0
        BY <1>1, <2>3, <3>1 DEF Accounts
    <3>3. QED
        BY <1>1, <2>1, <3>2 DEF PTypeOK
  <2>4. ASSUME NEW b \in Bodies, r \in Inside(b)'
        PROVE  b = body[r]
      BY <2>1, <2>4 DEF Inside
  <2>5. QED
      BY <1>1, <2>2, <2>3, <2>4 DEF InsideInv
<1>7. ASSUME NEW r \in Requests, SendLast(r)
      PROVE  InsideInv'
  <2>1. \A b \in Bodies : Inside(b)' \subseteq Inside(b)
      BY <1>1, <1>7 DEF Inside, PTypeOK, ThreadInv, Before, SendLast, Goto, exchange, session, stopping
  <2>2. duplicate' = duplicate
      BY <1>7 DEF SendLast, Goto, exchange, session, stopping
  <2>3. QED
      BY <1>1, <2>1, <2>2 DEF InsideInv
<1>8. ASSUME NEW r \in Requests, FailBefore(r)
      PROVE  InsideInv'
  <2>1. \A b \in Bodies : Inside(b)' \subseteq Inside(b)
      BY <1>1, <1>8 DEF Inside, PTypeOK, ThreadInv, Before, FailBefore, Goto, exchange, session, stopping
  <2>2. duplicate' = duplicate
      BY <1>8 DEF FailBefore, Goto, exchange, session, stopping
  <2>3. QED
      BY <1>1, <2>1, <2>2 DEF InsideInv
<1>9. ASSUME NEW r \in Requests, Answer(r)
      PROVE  InsideInv'
  <2>1. \A b \in Bodies : Inside(b)' \subseteq Inside(b)
      BY <1>1, <1>9 DEF Inside, PTypeOK, ThreadInv, Before, Answer, Goto, exchange, session, stopping, Enters, EntersAt
  <2>2. duplicate' = duplicate
      BY <1>9 DEF Answer, Goto, exchange, session, stopping, Enters, EntersAt
  <2>3. QED
      BY <1>1, <2>1, <2>2 DEF InsideInv
<1>10. ASSUME NEW r \in Requests, Relay(r)
      PROVE  InsideInv'
  <2>1. \A b \in Bodies : Inside(b)' \subseteq Inside(b)
      BY <1>1, <1>10 DEF Inside, PTypeOK, ThreadInv, Before, Relay, Goto, exchange, session, stopping, AfterRelay
  <2>2. duplicate' = duplicate
      BY <1>10 DEF Relay, Goto, exchange, session, stopping, AfterRelay
  <2>3. QED
      BY <1>1, <2>1, <2>2 DEF InsideInv
<1>11. ASSUME NEW r \in Requests, HeadersFail(r)
      PROVE  InsideInv'
  <2>1. \A b \in Bodies : Inside(b)' \subseteq Inside(b)
      BY <1>1, <1>11 DEF Inside, PTypeOK, ThreadInv, Before, HeadersFail, Goto, exchange, session, stopping
  <2>2. duplicate' = duplicate
      BY <1>11 DEF HeadersFail, Goto, exchange, session, stopping
  <2>3. QED
      BY <1>1, <2>1, <2>2 DEF InsideInv
<1>12. ASSUME NEW r \in Requests, InspectFails(r)
      PROVE  InsideInv'
  <2>1. \A b \in Bodies : Inside(b)' \subseteq Inside(b)
      BY <1>1, <1>12 DEF Inside, PTypeOK, ThreadInv, Before, InspectFails, Goto, exchange, session, stopping
  <2>2. duplicate' = duplicate
      BY <1>12 DEF InspectFails, Goto, exchange, session, stopping
  <2>3. QED
      BY <1>1, <2>1, <2>2 DEF InsideInv
<1>13. ASSUME NEW r \in Requests, Absorb(r)
      PROVE  InsideInv'
  <2>1. \A b \in Bodies : Inside(b)' \subseteq Inside(b)
      BY <1>1, <1>13 DEF Inside, PTypeOK, ThreadInv, Before, Absorb, Goto, exchange, session, stopping
  <2>2. duplicate' = duplicate
      BY <1>13 DEF Absorb, Goto, exchange, session, stopping
  <2>3. QED
      BY <1>1, <2>1, <2>2 DEF InsideInv
<1>14. ASSUME NEW r \in Requests, Conclude(r)
      PROVE  InsideInv'
  <2>1. \A b \in Bodies : Inside(b)' \subseteq Inside(b)
      BY <1>1, <1>14 DEF Inside, PTypeOK, ThreadInv, Before, Conclude, Goto, exchange, session, stopping
  <2>2. duplicate' = duplicate
      BY <1>14 DEF Conclude, Goto, exchange, session, stopping
  <2>3. QED
      BY <1>1, <2>1, <2>2 DEF InsideInv
<1>15. ASSUME NEW r \in Requests, Explain(r)
      PROVE  InsideInv'
  <2>1. \A b \in Bodies : Inside(b)' \subseteq Inside(b)
      BY <1>1, <1>15 DEF Inside, PTypeOK, ThreadInv, Before, Explain, Goto, exchange, session, stopping
  <2>2. duplicate' = duplicate
      BY <1>15 DEF Explain, Goto, exchange, session, stopping
  <2>3. QED
      BY <1>1, <2>1, <2>2 DEF InsideInv
<1>16. ASSUME NEW r \in Requests, Fail(r)
      PROVE  InsideInv'
  <2>1. \A b \in Bodies : Inside(b)' \subseteq Inside(b)
      BY <1>1, <1>16 DEF Inside, PTypeOK, ThreadInv, Before, Fail, Goto, exchange, session, stopping
  <2>2. duplicate' = duplicate
      BY <1>16 DEF Fail, Goto, exchange, session, stopping
  <2>3. QED
      BY <1>1, <2>1, <2>2 DEF InsideInv
<1>17. ASSUME NEW r \in Requests, Leave(r)
      PROVE  InsideInv'
  <2>1. \A b \in Bodies : Inside(b)' \subseteq Inside(b)
      BY <1>1, <1>17 DEF Inside, PTypeOK, ThreadInv, Before, Leave, Goto, exchange, session, stopping
  <2>2. duplicate' = duplicate
      BY <1>17 DEF Leave, Goto, exchange, session, stopping
  <2>3. QED
      BY <1>1, <2>1, <2>2 DEF InsideInv
<1>18. ASSUME NEW r \in Requests, Release(r)
      PROVE  InsideInv'
  <2>1. \A b \in Bodies : Inside(b)' \subseteq Inside(b)
      BY <1>1, <1>18 DEF Inside, PTypeOK, ThreadInv, Before, Release, Goto, exchange, session, stopping, GivesBack
  <2>2. duplicate' = duplicate
      BY <1>18 DEF Release, Goto, exchange, session, stopping, GivesBack
  <2>3. QED
      BY <1>1, <2>1, <2>2 DEF InsideInv
<1>19. ASSUME NEW r \in Requests, End(r)
      PROVE  InsideInv'
  <2>1. \A b \in Bodies : Inside(b)' \subseteq Inside(b)
      BY <1>1, <1>19 DEF Inside, PTypeOK, ThreadInv, Before, End, Goto, exchange, session, stopping
  <2>2. duplicate' = duplicate
      BY <1>19 DEF End, Goto, exchange, session, stopping
  <2>3. QED
      BY <1>1, <2>1, <2>2 DEF InsideInv
<1>20. CASE BeginStop
    BY <1>1, <1>20 DEF BeginStop, exchange, session, InsideInv, Inside
<1>21. CASE Drain
    BY <1>1, <1>21 DEF Drain, exchange, session, InsideInv, Inside
<1>22. CASE DrainTimesOut
    BY <1>1, <1>22 DEF DrainTimesOut, exchange, session, InsideInv, Inside
<1>23. CASE CloseServer
    BY <1>1, <1>23 DEF CloseServer, exchange, session, InsideInv, Inside
<1>24. CASE CountUnmeasured
    BY <1>1, <1>24 DEF CountUnmeasured, exchange, session, InsideInv, Inside
<1>25. CASE ExplainUnmeasured
    BY <1>1, <1>25 DEF ExplainUnmeasured, exchange, session, InsideInv, Inside
<1>26. CASE StartIteration
    BY <1>1, <1>26 DEF StartIteration, exchange, session, InsideInv, Inside
<1>27. CASE EndIteration
    BY <1>1, <1>27 DEF EndIteration, exchange, session, InsideInv, Inside
<1>28. CASE UNCHANGED pvars
    BY <1>1, <1>28 DEF pvars, InsideInv, Inside
<1>29. QED
    BY <1>2, <1>3, <1>4, <1>5, <1>6, <1>7, <1>8, <1>9, <1>10, <1>11, <1>12,
       <1>13, <1>14, <1>15, <1>16, <1>17, <1>18, <1>19, <1>20, <1>21, <1>22,
       <1>23, <1>24, <1>25, <1>26, <1>27, <1>28
       DEF PNext, RequestStep, ReportStep

LEMMA ReasonKept ==
    ASSUME PInv, [PNext]_pvars
    PROVE  ReasonInv'
<1> USE DEF PTypeOK, ThreadInv, ReasonInv, Before
<1>1. PTypeOK /\ ThreadInv /\ ReasonInv
    BY DEF PInv
<1>2. ASSUME NEW r \in Requests, Accept(r)
      PROVE  ReasonInv'
    BY <1>1, <1>2 DEF Accept, Goto, exchange, session, stopping
<1>3. ASSUME NEW r \in Requests, Begin(r)
      PROVE  ReasonInv'
    BY <1>1, <1>3 DEF Begin, Goto, exchange, session, stopping
<1>4. ASSUME NEW r \in Requests, RejectFraming(r)
      PROVE  ReasonInv'
    BY <1>1, <1>4 DEF RejectFraming, Goto, exchange, session, stopping
<1>5. ASSUME NEW r \in Requests, TakeSlot(r)
      PROVE  ReasonInv'
    BY <1>1, <1>5 DEF TakeSlot, Goto, exchange, session, stopping, Standing
<1>6. ASSUME NEW r \in Requests, Enter(r)
      PROVE  ReasonInv'
    BY <1>1, <1>6 DEF Enter, Goto, exchange, session, stopping, Enters, EntersAt
<1>7. ASSUME NEW r \in Requests, SendLast(r)
      PROVE  ReasonInv'
    BY <1>1, <1>7 DEF SendLast, Goto, exchange, session, stopping
<1>8. ASSUME NEW r \in Requests, FailBefore(r)
      PROVE  ReasonInv'
    BY <1>1, <1>8 DEF FailBefore, Goto, exchange, session, stopping
<1>9. ASSUME NEW r \in Requests, Answer(r)
      PROVE  ReasonInv'
    BY <1>1, <1>9 DEF Answer, Goto, exchange, session, stopping, Enters, EntersAt
<1>10. ASSUME NEW r \in Requests, Relay(r)
      PROVE  ReasonInv'
    BY <1>1, <1>10 DEF Relay, Goto, exchange, session, stopping, AfterRelay
<1>11. ASSUME NEW r \in Requests, HeadersFail(r)
      PROVE  ReasonInv'
    BY <1>1, <1>11 DEF HeadersFail, Goto, exchange, session, stopping
<1>12. ASSUME NEW r \in Requests, InspectFails(r)
      PROVE  ReasonInv'
    BY <1>1, <1>12 DEF InspectFails, Goto, exchange, session, stopping
<1>13. ASSUME NEW r \in Requests, Absorb(r)
      PROVE  ReasonInv'
    BY <1>1, <1>13 DEF Absorb, Goto, exchange, session, stopping
<1>14. ASSUME NEW r \in Requests, Conclude(r)
      PROVE  ReasonInv'
    BY <1>1, <1>14 DEF Conclude, Goto, exchange, session, stopping
<1>15. ASSUME NEW r \in Requests, Explain(r)
      PROVE  ReasonInv'
    BY <1>1, <1>15 DEF Explain, Goto, exchange, session, stopping
<1>16. ASSUME NEW r \in Requests, Fail(r)
      PROVE  ReasonInv'
    BY <1>1, <1>16 DEF Fail, Goto, exchange, session, stopping
<1>17. ASSUME NEW r \in Requests, Leave(r)
      PROVE  ReasonInv'
    BY <1>1, <1>17 DEF Leave, Goto, exchange, session, stopping
<1>18. ASSUME NEW r \in Requests, Release(r)
      PROVE  ReasonInv'
    BY <1>1, <1>18 DEF Release, Goto, exchange, session, stopping, GivesBack
<1>19. ASSUME NEW r \in Requests, End(r)
      PROVE  ReasonInv'
    BY <1>1, <1>19 DEF End, Goto, exchange, session, stopping
<1>20. CASE BeginStop
    BY <1>1, <1>20 DEF BeginStop, exchange, session
<1>21. CASE Drain
    BY <1>1, <1>21 DEF Drain, exchange, session
<1>22. CASE DrainTimesOut
    BY <1>1, <1>22 DEF DrainTimesOut, exchange, session
<1>23. CASE CloseServer
    BY <1>1, <1>23 DEF CloseServer, exchange, session
<1>24. CASE CountUnmeasured
    BY <1>1, <1>24 DEF CountUnmeasured, exchange, session
<1>25. CASE ExplainUnmeasured
    BY <1>1, <1>25 DEF ExplainUnmeasured, exchange, session
<1>26. CASE StartIteration
    BY <1>1, <1>26 DEF StartIteration, exchange, session
<1>27. CASE EndIteration
    BY <1>1, <1>27 DEF EndIteration, exchange, session
<1>28. CASE UNCHANGED pvars
    BY <1>1, <1>28 DEF pvars
<1>29. QED
    BY <1>2, <1>3, <1>4, <1>5, <1>6, <1>7, <1>8, <1>9, <1>10, <1>11, <1>12,
       <1>13, <1>14, <1>15, <1>16, <1>17, <1>18, <1>19, <1>20, <1>21, <1>22,
       <1>23, <1>24, <1>25, <1>26, <1>27, <1>28
       DEF PNext, RequestStep, ReportStep

LEMMA ResultsKept ==
    ASSUME PInv, [PNext]_pvars
    PROVE  ResultsInv'
<1>1. PTypeOK /\ ThreadInv /\ ResultsInv
    BY DEF PInv
<1>2. ASSUME UNCHANGED << results, absorbed, body >>
      PROVE  ResultsInv'
    BY <1>1, <1>2 DEF ResultsInv, CarriedAtFullSize
<1>3. ASSUME NEW r \in Requests, Accept(r)
      PROVE  ResultsInv'
    BY <1>1, <1>2, <1>3 DEF Accept, Goto, exchange, session, stopping
<1>4. ASSUME NEW r \in Requests, Begin(r)
      PROVE  ResultsInv'
    BY <1>1, <1>2, <1>4 DEF Begin, Goto, exchange, session, stopping
<1>5. ASSUME NEW r \in Requests, RejectFraming(r)
      PROVE  ResultsInv'
    BY <1>1, <1>2, <1>5 DEF RejectFraming, Goto, exchange, session, stopping
<1>6. ASSUME NEW r \in Requests, TakeSlot(r)
      PROVE  ResultsInv'
    BY <1>1, <1>2, <1>6 DEF TakeSlot, Goto, exchange, session, stopping, Standing
<1>7. ASSUME NEW r \in Requests, Enter(r)
      PROVE  ResultsInv'
    BY <1>1, <1>2, <1>7 DEF Enter, Goto, exchange, session, stopping, Enters, EntersAt
<1>8. ASSUME NEW r \in Requests, SendLast(r)
      PROVE  ResultsInv'
    BY <1>1, <1>2, <1>8 DEF SendLast, Goto, exchange, session, stopping
<1>9. ASSUME NEW r \in Requests, FailBefore(r)
      PROVE  ResultsInv'
    BY <1>1, <1>2, <1>9 DEF FailBefore, Goto, exchange, session, stopping
<1>10. ASSUME NEW r \in Requests, Answer(r)
      PROVE  ResultsInv'
    BY <1>1, <1>2, <1>10 DEF Answer, Goto, exchange, session, stopping, Enters, EntersAt
<1>11. ASSUME NEW r \in Requests, Relay(r)
      PROVE  ResultsInv'
    BY <1>1, <1>2, <1>11 DEF Relay, Goto, exchange, session, stopping, AfterRelay
<1>12. ASSUME NEW r \in Requests, HeadersFail(r)
      PROVE  ResultsInv'
    BY <1>1, <1>2, <1>12 DEF HeadersFail, Goto, exchange, session, stopping
<1>13. ASSUME NEW r \in Requests, InspectFails(r)
      PROVE  ResultsInv'
    BY <1>1, <1>2, <1>13 DEF InspectFails, Goto, exchange, session, stopping
<1>14. ASSUME NEW r \in Requests, Absorb(r)
      PROVE  ResultsInv'
  <2> DEFINE mine == Results[body[r]]
             was(id) == {s \in absorbed : id \in DOMAIN Results[body[s]]}
             size(s, id) == Results[body[s]][id]
  <2>1. /\ results' = [id \in DOMAIN results \cup DOMAIN mine |->
                          IF id \in DOMAIN mine THEN Fold(Known(id), mine[id]) ELSE results[id]]
        /\ absorbed' = absorbed \cup {r} /\ body' = body
      BY <1>14 DEF Absorb, exchange
  <2>2. r \notin absorbed /\ body[r] \in Bodies
      BY <1>1, <1>14 DEF Absorb, Goto, ThreadInv, After, PTypeOK
  <2>3. IsFiniteSet(DOMAIN mine) /\ \A id \in DOMAIN mine : mine[id] \in Nat
      BY <2>2, ProxyAssumption
  <2>4. IsFiniteSet(absorbed)
      BY <1>1, FS_Subset, ProxyAssumption DEF PTypeOK
  <2>5. DOMAIN results' = DOMAIN results \cup DOMAIN mine
      BY <2>1
  <2>6. ASSUME NEW id \in DOMAIN mine
        PROVE  Known(id) \in [size : Nat, carried : Nat]
      BY <1>1 DEF Known, ResultsInv
  <2>7. ASSUME NEW id \in DOMAIN results'
        PROVE  results'[id] \in [size : Nat, carried : Nat]
    <3>1. CASE id \in DOMAIN mine
        BY <2>1, <2>3, <2>5, <2>6, <3>1 DEF Fold
    <3>2. CASE id \notin DOMAIN mine
        BY <1>1, <2>1, <2>5, <2>7, <3>2 DEF ResultsInv
    <3>3. QED
        BY <3>1, <3>2
  <2>8. ASSUME NEW id \in DOMAIN mine
        PROVE  /\ \A s \in was(id) : size(s, id) \in Nat /\ size(s, id) <= Known(id).size
               /\ Known(id).carried = Cardinality({s \in was(id) : size(s, id) = Known(id).size})
    <3>1. \A s \in was(id) : size(s, id) \in Nat
        BY <1>1, ProxyAssumption DEF PTypeOK
    <3>2. CASE id \in DOMAIN results
        BY <1>1, <3>1, <3>2 DEF Known, ResultsInv, CarriedAtFullSize
    <3>3. CASE id \notin DOMAIN results
      <4>1. was(id) = {}
          BY <1>1, <3>3 DEF ResultsInv
      <4>2. {s \in was(id) : size(s, id) = Known(id).size} = {}
          BY <4>1
      <4>3. Known(id).carried = 0
          BY <3>3 DEF Known
      <4>4. QED
          BY <4>1, <4>2, <4>3, FS_EmptySet
    <3>4. QED
        BY <3>2, <3>3
  <2>9. ASSUME NEW id \in DOMAIN results'
        PROVE  LET carriers == {s \in absorbed' : id \in DOMAIN Results[body'[s]]} IN
               /\ \A s \in carriers : Results[body'[s]][id] <= results'[id].size
               /\ results'[id].carried =
                     Cardinality({s \in carriers : Results[body'[s]][id] = results'[id].size})
    <3>1. CASE id \notin DOMAIN mine
      <4>1. id \in DOMAIN results /\ results'[id] = results[id]
          BY <2>1, <2>5, <2>9, <3>1
      <4>2. {s \in absorbed' : id \in DOMAIN Results[body'[s]]} = was(id)
          BY <2>1, <3>1
      <4>3. QED
          BY SMTT(30), <1>1, <2>1, <4>1, <4>2 DEF ResultsInv, CarriedAtFullSize
    <3>2. CASE id \in DOMAIN mine
      <4>1. PICK k \in Nat, m \in Nat : k = Known(id).size /\ m = mine[id]
          BY <2>3, <2>6, <3>2
      <4>2. PICK c \in Nat : c = Known(id).carried
          BY <2>6, <3>2
      <4> DEFINE carriers == was(id) \cup {r}
                 sized(n) == {s \in was(id) : size(s, id) = n}
      <4>3. {s \in absorbed' : id \in DOMAIN Results[body'[s]]} = carriers
          BY <2>1, <3>2
      <4>4. /\ \A s \in was(id) : size(s, id) \in Nat /\ size(s, id) <= k
            /\ c = Cardinality(sized(k)) /\ size(r, id) = m
          BY <2>8, <3>2, <4>1, <4>2
      <4>5. results'[id] = Fold(Known(id), m)
          BY <2>1, <2>5, <3>2, <4>1
      <4>6. Known(id) \in [size : Nat, carried : Nat]
          BY <2>6, <3>2
      <4>7. IsFiniteSet(sized(k)) /\ r \notin was(id)
          BY <2>2, <2>4, FS_Subset
      <4>8. /\ \A s \in carriers : size(s, id) <= results'[id].size
            /\ results'[id].carried = Cardinality({s \in carriers : size(s, id) = results'[id].size})
        <5>1. CASE m > k
          <6>1. results'[id] = [size |-> m, carried |-> 1]
              BY <4>1, <4>5, <5>1 DEF Fold
          <6>2. {s \in carriers : size(s, id) = m} = {r}
              BY <4>1, <4>4, <5>1
          <6>3. Cardinality({r}) = 1
              BY FS_Singleton
          <6>4. \A s \in carriers : size(s, id) <= m
              BY <4>1, <4>4, <5>1
          <6>5. results'[id].size = m /\ results'[id].carried = 1
              BY <6>1
          <6> HIDE DEF carriers, size
          <6>6. QED
              BY <6>2, <6>3, <6>4, <6>5
        <5>2. CASE m = k
          <6>1. results'[id].size = k /\ results'[id].carried = c + 1
              BY <4>1, <4>2, <4>5, <4>6, <5>2 DEF Fold
          <6>2. {s \in carriers : size(s, id) = k} = sized(k) \cup {r} /\ r \notin sized(k)
              BY <4>4, <4>7, <5>2
          <6>3. Cardinality(sized(k) \cup {r}) = c + 1
              BY <4>4, <4>7, <6>2, OneMore
          <6>4. ASSUME NEW s \in carriers
                PROVE  size(s, id) <= k
            <7>1. CASE s = r
              <8>1. size(s, id) = k
                  BY <4>4, <5>2, <7>1
              <8>2. k \in Nat
                  BY <4>1
              <8>3. QED
                  BY <8>1, <8>2
            <7>2. CASE s \in was(id)
                BY <4>4, <7>2
            <7>3. QED
                BY <7>1, <7>2
          <6>5. QED
              BY <6>1, <6>2, <6>3, <6>4
        <5>3. CASE m < k
          <6>1. results'[id] = Known(id)
              BY <4>1, <4>5, <5>3 DEF Fold
          <6>2. {s \in carriers : size(s, id) = k} = sized(k)
              BY <4>1, <4>4, <5>3
          <6>3. \A s \in carriers : size(s, id) <= k
              BY <4>1, <4>4, <5>3
          <6>4. QED
              BY <4>1, <4>2, <4>4, <6>1, <6>2, <6>3
        <5>4. QED
            BY <4>1, <5>1, <5>2, <5>3
      <4>9. QED
          BY <2>1, <4>3, <4>8
    <3>3. QED
        BY <3>1, <3>2
  <2>10. IsFiniteSet(DOMAIN results')
    <3>1. IsFiniteSet(DOMAIN results)
        BY <1>1 DEF ResultsInv
    <3>2. IsFiniteSet(DOMAIN results \cup DOMAIN mine)
        BY <2>3, <3>1, FS_Union
    <3>3. QED
        BY <2>5, <3>2
  <2>11. results' = [id \in DOMAIN results' |-> results'[id]]
      BY <2>1
  <2>12. \A s \in absorbed' : DOMAIN Results[body'[s]] \subseteq DOMAIN results'
      BY <1>1, <2>1, <2>5 DEF ResultsInv
  <2>13. CarriedAtFullSize'
      BY <2>9 DEF CarriedAtFullSize
  <2>14. QED
      BY <2>7, <2>10, <2>11, <2>12, <2>13 DEF ResultsInv
<1>15. ASSUME NEW r \in Requests, Conclude(r)
      PROVE  ResultsInv'
    BY <1>1, <1>2, <1>15 DEF Conclude, Goto, exchange, session, stopping
<1>16. ASSUME NEW r \in Requests, Explain(r)
      PROVE  ResultsInv'
    BY <1>1, <1>2, <1>16 DEF Explain, Goto, exchange, session, stopping
<1>17. ASSUME NEW r \in Requests, Fail(r)
      PROVE  ResultsInv'
    BY <1>1, <1>2, <1>17 DEF Fail, Goto, exchange, session, stopping
<1>18. ASSUME NEW r \in Requests, Leave(r)
      PROVE  ResultsInv'
    BY <1>1, <1>2, <1>18 DEF Leave, Goto, exchange, session, stopping
<1>19. ASSUME NEW r \in Requests, Release(r)
      PROVE  ResultsInv'
    BY <1>1, <1>2, <1>19 DEF Release, Goto, exchange, session, stopping, GivesBack
<1>20. ASSUME NEW r \in Requests, End(r)
      PROVE  ResultsInv'
    BY <1>1, <1>2, <1>20 DEF End, Goto, exchange, session, stopping
<1>21. CASE BeginStop
    BY <1>1, <1>2, <1>21 DEF BeginStop, exchange, session
<1>22. CASE Drain
    BY <1>1, <1>2, <1>22 DEF Drain, exchange, session
<1>23. CASE DrainTimesOut
    BY <1>1, <1>2, <1>23 DEF DrainTimesOut, exchange, session
<1>24. CASE CloseServer
    BY <1>1, <1>2, <1>24 DEF CloseServer, exchange, session
<1>25. CASE CountUnmeasured
    BY <1>1, <1>2, <1>25 DEF CountUnmeasured, exchange, session
<1>26. CASE ExplainUnmeasured
    BY <1>1, <1>2, <1>26 DEF ExplainUnmeasured, exchange, session
<1>27. CASE StartIteration
    BY <1>1, <1>2, <1>27 DEF StartIteration, exchange, session
<1>28. CASE EndIteration
    BY <1>1, <1>2, <1>28 DEF EndIteration, exchange, session
<1>29. CASE UNCHANGED pvars
    BY <1>1, <1>2, <1>29 DEF pvars
<1>30. QED
    BY <1>3, <1>4, <1>5, <1>6, <1>7, <1>8, <1>9, <1>10, <1>11, <1>12, <1>13,
       <1>14, <1>15, <1>16, <1>17, <1>18, <1>19, <1>20, <1>21, <1>22, <1>23,
       <1>24, <1>25, <1>26, <1>27, <1>28, <1>29
       DEF PNext, RequestStep, ReportStep

LEMMA ReportKept ==
    ASSUME PInv, [PNext]_pvars
    PROVE  ReportInv'
<1>1. PTypeOK /\ Accounts /\ RecordedInv /\ ReasonInv /\ ReportInv
    BY DEF PInv
<1>2. ASSUME UNCHANGED stopping, ~Quiet
      PROVE  ReportInv'
    BY <1>1, <1>2 DEF ReportInv, Quiet, stopping
<1>3. ASSUME NEW r \in Requests, at[r] \notin {"unsent", "accepted", "done"}, UNCHANGED stopping
      PROVE  ReportInv'
    BY <1>1, <1>2, <1>3 DEF ReportInv
<1>4. ASSUME NEW r \in Requests, Accept(r)
      PROVE  ReportInv'
    BY <1>1, <1>2, <1>4 DEF Accept, stopping, Quiet, ReportInv
<1>5. ASSUME NEW r \in Requests, Begin(r)
      PROVE  ReportInv'
  <2>1. ~Quiet'
      BY <1>5 DEF Begin, Quiet
  <2>2. UNCHANGED << server, stop, timedOut, counted, explained, seen >>
      BY <1>5 DEF Begin
  <2>3. QED
      BY <1>1, <2>1, <2>2 DEF ReportInv
<1>6. ASSUME NEW r \in Requests, RejectFraming(r)
      PROVE  ReportInv'
    BY <1>3, <1>6 DEF RejectFraming, Goto, stopping
<1>7. ASSUME NEW r \in Requests, TakeSlot(r)
      PROVE  ReportInv'
    BY <1>3, <1>7 DEF TakeSlot, Goto, stopping
<1>8. ASSUME NEW r \in Requests, Enter(r)
      PROVE  ReportInv'
    BY <1>3, <1>8 DEF Enter, Goto, stopping
<1>9. ASSUME NEW r \in Requests, SendLast(r)
      PROVE  ReportInv'
    BY <1>3, <1>9 DEF SendLast, Goto, stopping
<1>10. ASSUME NEW r \in Requests, FailBefore(r)
      PROVE  ReportInv'
    BY <1>3, <1>10 DEF FailBefore, Goto, stopping
<1>11. ASSUME NEW r \in Requests, Answer(r)
      PROVE  ReportInv'
    BY <1>3, <1>11 DEF Answer, Goto, stopping
<1>12. ASSUME NEW r \in Requests, Relay(r)
      PROVE  ReportInv'
    BY <1>3, <1>12 DEF Relay, Goto, stopping, AfterRelay
<1>13. ASSUME NEW r \in Requests, HeadersFail(r)
      PROVE  ReportInv'
    BY <1>3, <1>13 DEF HeadersFail, Goto, stopping
<1>14. ASSUME NEW r \in Requests, InspectFails(r)
      PROVE  ReportInv'
    BY <1>3, <1>14 DEF InspectFails, Goto, stopping
<1>15. ASSUME NEW r \in Requests, Absorb(r)
      PROVE  ReportInv'
    BY <1>3, <1>15 DEF Absorb, Goto, stopping
<1>16. ASSUME NEW r \in Requests, Conclude(r)
      PROVE  ReportInv'
    BY <1>3, <1>16 DEF Conclude, Goto, stopping
<1>17. ASSUME NEW r \in Requests, Explain(r)
      PROVE  ReportInv'
    BY <1>3, <1>17 DEF Explain, Goto, stopping
<1>18. ASSUME NEW r \in Requests, Fail(r)
      PROVE  ReportInv'
    BY <1>3, <1>18 DEF Fail, Goto, stopping
<1>19. ASSUME NEW r \in Requests, Leave(r)
      PROVE  ReportInv'
    BY <1>3, <1>19 DEF Leave, Goto, stopping
<1>20. ASSUME NEW r \in Requests, Release(r)
      PROVE  ReportInv'
    BY <1>3, <1>20 DEF Release, Goto, stopping
<1>21. ASSUME NEW r \in Requests, End(r)
      PROVE  ReportInv'
    BY <1>3, <1>21 DEF End, Goto, stopping
<1>22. CASE BeginStop
    BY <1>1, <1>22 DEF BeginStop, exchange, session, ReportInv, Quiet
<1>23. CASE Drain
  <2>1. Begun = {}
    <3>1. Cardinality(Begun) = 0
        BY <1>1, <1>23 DEF Drain, Drained, Accounts
    <3>2. QED
        BY <3>1, Finite, FS_EmptySet
  <2>2. \A r \in Requests : at[r] \in {"unsent", "accepted", "done"}
      BY <2>1 DEF Begun
  <2>3. stop = "drain" /\ stop' = "close" /\ UNCHANGED << at, server, timedOut, counted, explained, seen, late >>
      BY <1>23 DEF Drain
  <2>4. QED
      BY <1>1, <2>2, <2>3 DEF ReportInv, Quiet
<1>24. CASE DrainTimesOut
    BY <1>1, <1>24 DEF DrainTimesOut, exchange, session, ReportInv, Quiet
<1>25. CASE CloseServer
    BY <1>1, <1>25 DEF CloseServer, exchange, session, ReportInv, Quiet
<1>26. CASE CountUnmeasured
    BY <1>1, <1>26 DEF CountUnmeasured, exchange, session, ReportInv, Quiet, Unmeasured
<1>27. CASE ExplainUnmeasured
  <2>1. /\ stop = "explain" /\ stop' = "iterate"
        /\ UNCHANGED << at, results, server, timedOut, counted, seen, late >>
        /\ explained' = {r \in counted \cap Unmeasured : reason[r] # ""}
      BY <1>27 DEF ExplainUnmeasured, session
  <2>2. ASSUME NEW r \in Unmeasured
        PROVE  reason[r] # ""
    <3>1. exchanges \in Seq(Requests)
        BY <1>1 DEF PTypeOK
    <3>2. PICK i \in DOMAIN exchanges : r = exchanges[i] /\ ~measured[exchanges[i]]
        BY DEF Unmeasured
    <3>3. r \in Requests /\ IsRecorded(r) /\ ~measured[r]
        BY <3>1, <3>2 DEF IsRecorded
    <3>4. QED
        BY <1>1, <3>3 DEF RecordedInv, ReasonInv
  <2>3. Quiet => explained' = counted
      BY <1>1, <2>1, <2>2 DEF ReportInv
  <2>4. QED
      BY <1>1, <2>1, <2>3 DEF ReportInv, Quiet
<1>28. CASE StartIteration
    BY <1>1, <1>28 DEF StartIteration, exchange, session, ReportInv, Quiet
<1>29. CASE EndIteration
    BY <1>1, <1>29 DEF EndIteration, exchange, session, ReportInv, Quiet
<1>30. CASE UNCHANGED pvars
    BY <1>1, <1>30 DEF pvars, ReportInv, Quiet, Unmeasured
<1>31. QED
    BY <1>4, <1>5, <1>6, <1>7, <1>8, <1>9, <1>10, <1>11, <1>12, <1>13, <1>14,
       <1>15, <1>16, <1>17, <1>18, <1>19, <1>20, <1>21, <1>22, <1>23, <1>24,
       <1>25, <1>26, <1>27, <1>28, <1>29, <1>30
       DEF PNext, RequestStep, ReportStep

LEMMA ProxyInitially == PInit => PInv
<1> SUFFICES ASSUME PInit
             PROVE  PInv
    OBVIOUS
<1>1. Begun = {} /\ Holders = {} /\ \A b \in Bodies : Inside(b) = {}
    BY DEF PInit, Begun, Holders, Inside
<1>2. PTypeOK
  <2>1. exchanges \in Seq(Requests)
    <3>1. exchanges = << >>
        BY DEF PInit
    <3>2. QED
        BY <3>1
  <2>2. free \in 0..Slots
    <3>1. free = Slots /\ Slots \in Nat
        BY ProxyAssumption DEF PInit
    <3>2. QED
        BY <3>1
  <2>3. idle \in BOOLEAN /\ timedOut \in BOOLEAN
      BY DEF PInit
  <2>4. pending \in [Bodies -> Nat] /\ body \in [Requests -> Bodies]
      BY DEF PInit
  <2>5. /\ slot \in [Requests -> BOOLEAN] /\ entered \in [Requests -> BOOLEAN]
        /\ answered \in [Requests -> BOOLEAN] /\ duplicate \in [Requests -> BOOLEAN]
        /\ measured \in [Requests -> BOOLEAN]
      BY DEF PInit
  <2>6. QED
      BY <2>1, <2>2, <2>3, <2>4, <2>5 DEF PInit, PTypeOK, Points, Reasons
<1>3. Accounts
  <2>1. Cardinality({}) = 0
      BY FS_EmptySet
  <2>2. inFlight = 0 /\ idle /\ free = Slots /\ Slots \in Nat
      BY ProxyAssumption DEF PInit
  <2>3. \A b \in Bodies : pending[b] = 0
      BY DEF PInit
  <2>4. QED
      BY <1>1, <2>1, <2>2, <2>3 DEF Accounts
<1>4. ThreadInv
    BY DEF PInit, ThreadInv, Before, InFlight
<1>5. RecordedInv
  <2>1. exchanges = << >> /\ \A r \in Requests : ~answered[r]
      BY DEF PInit
  <2>2. DOMAIN exchanges = {}
      BY <2>1
  <2>3. QED
      BY <2>1, <2>2 DEF RecordedInv, IsRecorded
<1>6. InsideInv /\ ReasonInv
    BY <1>1 DEF PInit, InsideInv, ReasonInv
<1>7. ResultsInv
  <2>1. results = << >> /\ absorbed = {}
      BY DEF PInit
  <2>2. DOMAIN results = {}
      BY <2>1
  <2>3. results = [id \in DOMAIN results |-> results[id]]
      BY <2>1
  <2>4. QED
      BY <2>1, <2>2, <2>3, FS_EmptySet DEF ResultsInv, CarriedAtFullSize
<1>8. ReportInv
    BY DEF PInit, ReportInv, Quiet
<1>9. QED
    BY <1>2, <1>3, <1>4, <1>5, <1>6, <1>7, <1>8 DEF PInv

LEMMA ProxyKept == PInv /\ [PNext]_pvars => PInv'
    BY ProxyTypeKept, AccountsKept, ThreadKept, RecordedKept, InsideKept, ReasonKept,
       ResultsKept, ReportKept DEF PInv

(* The invariant gives what the session and the report promise. *)
LEMMA ProxyIsRight ==
    ASSUME PInv
    PROVE  SharedIsRight /\ ReportAccounts
<1>1. /\ PTypeOK /\ Accounts /\ ThreadInv /\ RecordedInv
      /\ InsideInv /\ ReasonInv /\ ResultsInv /\ ReportInv
    BY DEF PInv
<1>2. DuplicatesMarked
  <2>1. ASSUME NEW r \in Requests, NEW s \in Requests, r # s, body[r] = body[s],
               at[r] \in InFlight, at[s] \in InFlight
        PROVE  duplicate[r] \/ duplicate[s]
    <3>1. body[r] \in Bodies /\ r \in Inside(body[r]) /\ s \in Inside(body[r])
        BY <1>1, <2>1 DEF PTypeOK, ThreadInv, Inside, InFlight
    <3>2. QED
        BY <1>1, <2>1, <3>1 DEF InsideInv
  <2>2. QED
      BY <2>1 DEF DuplicatesMarked
<1>3. UnmeasuredSaysWhy
    BY <1>1 DEF UnmeasuredSaysWhy, RecordedInv, ReasonInv
<1>4. ReportIsWhole
  <2>1. ASSUME stop \in {"written", "raised"}, ~timedOut, late = {}
        PROVE  /\ stop = "written" /\ counted = explained
               /\ \A r \in Requests : answered[r] => IsRecorded(r) /\ at[r] = "done"
    <3>1. Quiet
        BY <2>1 DEF Quiet
    <3>2. stop = "written" /\ counted = explained
        BY <1>1, <2>1, <3>1 DEF ReportInv
    <3>3. ASSUME NEW r \in Requests, answered[r]
          PROVE  IsRecorded(r) /\ at[r] = "done"
        BY <1>1, <3>1, <3>3 DEF ReportInv, RecordedInv, ThreadInv, Before
    <3>4. QED
        BY <3>2, <3>3
  <2>2. QED
      BY <2>1 DEF ReportIsWhole
<1>5. QED
    BY <1>1, <1>2, <1>3, <1>4 DEF SharedIsRight, ReportAccounts, ResultsInv

-----------------------------------------------------------------------------
(* The command: the proxy with its supervision. *)

(* Every step of the command is a step of the proxy or leaves it alone. *)
LEMMA Composed == [Next]_vars => [PNext]_pvars
<1> SUFFICES ASSUME [Next]_vars
             PROVE  [PNext]_pvars
    OBVIOUS
<1>1. ASSUME NEW r \in Requests, Send(r) \/ Thread(r)
      PROVE  PNext
    BY <1>1 DEF Send, Thread, PNext
<1>2. CASE Stopping \/ Reporting
    BY <1>2 DEF Stopping, Reporting, PNext
<1>3. CASE Supervision \/ Signals \/ LeaveStop \/ Reported \/ ReportRaises \/ Over \/ UNCHANGED vars
    BY <1>3 DEF Supervision, Signals, LeaveStop, Reported, ReportRaises, Over, vars, pvars
<1>4. QED
    BY <1>1, <1>2, <1>3 DEF Next

LEMMA SupervisionTyped ==
    ASSUME STypeOK, SupervisionInv, [Next]_vars
    PROVE  STypeOK'
<1> USE SignalsAssumption DEF STypeOK, SupervisionInv, Mains, Escalating, Handled, Waiting, Running
<1>1. STypeOK /\ SupervisionInv
    OBVIOUS
<1>2. ASSUME NEW r \in Requests, Accept(r) \/ RequestStep(r)
      PROVE  UNCHANGED stop
    BY <1>2 DEF Accept, RequestStep, Begin, RejectFraming, TakeSlot, Enter, SendLast, FailBefore, Answer,
                Relay, HeadersFail, InspectFails, Absorb, Conclude, Explain, Fail, Leave, Release, End,
                stopping
<1>3. ASSUME ClientExits, UNCHANGED pvars
      PROVE  STypeOK'
    BY <1>1, <1>3 DEF ClientExits, pvars
<1>4. ASSUME KillerFires, UNCHANGED pvars
      PROVE  STypeOK'
    BY <1>1, <1>4 DEF KillerFires, Alive, pvars
<1>5. ASSUME Spawn, UNCHANGED pvars
      PROVE  STypeOK'
    BY <1>1, <1>5 DEF Spawn, pvars
<1>6. ASSUME Install, UNCHANGED pvars
      PROVE  STypeOK'
    BY <1>1, <1>6 DEF Install, pvars
<1>7. ASSUME Reap, UNCHANGED pvars
      PROVE  STypeOK'
    BY <1>1, <1>7 DEF Reap, pvars
<1>8. ASSUME Brief, UNCHANGED pvars
      PROVE  STypeOK'
    BY <1>1, <1>8 DEF Brief, pvars
<1>9. ASSUME CountInterrupt, UNCHANGED pvars
      PROVE  STypeOK'
    BY <1>1, <1>9 DEF CountInterrupt, CountRequest, pvars
<1>10. ASSUME FirstInterrupt, UNCHANGED pvars
      PROVE  STypeOK'
    BY <1>1, <1>10 DEF FirstInterrupt, Escape, NextStep, Alive, pvars
<1>11. ASSUME FurtherInterrupt, UNCHANGED pvars
      PROVE  STypeOK'
    BY <1>1, <1>11 DEF FurtherInterrupt, Forced, Alive, pvars
<1>12. ASSUME ArmInterrupt, UNCHANGED pvars
      PROVE  STypeOK'
    BY <1>1, <1>12 DEF ArmInterrupt, NextStep, pvars
<1>13. ASSUME Restore, UNCHANGED pvars
      PROVE  STypeOK'
    BY <1>1, <1>13 DEF Restore, pvars
<1>14. ASSUME CountTerm, UNCHANGED pvars
      PROVE  STypeOK'
    BY <1>1, <1>14 DEF CountTerm, CountRequest, pvars
<1>15. ASSUME ActTerm, UNCHANGED pvars
      PROVE  STypeOK'
    BY <1>1, <1>15 DEF ActTerm, Forced, Alive, pvars
<1>16. ASSUME ArmTerm, UNCHANGED pvars
      PROVE  STypeOK'
    BY <1>1, <1>16 DEF ArmTerm, pvars
<1>17. ASSUME Term, UNCHANGED pvars
      PROVE  STypeOK'
    BY <1>1, <1>17 DEF Term, Deliver, pvars
<1>18. ASSUME TermOnTop, UNCHANGED pvars
      PROVE  STypeOK'
    BY <1>1, <1>18 DEF TermOnTop, Deliver, CountRequest, Forced, Alive, pvars
<1>19. ASSUME TermEnds, UNCHANGED pvars
      PROVE  STypeOK'
    BY <1>1, <1>19 DEF TermEnds, Deliver, pvars
<1>20. ASSUME NEW exits \in BOOLEAN, CaughtInterrupt(exits), UNCHANGED pvars
      PROVE  STypeOK'
    BY <1>1, <1>20 DEF CaughtInterrupt, Deliver, Ctrl, Alive, pvars
<1>21. ASSUME NEW exits \in BOOLEAN, LostInterrupt(exits), UNCHANGED pvars
      PROVE  STypeOK'
    BY <1>1, <1>21 DEF LostInterrupt, Deliver, Ctrl, Alive, Escape, pvars
<1>22. ASSUME NEW exits \in BOOLEAN, LateInterrupt(exits), UNCHANGED pvars
      PROVE  STypeOK'
    BY <1>1, <1>22 DEF LateInterrupt, Deliver, Ctrl, Alive, pvars
<1>23. CASE Stopping
    BY <1>1, <1>23 DEF Stopping, BeginStop, Drain, DrainTimesOut, CloseServer, svars
<1>24. CASE LeaveStop
    BY <1>1, <1>24 DEF LeaveStop, Stopped, pvars
<1>25. CASE Reporting
    BY <1>1, <1>25 DEF Reporting, ReportStep, CountUnmeasured, ExplainUnmeasured, StartIteration, EndIteration, svars
<1>26. CASE Reported
    BY <1>1, <1>26 DEF Reported, Report, pvars
<1>27. CASE ReportRaises
    BY <1>1, <1>27 DEF ReportRaises, pvars
<1>28. CASE UNCHANGED vars
    BY <1>1, <1>28 DEF vars, svars, pvars
<1>29. ASSUME NEW r \in Requests, Send(r) \/ Thread(r)
      PROVE  STypeOK'
    BY <1>1, <1>2, <1>29 DEF Send, Thread, svars
<1>30. QED
    BY <1>3, <1>4, <1>5, <1>6, <1>7, <1>8, <1>9, <1>10, <1>11, <1>12, <1>13,
       <1>14, <1>15, <1>16, <1>17, <1>18, <1>19, <1>20, <1>21, <1>22, <1>23,
       <1>24, <1>25, <1>26, <1>27, <1>28, <1>29
       DEF Next, Supervision, Signals, MainStep, HandlerStep, Signal, Interrupt, Over

LEMMA SupervisionKept ==
    ASSUME STypeOK, SupervisionInv, [Next]_vars
    PROVE  SupervisionInv'
<1> USE SignalsAssumption DEF STypeOK, SupervisionInv, Escalating, Handled, Waiting, Running, WayOut, Alive
<1>1. STypeOK /\ SupervisionInv
    OBVIOUS
<1>2. ASSUME NEW r \in Requests, Accept(r) \/ RequestStep(r)
      PROVE  UNCHANGED stop
    BY <1>2 DEF Accept, RequestStep, Begin, RejectFraming, TakeSlot, Enter, SendLast, FailBefore, Answer,
                Relay, HeadersFail, InspectFails, Absorb, Conclude, Explain, Fail, Leave, Release, End,
                stopping
<1>3. ASSUME ClientExits, UNCHANGED pvars
      PROVE  SupervisionInv'
    BY <1>1, <1>3 DEF ClientExits, pvars
<1>4. ASSUME KillerFires, UNCHANGED pvars
      PROVE  SupervisionInv'
    BY <1>1, <1>4 DEF KillerFires, Alive, pvars
<1>5. ASSUME Spawn, UNCHANGED pvars
      PROVE  SupervisionInv'
    BY <1>1, <1>5 DEF Spawn, pvars
<1>6. ASSUME Install, UNCHANGED pvars
      PROVE  SupervisionInv'
    BY <1>1, <1>6 DEF Install, pvars
<1>7. ASSUME Reap, UNCHANGED pvars
      PROVE  SupervisionInv'
    BY <1>1, <1>7 DEF Reap, pvars
<1>8. ASSUME Brief, UNCHANGED pvars
      PROVE  SupervisionInv'
    BY <1>1, <1>8 DEF Brief, pvars
<1>9. ASSUME CountInterrupt, UNCHANGED pvars
      PROVE  SupervisionInv'
    BY <1>1, <1>9 DEF CountInterrupt, CountRequest, pvars
<1>10. ASSUME FirstInterrupt, UNCHANGED pvars
      PROVE  SupervisionInv'
    BY <1>1, <1>10 DEF FirstInterrupt, Escape, NextStep, Alive, pvars
<1>11. ASSUME FurtherInterrupt, UNCHANGED pvars
      PROVE  SupervisionInv'
    BY <1>1, <1>11 DEF FurtherInterrupt, Forced, Alive, pvars
<1>12. ASSUME ArmInterrupt, UNCHANGED pvars
      PROVE  SupervisionInv'
    BY <1>1, <1>12 DEF ArmInterrupt, NextStep, pvars
<1>13. ASSUME Restore, UNCHANGED pvars
      PROVE  SupervisionInv'
    BY <1>1, <1>13 DEF Restore, pvars
<1>14. ASSUME CountTerm, UNCHANGED pvars
      PROVE  SupervisionInv'
    BY <1>1, <1>14 DEF CountTerm, CountRequest, pvars
<1>15. ASSUME ActTerm, UNCHANGED pvars
      PROVE  SupervisionInv'
    BY <1>1, <1>15 DEF ActTerm, Forced, Alive, pvars
<1>16. ASSUME ArmTerm, UNCHANGED pvars
      PROVE  SupervisionInv'
    BY <1>1, <1>16 DEF ArmTerm, pvars
<1>17. ASSUME Term, UNCHANGED pvars
      PROVE  SupervisionInv'
    BY <1>1, <1>17 DEF Term, Deliver, pvars
<1>18. ASSUME TermOnTop, UNCHANGED pvars
      PROVE  SupervisionInv'
    BY <1>1, <1>18 DEF TermOnTop, Deliver, CountRequest, Forced, Alive, pvars
<1>19. ASSUME TermEnds, UNCHANGED pvars
      PROVE  SupervisionInv'
    BY <1>1, <1>19 DEF TermEnds, Deliver, pvars
<1>20. ASSUME NEW exits \in BOOLEAN, CaughtInterrupt(exits), UNCHANGED pvars
      PROVE  SupervisionInv'
    BY <1>1, <1>20 DEF CaughtInterrupt, Deliver, Ctrl, Alive, pvars
<1>21. ASSUME NEW exits \in BOOLEAN, LostInterrupt(exits), UNCHANGED pvars
      PROVE  SupervisionInv'
    BY <1>1, <1>21 DEF LostInterrupt, Deliver, Ctrl, Alive, Escape, pvars
<1>22. ASSUME NEW exits \in BOOLEAN, LateInterrupt(exits), UNCHANGED pvars
      PROVE  SupervisionInv'
    BY <1>1, <1>22 DEF LateInterrupt, Deliver, Ctrl, Alive, pvars
<1>23. CASE Stopping
    BY <1>1, <1>23 DEF Stopping, BeginStop, Drain, DrainTimesOut, CloseServer, svars
<1>24. CASE LeaveStop
    BY <1>1, <1>24 DEF LeaveStop, Stopped, pvars
<1>25. CASE Reporting
    BY <1>1, <1>25 DEF Reporting, ReportStep, CountUnmeasured, ExplainUnmeasured, StartIteration, EndIteration, svars
<1>26. CASE Reported
    BY <1>1, <1>26 DEF Reported, Report, pvars
<1>27. CASE ReportRaises
    BY <1>1, <1>27 DEF ReportRaises, pvars
<1>28. CASE UNCHANGED vars
    BY <1>1, <1>28 DEF vars, svars, pvars
<1>29. ASSUME NEW r \in Requests, Send(r) \/ Thread(r)
      PROVE  SupervisionInv'
    BY <1>1, <1>2, <1>29 DEF Send, Thread, svars
<1>30. QED
    BY <1>3, <1>4, <1>5, <1>6, <1>7, <1>8, <1>9, <1>10, <1>11, <1>12, <1>13,
       <1>14, <1>15, <1>16, <1>17, <1>18, <1>19, <1>20, <1>21, <1>22, <1>23,
       <1>24, <1>25, <1>26, <1>27, <1>28, <1>29
       DEF Next, Supervision, Signals, MainStep, HandlerStep, Signal, Interrupt, Over

LEMMA WatchInvariant == Spec => []WatchInv
<1>1. Init => WatchInv
  <2> SUFFICES ASSUME Init
               PROVE  WatchInv
      OBVIOUS
  <2>1. PInv
      BY ProxyInitially DEF Init
  <2>2. STypeOK /\ SupervisionInv
    <3>1. stop = "no"
        BY DEF Init, PInit
    <3>2. SInit
        BY DEF Init
    <3>3. STypeOK
      <4>1. 0 \in 0..MaxSignals
          BY SignalsAssumption
      <4>2. QED
          BY <3>2, <4>1 DEF SInit, STypeOK, Mains
    <3>4. SupervisionInv
        BY <3>1, <3>2 DEF SInit, SupervisionInv, Waiting, Escalating, WayOut, Running, Alive
    <3>5. QED
        BY <3>3, <3>4
  <2>3. QED
      BY <2>1, <2>2 DEF WatchInv
<1>2. WatchInv /\ [Next]_vars => WatchInv'
    BY ProxyKept, Composed, SupervisionTyped, SupervisionKept DEF WatchInv
<1>3. QED
    BY <1>1, <1>2, PTL DEF Spec

(* The proxy and its supervision are typed in every behaviour. *)
THEOREM WatchTyped == Spec => []TypeOK
<1>1. WatchInv => TypeOK
    BY DEF WatchInv, PInv, TypeOK
<1>2. QED
    BY <1>1, WatchInvariant, PTL

(* Whatever fails in whichever request's thread: the counts of requests,   *)
(* slots and bodies are right, one of two identical requests in flight is  *)
(* marked, and tool results are known at their full size (watch/proxy.py   *)
(* _forward, Session).                                                     *)
THEOREM SharedStaysRight == Spec => []SharedIsRight
<1>1. WatchInv => SharedIsRight
    BY ProxyIsRight DEF WatchInv
<1>2. QED
    BY <1>1, WatchInvariant, PTL

(* Every exchange that is not measured has a reason at every step, and a   *)
(* report after a drain that did not time out is whole and is written      *)
(* (watch/report.py render, watch/proxy.py stop).                          *)
THEOREM ReportsAccount == Spec => []ReportAccounts
<1>1. WatchInv => ReportAccounts
    BY ProxyIsRight DEF WatchInv
<1>2. QED
    BY <1>1, WatchInvariant, PTL

(* The proxy holds its port while the client runs, for any number of       *)
(* signals at any steps (cli/watch.py _supervise).                         *)
THEOREM ClientKeepsProxy == Spec => []OutlivesClient
<1>1. WatchInv => OutlivesClient
    BY DEF WatchInv, PInv, ReportInv, SupervisionInv, OutlivesClient, WayOut
<1>2. QED
    BY <1>1, WatchInvariant, PTL

-----------------------------------------------------------------------------
(* UsageReader. *)

(* What sequences of two and of three are, appended to, joined and cut. *)
LEMMA PairIs ==
    ASSUME NEW S, NEW s \in Seq(S), NEW a \in S, NEW b \in S, Len(s) = 2, s[1] = a, s[2] = b
    PROVE  s = << a, b >>
<1> DEFINE t == << a, b >>
<1>1. t \in Seq(S) /\ Len(t) = 2 /\ t[1] = a /\ t[2] = b
    OBVIOUS
<1>2. \A i \in 1..Len(s) : s[i] = t[i]
  <2> HIDE DEF t
  <2> QED
      BY <1>1
<1> HIDE DEF t
<1>3. s = t
    BY <1>1, <1>2, SeqEqual
<1>4. QED
    BY <1>3 DEF t

LEMMA TripleIs ==
    ASSUME NEW S, NEW s \in Seq(S), NEW a \in S, NEW b \in S, NEW c \in S,
           Len(s) = 3, s[1] = a, s[2] = b, s[3] = c
    PROVE  s = << a, b, c >>
<1> DEFINE t == << a, b, c >>
<1>1. t \in Seq(S) /\ Len(t) = 3 /\ t[1] = a /\ t[2] = b /\ t[3] = c
    OBVIOUS
<1>2. \A i \in 1..Len(s) : s[i] = t[i]
  <2> HIDE DEF t
  <2> QED
      BY <1>1
<1> HIDE DEF t
<1>3. s = t
    BY <1>1, <1>2, SeqEqual
<1>4. QED
    BY <1>3 DEF t

LEMMA OneIs ==
    ASSUME NEW S, NEW a \in S
    PROVE  /\ << a >> \in Seq(S) /\ << a >> # << >> /\ Append(<< >>, a) = << a >>
           /\ Head(<< a >>) = a /\ Last(<< a >>) = a /\ Front(<< a >>) = << >>
<1>1. /\ << a >> \in Seq(S) /\ << a >> # << >> /\ Append(<< >>, a) = << a >>
      /\ Head(<< a >>) = a
    OBVIOUS
<1>2. Last(<< a >>) = a
    BY DEF Last
<1>3. Front(<< a >>) = << >>
    BY DEF Front
<1>4. QED
    BY <1>1, <1>2, <1>3

LEMMA TwoAre ==
    ASSUME NEW S, NEW a \in S, NEW b \in S
    PROVE  /\ << a, b >> \in Seq(S) /\ << a, b >> # << >> /\ Append(<< a >>, b) = << a, b >>
           /\ Head(<< a, b >>) = a /\ Last(<< a, b >>) = b /\ << a >> \o << b >> = << a, b >>
<1>1. /\ << a, b >> \in Seq(S) /\ << a, b >> # << >> /\ Head(<< a, b >>) = a
      /\ << a >> \in Seq(S) /\ << b >> \in Seq(S) /\ Len(<< a >>) = 1 /\ Len(<< b >>) = 1
      /\ << a >>[1] = a /\ << b >>[1] = b
    OBVIOUS
<1>2. Last(<< a, b >>) = b
    BY DEF Last
<1>3. \A s \in Seq(S) : Len(s) = 1 /\ s[1] = a => Append(s, b) = << a, b >>
  <2>1. ASSUME NEW s \in Seq(S), Len(s) = 1, s[1] = a
        PROVE  Append(s, b) = << a, b >>
    <3>1. Append(s, b) \in Seq(S)
        BY AppendProperties
    <3>2. Len(Append(s, b)) = Len(s) + 1
        BY AppendProperties
    <3>3. Append(s, b)[Len(s) + 1] = b
        BY AppendProperties
    <3>4. \A i \in 1..Len(s) : Append(s, b)[i] = s[i]
        BY AppendProperties
    <3>5. Len(Append(s, b)) = 2 /\ Append(s, b)[1] = a /\ Append(s, b)[2] = b
        BY <2>1, <3>2, <3>3, <3>4
    <3>6. QED
        BY <3>1, <3>5, PairIs
  <2>2. QED
      BY <2>1
<1>4. \A s \in Seq(S), t \in Seq(S) :
          Len(s) = 1 /\ s[1] = a /\ Len(t) = 1 /\ t[1] = b => s \o t = << a, b >>
  <2>1. ASSUME NEW s \in Seq(S), NEW t \in Seq(S), Len(s) = 1, s[1] = a, Len(t) = 1, t[1] = b
        PROVE  s \o t = << a, b >>
    <3>1. /\ s \o t \in Seq(S) /\ Len(s \o t) = Len(s) + Len(t)
          /\ \A i \in 1..(Len(s) + Len(t)) : (s \o t)[i] = IF i <= Len(s) THEN s[i] ELSE t[i - Len(s)]
        BY ConcatProperties
    <3>2. (s \o t)[1] = a /\ (s \o t)[2] = b
        BY <2>1, <3>1
    <3>3. Len(s \o t) = 2
        BY <2>1, <3>1
    <3>4. QED
        BY <3>1, <3>2, <3>3, PairIs
  <2>2. QED
      BY <2>1
<1>5. Append(<< a >>, b) = << a, b >>
    BY <1>1, <1>3
<1>6. << a >> \o << b >> = << a, b >>
    BY <1>1, <1>4
<1>7. QED
    BY <1>1, <1>2, <1>5, <1>6

LEMMA ThreeAre ==
    ASSUME NEW S, NEW a \in S, NEW b \in S, NEW c \in S
    PROVE  /\ << a, b, c >> \in Seq(S) /\ << a, b, c >> # << >>
           /\ Append(<< a, b >>, c) = << a, b, c >>
           /\ Last(<< a, b, c >>) = c /\ Front(<< a, b, c >>) = << a, b >>
<1>1. /\ << a, b >> \in Seq(S) /\ Len(<< a, b >>) = 2 /\ << a, b >>[1] = a /\ << a, b >>[2] = b
      /\ << a, b, c >> \in Seq(S) /\ << a, b, c >> # << >> /\ Len(<< a, b, c >>) = 3
      /\ << a, b, c >>[1] = a /\ << a, b, c >>[2] = b
    OBVIOUS
<1>2. Last(<< a, b, c >>) = c
    BY DEF Last
<1>3. \A s \in Seq(S) : Len(s) = 2 /\ s[1] = a /\ s[2] = b => Append(s, c) = << a, b, c >>
  <2>1. ASSUME NEW s \in Seq(S), Len(s) = 2, s[1] = a, s[2] = b
        PROVE  Append(s, c) = << a, b, c >>
    <3>1. Append(s, c) \in Seq(S)
        BY AppendProperties
    <3>2. Len(Append(s, c)) = Len(s) + 1
        BY AppendProperties
    <3>3. Append(s, c)[Len(s) + 1] = c
        BY AppendProperties
    <3>4. \A i \in 1..Len(s) : Append(s, c)[i] = s[i]
        BY AppendProperties
    <3>5. Len(Append(s, c)) = 3 /\ Append(s, c)[1] = a /\ Append(s, c)[2] = b /\ Append(s, c)[3] = c
        BY <2>1, <3>2, <3>3, <3>4
    <3>6. QED
        BY <3>1, <3>5, TripleIs
  <2>2. QED
      BY <2>1
<1>4. \A s \in Seq(S) : Len(s) = 3 /\ s[1] = a /\ s[2] = b => SubSeq(s, 1, 2) = << a, b >>
  <2>1. ASSUME NEW s \in Seq(S), Len(s) = 3, s[1] = a, s[2] = b
        PROVE  SubSeq(s, 1, 2) = << a, b >>
    <3>1. \A i \in 1..2 : s[i] \in S
        BY <2>1
    <3>2. /\ SubSeq(s, 1, 2) \in Seq(S) /\ Len(SubSeq(s, 1, 2)) = 2
          /\ SubSeq(s, 1, 2)[1] = a /\ SubSeq(s, 1, 2)[2] = b
        BY <2>1, <3>1, SubSeqProperties
    <3>3. QED
        BY <3>2, PairIs
  <2>2. QED
      BY <2>1
<1>5. Append(<< a, b >>, c) = << a, b, c >>
    BY <1>1, <1>3
<1>6. Front(<< a, b, c >>) = << a, b >>
  <2>1. SubSeq(<< a, b, c >>, 1, 2) = << a, b >>
      BY <1>1, <1>4
  <2>2. QED
      BY <2>1 DEF Front
<1>7. QED
    BY <1>1, <1>2, <1>5, <1>6

-----------------------------------------------------------------------------
(* What an answer says, one line after another. *)

LineSet == [form : Forms, ev : Events]
AllLines == Seq(LineSet)

LEMMA LineTyped ==
    ASSUME NEW lines \in AllLines, NEW i \in 1..Len(lines)
    PROVE  /\ lines[i] \in LineSet /\ lines[i].form \in Forms
           /\ lines[i].ev \in Events /\ Len(lines) \in Nat
<1>1. lines[i] \in LineSet /\ Len(lines) \in Nat
    BY LenProperties, ElementOfSeq DEF AllLines
<1>2. QED
    BY <1>1 DEF LineSet

LEMMA DocTyped ==
    ASSUME NEW lines \in AllLines, NEW i \in 1..Len(lines), IsDocument(lines, i)
    PROVE  /\ lines[i].ev \in Events \ Broken
           /\ Doc(lines, i).size \in Nat /\ Doc(lines, i).usage \in Amounts
BY LineTyped, ReaderAssumption DEF IsDocument, Doc

(* A line leaves an event open, or goes on with the one that is, or ends it. *)
LEMMA GluedStep ==
    ASSUME NEW lines \in AllLines
    PROVE  /\ ~Glued(lines, 1)
           /\ \A i \in 1..Len(lines) :
                 Glued(lines, i + 1) <=> \/ lines[i].form = "open"
                                         \/ lines[i].form = "other" /\ Glued(lines, i)
<1>1. ~Glued(lines, 1)
    BY DEF Glued
<1>2. ASSUME NEW i \in 1..Len(lines)
      PROVE  Glued(lines, i + 1) <=> \/ lines[i].form = "open"
                                     \/ lines[i].form = "other" /\ Glued(lines, i)
  <2>1. i \in Nat /\ i \in 1..i /\ i + 1 - 1 = i
      BY LineTyped
  <2>2. ASSUME Glued(lines, i + 1), lines[i].form # "open"
        PROVE  lines[i].form = "other" /\ Glued(lines, i)
    <3>1. PICK j \in 1..i : lines[j].form = "open" /\ \A k \in (j + 1)..i : lines[k].form = "other"
        BY <2>1, <2>2 DEF Glued
    <3>2. j \in 1..(i - 1) /\ i \in (j + 1)..i /\ \A k \in (j + 1)..(i - 1) : k \in (j + 1)..i
      <4>1. j # i
          BY <2>2, <3>1
      <4>2. QED
          BY <4>1, <2>1
    <3>3. QED
        BY <3>1, <3>2 DEF Glued
  <2>3. ASSUME lines[i].form = "open"
        PROVE  Glued(lines, i + 1)
    <3>1. \A k \in (i + 1)..i : FALSE
        BY <2>1
    <3>2. QED
        BY <2>1, <2>3, <3>1 DEF Glued
  <2>4. ASSUME lines[i].form = "other", Glued(lines, i)
        PROVE  Glued(lines, i + 1)
    <3>1. PICK j \in 1..(i - 1) :
              lines[j].form = "open" /\ \A k \in (j + 1)..(i - 1) : lines[k].form = "other"
        BY <2>4 DEF Glued
    <3>2. ASSUME NEW k \in (j + 1)..i
          PROVE  lines[k].form = "other"
      <4>1. k = i \/ k \in (j + 1)..(i - 1)
          BY <2>1
      <4>2. QED
          BY <2>4, <3>1, <4>1
    <3>3. j \in 1..i
        BY <2>1
    <3>4. QED
        BY <2>1, <3>1, <3>2, <3>3 DEF Glued
  <2>5. QED
      BY <2>2, <2>3, <2>4
<1>3. QED
    BY <1>1, <1>2

LEMMA DocumentsStep ==
    ASSUME NEW lines
    PROVE  /\ Documents(lines, 0) = {}
           /\ \A i \in Nat \ {0} :
                 /\ IsDocument(lines, i) => Documents(lines, i) = Documents(lines, i - 1) \cup {i}
                 /\ ~IsDocument(lines, i) => Documents(lines, i) = Documents(lines, i - 1)
<1>1. \A i \in Nat \ {0} : 1..i = (1..(i - 1)) \cup {i}
    OBVIOUS
<1>2. QED
    BY <1>1 DEF Documents

(* What the lines say of the usage, with one that is no document, one that *)
(* says nothing of it, and one that does.                                  *)
Totals == [input : Nat, output : Nat, writes : Nat, hour : Nat, reads : Nat]

LEMMA UsageOfNone ==
    ASSUME NEW lines
    PROVE  IsUsage(Zero, lines, 0)
BY DocumentsStep DEF IsUsage, IsFirst, IsHighest, Zero

LEMMA UsageStays ==
    ASSUME NEW lines, NEW usage, NEW i \in Nat \ {0}, ~IsDocument(lines, i), IsUsage(usage, lines, i - 1)
    PROVE  IsUsage(usage, lines, i)
BY DocumentsStep DEF IsUsage, IsFirst, IsHighest

LEMMA FirstAdds ==
    ASSUME NEW lines, NEW i \in Nat \ {0}, IsDocument(lines, i), NEW n \in Nat, NEW field,
           Doc(lines, i).usage[field] \in Int, IsFirst(n, field, lines, i - 1)
    PROVE  IsFirst(Or(n, Counted(Doc(lines, i).usage[field])), field, lines, i)
<1> DEFINE u == Doc(lines, i).usage[field]
<1>1. Documents(lines, i) = Documents(lines, i - 1) \cup {i}
    BY DocumentsStep
<1>2. CASE n # 0
    BY <1>1, <1>2 DEF IsFirst, Or
<1>3. CASE n = 0
  <2>1. \A j \in Documents(lines, i - 1) : Doc(lines, j).usage[field] <= 0
      BY <1>3 DEF IsFirst
  <2>2. QED
      BY <1>1, <1>3, <2>1 DEF IsFirst, Or, Counted
<1>4. QED
    BY <1>2, <1>3

LEMMA HighestAdds ==
    ASSUME NEW lines, NEW i \in Nat \ {0}, IsDocument(lines, i), NEW n \in Nat, NEW field,
           \A j \in Documents(lines, i) : Doc(lines, j).usage[field] \in Int,
           IsHighest(n, field, lines, i - 1)
    PROVE  IsHighest(Larger(n, Counted(Doc(lines, i).usage[field])), field, lines, i)
<1>1. Documents(lines, i) = Documents(lines, i - 1) \cup {i}
    BY DocumentsStep
<1>2. QED
    BY <1>1 DEF IsHighest, Larger, Counted

LEMMA UsageAdds ==
    ASSUME NEW lines \in AllLines, NEW i \in 1..Len(lines), IsDocument(lines, i),
           NEW usage \in Totals, IsUsage(usage, lines, i - 1)
    PROVE  LET more == Merge(usage, UsageFrom(Doc(lines, i).usage))
           IN  more \in Totals /\ IsUsage(more, lines, i)
<1> DEFINE u == Doc(lines, i).usage
           more == Merge(usage, UsageFrom(u))
<1>1. i \in Nat \ {0}
    BY LineTyped
<1>2. u \in Amounts
    BY DocTyped
<1>3. \A j \in Documents(lines, i) : Doc(lines, j).usage \in Amounts
  <2>1. ASSUME NEW j \in Documents(lines, i)
        PROVE  Doc(lines, j).usage \in Amounts
    <3>1. j \in 1..Len(lines) /\ IsDocument(lines, j)
        BY LineTyped DEF Documents
    <3>2. QED
        BY <3>1, DocTyped
  <2>2. QED
      BY <2>1
<1>4. /\ u.input \in Int /\ u.output \in Int /\ u.writes \in Int /\ u.hour \in Int /\ u.reads \in Int
      /\ usage.input \in Nat /\ usage.output \in Nat /\ usage.writes \in Nat
      /\ usage.hour \in Nat /\ usage.reads \in Nat
    BY <1>2 DEF Amounts, Totals
<1>5. /\ more.input = Or(usage.input, Counted(u.input))
      /\ more.output = Larger(usage.output, Counted(u.output))
      /\ more.writes = Or(usage.writes, Counted(u.writes))
      /\ more.reads = Or(usage.reads, Counted(u.reads))
      /\ more.hour = IF usage.writes # 0 THEN usage.hour
                     ELSE Smaller(Counted(u.hour), Counted(u.writes))
    BY DEF Merge, UsageFrom, Or
<1>6. more \in Totals
    BY <1>4 DEF Totals, Merge, UsageFrom, Or, Counted, Larger, Smaller
<1> HIDE DEF more, u
<1>7. IsFirst(more.input, "input", lines, i)
    BY <1>1, <1>4, <1>5, FirstAdds DEF IsUsage, u
<1>8. IsFirst(more.writes, "writes", lines, i)
    BY <1>1, <1>4, <1>5, FirstAdds DEF IsUsage, u
<1>9. IsFirst(more.reads, "reads", lines, i)
    BY <1>1, <1>4, <1>5, FirstAdds DEF IsUsage, u
<1>10. IsHighest(more.output, "output", lines, i)
  <2>1. \A j \in Documents(lines, i) : Doc(lines, j).usage.output \in Int
      BY <1>3 DEF Amounts
  <2>2. QED
      BY <1>1, <1>4, <1>5, <2>1, HighestAdds DEF IsUsage, u
<1>11. more.hour <= more.writes
    BY <1>4, <1>5 DEF IsUsage, Or, Counted, Smaller
<1>12. IsUsage(more, lines, i)
    BY <1>7, <1>8, <1>9, <1>10, <1>11 DEF IsUsage
<1>13. QED
    BY <1>6, <1>12 DEF more, u

(* A document that says nothing of the usage. *)
LEMMA UsageOfNothing ==
    ASSUME NEW lines \in AllLines, NEW i \in 1..Len(lines), IsDocument(lines, i),
           Doc(lines, i).usage = NoUsage, NEW usage \in Totals, IsUsage(usage, lines, i - 1)
    PROVE  IsUsage(usage, lines, i)
<1>0. i \in Nat \ {0} /\ usage.output \in Nat
    BY LineTyped DEF Totals
<1>1. Documents(lines, i) = Documents(lines, i - 1) \cup {i}
    BY <1>0, DocumentsStep
<1>2. \A f \in {"input", "output", "writes", "reads"} : Doc(lines, i).usage[f] = -1
    BY DEF NoUsage
<1>3. \A f \in {"input", "writes", "reads"} : IsFirst(usage[f], f, lines, i)
    BY <1>1, <1>2 DEF IsUsage, IsFirst
<1>4. IsHighest(usage.output, "output", lines, i)
    BY <1>0, <1>1, <1>2 DEF IsUsage, IsHighest
<1>5. QED
    BY <1>3, <1>4 DEF IsUsage

-----------------------------------------------------------------------------
(* How much of a block the lines hold, one after another. *)

(* A set of numbers has a least one. *)
LEMMA LeastOf ==
    ASSUME NEW S, S \subseteq Nat, S # {}
    PROVE  \E x \in S : \A y \in S : x <= y
<1> DEFINE R == {ss \in Nat \X Nat : ss[1] < ss[2]}
<1>1. IsWellFoundedOn(R, Nat)
    BY NatLessThanWellFounded DEF OpToRel
<1>2. \E x \in S : \A y \in S : << y, x >> \notin R
  <2> HIDE DEF R
  <2> QED
      BY <1>1, WFMin
<1>3. PICK x \in S : \A y \in S : << y, x >> \notin R
    BY <1>2
<1>4. ASSUME NEW y \in S
      PROVE  x <= y
  <2>1. x \in Nat /\ y \in Nat
      OBVIOUS
  <2>2. ~(y < x)
      BY <1>3, <2>1
  <2>3. QED
      BY <2>1, <2>2
<1>5. QED
    BY <1>4

(* What holds of no line, and of a line when it held before, holds of all. *)
LEMMA Climb ==
    ASSUME NEW m \in Nat, NEW P, 0 \in P, \A n \in 1..m : n - 1 \in P => n \in P
    PROVE  0..m \subseteq P
<1> DEFINE odd == (0..m) \ P
<1>1. SUFFICES ASSUME odd # {}
               PROVE  FALSE
    OBVIOUS
<1>2. PICK x \in odd : \A y \in odd : x <= y
  <2>1. odd \subseteq Nat
      OBVIOUS
  <2> HIDE DEF odd
  <2>2. QED
      BY <1>1, <2>1, LeastOf
<1>3. x \in 1..m /\ x - 1 \in 0..m /\ ~(x <= x - 1)
    OBVIOUS
<1>4. x - 1 \in P
    BY <1>2, <1>3
<1>5. QED
    BY <1>3, <1>4

LEMMA SizeTyped ==
    ASSUME NEW lines \in AllLines, NEW block
    PROVE  \A i \in 1..Len(lines) : SizeIn(lines, i, block) \in Nat
BY DocTyped DEF SizeIn

UpTo(lines, block, f) ==
    f = [i \in 0..Len(lines) |-> IF i = 0 THEN 0 ELSE f[i - 1] + SizeIn(lines, i, block)]

LEMMA WrittenChosen ==
    ASSUME NEW lines, NEW block
    PROVE  Written(lines, block) = CHOOSE f : UpTo(lines, block, f)
BY DEF Written, UpTo

LEMMA UpToExists ==
    ASSUME NEW lines \in AllLines, NEW block
    PROVE  \E f : UpTo(lines, block, f)
<1> DEFINE m == Len(lines)
           s(n) == SizeIn(lines, n, block)
           SumsTo(k) == { f \in [0..k -> Nat] : f[0] = 0 /\ \A n \in 1..k : f[n] = f[n - 1] + s(n) }
           P == { k \in 0..m : SumsTo(k) # {} }
<1>1. m \in Nat /\ \A n \in 1..m : s(n) \in Nat
    BY LenProperties, SizeTyped DEF AllLines
<1> HIDE DEF s
<1>2. 0 \in P
  <2>1. [n \in 0..0 |-> 0] \in SumsTo(0)
      OBVIOUS
  <2>2. QED
      BY <1>1, <2>1
<1>3. ASSUME NEW k \in 1..m, k - 1 \in P
      PROVE  k \in P
  <2>1. PICK f \in [0..(k - 1) -> Nat] : f[0] = 0 /\ \A n \in 1..(k - 1) : f[n] = f[n - 1] + s(n)
      BY <1>3
  <2> DEFINE g == [n \in 0..k |-> IF n = k THEN f[k - 1] + s(k) ELSE f[n]]
  <2>2. k - 1 \in 0..(k - 1) /\ s(k) \in Nat /\ f[k - 1] \in Nat
      BY <1>1, <2>1
  <2>3. g \in [0..k -> Nat]
      BY <2>1, <2>2
  <2>4. g[0] = 0
      BY <2>1
  <2>5. ASSUME NEW n \in 1..k
        PROVE  g[n] = g[n - 1] + s(n)
    <3>1. CASE n = k
        BY <3>1, <2>2
    <3>2. CASE n # k
      <4>1. n \in 1..(k - 1) /\ n \in 0..k /\ n - 1 \in 0..k /\ n - 1 # k
          BY <3>2
      <4>2. f[n] = f[n - 1] + s(n)
          BY <2>1, <4>1
      <4>3. QED
          BY <3>2, <4>1, <4>2
    <3>3. QED
        BY <3>1, <3>2
  <2>6. g \in SumsTo(k)
    <3> HIDE DEF g
    <3> QED
        BY <2>3, <2>4, <2>5
  <2>7. k \in 0..m
      BY <1>1
  <2>8. QED
      BY <2>6, <2>7
<1>4. m \in P
  <2> HIDE DEF P, m
  <2>1. 0..m \subseteq P
      BY <1>1, <1>2, <1>3, Climb
  <2>2. QED
      BY <1>1, <2>1
<1>5. PICK f \in [0..m -> Nat] : f[0] = 0 /\ \A n \in 1..m : f[n] = f[n - 1] + s(n)
    BY <1>4
<1>6. \A n \in 0..m : f[n] = IF n = 0 THEN 0 ELSE f[n - 1] + s(n)
    BY <1>1, <1>5
<1>7. f = [n \in 0..m |-> f[n]]
    BY <1>5
<1>8. f = [n \in 0..m |-> IF n = 0 THEN 0 ELSE f[n - 1] + s(n)]
  <2> HIDE DEF m
  <2> QED
      BY <1>6, <1>7
<1>9. QED
    BY <1>8 DEF UpTo, s

LEMMA WrittenStep ==
    ASSUME NEW lines \in AllLines, NEW block
    PROVE  /\ Written(lines, block)[0] = 0
           /\ \A i \in 1..Len(lines) :
                 Written(lines, block)[i] = Written(lines, block)[i - 1] + SizeIn(lines, i, block)
           /\ \A i \in 0..Len(lines) : Written(lines, block)[i] \in Nat
<1> DEFINE f == Written(lines, block)
           m == Len(lines)
<1>1. UpTo(lines, block, f)
    BY UpToExists, WrittenChosen
<1>2. m \in Nat
    BY LenProperties DEF AllLines
<1> HIDE DEF f
<1>3. f = [i \in 0..m |-> IF i = 0 THEN 0 ELSE f[i - 1] + SizeIn(lines, i, block)]
    BY <1>1 DEF UpTo
<1> HIDE DEF m
<1>4. \A n \in 0..m : f[n] = IF n = 0 THEN 0 ELSE f[n - 1] + SizeIn(lines, n, block)
    BY <1>3
<1>5. 0 \in 0..m /\ \A n \in 1..m : n \in 0..m /\ n # 0
    BY <1>2
<1>6. f[0] = 0 /\ \A n \in 1..m : f[n] = f[n - 1] + SizeIn(lines, n, block)
    BY <1>4, <1>5
<1> DEFINE P == { n \in 0..m : f[n] \in Nat }
<1>7. 0..m \subseteq P
  <2>1. 0 \in P
      BY <1>5, <1>6
  <2>2. ASSUME NEW n \in 1..m, n - 1 \in P
        PROVE  n \in P
    <3>1. f[n] = f[n - 1] + SizeIn(lines, n, block) /\ f[n - 1] \in Nat
        BY <1>6, <2>2
    <3>2. SizeIn(lines, n, block) \in Nat
        BY SizeTyped DEF m
    <3>3. QED
        BY <3>1, <3>2, <1>5
  <2> HIDE DEF P
  <2>3. QED
      BY <1>2, <2>1, <2>2, Climb
<1>8. QED
    BY <1>6, <1>7 DEF f, m

LEMMA BlocksStep ==
    ASSUME NEW lines \in AllLines
    PROVE  /\ Blocks(lines, 0) = {}
           /\ \A i \in 1..Len(lines) :
                 /\ ~IsDocument(lines, i) => Blocks(lines, i) = Blocks(lines, i - 1)
                 /\ IsDocument(lines, i) /\ Doc(lines, i).size = 0 => Blocks(lines, i) = Blocks(lines, i - 1)
                 /\ IsDocument(lines, i) /\ Doc(lines, i).size # 0
                    => Blocks(lines, i) = Blocks(lines, i - 1) \cup {Doc(lines, i).block}
<1>1. Blocks(lines, 0) = {}
    BY DocumentsStep DEF Blocks
<1>2. ASSUME NEW i \in 1..Len(lines), ~IsDocument(lines, i)
      PROVE  Blocks(lines, i) = Blocks(lines, i - 1)
  <2>1. i \in Nat \ {0}
      BY LineTyped
  <2>2. QED
      BY <1>2, <2>1, DocumentsStep DEF Blocks
<1>3. ASSUME NEW i \in 1..Len(lines), IsDocument(lines, i)
      PROVE  /\ Doc(lines, i).size = 0 => Blocks(lines, i) = Blocks(lines, i - 1)
             /\ Doc(lines, i).size # 0
                => Blocks(lines, i) = Blocks(lines, i - 1) \cup {Doc(lines, i).block}
  <2>1. i \in Nat \ {0}
      BY LineTyped
  <2>2. Documents(lines, i) = Documents(lines, i - 1) \cup {i}
      BY <1>3, <2>1, DocumentsStep
  <2>3. Doc(lines, i).size # 0 <=> Doc(lines, i).size > 0
      BY <1>3, DocTyped
  <2>4. QED
      BY <2>2, <2>3 DEF Blocks
<1>4. QED
    BY <1>1, <1>2, <1>3

TextsTo(texts, lines, n) ==
    /\ DOMAIN texts = Blocks(lines, n)
    /\ \A b : Written(lines, b)[n] = IF b \in DOMAIN texts THEN texts[b] ELSE 0

LEMMA TextsOfNone ==
    ASSUME NEW lines \in AllLines
    PROVE  TextsTo([e \in {} |-> 0], lines, 0)
BY BlocksStep, WrittenStep DEF TextsTo

LEMMA TextsStay ==
    ASSUME NEW lines \in AllLines, NEW i \in 1..Len(lines), NEW texts, TextsTo(texts, lines, i - 1),
           ~IsDocument(lines, i) \/ Doc(lines, i).size = 0
    PROVE  TextsTo(texts, lines, i)
<1>1. Blocks(lines, i) = Blocks(lines, i - 1)
    BY BlocksStep
<1>2. ASSUME NEW b
      PROVE  Written(lines, b)[i] = IF b \in DOMAIN texts THEN texts[b] ELSE 0
  <2>1. SizeIn(lines, i, b) = 0
      BY DEF SizeIn
  <2>2. i - 1 \in 0..Len(lines)
      BY LineTyped
  <2>3. Written(lines, b)[i - 1] \in Nat /\ Written(lines, b)[i] = Written(lines, b)[i - 1]
      BY <2>1, <2>2, WrittenStep
  <2>4. Written(lines, b)[i - 1] = IF b \in DOMAIN texts THEN texts[b] ELSE 0
      BY DEF TextsTo
  <2>5. QED
      BY <2>3, <2>4
<1>3. DOMAIN texts = Blocks(lines, i)
    BY <1>1 DEF TextsTo
<1>4. QED
    BY <1>2, <1>3 DEF TextsTo

(* The texts with those of one document more. *)
LEMMA TextsAdd ==
    ASSUME NEW lines \in AllLines, NEW i \in 1..Len(lines), NEW texts, NEW more,
           IsDocument(lines, i), Doc(lines, i).size # 0, TextsTo(texts, lines, i - 1),
           more = [b \in DOMAIN texts \cup {Doc(lines, i).block} |->
                      IF b = Doc(lines, i).block
                      THEN (IF b \in DOMAIN texts THEN texts[b] ELSE 0) + Doc(lines, i).size
                      ELSE texts[b]]
    PROVE  TextsTo(more, lines, i)
<1> DEFINE block == Doc(lines, i).block
           size == Doc(lines, i).size
<1>1. /\ DOMAIN more = DOMAIN texts \cup {block}
      /\ more[block] = (IF block \in DOMAIN texts THEN texts[block] ELSE 0) + size
      /\ \A b \in DOMAIN texts : b # block => more[b] = texts[b]
    OBVIOUS
<1>2. size \in Nat /\ i - 1 \in 0..Len(lines)
    BY DocTyped, LineTyped
<1> HIDE DEF block, size
<1>3. DOMAIN more = Blocks(lines, i)
    BY <1>1, BlocksStep DEF block, TextsTo
<1>4. ASSUME NEW b
      PROVE  Written(lines, b)[i] = IF b \in DOMAIN more THEN more[b] ELSE 0
  <2>1. SizeIn(lines, i, b) = IF b = block THEN size ELSE 0
      BY DEF SizeIn, block, size
  <2>2. /\ Written(lines, b)[i - 1] \in Nat
        /\ Written(lines, b)[i] = Written(lines, b)[i - 1] + SizeIn(lines, i, b)
      BY <1>2, WrittenStep
  <2>3. Written(lines, b)[i - 1] = IF b \in DOMAIN texts THEN texts[b] ELSE 0
      BY DEF TextsTo
  <2>4. CASE b = block
      BY <1>1, <2>1, <2>2, <2>3, <2>4
  <2>5. CASE b # block
      BY <1>1, <2>1, <2>2, <2>3, <2>5
  <2>6. QED
      BY <2>4, <2>5
<1>5. QED
    BY <1>3, <1>4 DEF TextsTo

-----------------------------------------------------------------------------
(* The reader. *)

Marks == (Events \X {1, 2}) \cup {NL, CR, Other}
BlockSet == {Docs[e].block : e \in Events \ Broken}
Words == {""} \cup {Docs[e].stop : e \in Events \ Broken} \cup {Docs[e].model : e \in Events \ Broken}
TextSet == UNION {[S -> Nat] : S \in SUBSET BlockSet}

Readers ==
    [json : BOOLEAN, pending : Seq(Marks), data : Seq(Marks), dataSize : Nat, failed : BOOLEAN,
     texts : TextSet, kept : Nat, capped : BOOLEAN, framed : Nat, unframed : BOOLEAN,
     fields : SUBSET {"input", "output"}, usage : Totals,
     status : {"known", "partial", "unavailable"}, stop : Words, model : Words]

(* What waits in a reader is apart from what it counts. *)
Waits(a, b) == a.json = b.json /\ a.failed = b.failed
Holds(a, b) == a.pending = b.pending /\ a.data = b.data
Counts(a, b) ==
    /\ a.texts = b.texts /\ a.kept = b.kept /\ a.capped = b.capped /\ a.unframed = b.unframed
    /\ a.fields = b.fields /\ a.usage = b.usage /\ a.status = b.status

LEMMA NewTyped ==
    ASSUME NEW json \in BOOLEAN
    PROVE  NewReader(json) \in Readers
<1>1. [e \in {} |-> 0] \in TextSet
  <2>1. [e \in {} |-> 0] \in [{} -> Nat] /\ {} \in SUBSET BlockSet
      OBVIOUS
  <2>2. QED
      BY <2>1 DEF TextSet
<1>2. Zero \in Totals
    BY DEF Zero, Totals
<1> DEFINE none == [e \in {} |-> 0]
<1> HIDE DEF none
<1>3. QED
    BY <1>1, <1>2 DEF NewReader, Readers, Words, none

LEMMA UnframedTyped ==
    ASSUME NEW rd \in Readers
    PROVE  /\ Unframed(rd) \in Readers /\ Waits(Unframed(rd), rd) /\ Holds(Unframed(rd), rd)
           /\ Unframed(rd).unframed /\ Unframed(rd).status # "known"
           /\ Unframed(rd).usage = rd.usage /\ Unframed(rd).fields = rd.fields
           /\ Unframed(rd).texts = rd.texts /\ Unframed(rd).capped = rd.capped
           /\ Unframed(rd).kept = rd.kept
BY DEF Unframed, Partly, Readers, Waits, Holds

LEMMA KeepIs ==
    ASSUME NEW rd \in Readers, rd.kept <= MaxText, NEW block \in BlockSet, NEW size \in Nat \ {0}
    PROVE  LET s == Keep(rd, block, size) IN
           /\ s \in Readers /\ Waits(s, rd) /\ Holds(s, rd) /\ s.kept <= MaxText
           /\ s.unframed = rd.unframed /\ s.fields = rd.fields /\ s.usage = rd.usage /\ s.status = rd.status
           /\ ~s.capped =>
                 /\ ~rd.capped
                 /\ s.texts = [b \in DOMAIN rd.texts \cup {block} |->
                                  IF b = block
                                  THEN (IF b \in DOMAIN rd.texts THEN rd.texts[b] ELSE 0) + size
                                  ELSE rd.texts[b]]
<1> DEFINE s == Keep(rd, block, size)
           room == MaxText - rd.kept
           taken == IF size >= room THEN Larger(0, room) ELSE size
           known == IF block \in DOMAIN rd.texts THEN rd.texts[block] ELSE 0
           capped == rd.capped \/ size >= room
           more == [b \in DOMAIN rd.texts \cup {block} |->
                       IF b = block THEN known + taken ELSE rd.texts[b]]
<1>1. MaxText \in Nat /\ rd.kept \in Nat /\ rd.capped \in BOOLEAN /\ rd.texts \in TextSet
    BY ReaderAssumption DEF Readers
<1>2. PICK S \in SUBSET BlockSet : rd.texts \in [S -> Nat]
    BY <1>1 DEF TextSet
<1>3. room \in Nat /\ taken \in Nat /\ taken <= room /\ known \in Nat /\ capped \in BOOLEAN
    BY <1>1, <1>2 DEF Larger
<1>4. rd.kept + taken \in Nat /\ rd.kept + taken <= MaxText
    BY <1>1, <1>3
<1>5. more \in TextSet
  <2>1. more \in [S \cup {block} -> Nat] /\ S \cup {block} \in SUBSET BlockSet
    <3> HIDE DEF taken, known
    <3> QED
        BY <1>2, <1>3
  <2> HIDE DEF more
  <2>2. QED
      BY <2>1 DEF TextSet
<1>6. ~capped => taken = size
    OBVIOUS
<1>7. s = IF taken = 0 THEN [rd EXCEPT !.capped = capped]
          ELSE [rd EXCEPT !.capped = capped, !.kept = @ + taken, !.texts = more]
    BY DEF Keep
<1> DEFINE full == [b \in DOMAIN rd.texts \cup {block} |->
                       IF b = block
                       THEN (IF b \in DOMAIN rd.texts THEN rd.texts[b] ELSE 0) + size
                       ELSE rd.texts[b]]
<1>8. ~capped => more = full
  <2> SUFFICES ASSUME ~capped
               PROVE  more = full
      OBVIOUS
  <2>1. taken = size
      BY <1>6
  <2> HIDE DEF taken
  <2>2. QED
      BY <2>1
<1>9. ~capped => ~rd.capped /\ taken # 0
    BY <1>6
<1> HIDE DEF s, room, taken, known, capped, more, full
<1>10. CASE taken = 0
  <2>1. s = [rd EXCEPT !.capped = capped]
      BY <1>7, <1>10
  <2>2. s.capped = capped /\ s.kept = rd.kept /\ s \in Readers
      BY <1>3, <2>1 DEF Readers
  <2>3. Waits(s, rd) /\ Holds(s, rd) /\ s.unframed = rd.unframed /\ s.fields = rd.fields
        /\ s.usage = rd.usage /\ s.status = rd.status
      BY <2>1 DEF Readers, Waits, Holds
  <2>4. QED
      BY <1>9, <1>10, <2>2, <2>3 DEF s
<1>11. CASE taken # 0
  <2>1. s = [rd EXCEPT !.capped = capped, !.kept = rd.kept + taken, !.texts = more]
      BY <1>7, <1>11
  <2>2. s.capped = capped /\ s.kept = rd.kept + taken /\ s.texts = more /\ s \in Readers
      BY <1>3, <1>4, <1>5, <2>1 DEF Readers
  <2>3. Waits(s, rd) /\ Holds(s, rd) /\ s.unframed = rd.unframed /\ s.fields = rd.fields
        /\ s.usage = rd.usage /\ s.status = rd.status
      BY <2>1 DEF Readers, Waits, Holds
  <2>4. QED
      BY <1>4, <1>8, <1>9, <2>2, <2>3 DEF s, full
<1>12. QED
    BY <1>10, <1>11

LEMMA BothFields ==
    ASSUME NEW F \in SUBSET {"input", "output"}, Cardinality(F) = 2
    PROVE  {"input", "output"} \subseteq F
<1>1. F # {}
    BY FS_EmptySet
<1>2. \A x : Cardinality({x}) = 1
    BY FS_Singleton
<1>3. F # {"input"} /\ F # {"output"}
    BY <1>2
<1>4. QED
    BY <1>1, <1>3

(* What the lines so far say is what a reader counted. *)
FramedTo(lines, n) ==
    \A i \in 1..n : \/ lines[i].form = "other" \/ IsDocument(lines, i)
                    \/ lines[i].form = "open" /\ Glued(lines, n + 1)

Tells(rd, lines, n) ==
    /\ IsUsage(rd.usage, lines, n)
    /\ \A f \in rd.fields : IsNamed(f, lines, n)
    /\ rd.status = "known" => {"input", "output"} \subseteq rd.fields
    /\ rd.capped \/ TextsTo(rd.texts, lines, n)
    /\ rd.unframed \/ FramedTo(lines, n)
    /\ rd.kept <= MaxText

LEMMA TellsSame ==
    ASSUME NEW a, NEW b, NEW lines, NEW n, Counts(a, b), Tells(b, lines, n)
    PROVE  Tells(a, lines, n)
BY DEF Counts, Tells

LEMMA NewTells ==
    ASSUME NEW lines \in AllLines, NEW json
    PROVE  Tells(NewReader(json), lines, 0)
<1>1. FramedTo(lines, 0)
    BY DEF FramedTo
<1>2. MaxText >= 0
    BY ReaderAssumption
<1> DEFINE none == [e \in {} |-> 0]
<1>3. TextsTo(none, lines, 0)
    BY TextsOfNone
<1> HIDE DEF none
<1>4. QED
    BY <1>1, <1>2, <1>3, UsageOfNone DEF NewReader, Tells, none

LEMMA NamedStays ==
    ASSUME NEW lines, NEW i \in Nat \ {0}, NEW f, IsNamed(f, lines, i - 1)
    PROVE  IsNamed(f, lines, i)
<1>1. Documents(lines, i - 1) \subseteq Documents(lines, i)
    BY DocumentsStep
<1>2. QED
    BY <1>1 DEF IsNamed

(* A line that is not data, or leaves an event open. *)
LEMMA OtherTells ==
    ASSUME NEW lines \in AllLines, NEW i \in 1..Len(lines), NEW rd \in Readers,
           Tells(rd, lines, i - 1), ~Closes(lines, i)
    PROVE  Tells(rd, lines, i)
<1>1. i \in Nat \ {0} /\ ~IsDocument(lines, i) /\ lines[i].form \in {"other", "open"}
    BY LineTyped DEF IsDocument, Closes
<1>2. IsUsage(rd.usage, lines, i)
    BY <1>1, UsageStays DEF Tells
<1>3. \A f \in rd.fields : IsNamed(f, lines, i)
    BY <1>1, NamedStays DEF Tells
<1>4. rd.capped \/ TextsTo(rd.texts, lines, i)
    BY <1>1, TextsStay DEF Tells
<1>5. FramedTo(lines, i - 1) => FramedTo(lines, i)
  <2> SUFFICES ASSUME FramedTo(lines, i - 1), NEW j \in 1..i
               PROVE  \/ lines[j].form = "other" \/ IsDocument(lines, j)
                      \/ lines[j].form = "open" /\ Glued(lines, i + 1)
      BY DEF FramedTo
  <2>1. i - 1 + 1 = i /\ (j = i \/ j \in 1..(i - 1))
      BY <1>1
  <2>2. CASE j = i
      BY <1>1, <2>2, GluedStep
  <2>3. CASE j \in 1..(i - 1)
      BY <1>1, <2>1, <2>3, GluedStep DEF FramedTo
  <2>4. QED
      BY <2>1, <2>2, <2>3
<1>6. QED
    BY <1>2, <1>3, <1>4, <1>5 DEF Tells

(* An event that is not a document on its own, or whose document is broken. *)
LEMMA UnframedTells ==
    ASSUME NEW lines \in AllLines, NEW i \in 1..Len(lines), NEW rd \in Readers,
           Tells(rd, lines, i - 1), ~IsDocument(lines, i)
    PROVE  Tells(Unframed(rd), lines, i)
<1>1. i \in Nat \ {0}
    BY LineTyped
<1>2. IsUsage(rd.usage, lines, i)
    BY <1>1, UsageStays DEF Tells
<1>3. \A f \in rd.fields : IsNamed(f, lines, i)
    BY <1>1, NamedStays DEF Tells
<1>4. rd.capped \/ TextsTo(rd.texts, lines, i)
    BY <1>1, TextsStay DEF Tells
<1>5. QED
    BY <1>2, <1>3, <1>4, UnframedTyped DEF Tells

(* A document: its text, and its usage. *)
LEMMA AbsorbTells ==
    ASSUME NEW lines \in AllLines, NEW i \in 1..Len(lines), NEW rd \in Readers,
           Tells(rd, lines, i - 1), IsDocument(lines, i)
    PROVE  LET s == AbsorbText(rd, Doc(lines, i)) IN
           /\ s \in Readers /\ Waits(s, rd) /\ Holds(s, rd) /\ s.kept <= MaxText
           /\ s.unframed = rd.unframed /\ s.fields = rd.fields /\ s.usage = rd.usage /\ s.status = rd.status
           /\ s.capped \/ TextsTo(s.texts, lines, i)
<1> DEFINE doc == Doc(lines, i)
           s == AbsorbText(rd, doc)
<1>1. doc.size \in Nat /\ doc.block \in BlockSet
    BY DocTyped DEF Doc, BlockSet
<1>2. CASE doc.size = 0
  <2>1. s = rd
      BY <1>2 DEF AbsorbText
  <2>2. rd.capped \/ TextsTo(rd.texts, lines, i)
      BY <1>2, TextsStay DEF Tells
  <2>3. QED
      BY <2>1, <2>2 DEF Tells, Waits, Holds
<1>3. CASE doc.size # 0
  <2>1. s = Keep(rd, doc.block, doc.size)
      BY <1>3 DEF AbsorbText
  <2>2. rd.kept <= MaxText /\ doc.size \in Nat \ {0}
      BY <1>1, <1>3 DEF Tells
  <2> HIDE DEF s, doc
  <2>3. /\ s \in Readers /\ Waits(s, rd) /\ Holds(s, rd) /\ s.kept <= MaxText
        /\ s.unframed = rd.unframed /\ s.fields = rd.fields /\ s.usage = rd.usage /\ s.status = rd.status
        /\ ~s.capped =>
              /\ ~rd.capped
              /\ s.texts = [b \in DOMAIN rd.texts \cup {doc.block} |->
                               IF b = doc.block
                               THEN (IF b \in DOMAIN rd.texts THEN rd.texts[b] ELSE 0) + doc.size
                               ELSE rd.texts[b]]
      BY <1>1, <2>1, <2>2, KeepIs
  <2>4. ASSUME ~s.capped
        PROVE  TextsTo(s.texts, lines, i)
    <3>1. TextsTo(rd.texts, lines, i - 1)
        BY <2>3, <2>4 DEF Tells
    <3>2. QED
        BY <1>3, <2>3, <2>4, <3>1, TextsAdd DEF doc
  <2>5. QED
      BY <2>3, <2>4 DEF s, doc
<1>4. QED
    BY <1>2, <1>3

LEMMA CountIs ==
    ASSUME NEW lines \in AllLines, NEW i \in 1..Len(lines), NEW rd \in Readers, IsDocument(lines, i),
           IsUsage(rd.usage, lines, i - 1), \A f \in rd.fields : IsNamed(f, lines, i - 1)
    PROVE  LET s == CountUsage(rd, Doc(lines, i).usage) IN
           /\ s \in Readers /\ Waits(s, rd) /\ Holds(s, rd)
           /\ s.kept = rd.kept /\ s.texts = rd.texts /\ s.capped = rd.capped /\ s.unframed = rd.unframed
           /\ IsUsage(s.usage, lines, i) /\ \A f \in s.fields : IsNamed(f, lines, i)
           /\ s.status = "known" => {"input", "output"} \subseteq s.fields
<1> DEFINE u == Doc(lines, i).usage
           s == CountUsage(rd, u)
           named == {f \in {"input", "output"} : u[f] >= 0}
           fields == rd.fields \cup named
           more == Merge(rd.usage, UsageFrom(u))
           status == IF Cardinality(fields) = 2 THEN "known"
                     ELSE IF fields # {} THEN "partial" ELSE "unavailable"
<1>1. rd.usage \in Totals /\ rd.fields \in SUBSET {"input", "output"} /\ i \in Nat \ {0}
    BY LineTyped DEF Readers
<1>2. more \in Totals /\ IsUsage(more, lines, i)
    BY <1>1, UsageAdds
<1>3. fields \in SUBSET {"input", "output"}
    BY <1>1
<1>4. status \in {"known", "partial", "unavailable"}
    OBVIOUS
<1>5. status = "known" => {"input", "output"} \subseteq fields
  <2> HIDE DEF fields
  <2>1. QED
      BY <1>3, BothFields
<1>6. i \in Documents(lines, i)
  <2>1. i \in 1..i
      BY <1>1
  <2>2. QED
      BY <2>1 DEF Documents
<1>7. ASSUME NEW f \in fields
      PROVE  IsNamed(f, lines, i)
  <2>1. CASE f \in rd.fields
      BY <1>1, <2>1, NamedStays
  <2>2. CASE f \in named
      BY <1>6, <2>2 DEF IsNamed
  <2>3. QED
      BY <2>1, <2>2
<1>8. s = [rd EXCEPT !.fields = fields, !.usage = more, !.status = status]
    BY DEF CountUsage
<1> HIDE DEF s, fields, more, status
<1>9. s \in Readers /\ s.fields = fields /\ s.usage = more /\ s.status = status
    BY <1>2, <1>3, <1>4, <1>8 DEF Readers
<1>10. /\ Waits(s, rd) /\ Holds(s, rd) /\ s.kept = rd.kept /\ s.texts = rd.texts
       /\ s.capped = rd.capped /\ s.unframed = rd.unframed
    BY <1>8 DEF Readers, Waits, Holds
<1>11. QED
    BY <1>2, <1>5, <1>7, <1>9, <1>10 DEF s

Both(e) == << << e, 1 >>, << e, 2 >> >>
Whole(tokens) == {e \in Events \ Broken : tokens = Both(e)}

LEMMA WholeOf ==
    ASSUME NEW e \in Events
    PROVE  /\ e \notin Broken => Whole(Both(e)) = {e}
           /\ e \in Broken => Whole(Both(e)) = {}
<1>1. ASSUME NEW d, Both(d) = Both(e)
      PROVE  d = e
  <2>1. Both(d)[1] = << d, 1 >> /\ Both(e)[1] = << e, 1 >>
      BY DEF Both
  <2>2. << d, 1 >> = << e, 1 >>
      BY <1>1, <2>1
  <2>3. QED
      BY <2>2
<1>2. \A d \in Whole(Both(e)) : d = e /\ e \notin Broken
    BY <1>1 DEF Whole
<1>3. e \notin Broken => e \in Whole(Both(e))
    BY DEF Whole
<1>4. QED
    BY <1>2, <1>3

LEMMA WholeOfMore ==
    ASSUME NEW tokens \in Seq(Marks), Len(tokens) >= 4
    PROVE  Whole(tokens) = {}
<1>1. \A e : Len(Both(e)) = 2
    BY DEF Both
<1>2. ASSUME NEW e, tokens = Both(e)
      PROVE  FALSE
  <2>1. Len(tokens) = 2
      BY <1>1, <1>2
  <2>2. QED
      BY <2>1
<1>3. QED
    BY <1>2 DEF Whole

(* What an event holds: its own tokens, or more when it was left open. *)
Follows(lines, i, held, own) ==
    /\ held \in Seq(Marks)
    /\ IF Glued(lines, i) THEN Len(held) >= 2 + Len(own) ELSE held = own

Consumed(rd, doc) ==
    LET got == [AbsorbText([rd EXCEPT !.framed = @ + 1], doc) EXCEPT
                     !.stop = IF @ = "" THEN doc.stop ELSE @,
                     !.model = IF @ = "" THEN doc.model ELSE @]
    IN IF doc.usage = NoUsage THEN got ELSE CountUsage(got, doc.usage)

LEMMA ConsumeTells ==
    ASSUME NEW lines \in AllLines, NEW i \in 1..Len(lines), NEW rd \in Readers, NEW tokens,
           Tells(rd, lines, i - 1), Closes(lines, i),
           Follows(lines, i, tokens, Both(lines[i].ev))
    PROVE  LET s == Consume(rd, tokens) IN
           s \in Readers /\ Waits(s, rd) /\ Holds(s, rd) /\ Tells(s, lines, i)
<1> DEFINE e == lines[i].ev
           s == Consume(rd, tokens)
<1>1. e \in Events /\ i \in Nat \ {0}
    BY LineTyped
<1>2. s = IF Whole(tokens) = {} THEN Unframed(rd)
          ELSE Consumed(rd, Docs[CHOOSE d \in Whole(tokens) : TRUE])
    BY DEF Consume, Consumed, Whole, Both
<1> HIDE DEF s
<1>3. CASE ~IsDocument(lines, i)
  <2>1. Whole(tokens) = {}
    <3>1. CASE Glued(lines, i)
      <4>1. Len(Both(e)) = 2
          BY DEF Both
      <4>2. tokens \in Seq(Marks) /\ Len(tokens) >= 4
          BY <3>1, <4>1 DEF Follows
      <4>3. QED
          BY <4>2, WholeOfMore
    <3>2. CASE ~Glued(lines, i)
      <4>1. tokens = Both(e) /\ e \in Broken
          BY <1>3, <3>2 DEF Follows, IsDocument
      <4>2. QED
          BY <1>1, <4>1, WholeOf
    <3>3. QED
        BY <3>1, <3>2
  <2>2. s = Unframed(rd)
      BY <1>2, <2>1
  <2>3. QED
      BY <1>3, <2>2, UnframedTyped, UnframedTells DEF s
<1>4. CASE IsDocument(lines, i)
  <2> DEFINE doc == Doc(lines, i)
             rd1 == [rd EXCEPT !.framed = @ + 1]
             rd2 == AbsorbText(rd1, doc)
             got == [rd2 EXCEPT !.stop = IF @ = "" THEN doc.stop ELSE @,
                                 !.model = IF @ = "" THEN doc.model ELSE @]
  <2>1. Whole(tokens) = {e}
      BY <1>1, <1>4, WholeOf DEF Follows, IsDocument
  <2>2. (CHOOSE d \in Whole(tokens) : TRUE) = e
      BY <2>1
  <2>3. s = IF doc.usage = NoUsage THEN got ELSE CountUsage(got, doc.usage)
    <3>1. s = Consumed(rd, doc)
        BY <1>2, <2>1, <2>2 DEF Doc
    <3> HIDE DEF doc
    <3>2. QED
        BY <3>1 DEF Consumed
  <2> HIDE DEF doc, rd2, got
  <2>4. rd1 \in Readers /\ Waits(rd1, rd) /\ Holds(rd1, rd) /\ Counts(rd1, rd)
    <3>1. rd.framed + 1 \in Nat
        BY DEF Readers
    <3>2. rd1 \in Readers
        BY <3>1 DEF Readers
    <3>3. QED
        BY <3>2 DEF Readers, Waits, Holds, Counts
  <2>5. Tells(rd1, lines, i - 1)
    <3> HIDE DEF rd1
    <3> QED
        BY <2>4, TellsSame
  <2> HIDE DEF rd1
  <2>6. /\ rd2 \in Readers /\ Waits(rd2, rd1) /\ Holds(rd2, rd1) /\ rd2.kept <= MaxText
        /\ rd2.unframed = rd1.unframed /\ rd2.fields = rd1.fields
        /\ rd2.usage = rd1.usage /\ rd2.status = rd1.status
        /\ rd2.capped \/ TextsTo(rd2.texts, lines, i)
      BY <1>4, <2>4, <2>5, AbsorbTells DEF rd2, doc
  <2>7. doc.stop \in Words /\ doc.model \in Words
      BY <1>4, DocTyped DEF Doc, Words, doc
  <2>8. got \in Readers /\ Waits(got, rd2) /\ Holds(got, rd2) /\ Counts(got, rd2)
      BY <2>6, <2>7 DEF Readers, Waits, Holds, Counts, got
  <2>9. rd1.unframed \/ FramedTo(lines, i)
    <3> SUFFICES ASSUME ~rd1.unframed, NEW j \in 1..i
                 PROVE  lines[j].form = "other" \/ IsDocument(lines, j)
        BY DEF FramedTo
    <3>1. FramedTo(lines, i - 1) /\ i - 1 + 1 = i /\ ~Glued(lines, i)
        BY <1>1, <1>4, <2>5 DEF Tells, IsDocument
    <3>2. j = i \/ j \in 1..(i - 1)
        BY <1>1
    <3>3. QED
        BY <1>4, <3>1, <3>2 DEF FramedTo
  <2>10. CASE doc.usage = NoUsage
    <3>1. s = got
        BY <2>3, <2>10
    <3>2. IsUsage(rd1.usage, lines, i)
        BY <1>4, <2>4, <2>5, <2>10, UsageOfNothing DEF Tells, Readers, doc
    <3>3. \A f \in rd1.fields : IsNamed(f, lines, i)
        BY <1>1, <2>5, NamedStays DEF Tells
    <3>4. Tells(got, lines, i)
        BY <2>5, <2>6, <2>8, <2>9, <3>2, <3>3 DEF Tells, Counts
    <3>5. QED
        BY <2>4, <2>6, <2>8, <3>1, <3>4 DEF Waits, Holds, s
  <2>11. CASE doc.usage # NoUsage
    <3>1. s = CountUsage(got, Doc(lines, i).usage)
        BY <2>3, <2>11 DEF doc
    <3>2. IsUsage(got.usage, lines, i - 1) /\ \A f \in got.fields : IsNamed(f, lines, i - 1)
        BY <2>5, <2>6, <2>8 DEF Tells, Counts
    <3>3. /\ s \in Readers /\ Waits(s, got) /\ Holds(s, got)
          /\ s.kept = got.kept /\ s.texts = got.texts /\ s.capped = got.capped
          /\ s.unframed = got.unframed
          /\ IsUsage(s.usage, lines, i) /\ \A f \in s.fields : IsNamed(f, lines, i)
          /\ s.status = "known" => {"input", "output"} \subseteq s.fields
        BY <1>4, <2>8, <3>1, <3>2, CountIs
    <3>4. Tells(s, lines, i)
        BY <2>6, <2>8, <2>9, <3>3 DEF Tells, Counts
    <3>5. QED
        BY <2>4, <2>6, <2>8, <3>3, <3>4 DEF Waits, Holds, s
  <2>12. QED
      BY <2>10, <2>11
<1>5. QED
    BY <1>3, <1>4

-----------------------------------------------------------------------------
(* A token of the stream. *)

LEMMA MarkIs ==
    /\ \A e \in Events : /\ << e, 1 >> \in Marks /\ << e, 2 >> \in Marks
                        /\ << e, 1 >> # NL /\ << e, 2 >> # NL
                        /\ << e, 1 >> # CR /\ << e, 2 >> # CR
                        /\ << e, 1 >> # Other /\ << e, 2 >> # Other
    /\ NL \in Marks /\ CR \in Marks /\ Other \in Marks
    /\ CR # NL /\ Other # NL /\ Other # CR
BY DEF Marks, NL, CR, Other

LEMMA TokenWaits ==
    ASSUME NEW rd \in Readers, NEW token \in Marks, rd.json \/ token # NL
    PROVE  LET s == Token(rd, token) IN
           /\ s \in Readers /\ Waits(s, rd) /\ Counts(s, rd)
           /\ s.data = rd.data /\ s.pending = Append(rd.pending, token)
<1> DEFINE s == Token(rd, token)
           more == Append(rd.pending, token)
<1>1. more \in Seq(Marks)
    BY AppendProperties DEF Readers
<1> HIDE DEF more
<1>2. s = [rd EXCEPT !.pending = more]
    BY DEF Token, more
<1> HIDE DEF s
<1>3. s \in Readers /\ s.pending = more
    BY <1>1, <1>2 DEF Readers
<1>4. Waits(s, rd) /\ Counts(s, rd) /\ s.data = rd.data
    BY <1>2 DEF Readers, Waits, Counts
<1>5. QED
    BY <1>3, <1>4 DEF s, more

LEMMA TokenIsData ==
    ASSUME NEW rd \in Readers, ~rd.json, NEW text \in Seq(Marks), text # << >>, Head(text) # Other,
           Bare(rd.pending) = text
    PROVE  LET s == Token(rd, NL) IN
           /\ s \in Readers /\ Waits(s, rd) /\ Counts(s, rd)
           /\ s.data = rd.data \o text /\ s.pending = << >>
<1> DEFINE s == Token(rd, NL)
           more == rd.data \o text
           size == rd.dataSize + Len(text) + 1
<1>1. more \in Seq(Marks) /\ size \in Nat
    BY ConcatProperties, LenProperties DEF Readers
<1>2. Line(rd, text) = [rd EXCEPT !.data = more, !.dataSize = size]
    BY DEF Line
<1>3. s = [Line(rd, text) EXCEPT !.pending = << >>]
    BY DEF Token
<1> HIDE DEF s, more, size
<1>4. << >> \in Seq(Marks)
    OBVIOUS
<1>5. s \in Readers /\ s.data = more /\ s.pending = << >>
    BY <1>1, <1>2, <1>3, <1>4 DEF Readers
<1>6. Waits(s, rd) /\ Counts(s, rd)
    BY <1>2, <1>3 DEF Readers, Waits, Counts
<1>7. QED
    BY <1>5, <1>6 DEF s, more

LEMMA TokenIsOther ==
    ASSUME NEW rd \in Readers, ~rd.json, rd.pending = << Other >>
    PROVE  LET s == Token(rd, NL) IN
           /\ s \in Readers /\ Waits(s, rd) /\ Counts(s, rd)
           /\ s.data = rd.data /\ s.pending = << >>
<1> DEFINE s == Token(rd, NL)
           text == << Other >>
<1>1. text # << >> /\ Head(text) = Other /\ Last(text) # CR
    BY MarkIs DEF Last
<1>2. Bare(rd.pending) = text
    BY <1>1 DEF Bare
<1> HIDE DEF text
<1>3. Line(rd, text) = rd
    BY <1>1 DEF Line
<1>4. s = [rd EXCEPT !.pending = << >>]
    BY <1>2, <1>3 DEF Token
<1> HIDE DEF s
<1>5. << >> \in Seq(Marks)
    OBVIOUS
<1>6. s \in Readers /\ s.pending = << >>
    BY <1>4, <1>5 DEF Readers
<1>7. Waits(s, rd) /\ Counts(s, rd) /\ s.data = rd.data
    BY <1>4 DEF Readers, Waits, Counts
<1>8. QED
    BY <1>6, <1>7 DEF s

LEMMA TokenEnds ==
    ASSUME NEW rd \in Readers, ~rd.json, Bare(rd.pending) = << >>, rd.data # << >>,
           Consume(rd, rd.data) \in Readers
    PROVE  LET s == Token(rd, NL) c == Consume(rd, rd.data) IN
           /\ s \in Readers /\ Waits(s, c) /\ Counts(s, c)
           /\ s.data = << >> /\ s.pending = << >>
<1> DEFINE s == Token(rd, NL)
           c == Consume(rd, rd.data)
           l == Line(rd, << >>)
<1>1. l = [c EXCEPT !.data = << >>, !.dataSize = 0]
    BY DEF Line
<1>2. s = [l EXCEPT !.pending = << >>]
    BY DEF Token
<1>3. c \in Readers /\ << >> \in Seq(Marks) /\ 0 \in Nat
    OBVIOUS
<1> HIDE DEF s, c, l
<1>4. l \in Readers /\ l.data = << >>
    BY <1>1, <1>3 DEF Readers
<1>5. Waits(l, c) /\ Counts(l, c)
    BY <1>1, <1>3 DEF Readers, Waits, Counts
<1>6. s \in Readers /\ s.data = << >> /\ s.pending = << >>
    BY <1>2, <1>3, <1>4 DEF Readers
<1>7. Waits(s, l) /\ Counts(s, l)
    BY <1>2, <1>4 DEF Readers, Waits, Counts
<1>8. QED
    BY <1>5, <1>6, <1>7 DEF Waits, Counts, s, c

LEMMA FollowsMore ==
    ASSUME NEW lines, NEW i, NEW held, NEW e \in Events
    PROVE  /\ Follows(lines, i, held, << >>)
              => /\ Follows(lines, i, held \o << << e, 1 >> >>, << << e, 1 >> >>)
                 /\ Follows(lines, i, held \o Both(e), Both(e))
           /\ Follows(lines, i, held, << << e, 1 >> >>)
              => Follows(lines, i, held \o << << e, 2 >> >>, Both(e))
<1> DEFINE half == << e, 1 >>
           rest == << e, 2 >>
           one == << half >>
           two == << rest >>
           both == Both(e)
<1>1. half \in Marks /\ rest \in Marks
    BY MarkIs
<1> HIDE DEF half, rest
<1>2. /\ one \in Seq(Marks) /\ two \in Seq(Marks) /\ both \in Seq(Marks)
      /\ one \o two = both
  <2>1. << half >> \in Seq(Marks) /\ << rest >> \in Seq(Marks) /\ << half, rest >> \in Seq(Marks)
      BY <1>1
  <2>2. << half >> \o << rest >> = << half, rest >>
      BY <1>1, TwoAre
  <2>3. both = << half, rest >>
      BY DEF half, rest, Both
  <2>4. QED
      BY <2>1, <2>2, <2>3
<1>3. Len(one) = 1 /\ Len(two) = 1 /\ Len(both) = 2
    BY DEF Both
<1> HIDE DEF one, two, both
<1>4. ASSUME NEW more \in Seq(Marks), NEW own \in Seq(Marks), Follows(lines, i, held, own)
      PROVE  Follows(lines, i, held \o more, own \o more)
  <2>1. /\ held \in Seq(Marks) /\ held \o more \in Seq(Marks)
        /\ Len(held \o more) = Len(held) + Len(more)
        /\ Len(own \o more) = Len(own) + Len(more)
        /\ Len(held) \in Nat /\ Len(own) \in Nat /\ Len(more) \in Nat
      BY <1>4, ConcatProperties, LenProperties DEF Follows
  <2>2. QED
      BY <1>4, <2>1 DEF Follows
<1>5. << >> \in Seq(Marks) /\ << >> \o one = one /\ << >> \o both = both
    BY <1>2, ConcatEmptySeq
<1>6. Follows(lines, i, held, << >>)
      => Follows(lines, i, held \o one, one) /\ Follows(lines, i, held \o both, both)
    BY <1>2, <1>4, <1>5
<1>7. Follows(lines, i, held, one) => Follows(lines, i, held \o two, both)
    BY <1>2, <1>4
<1>8. QED
    BY <1>6, <1>7 DEF one, two, both, half, rest

LEMMA FollowsSome ==
    ASSUME NEW lines, NEW i, NEW held, NEW e, Follows(lines, i, held, Both(e))
    PROVE  held # << >>
<1>1. Len(Both(e)) = 2 /\ Both(e) # << >>
    BY DEF Both
<1>2. CASE Glued(lines, i)
  <2>1. Len(held) >= 4
      BY <1>1, <1>2 DEF Follows
  <2>2. Len(<< >>) = 0
      OBVIOUS
  <2>3. QED
      BY <2>1, <2>2
<1>3. CASE ~Glued(lines, i)
    BY <1>1, <1>3 DEF Follows
<1>4. QED
    BY <1>2, <1>3

(* What a reader holds of a line of which n tokens are read. *)
Pending(line, n) ==
    CASE n = 1 /\ line.form = "other" -> << Other >>
      [] n = 1 /\ line.form # "other" -> << << line.ev, 1 >> >>
      [] n = 2 /\ line.form \in {"one", "crlf", "open"} -> Both(line.ev)
      [] n = 3 /\ line.form = "crlf" -> << << line.ev, 1 >>, << line.ev, 2 >>, CR >>
      [] n = 3 /\ line.form = "two" -> << << line.ev, 2 >> >>
      [] n = 5 -> << CR >>
      [] OTHER -> << >>
Own(line, n) ==
    CASE n \in {2, 3} /\ line.form = "two" -> << << line.ev, 1 >> >>
      [] n = 3 /\ line.form = "one" -> Both(line.ev)
      [] n \in {4, 5} -> Both(line.ev)
      [] OTHER -> << >>

Held(rd, lines, i, n) ==
    rd.pending = Pending(lines[i], n) /\ Follows(lines, i, rd.data, Own(lines[i], n))

LEMMA HeldOfNone ==
    ASSUME NEW rd, NEW lines, NEW i
    PROVE  Held(rd, lines, i, 0) <=> rd.pending = << >> /\ Follows(lines, i, rd.data, << >>)
BY DEF Held, Pending, Own

LEMMA WireIs ==
    ASSUME NEW line
    PROVE  LET w == Wire(line) half == << line.ev, 1 >> rest == << line.ev, 2 >> IN
           /\ line.form = "one" => Len(w) = 4 /\ w[1] = half /\ w[2] = rest /\ w[3] = NL /\ w[4] = NL
           /\ line.form = "two" => Len(w) = 5 /\ w[1] = half /\ w[2] = NL /\ w[3] = rest /\ w[4] = NL /\ w[5] = NL
           /\ line.form = "crlf" => /\ Len(w) = 6 /\ w[1] = half /\ w[2] = rest /\ w[3] = CR
                                    /\ w[4] = NL /\ w[5] = CR /\ w[6] = NL
           /\ line.form = "open" => Len(w) = 3 /\ w[1] = half /\ w[2] = rest /\ w[3] = NL
           /\ line.form = "other" => Len(w) = 2 /\ w[1] = Other /\ w[2] = NL
           /\ line.form = "json" => Len(w) = 2 /\ w[1] = half /\ w[2] = rest
<1>1. line.form = "one" => Wire(line) = << << line.ev, 1 >>, << line.ev, 2 >>, NL, NL >>
    BY DEF Wire
<1>2. line.form = "two" => Wire(line) = << << line.ev, 1 >>, NL, << line.ev, 2 >>, NL, NL >>
    BY DEF Wire
<1>3. line.form = "crlf" => Wire(line) = << << line.ev, 1 >>, << line.ev, 2 >>, CR, NL, CR, NL >>
    BY DEF Wire
<1>4. line.form = "open" => Wire(line) = << << line.ev, 1 >>, << line.ev, 2 >>, NL >>
    BY DEF Wire
<1>5. line.form = "other" => Wire(line) = << Other, NL >>
    BY DEF Wire
<1>6. line.form = "json" => Wire(line) = << << line.ev, 1 >>, << line.ev, 2 >> >>
    BY DEF Wire
<1>7. QED
    BY <1>1, <1>2, <1>3, <1>4, <1>5, <1>6

LEMMA BareIs ==
    ASSUME NEW e \in Events
    PROVE  LET half == << e, 1 >> rest == << e, 2 >> IN
           /\ Bare(<< >>) = << >> /\ Bare(<< CR >>) = << >>
           /\ Bare(<< half >>) = << half >> /\ Bare(<< rest >>) = << rest >>
           /\ Bare(Both(e)) = Both(e) /\ Bare(<< half, rest, CR >>) = Both(e)
           /\ << half >> \in Seq(Marks) /\ << rest >> \in Seq(Marks) /\ Both(e) \in Seq(Marks)
           /\ << half >> # << >> /\ << rest >> # << >> /\ Both(e) # << >>
           /\ Head(<< half >>) # Other /\ Head(<< rest >>) # Other /\ Head(Both(e)) # Other
<1> DEFINE half == << e, 1 >>
           rest == << e, 2 >>
<1>1. /\ half \in Marks /\ rest \in Marks /\ CR \in Marks
      /\ half # CR /\ rest # CR /\ half # Other /\ rest # Other
    BY MarkIs
<1>2. Both(e) = << half, rest >>
    BY DEF Both
<1> HIDE DEF half, rest
<1>3. /\ << half >> \in Seq(Marks) /\ << half >> # << >> /\ Head(<< half >>) = half /\ Last(<< half >>) = half
      /\ << rest >> \in Seq(Marks) /\ << rest >> # << >> /\ Head(<< rest >>) = rest /\ Last(<< rest >>) = rest
      /\ << CR >> # << >> /\ Last(<< CR >>) = CR /\ Front(<< CR >>) = << >>
    BY <1>1, OneIs
<1>4. /\ << half, rest >> \in Seq(Marks) /\ << half, rest >> # << >>
      /\ Head(<< half, rest >>) = half /\ Last(<< half, rest >>) = rest
    BY <1>1, TwoAre
<1>5. /\ << half, rest, CR >> # << >> /\ Last(<< half, rest, CR >>) = CR
      /\ Front(<< half, rest, CR >>) = << half, rest >>
    BY <1>1, ThreeAre
<1>6. Bare(<< >>) = << >> /\ Bare(<< CR >>) = << >>
    BY <1>3 DEF Bare
<1>7. Bare(<< half >>) = << half >> /\ Bare(<< rest >>) = << rest >>
    BY <1>1, <1>3 DEF Bare
<1>8. Bare(<< half, rest >>) = << half, rest >> /\ Bare(<< half, rest, CR >>) = << half, rest >>
    BY <1>1, <1>4, <1>5 DEF Bare
<1>9. QED
    BY <1>1, <1>2, <1>3, <1>4, <1>6, <1>7, <1>8 DEF half, rest

LEMMA GrowIs ==
    ASSUME NEW e \in Events
    PROVE  LET half == << e, 1 >> rest == << e, 2 >> IN
           /\ Append(<< >>, half) = << half >> /\ Append(<< half >>, rest) = Both(e)
           /\ Append(<< >>, rest) = << rest >> /\ Append(<< >>, CR) = << CR >>
           /\ Append(Both(e), CR) = << half, rest, CR >>
<1> DEFINE half == << e, 1 >>
           rest == << e, 2 >>
<1>1. half \in Marks /\ rest \in Marks /\ CR \in Marks
    BY MarkIs
<1>2. Both(e) = << half, rest >>
    BY DEF Both
<1> HIDE DEF half, rest
<1>3. Append(<< >>, half) = << half >> /\ Append(<< >>, rest) = << rest >> /\ Append(<< >>, CR) = << CR >>
    BY <1>1, OneIs
<1>4. Append(<< half >>, rest) = << half, rest >>
    BY <1>1, TwoAre
<1>5. Append(<< half, rest >>, CR) = << half, rest, CR >>
    BY <1>1, ThreeAre
<1>6. QED
    BY <1>2, <1>3, <1>4, <1>5 DEF half, rest

(* The end of an event. *)
LEMMA EndTells ==
    ASSUME NEW lines \in AllLines, NEW i \in 1..Len(lines), NEW rd \in Readers, ~rd.json,
           Closes(lines, i), Bare(rd.pending) = << >>,
           Follows(lines, i, rd.data, Both(lines[i].ev)), Tells(rd, lines, i - 1)
    PROVE  LET s == Token(rd, NL) IN
           s \in Readers /\ Waits(s, rd) /\ Held(s, lines, i + 1, 0) /\ Tells(s, lines, i)
<1> DEFINE s == Token(rd, NL)
           c == Consume(rd, rd.data)
<1>1. c \in Readers /\ Waits(c, rd) /\ Tells(c, lines, i)
    BY ConsumeTells
<1>2. rd.data # << >>
    BY FollowsSome
<1>3. s \in Readers /\ Waits(s, c) /\ Counts(s, c) /\ s.data = << >> /\ s.pending = << >>
    BY <1>1, <1>2, TokenEnds
<1>4. ~Glued(lines, i + 1)
    BY GluedStep DEF Closes
<1> HIDE DEF s, c
<1>5. Tells(s, lines, i)
    BY <1>1, <1>3, TellsSame
<1>6. << >> \in Seq(Marks)
    OBVIOUS
<1>7. Held(s, lines, i + 1, 0)
    BY <1>3, <1>4, <1>6, HeldOfNone DEF Follows
<1>8. QED
    BY <1>1, <1>3, <1>5, <1>7 DEF Waits, s

(* A token that waits, and a line of data: the event goes on. *)
LEMMA WaitStep ==
    ASSUME NEW lines, NEW i, NEW n, NEW m, NEW rd \in Readers, NEW token \in Marks,
           token # NL, Held(rd, lines, i, n), Tells(rd, lines, i - 1),
           Pending(lines[i], m) = Append(Pending(lines[i], n), token),
           Own(lines[i], m) = Own(lines[i], n)
    PROVE  LET s == Token(rd, token) IN
           s \in Readers /\ Waits(s, rd) /\ Held(s, lines, i, m) /\ Tells(s, lines, i - 1)
<1> DEFINE s == Token(rd, token)
<1>1. /\ s \in Readers /\ Waits(s, rd) /\ Counts(s, rd)
      /\ s.data = rd.data /\ s.pending = Append(rd.pending, token)
    BY TokenWaits
<1> HIDE DEF s
<1>2. Tells(s, lines, i - 1)
    BY <1>1, TellsSame
<1>3. Held(s, lines, i, m)
    BY <1>1 DEF Held
<1>4. QED
    BY <1>1, <1>2, <1>3 DEF s

LEMMA DataStep ==
    ASSUME NEW lines, NEW i, NEW n, NEW m, NEW rd \in Readers, ~rd.json, NEW text \in Seq(Marks),
           text # << >>, Head(text) # Other, Bare(Pending(lines[i], n)) = text,
           Held(rd, lines, i, n), Tells(rd, lines, i - 1),
           Pending(lines[i], m) = << >>,
           Follows(lines, i, rd.data \o text, Own(lines[i], m))
    PROVE  LET s == Token(rd, NL) IN
           s \in Readers /\ Waits(s, rd) /\ Held(s, lines, i, m) /\ Tells(s, lines, i - 1)
<1> DEFINE s == Token(rd, NL)
<1>0. Bare(rd.pending) = text
    BY DEF Held
<1>1. /\ s \in Readers /\ Waits(s, rd) /\ Counts(s, rd)
      /\ s.data = rd.data \o text /\ s.pending = << >>
    BY <1>0, TokenIsData
<1> HIDE DEF s
<1>2. Tells(s, lines, i - 1)
    BY <1>1, TellsSame
<1>3. Held(s, lines, i, m)
    BY <1>1 DEF Held
<1>4. QED
    BY <1>1, <1>2, <1>3 DEF s

Reads(rd, lines, i, n) ==
    LET w == Wire(lines[i]) s == Token(rd, w[n + 1]) IN
    /\ s \in Readers /\ Waits(s, rd)
    /\ IF n + 1 < Len(w) THEN Held(s, lines, i, n + 1) /\ Tells(s, lines, i - 1)
       ELSE Held(s, lines, i + 1, 0) /\ Tells(s, lines, i)

LEMMA ReadsOther ==
    ASSUME NEW lines \in AllLines, NEW i \in 1..Len(lines), NEW n \in Nat, n < Len(Wire(lines[i])),
           lines[i].form = "other", NEW rd \in Readers, ~rd.json,
           Held(rd, lines, i, n), Tells(rd, lines, i - 1)
    PROVE  Reads(rd, lines, i, n)
<1> DEFINE line == lines[i]
           w == Wire(line)
<1>1. Len(w) = 2 /\ w[1] = Other /\ w[2] = NL
    BY WireIs
<1> HIDE DEF w
<1>2. n = 0 \/ n = 1
    BY <1>1 DEF w
<1>3. CASE n = 0
  <2>1. Pending(line, 0) = << >> /\ Pending(line, 1) = << Other >> /\ Own(line, 0) = << >> /\ Own(line, 1) = << >>
      BY DEF Pending, Own
  <2>2. Other \in Marks /\ Other # NL /\ Append(<< >>, Other) = << Other >>
      BY MarkIs, OneIs
  <2>3. LET s == Token(rd, Other) IN
        s \in Readers /\ Waits(s, rd) /\ Held(s, lines, i, 1) /\ Tells(s, lines, i - 1)
      BY <1>3, <2>1, <2>2, WaitStep
  <2>4. QED
      BY <1>1, <1>3, <2>3 DEF Reads, w
<1>4. CASE n = 1
  <2> DEFINE s == Token(rd, NL)
  <2>1. rd.pending = << Other >> /\ Follows(lines, i, rd.data, << >>)
      BY <1>4 DEF Held, Pending, Own
  <2>2. s \in Readers /\ Waits(s, rd) /\ Counts(s, rd) /\ s.data = rd.data /\ s.pending = << >>
      BY <2>1, TokenIsOther
  <2> HIDE DEF s
  <2>3. Glued(lines, i + 1) <=> Glued(lines, i)
      BY GluedStep
  <2>4. Held(s, lines, i + 1, 0)
      BY <2>1, <2>2, <2>3, HeldOfNone DEF Follows
  <2>5. Tells(s, lines, i)
      BY <2>2, TellsSame, OtherTells DEF Closes
  <2>6. QED
      BY <1>1, <1>4, <2>2, <2>4, <2>5 DEF Reads, w, s
<1>5. QED
    BY <1>2, <1>3, <1>4

LEMMA ReadsOne ==
    ASSUME NEW lines \in AllLines, NEW i \in 1..Len(lines), NEW n \in Nat, n < Len(Wire(lines[i])),
           lines[i].form = "one", NEW rd \in Readers, ~rd.json,
           Held(rd, lines, i, n), Tells(rd, lines, i - 1)
    PROVE  Reads(rd, lines, i, n)
<1> DEFINE line == lines[i]
           w == Wire(line)
           e == line.ev
           half == << e, 1 >>
           rest == << e, 2 >>
<1>1. Len(w) = 4 /\ w[1] = half /\ w[2] = rest /\ w[3] = NL /\ w[4] = NL
    BY WireIs
<1>2. /\ Pending(line, 0) = << >> /\ Own(line, 0) = << >>
      /\ Pending(line, 1) = << half >> /\ Own(line, 1) = << >>
      /\ Pending(line, 2) = Both(e) /\ Own(line, 2) = << >>
      /\ Pending(line, 3) = << >> /\ Own(line, 3) = Both(e)
    BY DEF Pending, Own
<1>3. e \in Events
    BY LineTyped
<1>4. half \in Marks /\ rest \in Marks /\ half # NL /\ rest # NL /\ CR \in Marks /\ CR # NL
    BY <1>3, MarkIs
<1> HIDE DEF w, half, rest, e, line
<1>5. /\ Append(<< >>, half) = << half >> /\ Append(<< half >>, rest) = Both(e)
      /\ Append(<< >>, rest) = << rest >> /\ Append(<< >>, CR) = << CR >>
      /\ Append(Both(e), CR) = << half, rest, CR >>
    BY <1>3, GrowIs DEF half, rest
<1>6. n \in {0, 1, 2, 3}
    BY <1>1 DEF w, line
<1>7. CASE n = 0
  <2>1. LET s == Token(rd, half) IN
        s \in Readers /\ Waits(s, rd) /\ Held(s, lines, i, 1) /\ Tells(s, lines, i - 1)
      BY <1>2, <1>4, <1>5, <1>7, WaitStep DEF line
  <2>2. QED
      BY <1>1, <1>7, <2>1 DEF Reads, w, line
<1>8. CASE n = 1
  <2>1. LET s == Token(rd, rest) IN
        s \in Readers /\ Waits(s, rd) /\ Held(s, lines, i, 2) /\ Tells(s, lines, i - 1)
      BY <1>2, <1>4, <1>5, <1>8, WaitStep DEF line
  <2>2. QED
      BY <1>1, <1>8, <2>1 DEF Reads, w, line
<1>9. CASE n = 2
  <2>1. /\ Bare(Pending(line, 2)) = Both(e) /\ Both(e) \in Seq(Marks) /\ Both(e) # << >> /\ Head(Both(e)) # Other
      BY <1>2, <1>3, BareIs DEF half, rest
  <2>2. Follows(lines, i, rd.data \o Both(e), Own(line, 3))
    <3>1. Follows(lines, i, rd.data, Own(line, 2))
        BY <1>9 DEF Held, line
    <3>2. QED
        BY <1>2, <1>3, <3>1, FollowsMore DEF half, rest
  <2>3. LET s == Token(rd, NL) IN
        s \in Readers /\ Waits(s, rd) /\ Held(s, lines, i, 3) /\ Tells(s, lines, i - 1)
      BY <1>2, <1>9, <2>1, <2>2, DataStep DEF line
  <2>4. QED
      BY <1>1, <1>9, <2>3 DEF Reads, w, line
<1>10. CASE n = 3
  <2>1. Bare(rd.pending) = << >> /\ Follows(lines, i, rd.data, Both(e)) /\ Closes(lines, i)
      BY <1>2, <1>3, <1>10, BareIs DEF Held, line, Closes
  <2>2. LET s == Token(rd, NL) IN
        s \in Readers /\ Waits(s, rd) /\ Held(s, lines, i + 1, 0) /\ Tells(s, lines, i)
      BY <2>1, EndTells DEF e, line
  <2>3. QED
      BY <1>1, <1>10, <2>2 DEF Reads, w, line
<1>11. QED
    BY <1>6, <1>7, <1>8, <1>9, <1>10

LEMMA ReadsTwo ==
    ASSUME NEW lines \in AllLines, NEW i \in 1..Len(lines), NEW n \in Nat, n < Len(Wire(lines[i])),
           lines[i].form = "two", NEW rd \in Readers, ~rd.json,
           Held(rd, lines, i, n), Tells(rd, lines, i - 1)
    PROVE  Reads(rd, lines, i, n)
<1> DEFINE line == lines[i]
           w == Wire(line)
           e == line.ev
           half == << e, 1 >>
           rest == << e, 2 >>
<1>1. Len(w) = 5 /\ w[1] = half /\ w[2] = NL /\ w[3] = rest /\ w[4] = NL /\ w[5] = NL
    BY WireIs
<1>2. /\ Pending(line, 0) = << >> /\ Own(line, 0) = << >>
      /\ Pending(line, 1) = << half >> /\ Own(line, 1) = << >>
      /\ Pending(line, 2) = << >> /\ Own(line, 2) = << half >>
      /\ Pending(line, 3) = << rest >> /\ Own(line, 3) = << half >>
      /\ Pending(line, 4) = << >> /\ Own(line, 4) = Both(e)
    BY DEF Pending, Own
<1>3. e \in Events
    BY LineTyped
<1>4. half \in Marks /\ rest \in Marks /\ half # NL /\ rest # NL /\ CR \in Marks /\ CR # NL
    BY <1>3, MarkIs
<1> HIDE DEF w, half, rest, e, line
<1>5. /\ Append(<< >>, half) = << half >> /\ Append(<< half >>, rest) = Both(e)
      /\ Append(<< >>, rest) = << rest >> /\ Append(<< >>, CR) = << CR >>
      /\ Append(Both(e), CR) = << half, rest, CR >>
    BY <1>3, GrowIs DEF half, rest
<1>6. n \in {0, 1, 2, 3, 4}
    BY <1>1 DEF w, line
<1>7. CASE n = 0
  <2>1. LET s == Token(rd, half) IN
        s \in Readers /\ Waits(s, rd) /\ Held(s, lines, i, 1) /\ Tells(s, lines, i - 1)
      BY <1>2, <1>4, <1>5, <1>7, WaitStep DEF line
  <2>2. QED
      BY <1>1, <1>7, <2>1 DEF Reads, w, line
<1>8. CASE n = 1
  <2>1. /\ Bare(Pending(line, 1)) = << half >> /\ << half >> \in Seq(Marks) /\ << half >> # << >> /\ Head(<< half >>) # Other
      BY <1>2, <1>3, BareIs DEF half, rest
  <2>2. Follows(lines, i, rd.data \o << half >>, Own(line, 2))
    <3>1. Follows(lines, i, rd.data, Own(line, 1))
        BY <1>8 DEF Held, line
    <3>2. QED
        BY <1>2, <1>3, <3>1, FollowsMore DEF half, rest
  <2>3. LET s == Token(rd, NL) IN
        s \in Readers /\ Waits(s, rd) /\ Held(s, lines, i, 2) /\ Tells(s, lines, i - 1)
      BY <1>2, <1>8, <2>1, <2>2, DataStep DEF line
  <2>4. QED
      BY <1>1, <1>8, <2>3 DEF Reads, w, line
<1>9. CASE n = 2
  <2>1. LET s == Token(rd, rest) IN
        s \in Readers /\ Waits(s, rd) /\ Held(s, lines, i, 3) /\ Tells(s, lines, i - 1)
      BY <1>2, <1>4, <1>5, <1>9, WaitStep DEF line
  <2>2. QED
      BY <1>1, <1>9, <2>1 DEF Reads, w, line
<1>10. CASE n = 3
  <2>1. /\ Bare(Pending(line, 3)) = << rest >> /\ << rest >> \in Seq(Marks) /\ << rest >> # << >> /\ Head(<< rest >>) # Other
      BY <1>2, <1>3, BareIs DEF half, rest
  <2>2. Follows(lines, i, rd.data \o << rest >>, Own(line, 4))
    <3>1. Follows(lines, i, rd.data, Own(line, 3))
        BY <1>10 DEF Held, line
    <3>2. QED
        BY <1>2, <1>3, <3>1, FollowsMore DEF half, rest
  <2>3. LET s == Token(rd, NL) IN
        s \in Readers /\ Waits(s, rd) /\ Held(s, lines, i, 4) /\ Tells(s, lines, i - 1)
      BY <1>2, <1>10, <2>1, <2>2, DataStep DEF line
  <2>4. QED
      BY <1>1, <1>10, <2>3 DEF Reads, w, line
<1>11. CASE n = 4
  <2>1. Bare(rd.pending) = << >> /\ Follows(lines, i, rd.data, Both(e)) /\ Closes(lines, i)
      BY <1>2, <1>3, <1>11, BareIs DEF Held, line, Closes
  <2>2. LET s == Token(rd, NL) IN
        s \in Readers /\ Waits(s, rd) /\ Held(s, lines, i + 1, 0) /\ Tells(s, lines, i)
      BY <2>1, EndTells DEF e, line
  <2>3. QED
      BY <1>1, <1>11, <2>2 DEF Reads, w, line
<1>12. QED
    BY <1>6, <1>7, <1>8, <1>9, <1>10, <1>11

LEMMA ReadsCrlf ==
    ASSUME NEW lines \in AllLines, NEW i \in 1..Len(lines), NEW n \in Nat, n < Len(Wire(lines[i])),
           lines[i].form = "crlf", NEW rd \in Readers, ~rd.json,
           Held(rd, lines, i, n), Tells(rd, lines, i - 1)
    PROVE  Reads(rd, lines, i, n)
<1> DEFINE line == lines[i]
           w == Wire(line)
           e == line.ev
           half == << e, 1 >>
           rest == << e, 2 >>
<1>1. Len(w) = 6 /\ w[1] = half /\ w[2] = rest /\ w[3] = CR /\ w[4] = NL /\ w[5] = CR /\ w[6] = NL
    BY WireIs
<1>2. /\ Pending(line, 0) = << >> /\ Own(line, 0) = << >>
      /\ Pending(line, 1) = << half >> /\ Own(line, 1) = << >>
      /\ Pending(line, 2) = Both(e) /\ Own(line, 2) = << >>
      /\ Pending(line, 3) = << half, rest, CR >> /\ Own(line, 3) = << >>
      /\ Pending(line, 4) = << >> /\ Own(line, 4) = Both(e)
      /\ Pending(line, 5) = << CR >> /\ Own(line, 5) = Both(e)
    BY DEF Pending, Own
<1>3. e \in Events
    BY LineTyped
<1>4. half \in Marks /\ rest \in Marks /\ half # NL /\ rest # NL /\ CR \in Marks /\ CR # NL
    BY <1>3, MarkIs
<1> HIDE DEF w, half, rest, e, line
<1>5. /\ Append(<< >>, half) = << half >> /\ Append(<< half >>, rest) = Both(e)
      /\ Append(<< >>, rest) = << rest >> /\ Append(<< >>, CR) = << CR >>
      /\ Append(Both(e), CR) = << half, rest, CR >>
    BY <1>3, GrowIs DEF half, rest
<1>6. n \in {0, 1, 2, 3, 4, 5}
    BY <1>1 DEF w, line
<1>7. CASE n = 0
  <2>1. LET s == Token(rd, half) IN
        s \in Readers /\ Waits(s, rd) /\ Held(s, lines, i, 1) /\ Tells(s, lines, i - 1)
      BY <1>2, <1>4, <1>5, <1>7, WaitStep DEF line
  <2>2. QED
      BY <1>1, <1>7, <2>1 DEF Reads, w, line
<1>8. CASE n = 1
  <2>1. LET s == Token(rd, rest) IN
        s \in Readers /\ Waits(s, rd) /\ Held(s, lines, i, 2) /\ Tells(s, lines, i - 1)
      BY <1>2, <1>4, <1>5, <1>8, WaitStep DEF line
  <2>2. QED
      BY <1>1, <1>8, <2>1 DEF Reads, w, line
<1>9. CASE n = 2
  <2>1. LET s == Token(rd, CR) IN
        s \in Readers /\ Waits(s, rd) /\ Held(s, lines, i, 3) /\ Tells(s, lines, i - 1)
      BY <1>2, <1>4, <1>5, <1>9, WaitStep DEF line
  <2>2. QED
      BY <1>1, <1>9, <2>1 DEF Reads, w, line
<1>10. CASE n = 3
  <2>1. /\ Bare(Pending(line, 3)) = Both(e) /\ Both(e) \in Seq(Marks) /\ Both(e) # << >> /\ Head(Both(e)) # Other
      BY <1>2, <1>3, BareIs DEF half, rest
  <2>2. Follows(lines, i, rd.data \o Both(e), Own(line, 4))
    <3>1. Follows(lines, i, rd.data, Own(line, 3))
        BY <1>10 DEF Held, line
    <3>2. QED
        BY <1>2, <1>3, <3>1, FollowsMore DEF half, rest
  <2>3. LET s == Token(rd, NL) IN
        s \in Readers /\ Waits(s, rd) /\ Held(s, lines, i, 4) /\ Tells(s, lines, i - 1)
      BY <1>2, <1>10, <2>1, <2>2, DataStep DEF line
  <2>4. QED
      BY <1>1, <1>10, <2>3 DEF Reads, w, line
<1>11. CASE n = 4
  <2>1. LET s == Token(rd, CR) IN
        s \in Readers /\ Waits(s, rd) /\ Held(s, lines, i, 5) /\ Tells(s, lines, i - 1)
      BY <1>2, <1>4, <1>5, <1>11, WaitStep DEF line
  <2>2. QED
      BY <1>1, <1>11, <2>1 DEF Reads, w, line
<1>12. CASE n = 5
  <2>1. Bare(rd.pending) = << >> /\ Follows(lines, i, rd.data, Both(e)) /\ Closes(lines, i)
      BY <1>2, <1>3, <1>12, BareIs DEF Held, line, Closes
  <2>2. LET s == Token(rd, NL) IN
        s \in Readers /\ Waits(s, rd) /\ Held(s, lines, i + 1, 0) /\ Tells(s, lines, i)
      BY <2>1, EndTells DEF e, line
  <2>3. QED
      BY <1>1, <1>12, <2>2 DEF Reads, w, line
<1>13. QED
    BY <1>6, <1>7, <1>8, <1>9, <1>10, <1>11, <1>12

LEMMA ReadsOpen ==
    ASSUME NEW lines \in AllLines, NEW i \in 1..Len(lines), NEW n \in Nat, n < Len(Wire(lines[i])),
           lines[i].form = "open", NEW rd \in Readers, ~rd.json,
           Held(rd, lines, i, n), Tells(rd, lines, i - 1)
    PROVE  Reads(rd, lines, i, n)
<1> DEFINE line == lines[i]
           w == Wire(line)
           e == line.ev
           half == << e, 1 >>
           rest == << e, 2 >>
<1>1. Len(w) = 3 /\ w[1] = half /\ w[2] = rest /\ w[3] = NL
    BY WireIs
<1>2. /\ Pending(line, 0) = << >> /\ Own(line, 0) = << >>
      /\ Pending(line, 1) = << half >> /\ Own(line, 1) = << >>
      /\ Pending(line, 2) = Both(e) /\ Own(line, 2) = << >>
    BY DEF Pending, Own
<1>3. e \in Events
    BY LineTyped
<1>4. half \in Marks /\ rest \in Marks /\ half # NL /\ rest # NL /\ CR \in Marks /\ CR # NL
    BY <1>3, MarkIs
<1> HIDE DEF w, half, rest, e, line
<1>5. /\ Append(<< >>, half) = << half >> /\ Append(<< half >>, rest) = Both(e)
      /\ Append(<< >>, rest) = << rest >> /\ Append(<< >>, CR) = << CR >>
      /\ Append(Both(e), CR) = << half, rest, CR >>
    BY <1>3, GrowIs DEF half, rest
<1>6. n \in {0, 1, 2}
    BY <1>1 DEF w, line
<1>7. CASE n = 0
  <2>1. LET s == Token(rd, half) IN
        s \in Readers /\ Waits(s, rd) /\ Held(s, lines, i, 1) /\ Tells(s, lines, i - 1)
      BY <1>2, <1>4, <1>5, <1>7, WaitStep DEF line
  <2>2. QED
      BY <1>1, <1>7, <2>1 DEF Reads, w, line
<1>8. CASE n = 1
  <2>1. LET s == Token(rd, rest) IN
        s \in Readers /\ Waits(s, rd) /\ Held(s, lines, i, 2) /\ Tells(s, lines, i - 1)
      BY <1>2, <1>4, <1>5, <1>8, WaitStep DEF line
  <2>2. QED
      BY <1>1, <1>8, <2>1 DEF Reads, w, line
<1>9. CASE n = 2
  <2> DEFINE s == Token(rd, NL)
  <2>1. /\ Bare(rd.pending) = Both(e) /\ Both(e) \in Seq(Marks) /\ Both(e) # << >> /\ Head(Both(e)) # Other
      BY <1>2, <1>3, <1>9, BareIs DEF Held, line
  <2>2. Follows(lines, i, rd.data \o Both(e), Both(e))
      BY <1>2, <1>3, <1>9, FollowsMore DEF Held, line
  <2>3. /\ s \in Readers /\ Waits(s, rd) /\ Counts(s, rd)
        /\ s.data = rd.data \o Both(e) /\ s.pending = << >>
      BY <2>1, TokenIsData
  <2> HIDE DEF s
  <2>4. Glued(lines, i + 1) /\ ~Closes(lines, i)
      BY GluedStep DEF Closes
  <2>5. Len(s.data) >= 2 + 0 /\ s.data \in Seq(Marks)
    <3>1. Len(Both(e)) = 2
        BY DEF Both
    <3>2. QED
        BY <2>2, <2>3, <3>1 DEF Follows
  <2>6. Len(<< >>) = 0
      OBVIOUS
  <2>7. Held(s, lines, i + 1, 0)
      BY <2>3, <2>4, <2>5, <2>6, HeldOfNone DEF Follows
  <2>8. Tells(s, lines, i)
      BY <2>3, <2>4, TellsSame, OtherTells
  <2>9. QED
      BY <1>1, <1>9, <2>3, <2>7, <2>8 DEF Reads, w, line, s
<1>10. QED
    BY <1>6, <1>7, <1>8, <1>9

LEMMA StreamReads ==
    ASSUME NEW lines \in AllLines, NEW i \in 1..Len(lines), NEW n \in Nat, n < Len(Wire(lines[i])),
           lines[i].form # "json", NEW rd \in Readers, ~rd.json,
           Held(rd, lines, i, n), Tells(rd, lines, i - 1)
    PROVE  Reads(rd, lines, i, n)
<1>1. lines[i].form \in {"one", "two", "crlf", "open", "other"}
    BY LineTyped DEF Forms
<1>2. QED
    BY <1>1, ReadsOne, ReadsTwo, ReadsCrlf, ReadsOpen, ReadsOther

-----------------------------------------------------------------------------
(* The invariant of _stream(): while bytes are read and decoded, a reader   *)
(* that has not failed holds what is begun and tells what the lines before  *)
(* say; one that failed says nothing is known.                              *)
UTypeOK ==
    /\ answer \in Answers /\ place \in (1..(Len(answer) + 1)) \X Nat
    /\ IF place[1] <= Len(answer) THEN place[2] < Len(Wire(answer[place[1]])) ELSE place[2] = 0
    /\ left \in Nat /\ reader \in Readers /\ readable \in BOOLEAN
    /\ phase \in {"stream", "failed", "gone", "ended"}
    /\ reader.json = IsJson(answer)

HeldOfOne(rd, lines, here) ==
    /\ here = << 1, 0 >> => rd.pending = << >>
    /\ here = << 1, 1 >> => rd.pending = << << lines[1].ev, 1 >> >>
    /\ here = << 2, 0 >> => rd.pending = Both(lines[1].ev)

IsExact(rd, lines, here) ==
    /\ rd.failed => rd.unframed /\ rd.status # "known" /\ rd.pending = << >> /\ rd.data = << >>
    /\ ~rd.failed /\ rd.json => Tells(rd, lines, 0) /\ HeldOfOne(rd, lines, here)
    /\ ~rd.failed /\ ~rd.json => Tells(rd, lines, here[1] - 1) /\ Held(rd, lines, here[1], here[2])

UInv ==
    /\ UTypeOK /\ reader.kept <= MaxText
    /\ phase = "stream" => noted = NoExchange /\ (readable => IsExact(reader, answer, place))
    /\ phase # "stream" => KnownIsExact

LEMMA AnswerTyped ==
    ASSUME NEW lines \in Answers
    PROVE  /\ lines \in AllLines /\ Len(lines) \in Nat
           /\ \A i \in 1..Len(lines) : Len(Wire(lines[i])) \in Nat /\ Len(Wire(lines[i])) > 0
           /\ IsJson(lines) => /\ Len(lines) = 1 /\ lines[1].form = "json"
                               /\ Len(Wire(lines[1])) = 2
                               /\ Wire(lines[1])[1] = << lines[1].ev, 1 >>
                               /\ Wire(lines[1])[2] = << lines[1].ev, 2 >>
           /\ ~IsJson(lines) => \A i \in 1..Len(lines) : lines[i].form # "json"
<1>1. lines \in AllLines
    BY ReaderAssumption DEF AllLines, LineSet
<1>2. Len(lines) \in Nat /\ DOMAIN lines = 1..Len(lines)
    BY <1>1, LenProperties DEF AllLines
<1>3. ASSUME NEW i \in 1..Len(lines)
      PROVE  Len(Wire(lines[i])) \in Nat /\ Len(Wire(lines[i])) > 0
    BY <1>1, LineTyped, WireIs DEF Forms
<1>4. ASSUME IsJson(lines)
      PROVE  Len(lines) = 1 /\ lines[1].form = "json"
  <2>1. Len(lines) = 1
      BY <1>4, ReaderAssumption
  <2>2. QED
      BY <1>2, <1>4, <2>1 DEF IsJson
<1>5. lines[1].form = "json" => /\ Len(Wire(lines[1])) = 2
                                /\ Wire(lines[1])[1] = << lines[1].ev, 1 >>
                                /\ Wire(lines[1])[2] = << lines[1].ev, 2 >>
    BY WireIs
<1>6. ~IsJson(lines) => \A i \in 1..Len(lines) : lines[i].form # "json"
    BY <1>2 DEF IsJson
<1>7. QED
    BY <1>1, <1>2, <1>3, <1>4, <1>5, <1>6

LEMMA ExactFromTheStart ==
    ASSUME UInit
    PROVE  UInv
<1>1. answer \in AllLines /\ Len(answer) \in Nat
    BY AnswerTyped DEF UInit
<1>2. IsJson(answer) \in BOOLEAN
    BY DEF IsJson
<1> DEFINE rd == NewReader(IsJson(answer))
<1>3. rd \in Readers /\ Tells(rd, answer, 0)
    BY <1>1, <1>2, NewTyped, NewTells
<1>4. /\ rd.json = IsJson(answer) /\ ~rd.failed /\ rd.pending = << >> /\ rd.data = << >> /\ rd.kept = 0
    BY DEF NewReader
<1> HIDE DEF rd
<1>5. reader = rd /\ place = << 1, 0 >> /\ phase = "stream" /\ readable = TRUE /\ left = 0
      /\ noted = NoExchange /\ answer \in Answers
    BY DEF UInit, rd
<1>6. UTypeOK
  <2>1. place \in (1..(Len(answer) + 1)) \X Nat /\ place[1] = 1 /\ place[2] = 0
      BY <1>1, <1>5
  <2>2. 1 <= Len(answer) => 0 < Len(Wire(answer[1]))
      BY <1>1, <1>5, AnswerTyped
  <2>3. QED
      BY <1>3, <1>4, <1>5, <2>1, <2>2 DEF UTypeOK
<1>7. Held(rd, answer, 1, 0)
  <2>1. ~Glued(answer, 1)
      BY <1>1, GluedStep
  <2>2. << >> \in Seq(Marks)
      OBVIOUS
  <2>3. QED
      BY <1>4, <2>1, <2>2, HeldOfNone DEF Follows
<1>8. IsExact(rd, answer, << 1, 0 >>)
  <2>1. HeldOfOne(rd, answer, << 1, 0 >>)
      BY <1>4 DEF HeldOfOne
  <2>2. << 1, 0 >>[1] - 1 = 0 /\ << 1, 0 >>[1] = 1 /\ << 1, 0 >>[2] = 0
      OBVIOUS
  <2>3. QED
      BY <1>3, <1>4, <1>7, <2>1, <2>2 DEF IsExact
<1>9. rd.kept <= MaxText
    BY <1>4, ReaderAssumption
<1>10. QED
    BY <1>5, <1>6, <1>8, <1>9 DEF UInv

(* A chunk that is over the bound is not read. *)
LEMMA FeedTells ==
    ASSUME NEW rd \in Readers, NEW n, NEW lines, NEW here, IsExact(rd, lines, here)
    PROVE  LET s == Feed(rd, n) IN
           s \in Readers /\ s.json = rd.json /\ s.kept = rd.kept /\ IsExact(s, lines, here)
<1> DEFINE s == Feed(rd, n)
           u == Unframed(rd)
<1>1. CASE s = rd
    BY <1>1
<1>2. CASE s # rd
  <2>1. s = [u EXCEPT !.failed = TRUE, !.pending = << >>, !.data = << >>]
      BY <1>2 DEF Feed, Fails
  <2>2. /\ u \in Readers /\ Waits(u, rd) /\ u.unframed /\ u.status # "known" /\ u.kept = rd.kept
        /\ << >> \in Seq(Marks)
      BY UnframedTyped
  <2> HIDE DEF s, u
  <2>3. /\ s \in Readers /\ s.json = u.json /\ s.kept = u.kept /\ s.failed
        /\ s.unframed = u.unframed /\ s.status = u.status /\ s.pending = << >> /\ s.data = << >>
      BY <2>1, <2>2 DEF Readers
  <2>4. QED
      BY <2>2, <2>3 DEF IsExact, Waits, s
<1>3. QED
    BY <1>1, <1>2

(* Where the next token leaves the place. *)
LEMMA BeyondTyped ==
    ASSUME UTypeOK, ~AtEnd
    PROVE  LET i == place[1] n == place[2] IN
           /\ i \in 1..Len(answer) /\ n \in Nat /\ n < Len(Wire(answer[i])) /\ Len(answer) \in Nat
           /\ n + 1 < Len(Wire(answer[i])) => Beyond = << i, n + 1 >>
           /\ ~(n + 1 < Len(Wire(answer[i]))) => Beyond = << i + 1, 0 >>
           /\ Beyond \in (1..(Len(answer) + 1)) \X Nat
           /\ IF Beyond[1] <= Len(answer) THEN Beyond[2] < Len(Wire(answer[Beyond[1]])) ELSE Beyond[2] = 0
<1> DEFINE i == place[1]
           n == place[2]
<1>1. answer \in Answers /\ Len(answer) \in Nat /\ i \in 1..(Len(answer) + 1) /\ n \in Nat
    BY AnswerTyped DEF UTypeOK
<1>2. i \in 1..Len(answer) /\ n < Len(Wire(answer[i]))
    BY <1>1 DEF UTypeOK, AtEnd
<1>3. Len(Wire(answer[i])) \in Nat
    BY <1>1, <1>2, AnswerTyped
<1>4. i + 1 <= Len(answer) => i + 1 \in 1..Len(answer) /\ 0 < Len(Wire(answer[i + 1]))
  <2>1. i + 1 <= Len(answer) => i + 1 \in 1..Len(answer)
      BY <1>1, <1>2
  <2>2. QED
      BY <1>1, <2>1, AnswerTyped
<1>5. /\ n + 1 < Len(Wire(answer[i])) => Beyond = << i, n + 1 >>
      /\ ~(n + 1 < Len(Wire(answer[i]))) => Beyond = << i + 1, 0 >>
    BY DEF Beyond
<1> HIDE DEF i, n
<1>6. CASE n + 1 < Len(Wire(answer[i]))
  <2>1. Beyond = << i, n + 1 >>
      BY <1>5, <1>6
  <2>2. << i, n + 1 >>[1] = i /\ << i, n + 1 >>[2] = n + 1
      OBVIOUS
  <2>3. QED
      BY <1>1, <1>2, <1>5, <1>6, <2>1, <2>2 DEF i, n
<1>7. CASE ~(n + 1 < Len(Wire(answer[i])))
  <2>1. Beyond = << i + 1, 0 >>
      BY <1>5, <1>7
  <2>2. << i + 1, 0 >>[1] = i + 1 /\ << i + 1, 0 >>[2] = 0
      OBVIOUS
  <2>3. i + 1 \in 1..(Len(answer) + 1)
      BY <1>1, <1>2
  <2>4. QED
      BY <1>1, <1>2, <1>4, <1>5, <1>7, <2>1, <2>2, <2>3 DEF i, n
<1>8. QED
    BY <1>6, <1>7

LEMMA TokenTells ==
    ASSUME UTypeOK, ~AtEnd, ~reader.failed, reader.kept <= MaxText, IsExact(reader, answer, place)
    PROVE  LET s == Token(reader, Coming) IN
           /\ s \in Readers /\ s.json = reader.json /\ s.kept <= MaxText /\ IsExact(s, answer, Beyond)
<1> DEFINE rd == reader
           i == place[1]
           n == place[2]
           s == Token(rd, Coming)
<1>1. /\ i \in 1..Len(answer) /\ n \in Nat /\ n < Len(Wire(answer[i])) /\ Len(answer) \in Nat
      /\ n + 1 < Len(Wire(answer[i])) => Beyond = << i, n + 1 >>
      /\ ~(n + 1 < Len(Wire(answer[i]))) => Beyond = << i + 1, 0 >>
    BY BeyondTyped
<1>2. answer \in Answers /\ answer \in AllLines /\ rd \in Readers /\ rd.json = IsJson(answer)
    BY AnswerTyped DEF UTypeOK
<1>3. Coming = Wire(answer[i])[n + 1]
    BY DEF Coming
<1>4. CASE ~rd.json
  <2>1. Tells(rd, answer, i - 1) /\ Held(rd, answer, i, n)
      BY <1>4 DEF IsExact
  <2>2. answer[i].form # "json"
      BY <1>1, <1>2, <1>4, AnswerTyped
  <2>3. Reads(rd, answer, i, n)
      BY <1>1, <1>2, <1>4, <2>1, <2>2, StreamReads
  <2> HIDE DEF i, n, rd
  <2>4. /\ s \in Readers /\ Waits(s, rd)
        /\ IF n + 1 < Len(Wire(answer[i])) THEN Held(s, answer, i, n + 1) /\ Tells(s, answer, i - 1)
           ELSE Held(s, answer, i + 1, 0) /\ Tells(s, answer, i)
      BY <1>3, <2>3 DEF Reads
  <2> HIDE DEF s
  <2>5. ~s.failed /\ ~s.json /\ s.json = rd.json
      BY <1>4, <2>4 DEF Waits, rd
  <2>6. s.kept <= MaxText
      BY <2>4 DEF Tells
  <2>7. CASE n + 1 < Len(Wire(answer[i]))
    <3>1. Beyond = << i, n + 1 >> /\ << i, n + 1 >>[1] = i /\ << i, n + 1 >>[2] = n + 1
        BY <1>1, <2>7
    <3>2. Beyond[1] = i /\ Beyond[2] = n + 1
        BY <3>1
    <3>3. QED
        BY <2>4, <2>5, <2>6, <2>7, <3>2 DEF IsExact, s, rd
  <2>8. CASE ~(n + 1 < Len(Wire(answer[i])))
    <3>1. Beyond = << i + 1, 0 >> /\ << i + 1, 0 >>[1] = i + 1 /\ << i + 1, 0 >>[2] = 0
        BY <1>1, <2>8
    <3>2. Beyond[1] - 1 = i /\ Beyond[1] = i + 1 /\ Beyond[2] = 0
        BY <1>1, <3>1
    <3>3. QED
        BY <2>4, <2>5, <2>6, <2>8, <3>2 DEF IsExact, s, rd
  <2>9. QED
      BY <2>7, <2>8
<1>5. CASE rd.json
  <2> DEFINE half == << answer[1].ev, 1 >>
             rest == << answer[1].ev, 2 >>
  <2>1. /\ Len(answer) = 1 /\ Len(Wire(answer[1])) = 2
        /\ Wire(answer[1])[1] = half /\ Wire(answer[1])[2] = rest
      BY <1>2, <1>5, AnswerTyped
  <2>2. i = 1 /\ (n = 0 \/ n = 1)
    <3> HIDE DEF i, n
    <3>1. i = 1
        BY <1>1, <2>1
    <3>2. n < 2
        BY <1>1, <2>1, <3>1
    <3>3. QED
        BY <1>1, <3>1, <3>2
  <2>3. answer[1].ev \in Events
      BY <1>1, <1>2, <2>1, LineTyped
  <2>4. half \in Marks /\ rest \in Marks
      BY <2>3, MarkIs
  <2>5. Append(<< >>, half) = << half >> /\ Append(<< half >>, rest) = Both(answer[1].ev)
      BY <2>3, GrowIs
  <2>6. place = << i, n >>
      BY DEF UTypeOK
  <2>7. Tells(rd, answer, 0) /\ HeldOfOne(rd, answer, place)
      BY <1>5 DEF IsExact
  <2>8. CASE n = 0
    <3>1. Coming = half /\ Beyond = << 1, 1 >>
        BY <1>1, <1>3, <2>1, <2>2, <2>8
    <3>2. rd.pending = << >>
        BY <2>2, <2>6, <2>7, <2>8 DEF HeldOfOne
    <3> HIDE DEF half, rest, i, n, rd
    <3>3. /\ s \in Readers /\ Waits(s, rd) /\ Counts(s, rd) /\ s.pending = << half >>
        BY <1>2, <1>5, <2>4, <2>5, <3>1, <3>2, TokenWaits
    <3> HIDE DEF s
    <3>4. Tells(s, answer, 0)
        BY <2>7, <3>3, TellsSame
    <3>5. << 1, 1 >> # << 1, 0 >> /\ << 1, 1 >> # << 2, 0 >>
        OBVIOUS
    <3>6. HeldOfOne(s, answer, << 1, 1 >>)
        BY <3>3, <3>5 DEF HeldOfOne, half
    <3>7. s.json /\ ~s.failed /\ s.json = rd.json /\ s.kept <= MaxText
        BY <1>5, <3>3, <3>4 DEF Waits, rd, Tells
    <3>8. QED
        BY <3>1, <3>3, <3>4, <3>6, <3>7 DEF IsExact, s, rd
  <2>9. CASE n = 1
    <3>1. Coming = rest /\ Beyond = << 2, 0 >>
      <4> HIDE DEF i, n, rest
      <4>1. n + 1 = 2 /\ i + 1 = 2 /\ ~(n + 1 < 2)
          BY <2>2, <2>9
      <4>2. Coming = rest
          BY <1>3, <2>1, <2>2, <4>1
      <4>3. Beyond = << i + 1, 0 >>
          BY <1>1, <2>1, <2>2, <4>1
      <4>4. QED
          BY <4>1, <4>2, <4>3
    <3>2. rd.pending = << half >>
        BY <2>2, <2>6, <2>7, <2>9 DEF HeldOfOne
    <3> HIDE DEF half, rest, i, n, rd
    <3>3. /\ s \in Readers /\ Waits(s, rd) /\ Counts(s, rd) /\ s.pending = Both(answer[1].ev)
        BY <1>2, <1>5, <2>4, <2>5, <3>1, <3>2, TokenWaits
    <3> HIDE DEF s
    <3>4. Tells(s, answer, 0)
        BY <2>7, <3>3, TellsSame
    <3>5. << 2, 0 >> # << 1, 0 >> /\ << 2, 0 >> # << 1, 1 >>
        OBVIOUS
    <3>6. HeldOfOne(s, answer, << 2, 0 >>)
        BY <3>3, <3>5 DEF HeldOfOne
    <3>7. s.json /\ ~s.failed /\ s.json = rd.json /\ s.kept <= MaxText
        BY <1>5, <3>3, <3>4 DEF Waits, rd, Tells
    <3>8. QED
        BY <3>1, <3>3, <3>4, <3>6, <3>7 DEF IsExact, s, rd
  <2>10. QED
      BY <2>2, <2>8, <2>9
<1>6. QED
    BY <1>4, <1>5

(* The end: what is left over is not a document. *)
LEMMA FinishTells ==
    ASSUME UTypeOK, AtEnd, reader.kept <= MaxText, IsExact(reader, answer, place)
    PROVE  LET s == Finish(reader) IN
           /\ s \in Readers /\ s.json = reader.json /\ s.failed = reader.failed /\ s.kept <= MaxText
           /\ s.failed => s.unframed /\ s.status # "known"
           /\ ~s.failed /\ s.status = "known" =>
                 /\ IsUsage(s.usage, answer, Len(answer))
                 /\ \A f \in {"input", "output"} : IsNamed(f, answer, Len(answer))
           /\ ~s.unframed =>
                 /\ \A i \in 1..Len(answer) : answer[i].form = "other" \/ IsDocument(answer, i)
                 /\ s.capped \/ TextsTo(s.texts, answer, Len(answer))
<1> DEFINE rd == reader
           s == Finish(rd)
           m == Len(answer)
<1>1. /\ answer \in Answers /\ answer \in AllLines /\ rd \in Readers /\ rd.json = IsJson(answer)
      /\ m \in Nat
    BY AnswerTyped DEF UTypeOK
<1>2. place[1] = m + 1 /\ place[2] = 0 /\ place = << m + 1, 0 >>
    BY <1>1 DEF UTypeOK, AtEnd
<1>3. CASE rd.failed
  <2>1. s = rd
      BY <1>3 DEF Finish, IsExact
  <2>2. QED
      BY <1>1, <1>3, <2>1 DEF IsExact
<1>4. ASSUME ~rd.failed, NEW t \in Readers, s = t, ~t.failed, t.json = rd.json,
             Tells(t, answer, m), t.unframed \/ ~Glued(answer, m + 1)
      PROVE  /\ s \in Readers /\ s.json = reader.json /\ s.failed = reader.failed /\ s.kept <= MaxText
             /\ s.failed => s.unframed /\ s.status # "known"
             /\ ~s.failed /\ s.status = "known" =>
                   /\ IsUsage(s.usage, answer, m)
                   /\ \A f \in {"input", "output"} : IsNamed(f, answer, m)
             /\ ~s.unframed =>
                   /\ \A i \in 1..m : answer[i].form = "other" \/ IsDocument(answer, i)
                   /\ s.capped \/ TextsTo(s.texts, answer, m)
  <2> HIDE DEF s, m
  <2>1. rd.failed = t.failed
      BY <1>1, <1>4 DEF Readers
  <2>2. t.status = "known" => \A f \in {"input", "output"} : IsNamed(f, answer, m)
      BY <1>4 DEF Tells
  <2>3. ~t.unframed => \A i \in 1..m : answer[i].form = "other" \/ IsDocument(answer, i)
      BY <1>4 DEF Tells, FramedTo
  <2>4. QED
      BY <1>4, <2>1, <2>2, <2>3 DEF Tells
<1>5. CASE ~rd.failed /\ rd.json
  <2> DEFINE c == Consume(rd, rd.pending)
  <2>1. m = 1 /\ answer[1].form = "json" /\ 1 \in 1..Len(answer)
    <3>1. m = 1 /\ answer[1].form = "json"
        BY <1>1, <1>5, AnswerTyped
    <3>2. 1 \in 1..Len(answer)
        BY <3>1
    <3>3. QED
        BY <3>1, <3>2
  <2>2. place = << 2, 0 >>
      BY <1>2, <2>1
  <2>3. Tells(rd, answer, 1 - 1) /\ rd.pending = Both(answer[1].ev)
      BY <1>5, <2>2 DEF IsExact, HeldOfOne
  <2>4. ~Glued(answer, 1) /\ ~Glued(answer, 1 + 1) /\ Closes(answer, 1)
      BY <1>1, <2>1, GluedStep DEF Closes
  <2>5. answer[1].ev \in Events
      BY <1>1, <2>1, LineTyped
  <2>6. Follows(answer, 1, rd.pending, Both(answer[1].ev))
      BY <2>3, <2>4, <2>5, BareIs DEF Follows
  <2>7. c \in Readers /\ Waits(c, rd) /\ Tells(c, answer, 1)
      BY <1>1, <2>1, <2>3, <2>4, <2>6, ConsumeTells
  <2>8. s = [c EXCEPT !.pending = << >>]
      BY <1>5 DEF Finish
  <2>9. << >> \in Seq(Marks)
      OBVIOUS
  <2> HIDE DEF s, c
  <2>10. s \in Readers /\ Waits(s, c) /\ Counts(s, c)
      BY <2>7, <2>8, <2>9 DEF Readers, Waits, Counts
  <2>11. Tells(s, answer, 1) /\ ~s.failed /\ s.json = rd.json
      BY <1>5, <2>7, <2>10, TellsSame DEF Waits
  <2>12. s.unframed \/ ~Glued(answer, m + 1)
      BY <2>1, <2>4
  <2>13. Tells(s, answer, m)
      BY <2>1, <2>11
  <2>14. QED
      BY <1>4, <1>5, <2>10, <2>11, <2>12, <2>13 DEF s
<1>6. CASE ~rd.failed /\ ~rd.json
  <2>1. Tells(rd, answer, m) /\ rd.pending = << >> /\ Follows(answer, m + 1, rd.data, << >>)
    <3>1. m + 1 - 1 = m
        BY <1>1
    <3>2. QED
        BY <1>2, <1>6, <3>1, HeldOfNone DEF IsExact
  <2>2. CASE rd.data # << >>
    <3>1. s = Unframed(rd)
        BY <1>6, <2>2 DEF Finish
    <3>2. Tells(Unframed(rd), answer, m)
        BY <1>1, <2>1, UnframedTyped DEF Tells
    <3>3. /\ Unframed(rd) \in Readers /\ ~Unframed(rd).failed /\ Unframed(rd).json = rd.json
          /\ Unframed(rd).unframed
        BY <1>1, <1>6, UnframedTyped DEF Waits
    <3>4. QED
        BY <1>4, <1>6, <3>1, <3>2, <3>3
  <2>3. CASE rd.data = << >>
    <3>1. s = rd
        BY <1>6, <2>1, <2>3 DEF Finish
    <3>2. ~Glued(answer, m + 1)
      <4>1. Len(<< >>) = 0
          OBVIOUS
      <4>2. QED
          BY <2>1, <2>3, <4>1 DEF Follows
    <3>3. QED
        BY <1>1, <1>4, <1>6, <2>1, <3>1, <3>2
  <2>4. QED
      BY <2>2, <2>3
<1>7. QED
    BY <1>3, <1>5, <1>6

LEMMA NothingNoted ==
    /\ NoExchange.usageStatus = "unavailable" /\ NoExchange.scan = "unavailable"
    /\ \A usage, cause, status :
          LET more == [NoExchange EXCEPT !.usage = usage, !.stop = cause, !.usageStatus = status]
          IN more.usageStatus = status /\ more.scan = "unavailable"
<1> DEFINE none == [e \in {} |-> 0]
<1>1. NoExchange = [usage |-> Zero, usageStatus |-> "unavailable", stop |-> "", model |-> "",
                    scan |-> "unavailable", scanned |-> none]
    BY DEF NoExchange
<1> HIDE DEF none
<1>2. QED
    BY <1>1

LEMMA ExactAtEveryStep ==
    ASSUME UInv, [UNext]_uvars
    PROVE  UInv'
<1> USE DEF uvars
<1>1. UTypeOK /\ reader.kept <= MaxText
    BY DEF UInv
<1>2. ASSUME phase = "stream"
      PROVE  noted = NoExchange /\ (readable => IsExact(reader, answer, place))
    BY <1>2 DEF UInv
<1>3. ASSUME NEW n \in 1..MaxChunk, Chunk(n)
      PROVE  UInv'
  <2>1. /\ phase = "stream" /\ left' = n /\ answer' = answer /\ place' = place /\ readable' = readable
        /\ phase' = phase /\ noted' = noted
        /\ reader' = IF readable THEN Feed(reader, n) ELSE reader
      BY <1>3 DEF Chunk, Between
  <2>2. /\ reader' \in Readers /\ reader'.json = reader.json /\ reader'.kept <= MaxText
        /\ readable => IsExact(reader', answer, place)
    <3>1. CASE readable
        BY <1>1, <1>2, <2>1, <3>1, FeedTells DEF UTypeOK
    <3>2. CASE ~readable
        BY <1>1, <2>1, <3>2 DEF UTypeOK
    <3>3. QED
        BY <3>1, <3>2
  <2>3. n \in Nat
      BY ReaderAssumption
  <2>4. UTypeOK'
      BY <1>1, <2>1, <2>2, <2>3 DEF UTypeOK
  <2>5. QED
      BY <1>2, <2>1, <2>2, <2>4 DEF UInv
<1>4. ASSUME NEW n \in 1..MaxChunk, Undecodable(n)
      PROVE  UInv'
  <2>1. /\ phase = "stream" /\ left' = n /\ answer' = answer /\ place' = place /\ readable' = FALSE
        /\ phase' = phase /\ noted' = noted /\ reader' = reader
      BY <1>4 DEF Undecodable, Between
  <2>2. n \in Nat
      BY ReaderAssumption
  <2>3. UTypeOK'
      BY <1>1, <2>1, <2>2 DEF UTypeOK
  <2>4. QED
      BY <1>1, <1>2, <2>1, <2>3 DEF UInv
<1>5. CASE ReadToken
  <2>1. /\ phase = "stream" /\ left > 0 /\ ~AtEnd /\ left' = left - 1 /\ place' = Beyond
        /\ answer' = answer /\ readable' = readable /\ phase' = phase /\ noted' = noted
        /\ reader' = IF readable /\ ~reader.failed THEN Token(reader, Coming) ELSE reader
      BY <1>5 DEF ReadToken, Reading
  <2>2. /\ Beyond \in (1..(Len(answer) + 1)) \X Nat
        /\ IF Beyond[1] <= Len(answer) THEN Beyond[2] < Len(Wire(answer[Beyond[1]])) ELSE Beyond[2] = 0
      BY <1>1, <2>1, BeyondTyped
  <2>3. /\ reader' \in Readers /\ reader'.json = reader.json /\ reader'.kept <= MaxText
        /\ readable => IsExact(reader', answer, Beyond)
    <3>1. CASE readable /\ ~reader.failed
        BY <1>1, <1>2, <2>1, <3>1, TokenTells
    <3>2. CASE ~(readable /\ ~reader.failed)
      <4>1. reader' = reader /\ reader \in Readers
          BY <1>1, <2>1, <3>2 DEF UTypeOK
      <4>2. readable => IsExact(reader, answer, Beyond)
          BY <1>2, <2>1, <3>2 DEF IsExact
      <4>3. QED
          BY <1>1, <4>1, <4>2
    <3>3. QED
        BY <3>1, <3>2
  <2>4. left - 1 \in Nat
      BY <1>1, <2>1 DEF UTypeOK
  <2>5. UTypeOK'
      BY <1>1, <2>1, <2>2, <2>3, <2>4 DEF UTypeOK
  <2>6. QED
      BY <1>2, <2>1, <2>3, <2>5 DEF UInv
<1>6. CASE UpstreamFails
  <2>1. /\ phase = "stream" /\ phase' = "failed" /\ answer' = answer /\ place' = place /\ left' = left
        /\ reader' = reader /\ readable' = readable
        /\ noted' = [noted EXCEPT !.usage = reader.usage, !.stop = reader.stop,
                          !.usageStatus = IF reader.status = "unavailable"
                                          THEN "unavailable" ELSE "partial"]
      BY <1>6 DEF UpstreamFails, Between
  <2>2. noted'.usageStatus # "known" /\ noted'.scan = "unavailable"
    <3>1. noted = NoExchange
        BY <1>2, <2>1
    <3>2. noted'.usageStatus = (IF reader.status = "unavailable" THEN "unavailable" ELSE "partial")
          /\ noted'.scan = "unavailable"
        BY <2>1, <3>1, NothingNoted
    <3>3. QED
        BY <3>2
  <2>3. UTypeOK'
      BY <1>1, <2>1 DEF UTypeOK
  <2>4. KnownIsExact'
      BY <1>1, <2>1, <2>2 DEF KnownIsExact, KnownUsageIsExact, KnownScanIsWhole
  <2>5. QED
      BY <1>1, <2>1, <2>3, <2>4 DEF UInv
<1>7. CASE ClientGone
  <2>1. /\ phase = "stream" /\ phase' = "gone" /\ answer' = answer /\ place' = place /\ left' = left
        /\ reader' = reader /\ readable' = readable /\ noted' = noted
      BY <1>7 DEF ClientGone, Between
  <2>2. noted'.usageStatus # "known" /\ noted'.scan = "unavailable"
      BY <1>2, <2>1, NothingNoted
  <2>3. UTypeOK'
      BY <1>1, <2>1 DEF UTypeOK
  <2>4. KnownIsExact'
      BY <1>1, <2>1, <2>2 DEF KnownIsExact, KnownUsageIsExact, KnownScanIsWhole
  <2>5. QED
      BY <1>1, <2>1, <2>3, <2>4 DEF UInv
<1>8. CASE Ends
  <2> DEFINE rd == IF readable THEN Finish(reader) ELSE reader
             scan == IF readable THEN ResponseStatus(rd) ELSE "unavailable"
             m == Len(answer)
  <2>1. /\ phase = "stream" /\ AtEnd /\ phase' = "ended" /\ answer' = answer /\ place' = place
        /\ left' = left /\ readable' = readable /\ reader' = rd
        /\ noted' = [usage |-> rd.usage,
                     usageStatus |-> IF readable THEN rd.status ELSE "unavailable",
                     stop |-> rd.stop, model |-> rd.model, scan |-> scan,
                     scanned |-> IF scan = "unavailable" THEN [e \in {} |-> 0] ELSE rd.texts]
      BY <1>8 DEF Ends, Between
  <2>2. /\ rd \in Readers /\ rd.json = reader.json /\ rd.kept <= MaxText
        /\ readable => /\ rd.failed => rd.unframed /\ rd.status # "known"
                       /\ ~rd.failed /\ rd.status = "known" =>
                             /\ IsUsage(rd.usage, answer, m)
                             /\ \A f \in {"input", "output"} : IsNamed(f, answer, m)
                       /\ ~rd.unframed =>
                             /\ \A i \in 1..m : answer[i].form = "other" \/ IsDocument(answer, i)
                             /\ rd.capped \/ TextsTo(rd.texts, answer, m)
    <3>1. CASE readable
        BY <1>1, <1>2, <2>1, <3>1, FinishTells
    <3>2. CASE ~readable
        BY <1>1, <3>2 DEF UTypeOK
    <3>3. QED
        BY <3>1, <3>2
  <2>3. scan = "known" => readable /\ ~rd.unframed /\ ~rd.capped
      BY DEF ResponseStatus
  <2> HIDE DEF rd, scan
  <2>4. UTypeOK'
      BY <1>1, <2>1, <2>2 DEF UTypeOK
  <2>5. /\ noted'.usage = rd.usage /\ (noted'.usageStatus = "known" => readable /\ rd.status = "known")
        /\ noted'.scan = scan /\ (scan = "known" => noted'.scanned = rd.texts)
      BY <2>1
  <2>6. KnownUsageIsExact'
      BY <2>1, <2>2, <2>5 DEF KnownUsageIsExact
  <2>7. KnownScanIsWhole'
    <3>1. ASSUME scan = "known"
          PROVE  /\ \A i \in 1..m : answer[i].form = "other" \/ IsDocument(answer, i)
                 /\ DOMAIN rd.texts = Blocks(answer, m)
                 /\ \A b \in DOMAIN rd.texts : rd.texts[b] = Written(answer, b)[m]
        BY <2>2, <2>3, <3>1 DEF TextsTo
    <3>2. QED
        BY <2>1, <2>2, <2>3, <2>5, <3>1 DEF KnownScanIsWhole
  <2>8. QED
      BY <2>1, <2>2, <2>4, <2>6, <2>7 DEF UInv, KnownIsExact
<1>9. CASE UNCHANGED uvars
    BY <1>1, <1>9 DEF UInv, UTypeOK, KnownIsExact, KnownUsageIsExact, KnownScanIsWhole
<1>10. QED
    BY <1>3, <1>4, <1>5, <1>6, <1>7, <1>8, <1>9 DEF UNext, UOver

(* What is read of any answer, however it arrives in chunks, and whatever   *)
(* the bounds, is exactly what it says or is said to be unknown             *)
(* (UsageReader of watch/measure.py, _stream of watch/proxy.py).            *)
THEOREM AnswersAreExact == USpec => []KnownIsExact
<1>1. UInv => KnownIsExact
    BY NothingNoted DEF UInv, KnownIsExact, KnownUsageIsExact, KnownScanIsWhole
<1>2. QED
    BY <1>1, ExactFromTheStart, ExactAtEveryStep, PTL DEF USpec
=============================================================================
