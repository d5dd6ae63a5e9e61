------------------------- MODULE NotificationProofs -------------------------
(***************************************************************************)
(* Proofs about NotificationOutbox, for every number of captures, server   *)
(* processes and channels, every batch size and every cooldown.            *)
(***************************************************************************)
EXTENDS NotificationOutbox, FiniteSetTheorems, TLAPS

\* What one step is: one lemma per part of the invariant splits on these.
Step ==
  \/ \E c \in Capture : RecordEvents(c)
  \/ \E c \in Capture : CommitCapture(c)
  \/ \E c \in Capture : RollbackCapture(c)
  \/ \E w \in Worker : Poll(w)
  \/ \E w \in Worker : LockLedger(w)
  \/ \E w \in Worker : Claim(w)
  \/ \E w \in Worker : Settle(w)
  \/ \E w \in Worker : \E received, acked \in SUBSET Channel : Send(w, received, acked)
  \/ \E w \in Worker : Die(w)
  \/ Tick
  \/ UNCHANGED vars

\* [Next]_vars is such a step.
LEMMA StepCases == [Next]_vars <=> Step
BY DEF Next, Work, Step

-----------------------------------------------------------------------------
\* Counting events.

\* Sets of events are finite, and smaller than the bound on ids.
LEMMA EventsAreFinite ==
  ASSUME NEW S \in SUBSET Event
  PROVE  IsFiniteSet(S) /\ Cardinality(S) \in 0..MaxEvent
<1>1. IsFiniteSet(Event) /\ Cardinality(Event) <= MaxEvent
  BY FS_Interval, OutboxAssumption DEF Event
<1>2. IsFiniteSet(S) /\ Cardinality(S) <= Cardinality(Event)
  BY <1>1, FS_Subset
<1>3. Cardinality(S) \in Nat /\ Cardinality(Event) \in Nat
  BY <1>1, <1>2, FS_CardinalityType
<1> QED BY <1>1, <1>2, <1>3, OutboxAssumption

\* A count is a number within that bound.
LEMMA CountType ==
  ASSUME NEW S \in SUBSET Event, NEW t
  PROVE  Count(S, t) \in 0..MaxEvent
<1>1. {e \in S : kind[e] = t} \in SUBSET Event
  OBVIOUS
<1> QED BY <1>1, EventsAreFinite DEF Count

\* Nothing counts as nothing.
LEMMA CountEmpty == ASSUME NEW t PROVE Count({}, t) = 0
<1>1. {e \in {} : kind[e] = t} = {}
  OBVIOUS
<1> QED BY <1>1, FS_EmptySet DEF Count

\* Counts of disjoint sets add up.
LEMMA CountUnion ==
  ASSUME NEW S \in SUBSET Event, NEW T \in SUBSET Event, S \cap T = {}, NEW t
  PROVE  Count(S \cup T, t) = Count(S, t) + Count(T, t)
<1> DEFINE A == {e \in S : kind[e] = t}
           B == {e \in T : kind[e] = t}
<1>1. A \in SUBSET Event /\ B \in SUBSET Event /\ A \cap B = {}
  OBVIOUS
<1>2. IsFiniteSet(A) /\ IsFiniteSet(B) /\ Cardinality(A) \in Nat /\ Cardinality(B) \in Nat
  BY <1>1, EventsAreFinite, OutboxAssumption
<1>3. Cardinality(A \cup B) = Cardinality(A) + Cardinality(B) - Cardinality(A \cap B)
  BY <1>2, FS_Union
<1>4. Cardinality(A \cap B) = 0
  BY <1>1, FS_EmptySet
<1>5. {e \in S \cup T : kind[e] = t} = A \cup B
  OBVIOUS
<1>6. Cardinality(A \cup B) = Cardinality(A) + Cardinality(B)
  BY <1>2, <1>3, <1>4
<1>7. Count(S, t) = Cardinality(A) /\ Count(T, t) = Cardinality(B)
  BY DEF Count
<1>8. Count(S \cup T, t) = Cardinality(A \cup B)
  BY <1>5 DEF Count
<1> HIDE DEF A, B
<1> QED BY <1>6, <1>7, <1>8

\* The events a capture inserts are events of the four types.
LEMMA DegradationTypes ==
  ASSUME NEW s \in Degradations
  PROVE  Len(s) \in 0..3 /\ \A i \in 1..Len(s) : s[i] \in EventType
<1>1. CASE s = <<>>
  BY <1>1
<1>2. CASE s = <<"fallback_used">>
  BY <1>2 DEF EventType, Trigger
<1>3. CASE s = <<"primary_failure", "fallback_used">>
  BY <1>3 DEF EventType, Trigger
<1>4. CASE s = <<"primary_failure", "stub_used">>
  BY <1>4 DEF EventType, Trigger
<1>5. CASE s = <<"fallback_failure", "stub_used">>
  BY <1>5 DEF EventType, Trigger
<1>6. CASE s = <<"primary_failure", "fallback_failure", "stub_used">>
  BY <1>6 DEF EventType, Trigger
<1> QED BY <1>1, <1>2, <1>3, <1>4, <1>5, <1>6, OutboxAssumption DEF Degradations

-----------------------------------------------------------------------------
\* The claim of a cycle is part of the outbox.
LEMMA ClaimableInOutbox == Claimable \subseteq outbox
BY DEF Claimable

\* A cycle that holds the ledger is its only holder.
LEMMA OneHolder ==
  ASSUME ClaimIsCurrent, NEW w \in Worker, NEW v \in Worker,
         pc[w] \in {"locked", "sending", "settled"},
         pc[v] \in {"locked", "sending", "settled"}
  PROVE  w = v
BY DEF ClaimIsCurrent

-----------------------------------------------------------------------------
\* Types.

\* A worker at rest has a well-typed, empty record of work.
LEMMA NoWorkType == NoWork \in Local /\ NoCounts \in Counts
BY OutboxAssumption DEF NoWork, Local, NoCounts, Counts

\* The sets of batches and ages are what the types say.
LEMMA Bounds ==
  /\ Forever \in Nat /\ Rollup \in Nat /\ MaxLag \in Nat /\ Forever = Rollup + MaxLag
  /\ MaxEvent \in Nat /\ MaxTrouble \in Nat
BY OutboxAssumption DEF Forever

\* The initial state is well typed.
LEMMA InitType == Init => TypeOK
<1> SUFFICES ASSUME Init PROVE TypeOK
  OBVIOUS
<1>1. pending \in [Trigger -> 0..MaxEvent]
  BY Bounds DEF Init, NoCounts
<1>2. local \in [Worker -> Local]
  BY NoWorkType DEF Init
<1> QED BY <1>1, <1>2, Bounds DEF Init, TypeOK

\* Every step keeps the types.
LEMMA StepType ==
  ASSUME TypeOK, CountsAreExact, ClaimIsCurrent, IdsAreFresh, Step
  PROVE  TypeOK'
<1> USE Bounds
<1>1. ASSUME NEW c \in Capture, RecordEvents(c) PROVE TypeOK'
  <2> PICK s \in Degradations \ {<<>>} :
         /\ nextId + Len(s) <= MaxEvent + 1
         /\ kind' = [e \in Event |-> IF e \in nextId..(nextId + Len(s) - 1)
                                     THEN s[e - nextId + 1] ELSE kind[e]]
         /\ mine' = [mine EXCEPT ![c] = nextId..(nextId + Len(s) - 1)]
         /\ nextId' = nextId + Len(s)
    BY <1>1 DEF RecordEvents
  <2>1. Len(s) \in 0..3 /\ \A i \in 1..Len(s) : s[i] \in EventType
    BY DegradationTypes
  <2>2. nextId' \in 1..(MaxEvent + 1)
    BY <2>1 DEF TypeOK
  <2>3. nextId..(nextId + Len(s) - 1) \subseteq Event
    BY <2>1 DEF TypeOK, Event
  <2>4. mine' \in [Capture -> SUBSET Event]
    BY <2>3 DEF TypeOK
  <2>5. \A e \in nextId..(nextId + Len(s) - 1) : e - nextId + 1 \in 1..Len(s)
    BY <2>1 DEF TypeOK
  <2>6. kind' \in [Event -> EventType \cup {None}]
    BY <2>1, <2>5 DEF TypeOK
  <2> QED BY <1>1, <2>2, <2>4, <2>6 DEF RecordEvents, TypeOK, ledger
<1>2. ASSUME NEW c \in Capture, CommitCapture(c) PROVE TypeOK'
  BY <1>2 DEF CommitCapture, TypeOK
<1>3. ASSUME NEW c \in Capture, RollbackCapture(c) PROVE TypeOK'
  BY <1>3 DEF RollbackCapture, TypeOK, ledger
<1>4. ASSUME NEW w \in Worker, Poll(w) PROVE TypeOK'
  BY <1>4 DEF Poll, TypeOK, ledger, captures
<1>5. ASSUME NEW w \in Worker, LockLedger(w) PROVE TypeOK'
  BY <1>5, NoWorkType DEF LockLedger, Rest, TypeOK, ledger, captures
<1>6. ASSUME NEW w \in Worker, Claim(w) PROVE TypeOK'
  <2> DEFINE counts == [t \in Trigger |-> pending[t] + Count(Claimable, t)]
  <2>1. Claimable \in SUBSET Event
    BY ClaimableInOutbox DEF TypeOK
  <2>2. \A t \in Trigger : Count(Claimable, t) \in Nat
    BY <2>1, CountType
  <2>3. counts \in Counts
    BY <2>2 DEF TypeOK, Counts
  <2>4. local' = [local EXCEPT ![w] = [@ EXCEPT !.claimed = Claimable, !.counts = counts]]
    BY <1>6 DEF Claim
  <2> HIDE DEF counts
  <2>5. local' \in [Worker -> Local]
    BY <2>1, <2>3, <2>4 DEF TypeOK, Local
  <2> QED BY <1>6, <2>5 DEF Claim, TypeOK, ledger, captures
<1>7. ASSUME NEW w \in Worker, Settle(w) PROVE TypeOK'
  <2>1. local' \in [Worker -> Local] /\ pc' \in [Worker -> {"idle", "polled", "locked", "sending", "settled"}]
    BY <1>7, NoWorkType DEF Settle, Rest, TypeOK
  <2>2. outbox' \subseteq Event /\ counted' \subseteq Event /\ notified' \subseteq Trigger
    BY <1>7 DEF Settle, Covered, PendingTypes, TypeOK, Local
  <2>3. age' \in 0..Forever /\ quiet' \in 0..Rollup
    BY <1>7 DEF Settle, TypeOK, Local
  <2>4. pending' \in [Trigger -> 0..MaxEvent]
    <3>1. CASE local[w].accepted
      BY <1>7, <3>1 DEF Settle, PersistedCounts, NoCounts
    <3>2. CASE ~local[w].accepted
      <4> DEFINE C == local[w].claimed
      <4>1. C \in SUBSET Event /\ counted \in SUBSET Event /\ counted \cap C = {}
        BY <1>7 DEF Settle, TypeOK, Local, CountsAreExact, ClaimIsCurrent
      <4>2. ASSUME NEW t \in Trigger PROVE local[w].counts[t] \in 0..MaxEvent
        <5>1. local[w].counts[t] = pending[t] + Count(C, t)
          BY <1>7 DEF Settle, ClaimIsCurrent
        <5>2. pending[t] = Count(counted, t)
          BY DEF CountsAreExact
        <5>3. Count(counted \cup C, t) = Count(counted, t) + Count(C, t)
          BY <4>1, CountUnion
        <5>4. Count(counted \cup C, t) \in 0..MaxEvent
          BY <4>1, CountType
        <5> QED BY <5>1, <5>2, <5>3, <5>4
      <4>3. local[w].counts \in [Trigger -> Nat]
        BY DEF TypeOK, Local, Counts
      <4>4. local[w].counts \in [Trigger -> 0..MaxEvent]
        BY <4>2, <4>3
      <4> QED BY <1>7, <3>2, <4>4 DEF Settle, PersistedCounts
    <3> QED BY <3>1, <3>2
  <2> QED BY <1>7, <2>1, <2>2, <2>3, <2>4 DEF Settle, TypeOK, captures
<1>8. ASSUME NEW w \in Worker, NEW received \in SUBSET Channel, NEW acked \in SUBSET Channel,
             Send(w, received, acked)
      PROVE  TypeOK'
  <2>1. Accepted(acked) \in BOOLEAN
    BY DEF Accepted
  <2>2. local' \in [Worker -> Local]
    BY <1>8, <2>1 DEF Send, TypeOK, Local
  <2>3. told' \in [Channel -> SUBSET Event]
    BY <1>8 DEF Send, TypeOK, Covered, Local
  <2> QED BY <1>8, <2>2, <2>3 DEF Send, TypeOK, ledger, captures
<1>9. ASSUME NEW w \in Worker, Die(w) PROVE TypeOK'
  BY <1>9, NoWorkType DEF Die, Rest, TypeOK, ledger, captures
<1>10. CASE Tick
  <2>1. local' \in [Worker -> Local]
    BY <1>10 DEF Tick, TypeOK, Local
  <2> QED BY <1>10, <2>1 DEF Tick, Older, TypeOK, captures
<1>11. CASE UNCHANGED vars
  BY <1>11 DEF vars, ledger, captures, TypeOK
<1> QED BY <1>1, <1>2, <1>3, <1>4, <1>5, <1>6, <1>7, <1>8, <1>9, <1>10, <1>11 DEF Step

-----------------------------------------------------------------------------
\* Event ids.

\* The type of an event does not change once its id is taken.
LEMMA KindsKept ==
  ASSUME TypeOK, Step
  PROVE  /\ nextId <= nextId'
         /\ \A e \in Event : e < nextId => kind'[e] = kind[e]
<1>1. ASSUME NEW c \in Capture, RecordEvents(c)
      PROVE  nextId <= nextId' /\ \A e \in Event : e < nextId => kind'[e] = kind[e]
  <2> PICK s \in Degradations \ {<<>>} :
         /\ kind' = [e \in Event |-> IF e \in nextId..(nextId + Len(s) - 1)
                                     THEN s[e - nextId + 1] ELSE kind[e]]
         /\ nextId' = nextId + Len(s)
    BY <1>1 DEF RecordEvents
  <2>1. Len(s) \in 0..3
    BY DegradationTypes
  <2> QED BY <2>1, Bounds DEF TypeOK, Event
<1>2. CASE UNCHANGED <<nextId, kind>>
  BY <1>2, Bounds DEF TypeOK
<1> QED
  BY <1>1, <1>2 DEF Step, CommitCapture, RollbackCapture, Poll, LockLedger, Claim, Settle,
                    Send, Die, Tick, vars, captures

\* Ids stay fresh.
LEMMA StepFresh ==
  ASSUME TypeOK, IdsAreFresh, Step
  PROVE  IdsAreFresh'
<1> USE Bounds
<1>1. ASSUME NEW c \in Capture, RecordEvents(c) PROVE IdsAreFresh'
  <2> PICK s \in Degradations \ {<<>>} :
         /\ nextId + Len(s) <= MaxEvent + 1
         /\ kind' = [e \in Event |-> IF e \in nextId..(nextId + Len(s) - 1)
                                     THEN s[e - nextId + 1] ELSE kind[e]]
         /\ mine' = [mine EXCEPT ![c] = nextId..(nextId + Len(s) - 1)]
         /\ nextId' = nextId + Len(s)
    BY <1>1 DEF RecordEvents
  <2>1. Len(s) \in 0..3 /\ \A i \in 1..Len(s) : s[i] \in EventType
    BY DegradationTypes
  <2>2. history' = history /\ stage' = [stage EXCEPT ![c] = "inserted"]
    BY <1>1 DEF RecordEvents, ledger
  <2>3. nextId \in 1..(MaxEvent + 1) /\ nextId' \in Nat /\ nextId <= nextId'
    BY <2>1 DEF TypeOK
  <2>4. \A e \in Event : e < nextId' => kind'[e] \in EventType
    <3> SUFFICES ASSUME NEW e \in Event, e < nextId' PROVE kind'[e] \in EventType
      OBVIOUS
    <3>1. CASE e < nextId
      BY <3>1, <2>3 DEF IdsAreFresh, Event
    <3>2. CASE e >= nextId
      <4>1. e \in nextId..(nextId + Len(s) - 1) /\ e - nextId + 1 \in 1..Len(s)
        BY <3>2, <2>1, <2>3 DEF Event
      <4> QED BY <4>1, <2>1
    <3> QED BY <3>1, <3>2, <2>3 DEF Event
  <2>5. \A e \in history' : e < nextId'
    BY <2>2, <2>3 DEF IdsAreFresh, TypeOK, Event
  <2>6. \A d \in Capture : mine'[d] = IF d = c THEN nextId..(nextId + Len(s) - 1) ELSE mine[d]
    BY DEF TypeOK
  <2>7. \A d \in Capture : \A e \in mine'[d] : e \in Nat /\ e < nextId'
    BY <2>6, <2>1, <2>3 DEF IdsAreFresh, TypeOK, Event
  <2>8. \A d \in Capture : stage'[d] = "start" => mine'[d] = {}
    BY <2>2, <2>6 DEF IdsAreFresh, TypeOK
  <2>9. \A d \in Capture : stage'[d] = "inserted" => mine'[d] \cap history' = {}
    BY <2>2, <2>6, <2>1, <2>3 DEF IdsAreFresh, TypeOK, Event
  <2>10. \A d \in Capture : \A f \in Capture \ {d} : mine'[d] \cap mine'[f] = {}
    BY <2>6, <2>1, <2>3 DEF IdsAreFresh, TypeOK, Event
  <2> QED BY <2>4, <2>5, <2>7, <2>8, <2>9, <2>10 DEF IdsAreFresh
<1>2. ASSUME NEW c \in Capture, CommitCapture(c) PROVE IdsAreFresh'
  BY <1>2 DEF CommitCapture, IdsAreFresh, TypeOK
<1>3. ASSUME NEW c \in Capture, RollbackCapture(c) PROVE IdsAreFresh'
  BY <1>3 DEF RollbackCapture, ledger, IdsAreFresh, TypeOK
<1>4. CASE UNCHANGED <<captures, history>>
  BY <1>4 DEF captures, IdsAreFresh
<1> QED
  BY <1>1, <1>2, <1>3, <1>4 DEF Step, Poll, LockLedger, Claim, Settle, Send, Die, Tick,
                                vars, ledger

\* Recorded events keep their types, so alerts and counts of them stay.
LEMMA RecordedKept ==
  ASSUME TypeOK, IdsAreFresh, Step
  PROVE  /\ history \subseteq history'
         /\ \A e \in history : kind'[e] = kind[e]
<1>1. \A e \in history : kind'[e] = kind[e]
  BY KindsKept DEF IdsAreFresh, TypeOK
<1>2. history \subseteq history'
  BY DEF Step, RecordEvents, CommitCapture, RollbackCapture, Poll, LockLedger, Claim, Settle,
         Send, Die, Tick, vars, ledger
<1> QED BY <1>1, <1>2

\* A count of recorded events is the same after a step.
LEMMA CountKept ==
  ASSUME TypeOK, IdsAreFresh, Step, NEW S \in SUBSET history, NEW t
  PROVE  Cardinality({e \in S : kind'[e] = t}) = Count(S, t)
<1>1. {e \in S : kind'[e] = t} = {e \in S : kind[e] = t}
  BY RecordedKept
<1> QED BY <1>1 DEF Count

-----------------------------------------------------------------------------
\* The ledger.

\* What a cycle reports is recorded, and still owed.
LEMMA CoveredIsOwed ==
  ASSUME TypeOK, CountsAreExact, ClaimIsCurrent, NEW w \in Worker,
         pc[w] \in {"sending", "settled"}
  PROVE  Covered(w) \subseteq Alerts(history) /\ Covered(w) \cap Retired = {}
BY DEF Covered, Alerts, Retired, CountsAreExact, ClaimIsCurrent

\* A step that is neither a send nor a settlement leaves what was told and
\* counted.
LEMMA StepOnlyAlerts ==
  ASSUME TypeOK, IdsAreFresh, OnlyAlerts, CountsAreExact, ClaimIsCurrent, Step
  PROVE  OnlyAlerts'
<1>1. Alerts(history) \subseteq Alerts(history)'
  BY RecordedKept DEF Alerts
<1>2. ASSUME NEW w \in Worker, Settle(w) PROVE OnlyAlerts'
  <2>1. Covered(w) \subseteq Alerts(history)
    BY <1>2, CoveredIsOwed DEF Settle
  <2> QED BY <1>1, <1>2, <2>1 DEF Settle, OnlyAlerts
<1>3. ASSUME NEW w \in Worker, NEW received \in SUBSET Channel, NEW acked \in SUBSET Channel,
             Send(w, received, acked)
      PROVE  OnlyAlerts'
  <2>1. Covered(w) \subseteq Alerts(history)
    BY <1>3, CoveredIsOwed DEF Send
  <2>2. counted' = counted
    BY <1>3 DEF Send, ledger
  <2>3. \A c \in Channel : told'[c] \subseteq told[c] \cup Covered(w)
    BY <1>3 DEF Send
  <2> QED BY <1>1, <2>1, <2>2, <2>3 DEF OnlyAlerts
<1>4. CASE UNCHANGED <<counted, told>>
  BY <1>1, <1>4 DEF OnlyAlerts
<1> QED
  BY <1>2, <1>3, <1>4 DEF Step, RecordEvents, CommitCapture, RollbackCapture, Poll,
                          LockLedger, Claim, Die, Tick, vars, ledger

\* Counts stay exact.
LEMMA StepCounts ==
  ASSUME TypeOK, IdsAreFresh, OnlyAlerts, CountsAreExact, ClaimIsCurrent, Step
  PROVE  CountsAreExact'
<1>1. ASSUME NEW S \in SUBSET history, counted' = S, NEW t \in Trigger
      PROVE  Count(counted, t)' = Count(S, t)
  BY <1>1, CountKept DEF Count
<1>2. ASSUME NEW c \in Capture, CommitCapture(c) PROVE CountsAreExact'
  <2>1. mine[c] \cap history = {}
    BY <1>2 DEF CommitCapture, IdsAreFresh
  <2>2. counted' \cap outbox' = {} /\ counted' \cup outbox' \subseteq history'
    BY <1>2, <2>1 DEF CommitCapture, CountsAreExact
  <2>3. \A t \in Trigger : pending'[t] = Count(counted, t)'
    BY <1>1, <1>2 DEF CommitCapture, CountsAreExact
  <2> QED BY <2>2, <2>3 DEF CountsAreExact
<1>3. ASSUME NEW w \in Worker, Settle(w) PROVE CountsAreExact'
  <2> DEFINE C == local[w].claimed
  <2>1. C \subseteq outbox /\ C \subseteq history /\ history' = history /\ kind' = kind
    BY <1>3 DEF Settle, ClaimIsCurrent, CountsAreExact, captures
  <2>2. outbox' = outbox \ C
    BY <1>3 DEF Settle, Consumed
  <2>3. Covered(w) \subseteq counted \cup C
    BY DEF Covered
  <2>4. counted' \cap outbox' = {} /\ counted' \cup outbox' \subseteq history'
    BY <1>3, <2>1, <2>2, <2>3 DEF Settle, CountsAreExact
  <2>5. ASSUME NEW t \in Trigger PROVE pending'[t] = Count(counted, t)'
    <3>1. CASE local[w].accepted
      <4>1. counted' = {} /\ pending' = NoCounts
        BY <1>3, <3>1 DEF Settle, PersistedCounts
      <4>2. Count(counted, t)' = 0
        <5>1. Count(counted, t)' = Count({}, t)
          BY <1>1, <4>1
        <5> QED BY <5>1, CountEmpty
      <4> QED BY <4>1, <4>2 DEF NoCounts
    <3>2. CASE ~local[w].accepted
      <4>1. counted' = Covered(w) /\ pending' = local[w].counts
        BY <1>3, <3>2 DEF Settle, PersistedCounts
      <4>2. Count(counted, t)' = Count(Covered(w), t)
        BY <1>1, <2>1, <2>3, <4>1 DEF CountsAreExact
      <4>3. {e \in Covered(w) : kind[e] = t} = {e \in counted \cup C : kind[e] = t}
        BY DEF Covered
      <4>4. Count(Covered(w), t) = Count(counted \cup C, t)
        BY <4>3 DEF Count
      <4>5. counted \in SUBSET Event /\ C \in SUBSET Event /\ counted \cap C = {}
        BY <2>1 DEF TypeOK, CountsAreExact
      <4>6. Count(counted \cup C, t) = Count(counted, t) + Count(C, t)
        BY <4>5, CountUnion
      <4>7. local[w].counts[t] = pending[t] + Count(C, t)
        BY <1>3 DEF Settle, ClaimIsCurrent
      <4>8. pending[t] = Count(counted, t)
        BY DEF CountsAreExact
      <4> QED BY <4>1, <4>2, <4>4, <4>6, <4>7, <4>8
    <3> QED BY <3>1, <3>2
  <2> QED BY <2>4, <2>5 DEF CountsAreExact
<1>4. CASE UNCHANGED <<history, outbox, counted, pending>>
  <2>1. \A t \in Trigger : pending'[t] = Count(counted, t)'
    BY <1>1, <1>4 DEF CountsAreExact
  <2> QED BY <1>4, <2>1 DEF CountsAreExact
<1> QED
  BY <1>2, <1>3, <1>4 DEF Step, RecordEvents, RollbackCapture, Poll, LockLedger, Claim,
                          Send, Die, Tick, vars, ledger

\* A claim stays current: nobody else may touch the ledger or the outbox rows.
LEMMA StepClaim ==
  ASSUME TypeOK, IdsAreFresh, CountsAreExact, ClaimIsCurrent, Step
  PROVE  ClaimIsCurrent'
<1> DEFINE Holding(v) == pc[v] \in {"locked", "sending", "settled"}
           Current(v) == /\ holder = v
                         /\ pc[v] # "locked" =>
                              /\ local[v].claimed \subseteq outbox
                              /\ \A t \in Trigger :
                                   local[v].counts[t] = pending[t] + Count(local[v].claimed, t)
<1> SUFFICES ASSUME NEW v \in Worker, Holding(v)' PROVE Current(v)'
  BY DEF ClaimIsCurrent
<1>a. Holding(v) => Current(v)
  BY DEF ClaimIsCurrent
\* A cycle whose own state and ledger stay put remains current.
<1>b. ASSUME Holding(v), pc[v] = "locked" => pc'[v] = "locked",
             holder' = holder, outbox \subseteq outbox', pending' = pending,
             local'[v].claimed = local[v].claimed, local'[v].counts = local[v].counts
      PROVE  Current(v)'
  <2>1. holder' = v
    BY <1>a, <1>b
  <2>2. ASSUME pc'[v] # "locked"
        PROVE  /\ local'[v].claimed \subseteq outbox'
               /\ \A t \in Trigger :
                    local'[v].counts[t] = pending'[t] + Count(local[v].claimed, t)'
    <3>1. local[v].claimed \in SUBSET history
      BY <1>a, <1>b, <2>2 DEF CountsAreExact
    <3>2. ASSUME NEW t \in Trigger
          PROVE  Count(local[v].claimed, t)' = Count(local[v].claimed, t)
      <4>1. Count(local[v].claimed, t)' = Cardinality({e \in local[v].claimed : kind'[e] = t})
        BY <1>b DEF Count
      <4> QED BY <3>1, <4>1, CountKept
    <3> QED BY <1>a, <1>b, <2>2, <3>2
  <2> QED BY <2>1, <2>2
<1>1. ASSUME NEW c \in Capture, RecordEvents(c) PROVE Current(v)'
  BY <1>b, <1>1 DEF RecordEvents, ledger
<1>2. ASSUME NEW c \in Capture, CommitCapture(c) PROVE Current(v)'
  BY <1>b, <1>2 DEF CommitCapture
<1>3. ASSUME NEW c \in Capture, RollbackCapture(c) PROVE Current(v)'
  BY <1>b, <1>3 DEF RollbackCapture, ledger
<1>4. ASSUME NEW w \in Worker, Poll(w) PROVE Current(v)'
  <2>1. pc'[v] = pc[v]
    BY <1>4 DEF Poll, TypeOK
  <2> QED BY <1>b, <1>4, <2>1 DEF Poll, ledger
<1>5. ASSUME NEW w \in Worker, LockLedger(w) PROVE Current(v)'
  <2>1. CASE v = w
    <3>1. pc'[w] = "locked" /\ holder' = w
      BY <1>5, <2>1 DEF LockLedger, Rest, TypeOK
    <3> QED BY <2>1, <3>1
  <2>2. CASE v # w
    <3>1. pc'[v] = pc[v] /\ local'[v] = local[v]
      BY <1>5, <2>2 DEF LockLedger, Rest, TypeOK
    <3>2. holder = v
      BY <1>a, <3>1
    <3>3. holder' = holder
      BY <1>5, <3>2, OutboxAssumption DEF LockLedger
    <3> QED BY <1>b, <1>5, <3>1, <3>3 DEF LockLedger, ledger
  <2> QED BY <2>1, <2>2
<1>6. ASSUME NEW w \in Worker, Claim(w) PROVE Current(v)'
  <2>0. pc[w] = "locked" /\ holder = w
    BY <1>6 DEF Claim, ClaimIsCurrent
  <2>1. CASE v = w
    <3> DEFINE counts == [t \in Trigger |-> pending[t] + Count(Claimable, t)]
    <3>1. local'[w].claimed = Claimable /\ local'[w].counts = counts
      BY <1>6 DEF Claim, TypeOK, Local
    <3>2. Claimable \subseteq outbox /\ outbox' = outbox /\ holder' = holder /\ pending' = pending
          /\ kind' = kind
      BY <1>6, ClaimableInOutbox DEF Claim, ledger, captures
    <3>3. ASSUME NEW t \in Trigger
          PROVE  local'[w].counts[t] = pending'[t] + Count(local[w].claimed, t)'
      <4>1. Count(local[w].claimed, t)' = Count(Claimable, t)
        BY <3>1, <3>2 DEF Count
      <4> QED BY <3>1, <3>2, <4>1
    <3> QED BY <2>0, <2>1, <3>1, <3>2, <3>3
  <2>2. CASE v # w
    <3>1. pc'[v] = pc[v]
      BY <1>6, <2>2 DEF Claim, TypeOK
    <3> QED BY <1>a, <2>0, <2>2, <3>1
  <2> QED BY <2>1, <2>2
<1>7. ASSUME NEW w \in Worker, Settle(w) PROVE Current(v)'
  <2>1. holder = w /\ pc'[w] = "idle" /\ (v # w => pc'[v] = pc[v])
    BY <1>7 DEF Settle, Rest, ClaimIsCurrent, TypeOK
  <2> QED BY <1>a, <2>1
<1>8. ASSUME NEW w \in Worker, NEW received \in SUBSET Channel, NEW acked \in SUBSET Channel,
             Send(w, received, acked)
      PROVE  Current(v)'
  <2>1. /\ Holding(v) /\ (pc[v] = "locked" => pc'[v] = "locked")
        /\ local'[v].claimed = local[v].claimed /\ local'[v].counts = local[v].counts
    BY <1>8 DEF Send, TypeOK, Local
  <2> QED BY <1>b, <1>8, <2>1 DEF Send, ledger
<1>9. ASSUME NEW w \in Worker, Die(w) PROVE Current(v)'
  <2>1. v # w /\ pc'[v] = pc[v] /\ local'[v] = local[v]
    BY <1>9 DEF Die, Rest, TypeOK
  <2>2. holder' = holder
    BY <1>9, <1>a, <2>1 DEF Die
  <2> QED BY <1>b, <1>9, <2>1, <2>2 DEF Die, ledger
<1>10. CASE Tick
  <2>1. local'[v].claimed = local[v].claimed /\ local'[v].counts = local[v].counts
    BY <1>10 DEF Tick, TypeOK, Local
  <2> QED BY <1>b, <1>10, <2>1 DEF Tick
<1>11. CASE UNCHANGED vars
  BY <1>b, <1>11 DEF vars, ledger
<1> QED BY <1>1, <1>2, <1>3, <1>4, <1>5, <1>6, <1>7, <1>8, <1>9, <1>10, <1>11 DEF Step

-----------------------------------------------------------------------------
\* Deliveries.

\* Nobody forgets an alert.
LEMMA ToldGrows ==
  ASSUME TypeOK, Step
  PROVE  Heardof \subseteq Heardof'
<1>1. \A c \in Channel : told[c] \subseteq told'[c]
  <2>1. ASSUME NEW w \in Worker, NEW received \in SUBSET Channel,
               NEW acked \in SUBSET Channel, Send(w, received, acked)
        PROVE  \A c \in Channel : told[c] \subseteq told'[c]
    BY <2>1 DEF Send
  <2>2. CASE UNCHANGED told
    BY <2>2
  <2> QED
    BY <2>1, <2>2 DEF Step, RecordEvents, CommitCapture, RollbackCapture, Poll, LockLedger,
                      Claim, Settle, Die, Tick, vars
<1> QED BY <1>1 DEF Heardof

\* The events a waiting cycle reports do not change under it.
LEMMA CoveredKept ==
  ASSUME TypeOK, IdsAreFresh, CountsAreExact, ClaimIsCurrent, Step, NEW w \in Worker,
         pc[w] \in {"sending", "settled"}, counted' = counted,
         local'[w].claimed = local[w].claimed
  PROVE  Covered(w)' = Covered(w)
<1>1. counted \cup local[w].claimed \subseteq history
  BY DEF CountsAreExact, ClaimIsCurrent
<1>2. \A e \in counted \cup local[w].claimed : kind'[e] = kind[e]
  BY <1>1, RecordedKept
<1> QED BY <1>2 DEF Covered

\* A cycle that was accepted has told some channel of all it reports.
LEMMA StepHeard ==
  ASSUME TypeOK, IdsAreFresh, CountsAreExact, ClaimIsCurrent, AcceptedWasHeard, Step
  PROVE  AcceptedWasHeard'
<1> SUFFICES ASSUME NEW v \in Worker, local'[v].accepted
             PROVE  pc'[v] = "settled" /\ Covered(v)' \subseteq Heardof'
  BY DEF AcceptedWasHeard
<1>a. ASSUME local[v].accepted, pc'[v] = pc[v], counted' = counted,
             local'[v].claimed = local[v].claimed
      PROVE  pc'[v] = "settled" /\ Covered(v)' \subseteq Heardof'
  <2>1. pc[v] = "settled" /\ Covered(v) \subseteq Heardof
    BY <1>a DEF AcceptedWasHeard
  <2>2. Covered(v)' = Covered(v)
    BY <1>a, <2>1, CoveredKept
  <2> QED BY <1>a, <2>1, <2>2, ToldGrows
<1>1. CASE pc' = pc /\ local' = local /\ counted' = counted
  BY <1>1, <1>a
<1>2. ASSUME NEW w \in Worker, Poll(w) PROVE v # w /\ pc'[v] = pc[v]
  BY <1>2 DEF Poll, AcceptedWasHeard, TypeOK
<1>3. ASSUME NEW w \in Worker, LockLedger(w)
      PROVE  v # w /\ pc'[v] = pc[v] /\ local'[v] = local[v]
  BY <1>3 DEF LockLedger, Rest, NoWork, AcceptedWasHeard, TypeOK
<1>4. ASSUME NEW w \in Worker, Claim(w)
      PROVE  v # w /\ pc'[v] = pc[v] /\ local'[v] = local[v]
  BY <1>4 DEF Claim, AcceptedWasHeard, TypeOK, Local
<1>5. ASSUME NEW w \in Worker, Settle(w) PROVE FALSE
  <2>1. v # w /\ local'[v] = local[v]
    BY <1>5 DEF Settle, Rest, NoWork, TypeOK
  <2>2. pc[v] = "settled" /\ pc[w] = "settled"
    BY <1>5, <2>1 DEF Settle, AcceptedWasHeard
  <2> QED BY <2>1, <2>2, OneHolder
<1>6. ASSUME NEW w \in Worker, NEW received \in SUBSET Channel, NEW acked \in SUBSET Channel,
             Send(w, received, acked)
      PROVE  pc'[v] = "settled" /\ Covered(v)' \subseteq Heardof'
  <2>1. CASE v = w
    <3>1. local'[w].accepted = (acked # {}) /\ local'[w].claimed = local[w].claimed
          /\ pc'[w] = "settled" /\ counted' = counted
      BY <1>6 DEF Send, Accepted, TypeOK, Local, ledger
    <3>2. PICK c \in acked : TRUE
      BY <2>1, <3>1
    <3>3. Covered(w) \subseteq told'[c]
      BY <1>6, <3>2 DEF Send
    <3>4. Covered(w)' = Covered(w)
      BY <1>6, <3>1, CoveredKept DEF Send
    <3> QED BY <2>1, <3>1, <3>2, <3>3, <3>4 DEF Heardof
  <2>2. CASE v # w
    BY <1>6, <1>a, <2>2 DEF Send, TypeOK, ledger
  <2> QED BY <2>1, <2>2
<1>7. ASSUME NEW w \in Worker, Die(w)
      PROVE  v # w /\ pc'[v] = pc[v] /\ local'[v] = local[v]
  BY <1>7 DEF Die, Rest, NoWork, AcceptedWasHeard, TypeOK
<1>8. CASE Tick
  <2>1. local'[v].accepted = local[v].accepted /\ local'[v].claimed = local[v].claimed
    BY <1>8 DEF Tick, TypeOK, Local
  <2> QED BY <1>8, <1>a, <2>1 DEF Tick
<1> QED
  BY <1>1, <1>2, <1>3, <1>4, <1>5, <1>6, <1>7, <1>8, <1>a
     DEF Step, RecordEvents, CommitCapture, RollbackCapture, Poll, LockLedger, Claim, Die,
         vars, ledger

\* What is newly retired is what an accepted cycle reports.
LEMMA StepRetired ==
  ASSUME TypeOK, IdsAreFresh, OnlyAlerts, CountsAreExact, ClaimIsCurrent, Step
  PROVE  /\ Retired \subseteq Retired'
         /\ \A e \in Retired' \ Retired :
              \E w \in Worker : Settle(w) /\ local[w].accepted /\ e \in Covered(w)
         /\ \A w \in Worker : Settle(w) /\ local[w].accepted => Covered(w) \subseteq Retired'
<1>0. /\ \A e \in history : kind'[e] = kind[e]
      /\ history \subseteq history'
  BY RecordedKept
<1>1. ASSUME NEW w \in Worker, Settle(w)
      PROVE  /\ Retired \subseteq Retired'
             /\ local[w].accepted => Covered(w) \subseteq Retired'
             /\ \A e \in Retired' \ Retired : local[w].accepted /\ e \in Covered(w)
  <2>1. history' = history /\ kind' = kind
    BY <1>1 DEF Settle, captures
  <2>2. outbox' = outbox \ local[w].claimed
    BY <1>1 DEF Settle, Consumed
  <2>3. counted' = IF local[w].accepted THEN {} ELSE Covered(w)
    BY <1>1 DEF Settle
  <2>4. Covered(w) \subseteq Alerts(history) /\ Covered(w) \cap Retired = {}
    BY <1>1, CoveredIsOwed DEF Settle
  <2>5. counted \subseteq Alerts(history) /\ counted \cap outbox = {}
    BY DEF OnlyAlerts, CountsAreExact
  <2> QED BY <2>1, <2>2, <2>3, <2>4, <2>5 DEF Retired, Alerts, Covered
<1>2. ASSUME NEW c \in Capture, CommitCapture(c) PROVE Retired' = Retired
  <2>1. mine[c] \cap history = {} /\ counted' = counted /\ kind' = kind
    BY <1>2 DEF CommitCapture, IdsAreFresh
  <2> QED BY <1>2, <2>1 DEF CommitCapture, Retired, Alerts, CountsAreExact
<1>3. ASSUME UNCHANGED <<history, outbox, counted>> PROVE Retired' = Retired
  BY <1>3, <1>0 DEF Retired, Alerts
<1>4. CASE \E w \in Worker : Settle(w)
  <2> PICK w \in Worker : Settle(w)
    BY <1>4
  <2>1. \A v \in Worker : Settle(v) => v = w
    BY OneHolder DEF Settle
  <2> QED BY <1>1, <2>1
<1>5. CASE ~\E w \in Worker : Settle(w)
  BY <1>2, <1>3, <1>5
     DEF Step, RecordEvents, RollbackCapture, Poll, LockLedger, Claim, Send, Die, Tick,
         vars, ledger
<1> QED BY <1>4, <1>5

\* Nothing is retired unheard.
LEMMA StepNothingLost ==
  ASSUME TypeOK, IdsAreFresh, OnlyAlerts, CountsAreExact, ClaimIsCurrent, AcceptedWasHeard,
         NothingLost, Step
  PROVE  NothingLost'
<1>1. \A w \in Worker : local[w].accepted => Covered(w) \subseteq Heardof
  BY DEF AcceptedWasHeard
<1> QED BY <1>1, StepRetired, ToldGrows DEF NothingLost

\* Untroubled, a cycle tells nobody what somebody was told of before.
LEMMA StepTold ==
  ASSUME TypeOK, IdsAreFresh, OnlyAlerts, CountsAreExact, ClaimIsCurrent, AcceptedWasHeard,
         ToldIsRetired, Step
  PROVE  ToldIsRetired'
<1> SUFFICES ASSUME trouble' = 0, NEW c \in Channel, NEW e \in told'[c]
             PROVE  e \in Retired' \/ \E v \in Worker : local'[v].accepted /\ e \in Covered(v)'
  BY DEF ToldIsRetired
<1>0. Retired \subseteq Retired'
  BY StepRetired
\* Who waits to settle an accepted delivery keeps waiting, or has just settled it.
<1>a. ASSUME trouble = 0, e \in told[c], counted' = counted,
             \A v \in Worker : local[v].accepted =>
               local'[v].accepted /\ local'[v].claimed = local[v].claimed
      PROVE  e \in Retired' \/ \E v \in Worker : local'[v].accepted /\ e \in Covered(v)'
  <2>1. CASE e \in Retired
    BY <1>0, <2>1
  <2>2. ASSUME NEW v \in Worker, local[v].accepted, e \in Covered(v)
        PROVE  local'[v].accepted /\ e \in Covered(v)'
    <3>1. pc[v] = "settled"
      BY <2>2 DEF AcceptedWasHeard
    <3>2. Covered(v)' = Covered(v)
      BY <1>a, <2>2, <3>1, CoveredKept
    <3> QED BY <1>a, <2>2, <3>2
  <2> QED BY <1>a, <2>1, <2>2 DEF ToldIsRetired
<1>1. CASE UNCHANGED <<told, trouble, local, counted>>
  BY <1>a, <1>1
<1>2. ASSUME NEW w \in Worker, LockLedger(w)
      PROVE  /\ UNCHANGED <<told, trouble, counted>>
             /\ \A v \in Worker : local[v].accepted =>
                  local'[v].accepted /\ local'[v].claimed = local[v].claimed
  <2>1. ~local[w].accepted
    BY <1>2 DEF LockLedger, AcceptedWasHeard
  <2> QED BY <1>2, <2>1 DEF LockLedger, Rest, TypeOK, ledger
<1>3. ASSUME NEW w \in Worker, Claim(w)
      PROVE  /\ UNCHANGED <<told, trouble, counted>>
             /\ \A v \in Worker : local[v].accepted =>
                  local'[v].accepted /\ local'[v].claimed = local[v].claimed
  <2>1. ~local[w].accepted
    BY <1>3 DEF Claim, AcceptedWasHeard
  <2>2. \A v \in Worker \ {w} : local'[v] = local[v]
    BY <1>3 DEF Claim, TypeOK
  <2> QED BY <1>3, <2>1, <2>2 DEF Claim, ledger
<1>4. ASSUME NEW w \in Worker, Settle(w)
      PROVE  e \in Retired' \/ \E v \in Worker : local'[v].accepted /\ e \in Covered(v)'
  <2>1. trouble = 0 /\ e \in told[c]
    BY <1>4 DEF Settle
  <2>2. CASE e \in Retired
    BY <1>0, <2>2
  <2>3. ASSUME NEW v \in Worker, local[v].accepted, e \in Covered(v)
        PROVE  e \in Retired'
    <3>1. v = w
      BY <1>4, <2>3, OneHolder DEF Settle, AcceptedWasHeard
    <3>2. Covered(w) \subseteq Retired'
      BY <1>4, <2>3, <3>1, StepRetired
    <3> QED BY <2>3, <3>1, <3>2
  <2> QED BY <2>1, <2>2, <2>3 DEF ToldIsRetired
<1>5. ASSUME NEW w \in Worker, NEW received \in SUBSET Channel, NEW acked \in SUBSET Channel,
             Send(w, received, acked)
      PROVE  e \in Retired' \/ \E v \in Worker : local'[v].accepted /\ e \in Covered(v)'
  <2>1. /\ counted' = counted /\ local'[w].claimed = local[w].claimed
        /\ local'[w].accepted = (acked # {})
        /\ \A v \in Worker \ {w} : local'[v] = local[v]
    BY <1>5 DEF Send, Accepted, TypeOK, Local, ledger
  <2>2. trouble = 0 /\ (received # {} => acked # {})
    BY <1>5, Bounds DEF Send, TypeOK
  <2>3. ~local[w].accepted
    BY <1>5 DEF Send, AcceptedWasHeard
  <2>4. CASE e \in told[c]
    BY <1>a, <2>1, <2>2, <2>3, <2>4
  <2>5. CASE e \notin told[c]
    <3>1. c \in received /\ e \in Covered(w)
      BY <1>5, <2>5 DEF Send
    <3>2. Covered(w)' = Covered(w)
      BY <1>5, <2>1, CoveredKept DEF Send
    <3> QED BY <2>1, <2>2, <3>1, <3>2
  <2> QED BY <2>4, <2>5
<1>6. ASSUME NEW w \in Worker, Die(w) PROVE FALSE
  BY <1>6 DEF Die, TypeOK
<1>7. ASSUME Tick
      PROVE  /\ UNCHANGED <<told, trouble, counted>>
             /\ \A v \in Worker : local[v].accepted =>
                  local'[v].accepted /\ local'[v].claimed = local[v].claimed
  BY <1>7 DEF Tick, TypeOK, Local
<1>8. ASSUME UNCHANGED <<told, trouble>>
      PROVE  trouble = 0 /\ e \in told[c]
  BY <1>8
<1> QED
  BY <1>a, <1>1, <1>2, <1>3, <1>4, <1>5, <1>6, <1>7, <1>8
     DEF Step, RecordEvents, CommitCapture, RollbackCapture, Poll, vars, ledger

-----------------------------------------------------------------------------
\* The rollup.

\* An alert is due when it is sent, and stays due while the clock moves.
LEMMA StepDue ==
  ASSUME TypeOK, ClaimIsCurrent, SendingIsDue, Step
  PROVE  SendingIsDue'
<1> USE Bounds
<1> DEFINE Due(v) ==
             pc[v] = "sending" /\ PendingTypes(local[v].counts) \subseteq notified =>
               notified # {} /\ quiet + MaxLag >= Rollup
\* The clock of the ledger is right, and a waiting cycle's view of it.
<1>a. ASSUME quiet' = quiet, age' = age, notified' = notified, NEW w \in Worker,
             \A v \in Worker \ {w} : pc'[v] = pc[v] /\ local'[v].counts = local[v].counts,
             pc'[w] # "sending"
      PROVE  SendingIsDue'
  BY <1>a DEF SendingIsDue, PendingTypes
<1>b. ASSUME UNCHANGED <<quiet, age, notified, pc, local>>
      PROVE  SendingIsDue'
  BY <1>b DEF SendingIsDue, PendingTypes
<1>1. ASSUME NEW w \in Worker, Poll(w) PROVE SendingIsDue'
  BY <1>a, <1>1 DEF Poll, ledger, TypeOK
<1>2. ASSUME NEW w \in Worker, LockLedger(w) PROVE SendingIsDue'
  BY <1>a, <1>2 DEF LockLedger, Rest, ledger, TypeOK
<1>3. ASSUME NEW w \in Worker, Claim(w) PROVE SendingIsDue'
  <2> DEFINE counts == [t \in Trigger |-> pending[t] + Count(Claimable, t)]
  <2>1. /\ local'[w].counts = counts
        /\ pc'[w] = IF ShouldDeliver(w, counts) THEN "sending" ELSE "settled"
        /\ UNCHANGED <<quiet, age, notified>>
    BY <1>3 DEF Claim, TypeOK, Local, ledger
  <2>2. \A v \in Worker \ {w} : pc'[v] = pc[v] /\ local'[v] = local[v]
    BY <1>3 DEF Claim, TypeOK
  <2> HIDE DEF counts
  <2>3. ASSUME ShouldDeliver(w, counts), PendingTypes(counts) \subseteq notified
        PROVE  notified # {} /\ quiet + MaxLag >= Rollup
    <3>1. CooldownElapsed(w) /\ notified # {}
      BY <2>3 DEF ShouldDeliver
    <3>2. age \in Nat /\ local[w].lag \in Nat /\ quiet \in Nat
      BY DEF TypeOK, Local
    <3>3. age >= Rollup
      BY <3>1, <3>2 DEF CooldownElapsed
    <3> QED BY <3>1, <3>2, <3>3 DEF SendingIsDue
  <2>4. Due(w)'
    BY <2>1, <2>3 DEF PendingTypes
  <2>5. \A v \in Worker \ {w} : Due(v)'
    BY <2>1, <2>2 DEF SendingIsDue, PendingTypes
  <2>6. (quiet < Rollup => age <= quiet + MaxLag)'
    BY <2>1 DEF SendingIsDue
  <2> QED BY <2>4, <2>5, <2>6 DEF SendingIsDue
<1>4. ASSUME NEW w \in Worker, Settle(w) PROVE SendingIsDue'
  <2>1. \A v \in Worker : pc'[v] # "sending"
    BY <1>4, OneHolder DEF Settle, Rest, TypeOK
  <2>2. (quiet < Rollup => age <= quiet + MaxLag)'
    BY <1>4 DEF Settle, SendingIsDue, TypeOK, Local
  <2> QED BY <2>1, <2>2 DEF SendingIsDue
<1>5. ASSUME NEW w \in Worker, NEW received \in SUBSET Channel, NEW acked \in SUBSET Channel,
             Send(w, received, acked)
      PROVE  SendingIsDue'
  <2>1. UNCHANGED <<quiet, age, notified>>
    BY <1>5 DEF Send, ledger
  <2>2. pc'[w] # "sending" /\ \A v \in Worker \ {w} : pc'[v] = pc[v] /\ local'[v] = local[v]
    BY <1>5 DEF Send, TypeOK
  <2> QED BY <1>a, <2>1, <2>2
<1>6. ASSUME NEW w \in Worker, Die(w) PROVE SendingIsDue'
  BY <1>a, <1>6 DEF Die, Rest, ledger, TypeOK
<1>7. CASE Tick
  <2>1. /\ age' = (IF age < Forever THEN age + 1 ELSE age)
        /\ quiet' = (IF quiet < Rollup THEN quiet + 1 ELSE quiet)
        /\ notified' = notified /\ pc' = pc
    BY <1>7 DEF Tick, Older
  <2>2. \A v \in Worker : local'[v].counts = local[v].counts
    BY <1>7 DEF Tick, TypeOK, Local
  <2>3. age \in Nat /\ quiet \in 0..Rollup
    BY DEF TypeOK
  <2>4. (quiet < Rollup => age <= quiet + MaxLag)'
    BY <2>1, <2>3 DEF SendingIsDue
  <2>5. \A v \in Worker : Due(v) => Due(v)'
    BY <2>1, <2>2, <2>3 DEF PendingTypes
  <2> QED BY <2>4, <2>5 DEF SendingIsDue
<1> QED
  BY <1>b, <1>1, <1>2, <1>3, <1>4, <1>5, <1>6, <1>7
     DEF Step, RecordEvents, CommitCapture, RollbackCapture, vars, ledger

-----------------------------------------------------------------------------
\* The invariant holds initially.
LEMMA InitInvariant == Init => IInv
<1> SUFFICES ASSUME Init PROVE IInv
  OBVIOUS
<1> USE Bounds
<1>1. TypeOK
  BY InitType
<1>2. /\ nextId = 1 /\ history = {} /\ outbox = {} /\ counted = {}
      /\ \A c \in Capture : mine[c] = {} /\ stage[c] = "start"
      /\ \A w \in Worker : pc[w] = "idle" /\ ~local[w].accepted
      /\ \A c \in Channel : told[c] = {}
      /\ quiet = Rollup
      /\ pending = NoCounts
  BY DEF Init, NoWork
<1>3. IdsAreFresh
  BY <1>2 DEF IdsAreFresh, Event
<1>4. CountsAreExact
  BY <1>2, CountEmpty DEF CountsAreExact, NoCounts
<1>5. ClaimIsCurrent /\ AcceptedWasHeard /\ ToldIsRetired /\ SendingIsDue
  BY <1>2 DEF ClaimIsCurrent, AcceptedWasHeard, ToldIsRetired, SendingIsDue
<1>6. OnlyAlerts /\ NothingLost
  BY <1>2 DEF OnlyAlerts, NothingLost, Retired, Alerts
<1> QED BY <1>1, <1>3, <1>4, <1>5, <1>6 DEF IInv

\* Every step keeps it.
LEMMA StepInvariant == IInv /\ [Next]_vars => IInv'
<1> SUFFICES ASSUME IInv, [Next]_vars PROVE IInv'
  OBVIOUS
<1>1. Step
  BY StepCases
<1>2. /\ TypeOK /\ IdsAreFresh /\ OnlyAlerts /\ CountsAreExact /\ ClaimIsCurrent
      /\ AcceptedWasHeard /\ NothingLost /\ ToldIsRetired /\ SendingIsDue
  BY DEF IInv
<1>3. TypeOK' /\ IdsAreFresh'
  BY <1>1, <1>2, StepType, StepFresh
<1>4. OnlyAlerts' /\ CountsAreExact' /\ ClaimIsCurrent'
  BY <1>1, <1>2, StepOnlyAlerts, StepCounts, StepClaim
<1>5. AcceptedWasHeard' /\ NothingLost' /\ ToldIsRetired' /\ SendingIsDue'
  BY <1>1, <1>2, StepHeard, StepNothingLost, StepTold, StepDue
<1> QED BY <1>3, <1>4, <1>5 DEF IInv

\* The parts of IInv hold in every state of the outbox, whatever the numbers
\* of captures, workers and channels.
THEOREM Inductive == Spec => []IInv
BY InitInvariant, StepInvariant, PTL DEF Spec

\* The tables, the workers and the outbox stay within their types
\* (server/metadata_notifications.ts, db/07-metadata-degradation.sql).
THEOREM TypeCorrect == Spec => []TypeOK
<1>1. IInv => TypeOK
  BY DEF IInv
<1> QED BY <1>1, Inductive, PTL

\* The pending counts of the ledger are those of the events taken from the
\* outbox and not yet delivered, whatever retries and crashes there were
\* (runMetadataNotificationCycle's ledger update).
THEOREM CountsExact == Spec => []CountsAreExact
<1>1. IInv => CountsAreExact
  BY DEF IInv
<1> QED BY <1>1, Inductive, PTL

\* One process at a time reports what the store owes (the FOR UPDATE SKIP
\* LOCKED of runMetadataNotificationCycle).
THEOREM ClaimsCurrent == Spec => []ClaimIsCurrent
<1>1. IInv => ClaimIsCurrent
  BY DEF IInv
<1> QED BY <1>1, Inductive, PTL

\* No recorded alert is forgotten before a provider has received it.
THEOREM NothingIsLost == Spec => []NothingLost
<1>1. IInv => NothingLost
  BY DEF IInv
<1> QED BY <1>1, Inductive, PTL

\* While no cycle dies and no delivery is in doubt, no provider is told of an
\* event twice: what was told is retired, or is about to be by its only holder.
THEOREM NoNeedlessRepeats == Spec => []NoNeedlessRepeat
<1>1. IInv => NoNeedlessRepeat
  <2> SUFFICES ASSUME IInv, trouble = 0, NEW w \in Worker, pc[w] = "sending",
                      NEW c \in Channel, NEW e \in Covered(w), e \in told[c]
               PROVE  FALSE
    BY DEF NoNeedlessRepeat
  <2>1. e \notin Retired
    BY CoveredIsOwed DEF IInv
  <2>2. PICK v \in Worker : local[v].accepted
    BY <2>1 DEF IInv, ToldIsRetired
  <2>3. pc[v] = "settled"
    BY <2>2 DEF IInv, AcceptedWasHeard
  <2>4. v = w
    BY <2>3, OneHolder DEF IInv
  <2> QED BY <2>3, <2>4
<1> QED BY <1>1, Inductive, PTL

\* Alerts of classes notified before come a rollup apart, but for the ticks by
\* which a worker's sample of the clock may be late.
THEOREM RollupsSpaced == Spec => RollupsAreSpaced
<1>1. IInv => \A w \in Worker :
                /\ pc[w] = "sending" /\ pc'[w] = "settled"
                /\ PendingTypes(local[w].counts) \subseteq notified
                => notified # {} /\ quiet + MaxLag >= Rollup
  BY DEF IInv, SendingIsDue
<1> QED BY <1>1, Inductive, PTL DEF RollupsAreSpaced

-----------------------------------------------------------------------------
\* The outbox keeps the promise of DegradationReports: commits of captures
\* are its Happen, deliveries its Tell, settlements of accepted deliveries its
\* Retire, and everything else a stutter.

\* The two specifications speak of the same events.
LEMMA ReportsInit == Init => Reports!Init
BY DEF Init, Reports!Init, Alerts, Retired, Heardof

\* Every step is one of theirs, or none.
LEMMA ReportsStep ==
  ASSUME IInv, [Next]_vars
  PROVE  [Reports!Next]_(Reports!reportVars)
<1> SUFFICES Reports!Next \/ UNCHANGED <<Alerts(history), Heardof, Retired>>
  BY DEF Reports!reportVars
<1>0. /\ TypeOK /\ IdsAreFresh /\ OnlyAlerts /\ CountsAreExact /\ ClaimIsCurrent
      /\ AcceptedWasHeard /\ Step
  BY StepCases DEF IInv
<1>a. \A e \in history : kind'[e] = kind[e]
  BY <1>0, RecordedKept
\* What a step that does not settle an accepted delivery retires.
<1>b. ASSUME ~\E w \in Worker : Settle(w) /\ local[w].accepted
      PROVE  Retired' = Retired
  BY <1>0, <1>b, StepRetired
<1>c. ASSUME history' = history PROVE Alerts(history)' = Alerts(history)
  BY <1>a, <1>c DEF Alerts
<1>1. ASSUME NEW c \in Capture, CommitCapture(c) PROVE Reports!Next
  <2> DEFINE events == Alerts(mine[c])
  <2>1. mine[c] \in SUBSET Event /\ events \in SUBSET Event
    BY <1>0 DEF Alerts, TypeOK
  <2>2. Alerts(history)' = Alerts(history) \cup events
    BY <1>1 DEF CommitCapture, Alerts
  <2>3. Heardof' = Heardof
    BY <1>1 DEF CommitCapture, Heardof
  <2>4. Retired' = Retired
    <3>1. \A w \in Worker : Settle(w) => stage' = stage
      BY DEF Settle, captures
    <3>2. stage' # stage
      BY <1>0, <1>1 DEF CommitCapture, TypeOK
    <3> QED BY <1>b, <3>1, <3>2
  <2> HIDE DEF events
  <2>5. Reports!Happen(events)
    BY <2>2, <2>3, <2>4 DEF Reports!Happen
  <2> QED BY <2>1, <2>5 DEF Reports!Next
<1>2. ASSUME NEW w \in Worker, NEW received \in SUBSET Channel, NEW acked \in SUBSET Channel,
             Send(w, received, acked)
      PROVE  Reports!Next
  <2> DEFINE events == IF received = {} THEN {} ELSE Covered(w)
  <2>1. Covered(w) \in SUBSET Event /\ Covered(w) \subseteq Alerts(history)
    BY <1>0, <1>2, CoveredIsOwed DEF Send, Covered, TypeOK, Local
  <2>2. Heardof' = Heardof \cup events
    BY <1>2 DEF Send, Heardof
  <2>3. Alerts(history)' = Alerts(history)
    BY <1>2, <1>c DEF Send, ledger
  <2>4. Retired' = Retired
    <3>1. \A v \in Worker : Settle(v) => pc'[v] = "idle" /\ pc[v] = "settled"
      BY <1>0 DEF Settle, Rest, TypeOK
    <3>2. \A v \in Worker : pc'[v] = "idle" => pc[v] = "idle"
      BY <1>0, <1>2 DEF Send, TypeOK
    <3> QED BY <1>b, <3>1, <3>2
  <2>5. events \in SUBSET Event /\ events \subseteq Alerts(history)
    BY <2>1
  <2> HIDE DEF events
  <2>6. Reports!Tell(events)
    BY <2>2, <2>3, <2>4, <2>5 DEF Reports!Tell
  <2> QED BY <2>5, <2>6 DEF Reports!Next
<1>3. ASSUME NEW w \in Worker, Settle(w)
      PROVE  Reports!Next \/ UNCHANGED <<Alerts(history), Heardof, Retired>>
  <2>1. Alerts(history)' = Alerts(history) /\ Heardof' = Heardof
    BY <1>3, <1>c DEF Settle, Heardof
  <2>2. CASE ~local[w].accepted
    <3>1. \A v \in Worker : Settle(v) => v = w
      BY <1>0, <1>3, OneHolder DEF Settle
    <3> QED BY <1>b, <2>1, <2>2, <3>1
  <2>3. CASE local[w].accepted
    <3>1. \A v \in Worker : Settle(v) => v = w
      BY <1>0, <1>3, OneHolder DEF Settle
    <3>2. Retired' = Retired \cup Covered(w)
      BY <1>0, <1>3, <2>3, <3>1, StepRetired
    <3>3. Covered(w) \in SUBSET Event /\ Covered(w) \subseteq Heardof
      BY <1>0, <2>3 DEF Covered, TypeOK, Local, AcceptedWasHeard
    <3>4. Reports!Retire(Covered(w))
      BY <2>1, <3>2, <3>3 DEF Reports!Retire
    <3> QED BY <3>3, <3>4 DEF Reports!Next
  <2> QED BY <2>2, <2>3
<1>4. ASSUME UNCHANGED <<history, outbox, counted, told>>
      PROVE  UNCHANGED <<Alerts(history), Heardof, Retired>>
  BY <1>0, <1>a, <1>4 DEF Alerts, Heardof, Retired
<1> QED
  BY <1>0, <1>1, <1>2, <1>3, <1>4
     DEF Step, RecordEvents, RollbackCapture, Poll, LockLedger, Claim, Die, Tick, vars, ledger

\* The outbox implements at-least-once reporting: this is the promise the
\* monitoring guide makes of the transactional outbox.
THEOREM KeepsReports == Spec => ReportsKept
<1>1. IInv /\ [Next]_vars => [Reports!Next]_(Reports!reportVars)
  BY ReportsStep
<1> QED BY <1>1, ReportsInit, Inductive, PTL DEF Spec, ReportsKept, Reports!Spec
=============================================================================
