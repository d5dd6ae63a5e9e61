------------------------- MODULE NotificationOutbox -------------------------
(***************************************************************************)
(* Degradation notifications: captures append events to an outbox in their *)
(* own transactions (server/queries.ts, server/metadata.ts), and one worker*)
(* per server process (server/metadata_notifications.ts) polls it, counts  *)
(* what it finds into a ledger row it has locked, sends an alert while the *)
(* transaction is open, and commits.  Tables: db/07-metadata-degradation.  *)
(***************************************************************************)
EXTENDS Integers, Sequences, FiniteSets

CONSTANTS
  Capture,      \* transactions that record a classification, each run once
  Worker,       \* server processes
  Channel,      \* configured adapters
  PrimaryOn,    \* a primary classifier is configured
  FallbackOn,   \* a fallback classifier is configured and allowed
  BatchSize,    \* outbox rows claimed by one cycle
  Rollup,       \* rollupMs, in ticks
  MaxLag,       \* bound: ticks from sampling the clock to the end of a cycle
  MaxTrouble,   \* bound: cycles that die, or whose delivery is in doubt
  MaxEvent,     \* bound: event ids
  None

ASSUME OutboxAssumption ==
  /\ PrimaryOn \in BOOLEAN /\ FallbackOn \in BOOLEAN
  /\ BatchSize \in Nat \ {0} /\ Rollup \in Nat \ {0}
  /\ MaxLag \in Nat /\ MaxTrouble \in Nat /\ MaxEvent \in Nat
  /\ None \notin Worker
  /\ Channel # {}

VARIABLES
  nextId,   \* the BIGSERIAL sequence of metadata_degradation_events
  kind,     \* the type of each event an id was given to
  mine,     \* the events of each capture's transaction
  stage,    \* where each capture's transaction is
  history,  \* committed metadata_degradation_events
  outbox,   \* committed metadata_degradation_outbox
  pending,  \* pending_counts of the ledger row
  notified, \* notified_event_types
  age,      \* ticks since last_notified_at
  holder,   \* the worker whose transaction locks the ledger row
  pc, local,   \* what each worker does next, and what it has read so far
  counted, told, quiet, trouble   \* for the properties; no code reads them

ledger == <<history, outbox, pending, notified, age, counted, quiet>>
captures == <<nextId, kind, mine, stage>>
vars == <<captures, ledger, holder, pc, local, told, trouble>>

-----------------------------------------------------------------------------
Trigger == {"primary_failure", "fallback_used", "stub_used"}

EventType == Trigger \cup {"fallback_failure"}

\* extractMetadata: the events of one classification, none if the first
\* classifier asked answers or none is configured.
Degradations ==
  CASE PrimaryOn /\ FallbackOn ->
         {<<>>, <<"primary_failure", "fallback_used">>,
          <<"primary_failure", "fallback_failure", "stub_used">>}
    [] PrimaryOn /\ ~FallbackOn -> {<<>>, <<"primary_failure", "stub_used">>}
    [] ~PrimaryOn /\ FallbackOn ->
         {<<"fallback_used">>, <<"fallback_failure", "stub_used">>}
    [] OTHER -> {<<>>}

Event == 1..MaxEvent

Count(events, t) == Cardinality({e \in events : kind[e] = t})

Counts == [Trigger -> Nat]

NoCounts == [t \in Trigger |-> 0]

\* An age saturates where no stale clock sample can tell it from an older one;
\* a ledger that never notified (NULL) starts there.
Forever == Rollup + MaxLag

Older(a) == IF a < Forever THEN a + 1 ELSE a

\* lag: the ticks since the cycle sampled the clock;  claimed: the outbox rows
\* it deleted;  counts: what it would report;  accepted: whether it was heard.
Local == [lag : 0..MaxLag, claimed : SUBSET Event, counts : Counts, accepted : BOOLEAN]

NoWork == [lag |-> 0, claimed |-> {}, counts |-> NoCounts, accepted |-> FALSE]

Init ==
  /\ nextId = 1
  /\ kind = [e \in Event |-> None]
  /\ mine = [c \in Capture |-> {}]
  /\ stage = [c \in Capture |-> "start"]
  /\ history = {} /\ outbox = {}
  /\ pending = NoCounts /\ notified = {} /\ age = Forever
  /\ holder = None
  /\ pc = [w \in Worker |-> "idle"]
  /\ local = [w \in Worker |-> NoWork]
  /\ counted = {} /\ told = [c \in Channel |-> {}] /\ quiet = Rollup /\ trouble = 0

-----------------------------------------------------------------------------
\* Captures: ids are taken when the rows are inserted, and become visible,
\* perhaps out of order, when the transaction commits.

RecordEvents(c) ==
  /\ stage[c] = "start"
  /\ \E events \in Degradations \ {<<>>} :
       /\ nextId + Len(events) <= MaxEvent + 1
       /\ kind' = [e \in Event |-> IF e \in nextId..(nextId + Len(events) - 1)
                                   THEN events[e - nextId + 1] ELSE kind[e]]
       /\ mine' = [mine EXCEPT ![c] = nextId..(nextId + Len(events) - 1)]
       /\ nextId' = nextId + Len(events)
  /\ stage' = [stage EXCEPT ![c] = "inserted"]
  /\ UNCHANGED <<ledger, holder, pc, local, told, trouble>>

CommitCapture(c) ==
  /\ stage[c] = "inserted"
  /\ stage' = [stage EXCEPT ![c] = "ended"]
  /\ history' = history \cup mine[c]
  /\ outbox' = outbox \cup mine[c]
  /\ UNCHANGED <<nextId, kind, mine, pending, notified, age, counted, quiet,
                 holder, pc, local, told, trouble>>

RollbackCapture(c) ==
  /\ stage[c] = "inserted"
  /\ stage' = [stage EXCEPT ![c] = "ended"]
  /\ UNCHANGED <<nextId, kind, mine, ledger, holder, pc, local, told, trouble>>

-----------------------------------------------------------------------------
\* The worker of one process: startMetadataNotificationWorker runs one cycle
\* after another, runMetadataNotificationCycle.

Poll(w) ==
  /\ pc[w] = "idle"
  /\ pc' = [pc EXCEPT ![w] = "polled"]
  /\ UNCHANGED <<captures, ledger, holder, local, told, trouble>>

Rest(w) ==
  /\ pc' = [pc EXCEPT ![w] = "idle"]
  /\ local' = [local EXCEPT ![w] = NoWork]

\* Seeded fault: the ledger row is read without a lock.
ReadLedger(w) ==
  /\ pc[w] = "polled"
  /\ holder' = w
  /\ pc' = [pc EXCEPT ![w] = "locked"]
  /\ UNCHANGED <<captures, ledger, local, told, trouble>>

\* FOR UPDATE SKIP LOCKED: another worker's lock ends the cycle.
LockLedger(w) ==
  /\ pc[w] = "polled"
  /\ \/ /\ holder = None
        /\ holder' = w
        /\ pc' = [pc EXCEPT ![w] = "locked"]
        /\ UNCHANGED local
     \/ /\ holder # None
        /\ Rest(w)
        /\ UNCHANGED holder
  /\ UNCHANGED <<captures, ledger, told, trouble>>

\* Seeded fault: a high-water cursor in place of the outbox.
AfterCursor == {e \in outbox : \A f \in history \ outbox : f < e}

\* The committed rows with the lowest ids.
Claimable == {e \in outbox : Cardinality({f \in outbox : f < e}) < BatchSize}

PendingTypes(counts) == {t \in Trigger : counts[t] > 0}

\* Seeded fault: no cooldown.
NoCooldown(w) == TRUE

\* Measured from the cycle's own sample of the clock.
CooldownElapsed(w) == age - local[w].lag >= Rollup

ShouldDeliver(w, counts) ==
  /\ PendingTypes(counts) # {}
  /\ PendingTypes(counts) \ notified # {} \/ CooldownElapsed(w)

\* fallback_failure events are consumed without being counted.
Claim(w) ==
  LET counts == [t \in Trigger |-> pending[t] + Count(Claimable, t)] IN
  /\ pc[w] = "locked"
  /\ local' = [local EXCEPT ![w] = [@ EXCEPT !.claimed = Claimable, !.counts = counts]]
  /\ pc' = [pc EXCEPT ![w] = IF ShouldDeliver(w, counts) THEN "sending" ELSE "settled"]
  /\ UNCHANGED <<captures, ledger, holder, told, trouble>>

\* The events behind the counts a worker reports.
Covered(w) == {e \in counted \cup local[w].claimed : kind[e] \in Trigger}

\* Seeded fault: an attempt counts as a delivery.
AnyAttempt(acked) == TRUE

\* At least one adapter took the alert.
Accepted(acked) == acked # {}

\* All adapters are tried at once.  One may fail after the provider took the
\* alert; if none reports success, a delivery that arrived is in doubt.
Send(w, received, acked) ==
  /\ pc[w] = "sending"
  /\ acked \subseteq received
  /\ told' = [c \in Channel |-> IF c \in received THEN told[c] \cup Covered(w) ELSE told[c]]
  /\ local' = [local EXCEPT ![w].accepted = Accepted(acked)]
  /\ pc' = [pc EXCEPT ![w] = "settled"]
  /\ IF received # {} /\ acked = {}
     THEN trouble < MaxTrouble /\ trouble' = trouble + 1
     ELSE UNCHANGED trouble
  /\ UNCHANGED <<captures, ledger, holder>>

\* Seeded fault: the counts that were reported stay in the ledger.
KeptCounts(w) == local[w].counts

PersistedCounts(w) == IF local[w].accepted THEN NoCounts ELSE local[w].counts

Consumed(w) == local[w].claimed

\* The ledger update and the deletions commit together.
Settle(w) ==
  LET delivered == local[w].accepted IN
  /\ pc[w] = "settled"
  /\ outbox' = outbox \ Consumed(w)
  /\ pending' = PersistedCounts(w)
  /\ counted' = IF delivered THEN {} ELSE Covered(w)
  /\ notified' = IF delivered THEN notified \cup PendingTypes(local[w].counts) ELSE notified
  /\ age' = IF delivered THEN local[w].lag ELSE age
  /\ quiet' = IF delivered THEN 0 ELSE quiet
  /\ holder' = None
  /\ Rest(w)
  /\ UNCHANGED <<captures, history, told, trouble>>

\* A cycle that throws, or a process that dies: the transaction is rolled back.
Die(w) ==
  /\ pc[w] # "idle"
  /\ trouble < MaxTrouble
  /\ trouble' = trouble + 1
  /\ holder' = IF holder = w THEN None ELSE holder
  /\ Rest(w)
  /\ UNCHANGED <<captures, ledger, told>>

Tick ==
  /\ \A w \in Worker : pc[w] # "idle" => local[w].lag < MaxLag
  /\ age' = Older(age)
  /\ quiet' = IF quiet < Rollup THEN quiet + 1 ELSE quiet
  /\ local' = [w \in Worker |-> IF pc[w] = "idle" THEN local[w]
                                ELSE [local[w] EXCEPT !.lag = @ + 1]]
  /\ UNCHANGED <<captures, history, outbox, pending, notified, counted, holder,
                 pc, told, trouble>>

Work(w) ==
  \/ Poll(w) \/ LockLedger(w) \/ Claim(w) \/ Settle(w)
  \/ \E received, acked \in SUBSET Channel : Send(w, received, acked)

Next ==
  \/ \E c \in Capture : RecordEvents(c) \/ CommitCapture(c) \/ RollbackCapture(c)
  \/ \E w \in Worker : Work(w) \/ Die(w)
  \/ Tick

Spec == Init /\ [][Next]_vars

\* A cycle that sends is heard.
Heard(w) == \E received, acked \in SUBSET Channel : acked # {} /\ Send(w, received, acked)

\* A process polls again after every cycle, awaits each statement, and bounds
\* every send; providers are not down for ever.
FairSpec ==
  /\ Spec
  /\ WF_vars(Tick)
  /\ \A w \in Worker : WF_vars(Work(w)) /\ SF_vars(Heard(w))

-----------------------------------------------------------------------------
TypeOK ==
  /\ nextId \in 1..(MaxEvent + 1)
  /\ kind \in [Event -> EventType \cup {None}]
  /\ mine \in [Capture -> SUBSET Event]
  /\ stage \in [Capture -> {"start", "inserted", "ended"}]
  /\ history \subseteq Event /\ outbox \subseteq Event /\ counted \subseteq Event
  /\ pending \in [Trigger -> 0..MaxEvent]
  /\ notified \subseteq Trigger
  /\ age \in 0..Forever /\ quiet \in 0..Rollup
  /\ holder \in Worker \cup {None}
  /\ pc \in [Worker -> {"idle", "polled", "locked", "sending", "settled"}]
  /\ local \in [Worker -> Local]
  /\ told \in [Channel -> SUBSET Event]
  /\ trouble \in 0..MaxTrouble

Alerts(events) == {e \in events : kind[e] \in Trigger}

\* Alert events the store no longer owes anyone.
Retired == Alerts(history) \ (outbox \cup counted)

Heardof == UNION {told[c] : c \in Channel}

Reports == INSTANCE DegradationReports WITH
  happened <- Alerts(history), told <- Heardof, retired <- Retired

\* The counts of the ledger are those of the events taken from the outbox and
\* not yet delivered: retries neither drop nor multiply one (docs/metadata-
\* degradation-monitoring.md: "without rereading or multiplying events").
CountsAreExact ==
  /\ counted \cap outbox = {} /\ counted \cup outbox \subseteq history
  /\ \A t \in Trigger : pending[t] = Count(counted, t)

\* What a cycle is about to report is what the store owes at that moment, and
\* no other process reports it too.
ClaimIsCurrent ==
  \A w \in Worker : pc[w] \in {"locked", "sending", "settled"} =>
    /\ holder = w
    /\ pc[w] # "locked" =>
         /\ local[w].claimed \subseteq outbox
         /\ \A t \in Trigger :
              local[w].counts[t] = pending[t] + Count(local[w].claimed, t)

\* An alert that was recorded is owed until some provider has received it, in
\* spite of crashes and of captures that commit out of id order ("cannot
\* silently lose one").
NothingLost == Retired \subseteq Heardof

\* Without a cycle that died or a delivery in doubt, no provider is told of an
\* event twice.
NoNeedlessRepeat ==
  trouble = 0 =>
    \A w \in Worker : pc[w] = "sending" => \A c \in Channel : Covered(w) \cap told[c] = {}

\* Alerts of classes that were notified before come a rollup apart, but for
\* the ticks by which a sampled clock may be late.
RollupsAreSpaced ==
  [][\A w \in Worker :
       /\ pc[w] = "sending" /\ pc'[w] = "settled"
       /\ PendingTypes(local[w].counts) \subseteq notified
       => notified # {} /\ quiet + MaxLag >= Rollup]_vars

\* The store keeps its promise.
ReportsKept == Reports!Spec

\* Every recorded alert is delivered in the end: every cycle that finds nothing
\* else wrong either sends what is due or leaves it for the rollup.
EveryAlertIsDelivered ==
  \A e \in Event : (e \in Alerts(history)) ~> (e \in Retired)

-----------------------------------------------------------------------------
\* What makes these true.

\* An id is given out once, and belongs to one capture until it commits.
IdsAreFresh ==
  /\ \A e \in Event : e < nextId => kind[e] \in EventType
  /\ \A e \in history : e < nextId
  /\ \A c \in Capture :
       /\ \A e \in mine[c] : e < nextId
       /\ stage[c] = "start" => mine[c] = {}
       /\ stage[c] = "inserted" => mine[c] \cap history = {}
       /\ \A d \in Capture \ {c} : mine[c] \cap mine[d] = {}

\* Only recorded alerts are counted and told of.
OnlyAlerts ==
  /\ counted \subseteq Alerts(history)
  /\ \A c \in Channel : told[c] \subseteq Alerts(history)

\* An accepted cycle has told somebody of all it reports.
AcceptedWasHeard ==
  \A w \in Worker : local[w].accepted => pc[w] = "settled" /\ Covered(w) \subseteq Heardof

\* Untroubled, whoever was told was told of what is retired, or about to be.
ToldIsRetired ==
  trouble = 0 =>
    \A c \in Channel : \A e \in told[c] :
      e \in Retired \/ \E w \in Worker : local[w].accepted /\ e \in Covered(w)

\* The ledger's age lags the last notification by at most a stale clock sample.
SendingIsDue ==
  /\ quiet < Rollup => age <= quiet + MaxLag
  /\ \A w \in Worker :
       pc[w] = "sending" /\ PendingTypes(local[w].counts) \subseteq notified =>
         notified # {} /\ quiet + MaxLag >= Rollup

IInv ==
  /\ TypeOK
  /\ IdsAreFresh
  /\ OnlyAlerts
  /\ CountsAreExact
  /\ ClaimIsCurrent
  /\ AcceptedWasHeard
  /\ NothingLost
  /\ ToldIsRetired
  /\ SendingIsDue
=============================================================================
