------------------------- MODULE ThoughtStoreProofs -------------------------
(***************************************************************************)
(* IInv of ThoughtStore is inductive, so the invariants the runs check on  *)
(* small stores hold for every store, workload and number of calls.        *)
(***************************************************************************)
EXTENDS ThoughtStore, TLAPS

-----------------------------------------------------------------------------
\* Facts about values.

\* An unrefused write scope names one well-shaped audience.
LEMMA WriteAudienceType ==
  ASSUME NEW input \in RequestSet, NEW p \in Principal \cup {None},
         ~WriteScopeRefused(input, p)
  PROVE  WriteAudience(input, p) \in AudienceSet
<1>1. WriteVisibility(input) \in Visibility
  BY RegistryAssumption DEF WriteVisibility, RequestSet, Visibility
<1>2. WriteAudience(input, p) \in AnyAudience
  BY <1>1 DEF WriteAudience, AnyAudience, RequestSet
<1>3. WellShaped(WriteAudience(input, p))
  BY <1>1 DEF WellShaped, WriteAudience, WriteScopeRefused, Visibility
<1> QED
  BY <1>2, <1>3 DEF AudienceSet

\* What a call of the workload carries.
LEMMA CallFacts ==
  ASSUME NEW c \in Workload
  PROVE  /\ c \in Call
         /\ c.scope.principal \in Principal \cup {None}
         /\ c.op = "capture" => c.content \in Content /\ c.audience \in AudienceSet
         /\ c.op # "capture" => c.id \in Id
         /\ c.op = "update" => c.content \in Content
         /\ c.op = "move" => c.audience \in AudienceSet
<1>1. c \in Call /\ Resolved(c)
  BY WorkloadAssumption
<1>2. c.scope.principal \in Principal \cup {None}
  BY <1>1 DEF Call, ScopeSet
<1>3. c.op = "capture" => c.content \in Content /\ c.audience \in AudienceSet
  BY <1>1, <1>2, WriteAudienceType DEF Resolved
<1>4. c.op = "move" => c.audience \in AudienceSet
  BY <1>1, <1>2, WriteAudienceType DEF Resolved, WriteAudiences
<1> QED
  BY <1>1, <1>2, <1>3, <1>4 DEF Resolved

\* The columns of a row.
LEMMA RowFacts ==
  ASSUME NEW x \in Row
  PROVE  /\ x.content \in Content /\ x.audience \in AudienceSet
         /\ x.forgotten \in BOOLEAN /\ x.fp \in Fingerprint \cup {NoFp}
         /\ x.meta \in Metadata
         /\ x.meta.stamp \in Principal \cup {None}
         /\ x.meta.extraction \in Content \cup {Stub}
         /\ x # NoRow
         /\ EffectiveFp(x) \in Fingerprint
BY NoRowAssumption, ThoughtAssumption DEF Row, Metadata, EffectiveFp

\* The rows an operation writes are rows.
LEMMA CapturedType ==
  ASSUME NEW text \in Content, NEW a \in AudienceSet,
         NEW stamp \in Principal \cup {None}, NEW e \in Content \cup {Stub}
  PROVE  Captured(text, a, stamp, e) \in Row
<1>1. [stamp |-> stamp, extraction |-> e] \in Metadata
  BY DEF Metadata
<1>2. FingerprintOf[text] \in Fingerprint
  BY ThoughtAssumption
<1> QED
  BY <1>1, <1>2 DEF Row, Captured

\* A merge and a reclassification write rows.
LEMMA ReclassifiedType ==
  ASSUME NEW x \in Row, NEW stamp \in Principal \cup {None}, NEW e \in Content \cup {Stub}
  PROVE  Merged(x, stamp, e) \in Row /\ Reclassified(x, e) \in Row
<1>1. [stamp |-> stamp, extraction |-> e] \in Metadata
  BY DEF Metadata
<1>2. [stamp |-> x.meta.stamp, extraction |-> e] \in Metadata
  BY RowFacts DEF Metadata
<1> QED
  BY <1>1, <1>2 DEF Row, Merged, Reclassified

\* So does an update,
LEMMA EditedType ==
  ASSUME NEW x \in Row, NEW text \in Content, NEW e \in Content \cup {Stub}
  PROVE  Edited(x, text, e) \in Row
<1>1. [stamp |-> x.meta.stamp, extraction |-> e] \in Metadata
  BY RowFacts DEF Metadata
<1>2. FingerprintOf[text] \in Fingerprint
  BY ThoughtAssumption
<1> QED
  BY <1>1, <1>2 DEF Row, Edited

\* a move,
LEMMA MovedType ==
  ASSUME NEW x \in Row, NEW a \in AudienceSet
  PROVE  Moved(x, a) \in Row
<1>1. EffectiveFp(x) \in Fingerprint
  BY RowFacts
<1> QED
  BY <1>1 DEF Row, Moved

\* and a forget or a restore.
LEMMA ForgottenType ==
  ASSUME NEW x \in Row
  PROVE  Forgotten(x) \in Row /\ Restored(x) \in Row
<1>1. EffectiveFp(x) \in Fingerprint
  BY RowFacts
<1> QED
  BY <1>1 DEF Row, Forgotten, Restored

\* A history numbered 1..k continues with k + 1.
LEMMA NextRevisionOfDense ==
  ASSUME NEW story, NEW k \in Nat, {v.n : v \in story} = 1..k
  PROVE  NextRevision(story) = k + 1
<1>1. CASE story = {}
  <2>1. 1..k = {}
    BY <1>1
  <2>2. k = 0
    BY <2>1
  <2> QED
    BY <1>1, <2>2 DEF NextRevision
<1>2. CASE story # {}
  <2>1. PICK v \in story : TRUE
    BY <1>2
  <2>2. v.n \in 1..k
    BY <2>1
  <2>3. k \in {u.n : u \in story} /\ \A u \in story : u.n <= k
    BY <2>2
  <2>4. \A m \in {u.n : u \in story} : (\A u \in story : u.n <= m) => m = k
    BY <2>3
  <2>5. (CHOOSE m \in {u.n : u \in story} : \A u \in story : u.n <= m) = k
    BY <2>3, <2>4
  <2> QED
    BY <1>2, <2>5 DEF NextRevision
<1> QED
  BY <1>1, <1>2

\* The number of the next revision of a history that replays.
LEMMA HistoryNumbers ==
  ASSUME NEW story, NEW x, Replays(story, x)
  PROVE  NextRevision(story) \in Nat \ {0}
BY DEF Replays

\* A store starts with histories that replay.
LEMMA InitialReplays ==
  ASSUME NEW x \in Row \cup {NoRow}
  PROVE  Replays(InitialHistory(x), x)
<1>1. ASSUME x = NoRow \/ ~x.forgotten, NEW story, story = {}
      PROVE  Replays(story, x)
  <2>1. {v.n : v \in story} = 1..0
    BY <1>1
  <2>2. NextRevision(story) = 1
    BY <1>1 DEF NextRevision
  <2> QED
    BY <1>1, <2>1, <2>2 DEF Replays
<1>2. ASSUME x # NoRow, x.forgotten, NEW story, NEW v0, story = {v0},
             v0 = Snapshot(x, 1, "forget", None)
      PROVE  Replays(story, x)
  <2>1. v0.n = 1 /\ v0.kind = "forget" /\ Explains(v0, x)
    BY <1>2 DEF Snapshot, Explains
  <2>2. {v.n : v \in story} = 1..1
    BY <1>2, <2>1
  <2>3. NextRevision(story) = 2 /\ NextRevision(story) - 1 = 1
    BY <2>2, NextRevisionOfDense
  <2>4. \A v \in story : v = v0
    BY <1>2
  <2>5. {v.n : v \in story} = 1..(NextRevision(story) - 1)
    BY <2>2, <2>3
  <2>6. x.forgotten <=> \E v \in story : v.n = NextRevision(story) - 1 /\ v.kind = "forget"
    BY <1>2, <2>1, <2>3
  <2>7. NextRevision(story) \in Nat \ {0}
    BY <2>3
  <2>8. \A v, w \in story : v = w /\ v.n = 1 /\ w.n = 1 /\ Explains(v, x)
    BY <2>1, <2>4
  <2>9. \A v, w \in story : w.n # v.n + 1 /\ ~(v.n < NextRevision(story) - 1)
    BY <2>3, <2>8
  <2> QED
    BY <1>2, <2>5, <2>6, <2>7, <2>8, <2>9 DEF Replays
<1> QED
  BY <1>1, <1>2 DEF InitialHistory

-----------------------------------------------------------------------------
\* Facts about one step.

\* What a step of r leaves alone: other calls, and the locks they hold.
Frame(r) ==
  /\ call' = call
  /\ \A q \in Req \ {r} :
       /\ pc'[q] = pc[q] /\ local'[q] = local[q] /\ answer'[q] = answer[q]
       /\ \A i \in Id : lock[i] = q => lock'[i] = q

\* The part of TypeOK that every step of a call changes.
CallsTyped ==
  /\ call \in [Req -> Call] /\ answer \in [Req -> Answer]
  /\ pc \in [Req -> Step] /\ lock \in [Id -> Req \cup {None}]
  /\ local \in [Req -> Local]

\* A step that ends r frees its locks and leaves the other calls alone.
LEMMA FinishStep ==
  ASSUME TypeOK, NEW r \in Req, NEW a \in Answer, Finish(r, a)
  PROVE  CallsTyped' /\ Frame(r) /\ pc'[r] = "done" /\ answer'[r] = a
<1>1. NoWork \in Local
  BY DEF NoWork, Local
<1> HIDE DEF NoWork, Local
<1> QED
  BY <1>1, ThoughtAssumption DEF Finish, Release, TypeOK, Step, Frame, CallsTyped

\* A step that moves r on keeps every lock, and may take one for r.
LEMMA GotoStep ==
  ASSUME TypeOK, NEW r \in Req, NEW s \in Step, Goto(r, s),
         NEW l \in Local, local' = [local EXCEPT ![r] = l],
         lock' = lock \/ \E i \in Id : Acquire(r, i)
  PROVE  CallsTyped' /\ Frame(r) /\ pc'[r] = s /\ local'[r] = l
<1>1. lock' \in [Id -> Req \cup {None}]
  BY DEF Acquire, TypeOK
<1>2. \A q \in Req \ {r}, i \in Id : lock[i] = q => lock'[i] = q
  BY ThoughtAssumption DEF Acquire, TypeOK
<1> HIDE DEF Local
<1> QED
  BY <1>1, <1>2 DEF Goto, TypeOK, Frame, CallsTyped

\* What a call in its transaction may leave behind is a row.
LEMMA NewHeadType ==
  ASSUME TypeOK, call \in [Req -> Workload], NEW r \in Req,
         Prepared(r), HeadIsCurrent(r), InTransaction(r)
  PROVE  /\ NewHead(r) \in Row
         /\ call[r].op # "capture" => local[r].head \in Row
         /\ local[r].head \in Row \cup {NoRow}
         /\ local[r].target \in Id
<1> DEFINE c == call[r]
           x == local[r].head
           e == local[r].fresh
<1>1. c \in Workload /\ c.op \in Operation /\ x \in Row \cup {NoRow}
  BY CallFacts DEF TypeOK, Local, Call
<1>2. AsksModels(r) => e \in Content \cup {Stub}
  BY <1>1, CallFacts DEF Prepared, Classifications, AsksModels
<1>3. CASE c.op = "capture" /\ x = NoRow
  BY <1>1, <1>2, <1>3, CallFacts, CapturedType DEF NewHead, AsksModels, HeadIsCurrent
<1>4. CASE c.op = "capture" /\ x # NoRow
  BY <1>1, <1>2, <1>4, CallFacts, ReclassifiedType DEF NewHead, AsksModels, HeadIsCurrent
<1>5. CASE c.op # "capture"
  <2>1. x \in Row /\ local[r].target \in Id
    BY <1>1, <1>5 DEF HeadIsCurrent
  <2>2. CASE c.op = "update"
    BY <2>1, <2>2, <1>1, <1>2, CallFacts, EditedType DEF NewHead, AsksModels
  <2>3. CASE c.op = "move"
    BY <2>1, <2>3, <1>1, CallFacts, MovedType DEF NewHead
  <2>4. CASE c.op = "forget"
    BY <2>1, <2>4, ForgottenType DEF NewHead
  <2>5. CASE c.op = "restore"
    BY <2>1, <2>5, ForgottenType DEF NewHead
  <2>6. CASE c.op = "reclassify"
    BY <2>1, <2>6, <1>2, ReclassifiedType DEF NewHead, AsksModels
  <2> QED
    BY <1>1, <1>5, <2>1, <2>2, <2>3, <2>4, <2>5, <2>6 DEF Operation
<1> QED
  BY <1>3, <1>4, <1>5

-----------------------------------------------------------------------------
\* The initial state.

\* The invariant holds of every store a deployment may start from.
LEMMA InitIInv ==
  ASSUME Init
  PROVE  IInv
<1> USE DEF Init
<1>1. PossibleHeads(row)
  BY InitialHeadsAssumption
<1>2. \A i \in Id : row[i] \in Row \cup {NoRow}
  BY <1>1 DEF PossibleHeads
<1>3. \A i \in Id : InitialHistory(row[i]) \in SUBSET Revision
  <2> SUFFICES ASSUME NEW i \in Id, row[i] # NoRow, row[i].forgotten
               PROVE  Snapshot(row[i], 1, "forget", None) \in Revision
    BY DEF InitialHistory
  <2>1. row[i] \in Row
    BY <1>2
  <2> QED
    BY <2>1, RowFacts DEF Snapshot, Revision, Kind
<1>4. \A i \in Id : InitialIndex(row[i]) \in Content \cup {NoIndex}
  BY <1>2, RowFacts DEF InitialIndex
<1>5. NoWork \in Local
  BY DEF NoWork, Local
<1>6. call \in [Req -> Call]
  BY WorkloadAssumption
<1>7. TypeOK
  <2>1. row \in [Id -> Row \cup {NoRow}]
    BY <1>1 DEF PossibleHeads
  <2>2. revs \in [Id -> SUBSET Revision]
    BY <1>3
  <2>3. index \in [Id -> Content \cup {NoIndex}]
    BY <1>4
  <2>4. answer \in [Req -> Answer]
    BY DEF Answer
  <2>5. pc \in [Req -> Step]
    BY DEF Step
  <2> QED
    BY <1>5, <1>6, <2>1, <2>2, <2>3, <2>4, <2>5 DEF TypeOK
<1>8. NothingStale
  BY DEF NothingStale, Prepared, HeadIsCurrent, WriteIsSound, InTransaction
<1>9. StoredFpIsDerived /\ UniqueKeys /\ ExtractionDescribesThought
  BY <1>1 DEF PossibleHeads, StoredFpIsDerived, UniqueKeys, ExtractionDescribesThought
<1>10. IndexMatchesContent
  BY <1>2 DEF IndexMatchesContent, InitialIndex
<1>11. OnlyAuthorizedChanges
  BY DEF OnlyAuthorizedChanges, InitialHistory, Snapshot
<1>12. HistoryReplays
  <2> SUFFICES ASSUME NEW i \in Id
               PROVE  Replays(InitialHistory(row[i]), row[i])
    BY DEF HistoryReplays
  <2> QED
    BY <1>2, InitialReplays
<1> QED
  BY <1>7, <1>8, <1>9, <1>10, <1>11, <1>12 DEF IInv

-----------------------------------------------------------------------------
\* The answers and types of one step.

\* Every answer given is an answer.
LEMMA AnswerType ==
  /\ Refusal \subseteq Answer /\ Applied \subseteq Answer
  /\ \A op \in Operation : Success(op) \in Answer
BY DEF Answer, Refusal, Applied, Operation, Success

\* A step keeps the other calls as they were.
LEMMA CallStep ==
  ASSUME IInv, NEW r \in Req, Proceed(r) \/ Fail(r)
  PROVE  CallsTyped' /\ Frame(r)
<1> DEFINE c == call[r]
<1>1. TypeOK /\ c \in Workload /\ c \in Call /\ local[r] \in Local
  BY CallFacts DEF IInv, TypeOK
<1>2. \A i \in Id : row[i] \in Row \cup {NoRow}
  BY <1>1 DEF TypeOK
<1>3. {"invisible", "unchanged", "conflict", "stale", "error"} \subseteq Answer
  BY DEF Answer, Refusal
<1>4. CASE Fail(r)
  BY <1>1, <1>3, <1>4, FinishStep DEF Fail
<1>5. CASE ProbeUnchanged(r)
  <2>1. CASE Finish(r, "invisible") \/ Finish(r, "unchanged")
    BY <1>1, <1>3, <2>1, FinishStep
  <2>2. CASE Goto(r, "embed") /\ local' = [local EXCEPT ![r].source = c.content] /\ lock' = lock
    <3>1. [local[r] EXCEPT !.source = c.content] \in Local
      BY <1>1, <1>5, CallFacts DEF Local, ProbeUnchanged
    <3> QED
      BY <1>1, <2>2, <3>1, GotoStep DEF Step
  <2> QED
    BY <1>5, <2>1, <2>2 DEF ProbeUnchanged
<1>6. CASE CaptureSource(r)
  <2>1. PICK text \in Content : local' = [local EXCEPT ![r].source = text]
    <3>1. c.content \in Content
      BY <1>1, <1>6, CallFacts DEF CaptureSource
    <3>2. \A t \in KeyHolders(None, Captured(c.content, c.audience, None, Stub)) :
            row[t].content \in Content
      BY <1>2, RowFacts DEF KeyHolders, SameKey, Live
    <3> QED
      BY <1>6, <3>1, <3>2 DEF CaptureSource
  <2>2. [local[r] EXCEPT !.source = text] \in Local
    BY <1>1 DEF Local
  <2> QED
    BY <1>1, <1>6, <2>1, <2>2, GotoStep DEF CaptureSource, Step
<1>7. CASE ReadCandidate(r)
  <2>1. CASE Finish(r, "stale")
    BY <1>1, <1>3, <2>1, FinishStep
  <2>2. CASE /\ Live(row[c.id])
             /\ local' = [local EXCEPT ![r] = [@ EXCEPT !.source = row[c.id].content,
                                                     !.prior = row[c.id].meta]]
             /\ Goto(r, "embed") /\ lock' = lock
    <3>1. row[c.id] \in Row
      BY <1>1, <1>2, <1>7, <2>2, CallFacts DEF Live, ReadCandidate
    <3>2. [local[r] EXCEPT !.source = row[c.id].content, !.prior = row[c.id].meta] \in Local
      BY <1>1, <3>1, RowFacts DEF Local
    <3> QED
      BY <1>1, <2>2, <3>2, GotoStep DEF Step
  <2> QED
    BY <1>7, <2>1, <2>2 DEF ReadCandidate
<1>8. CASE EmbedAndClassify(r)
  <2>1. PICK e \in Classifications(r) : local' = [local EXCEPT ![r].fresh = e]
    BY <1>8 DEF EmbedAndClassify
  <2>2. e \in Content \cup {Stub}
    BY <1>1, <1>8, <2>1, CallFacts
    DEF Classifications, EmbedAndClassify, IInv, NothingStale, Prepared, AsksModels
  <2>3. [local[r] EXCEPT !.fresh = e] \in Local
    BY <1>1, <2>2 DEF Local
  <2> QED
    BY <1>1, <1>8, <2>1, <2>3, GotoStep DEF EmbedAndClassify, Step
<1>9. CASE LockHead(r)
  <2>1. CASE Finish(r, "invisible") \/ Finish(r, "unchanged")
    BY <1>1, <1>3, <2>1, FinishStep
  <2>2. CASE /\ Found(c, row[c.id]) /\ Acquire(r, c.id)
             /\ local' = [local EXCEPT ![r] = [@ EXCEPT !.target = c.id, !.head = row[c.id]]]
             /\ Goto(r, IF c.op = "forget" THEN "checked" ELSE "locked")
    <3>1. c.id \in Id /\ row[c.id] \in Row
      BY <1>1, <1>2, <1>9, <2>2, CallFacts DEF LockHead, Found
    <3>2. [local[r] EXCEPT !.target = c.id, !.head = row[c.id]] \in Local
      BY <1>1, <3>1 DEF Local
    <3>3. (IF c.op = "forget" THEN "checked" ELSE "locked") \in Step
      BY DEF Step
    <3> QED
      BY <1>1, <2>2, <3>1, <3>2, <3>3, GotoStep
  <2> QED
    BY <1>9, <2>1, <2>2 DEF LockHead
<1>10. CASE LockCandidate(r)
  <2>1. CASE Finish(r, "stale")
    BY <1>1, <1>3, <2>1, FinishStep
  <2>2. CASE /\ StillCandidate(r, row[c.id]) /\ Acquire(r, c.id)
             /\ local' = [local EXCEPT ![r] = [@ EXCEPT !.target = c.id, !.head = row[c.id]]]
             /\ Goto(r, "checked")
    <3>1. c.id \in Id /\ row[c.id] \in Row
      BY <1>1, <1>2, <1>10, <2>2, CallFacts DEF LockCandidate, StillCandidate, Live
    <3>2. [local[r] EXCEPT !.target = c.id, !.head = row[c.id]] \in Local
      BY <1>1, <3>1 DEF Local
    <3> QED
      BY <1>1, <2>2, <3>1, <3>2, GotoStep DEF Step
  <2> QED
    BY <1>10, <2>1, <2>2 DEF LockCandidate
<1>11. CASE Upsert(r)
  <2>1. PICK id \in Id :
          \/ /\ Acquire(r, id)
             /\ local' = [local EXCEPT ![r] = [@ EXCEPT !.target = id, !.head = row[id]]]
             /\ Goto(r, "written")
          \/ Finish(r, "error")
    BY <1>11 DEF Upsert, KeyHolders
  <2>2. [local[r] EXCEPT !.target = id, !.head = row[id]] \in Local
    BY <1>1, <1>2 DEF Local
  <2> QED
    BY <1>1, <1>3, <2>1, <2>2, GotoStep, FinishStep DEF Step
<1>12. CASE ProbeCollision(r)
  <2>1. local' = local => local' = [local EXCEPT ![r] = local[r]]
    BY <1>1 DEF TypeOK
  <2> QED
    BY <1>1, <1>3, <1>12, <2>1, GotoStep, FinishStep DEF ProbeCollision, Step
<1>13. CASE Write(r)
  <2>1. local' = local => local' = [local EXCEPT ![r] = local[r]]
    BY <1>1 DEF TypeOK
  <2>2. CASE Goto(r, "violated") /\ local' = local /\ lock' = lock
    BY <1>1, <2>1, <2>2, GotoStep DEF Step
  <2>3. CASE /\ Goto(r, "written") /\ lock' = lock
             /\ local' = [local EXCEPT ![r].revno = NextRevision(revs[local[r].target])]
    <3>1. local[r].target \in Id
      BY <1>13 DEF Write, IInv, NothingStale, HeadIsCurrent, InTransaction
    <3>2. NextRevision(revs[local[r].target]) \in Nat
      BY <3>1, HistoryNumbers DEF IInv, HistoryReplays
    <3>3. [local[r] EXCEPT !.revno = NextRevision(revs[local[r].target])] \in Local
      BY <1>1, <3>2 DEF Local
    <3> QED
      BY <1>1, <2>3, <3>3, GotoStep DEF Step
  <2> QED
    BY <1>13, <2>2, <2>3 DEF Write
<1>14. CASE Reprobe(r)
  BY <1>1, <1>3, <1>14, FinishStep DEF Reprobe
<1>15. CASE Commit(r)
  <2>1. Success(c.op) \in Answer
    BY <1>1, AnswerType DEF Call
  <2> QED
    BY <1>1, <1>3, <1>15, <2>1, FinishStep DEF Commit
<1> QED
  BY <1>4, <1>5, <1>6, <1>7, <1>8, <1>9, <1>10, <1>11, <1>12, <1>13, <1>14, <1>15 DEF Proceed

\* Only COMMIT changes what others can read.
LEMMA OnlyCommitWrites ==
  ASSUME NEW r \in Req, Proceed(r) \/ Fail(r)
  PROVE  UNCHANGED committed \/ Commit(r)
BY DEF Proceed, Fail, ProbeUnchanged, CaptureSource, ReadCandidate, EmbedAndClassify,
   LockHead, LockCandidate, Upsert, ProbeCollision, Write, Reprobe, committed

\* A call about to commit, and what its commit does to each table.
LEMMA CommitFacts ==
  ASSUME IInv, NEW r \in Req, Commit(r)
  PROVE  /\ TypeOK /\ call[r] \in Workload /\ call[r].op \in Operation
         /\ InTransaction(r) /\ pc[r] = "written"
         /\ Prepared(r) /\ HeadIsCurrent(r) /\ WriteIsSound(r)
         /\ local[r].target \in Id /\ lock[local[r].target] = r
         /\ row[local[r].target] = local[r].head
         /\ NewHead(r) \in Row
         /\ row' = [row EXCEPT ![local[r].target] = NewHead(r)]
         /\ row'[local[r].target] = NewHead(r)
         /\ \A i \in Id \ {local[r].target} :
              row'[i] = row[i] /\ revs'[i] = revs[i] /\ index'[i] = index[i]
         /\ revs'[local[r].target] = NewHistory(r, revs[local[r].target])
         /\ index'[local[r].target] = NewIndex(r, index[local[r].target])
<1>1. /\ TypeOK /\ call[r] \in Workload /\ call[r].op \in Operation
      /\ InTransaction(r) /\ pc[r] = "written"
      /\ Prepared(r) /\ HeadIsCurrent(r) /\ WriteIsSound(r)
  BY CallFacts DEF IInv, NothingStale, Commit, InTransaction, Call
<1>2. NewHead(r) \in Row /\ local[r].target \in Id
  BY <1>1, NewHeadType DEF IInv
<1>3. lock[local[r].target] = r /\ row[local[r].target] = local[r].head
  BY <1>1 DEF HeadIsCurrent
<1> QED
  BY <1>1, <1>2, <1>3 DEF Commit, TypeOK

\* Every mutation has a kind.
LEMMA KindType == \A op \in Operation \ {"capture"} : KindOf(op) \in Kind
BY DEF Operation, KindOf, Kind

\* A step keeps every variable well typed.
LEMMA TypeStep ==
  ASSUME IInv, NEW r \in Req, Proceed(r) \/ Fail(r)
  PROVE  TypeOK'
<1>1. CallsTyped'
  BY CallStep
<1>2. CASE UNCHANGED committed
  BY <1>1, <1>2 DEF committed, IInv, TypeOK, CallsTyped
<1>3. CASE Commit(r)
  <2> DEFINE id == local[r].target
             x == local[r].head
  <2>1. TypeOK /\ call[r].op \in Operation /\ id \in Id /\ NewHead(r) \in Row /\ Prepared(r)
        /\ InTransaction(r) /\ HeadIsCurrent(r)
    BY <1>3, CommitFacts
  <2>2. row' \in [Id -> Row \cup {NoRow}]
    BY <1>3, <2>1 DEF Commit, TypeOK
  <2>3. call[r].op # "capture" => Snapshot(x, local[r].revno, KindOf(call[r].op), r) \in Revision
    <3>1. call[r].op # "capture" => x \in Row
      BY <2>1, NewHeadType DEF IInv
    <3>2. local[r].revno \in Nat
      BY <2>1 DEF TypeOK, Local
    <3> QED
      BY <2>1, <3>1, <3>2, KindType, RowFacts DEF Snapshot, Revision
  <2>4. revs' \in [Id -> SUBSET Revision]
    BY <1>3, <2>1, <2>3 DEF Commit, TypeOK, NewHistory
  <2>5. NewIndex(r, index[id]) \in Content \cup {NoIndex}
    BY <2>1 DEF NewIndex, TypeOK, Prepared, AsksModels
  <2>6. index' \in [Id -> Content \cup {NoIndex}]
    BY <1>3, <2>1, <2>5 DEF Commit, TypeOK
  <2> QED
    BY <1>1, <2>2, <2>4, <2>6 DEF TypeOK, CallsTyped
<1> QED
  BY <1>2, <1>3, OnlyCommitWrites

-----------------------------------------------------------------------------
\* Nothing goes stale: first for the calls that did not move.

\* What r leaves of another call q, seen through the operators over q.
LEMMA SameNewHead ==
  ASSUME NEW r \in Req, NEW q \in Req \ {r}, Frame(r)
  PROVE  /\ NewHead(q)' = NewHead(q) /\ InTransaction(q)' = InTransaction(q)
         /\ AsksModels(q)' = AsksModels(q) /\ Classifications(q)' = Classifications(q)
         /\ \A x : StillCandidate(q, x)' = StillCandidate(q, x)
BY DEF Frame, NewHead, InTransaction, AsksModels, Classifications, StillCandidate

\* The row another call has locked is not written by r.
LEMMA OthersPrepared ==
  ASSUME IInv, NEW r \in Req, Proceed(r) \/ Fail(r), NEW q \in Req \ {r}
  PROVE  Prepared(q)' /\ HeadIsCurrent(q)'
<1>1. Frame(r) /\ Prepared(q) /\ HeadIsCurrent(q)
  BY CallStep DEF IInv, NothingStale
<1>2. Prepared(q)'
  BY <1>1, SameNewHead DEF Prepared, Frame
<1>3. InTransaction(q) => row'[local[q].target] = row[local[q].target]
  <2> SUFFICES ASSUME InTransaction(q), Commit(r)
               PROVE  row'[local[q].target] = row[local[q].target]
    BY OnlyCommitWrites DEF committed
  <2>1. local[q].target \in Id /\ lock[local[q].target] = q
    BY <1>1 DEF HeadIsCurrent
  <2>2. local[q].target # local[r].target
    BY <2>1, CommitFacts
  <2> QED
    BY <2>1, <2>2, CommitFacts
<1>4. HeadIsCurrent(q)'
  BY <1>1, <1>3, SameNewHead DEF HeadIsCurrent, Frame
<1> QED
  BY <1>2, <1>4

\* Then for the call that moved.

\* A call that ended has nothing to keep.
LEMMA DonePrepared ==
  ASSUME NEW r \in Req, pc'[r] = "done"
  PROVE  Prepared(r)' /\ HeadIsCurrent(r)' /\ WriteIsSound(r)'
BY DEF Prepared, HeadIsCurrent, WriteIsSound, InTransaction

\* Nor has one that ends.
LEMMA FinishPrepared ==
  ASSUME TypeOK, NEW r \in Req, NEW a, Finish(r, a)
  PROVE  Prepared(r)' /\ HeadIsCurrent(r)' /\ WriteIsSound(r)'
BY DonePrepared DEF Finish, TypeOK

\* Before the transaction.
LEMMA AskingPrepared ==
  ASSUME IInv, NEW r \in Req,
         ProbeUnchanged(r) \/ CaptureSource(r) \/ ReadCandidate(r) \/ EmbedAndClassify(r)
  PROVE  Prepared(r)' /\ HeadIsCurrent(r)' /\ WriteIsSound(r)'
<1> DEFINE c == call[r]
<1>1. TypeOK /\ c \in Workload /\ Prepared(r)
  BY DEF IInv, NothingStale
<1>2. Proceed(r)
  BY DEF Proceed
<1>3. \A i \in Id : row[i] \in Row \cup {NoRow}
  BY <1>1 DEF TypeOK
<1>4. local'[r] \in Local
  BY <1>2, CallStep DEF CallsTyped
<1>5. CASE pc'[r] = "done"
  BY <1>5, DonePrepared
<1>6. CASE ProbeUnchanged(r) /\ pc'[r] # "done"
  <2>1. /\ c.op = "update" /\ answer[r] = "pending" /\ pc'[r] = "embed"
        /\ answer' = answer /\ call' = call /\ local'[r].source = c.content
    BY <1>1, <1>6 DEF ProbeUnchanged, Finish, Goto, TypeOK, Local, Prepared
  <2> QED
    BY <1>1, <2>1, CallFacts DEF Prepared, HeadIsCurrent, WriteIsSound, InTransaction, AsksModels
<1>7. CASE CaptureSource(r)
  <2>1. /\ c.op = "capture" /\ answer[r] = "pending" /\ pc'[r] = "embed"
        /\ answer' = answer /\ call' = call
    BY <1>1, <1>7 DEF CaptureSource, Goto, TypeOK, Prepared
  <2>2. local'[r].source \in Content
    <3>1. c.content \in Content
      BY <1>1, <2>1, CallFacts
    <3>2. \A t \in KeyHolders(None, Captured(c.content, c.audience, None, Stub)) :
            row[t].content \in Content
      BY <1>3, RowFacts DEF KeyHolders, SameKey, Live
    <3> QED
      BY <1>1, <1>7, <3>1, <3>2 DEF CaptureSource, TypeOK, Local
  <2> QED
    BY <2>1, <2>2 DEF Prepared, HeadIsCurrent, WriteIsSound, InTransaction, AsksModels
<1>8. CASE ReadCandidate(r) /\ pc'[r] # "done"
  <2>0. /\ c.op = "reclassify" /\ answer[r] = "pending" /\ pc'[r] = "embed"
        /\ answer' = answer /\ call' = call
        /\ Live(row[c.id]) /\ row[c.id].meta.extraction = Stub
        /\ local' = [local EXCEPT ![r] = [@ EXCEPT !.source = row[c.id].content,
                                                !.prior = row[c.id].meta]]
    BY <1>1, <1>8 DEF ReadCandidate, Finish, Goto, TypeOK, Prepared
  <2>1. local'[r].source = row[c.id].content /\ local'[r].prior = row[c.id].meta
    BY <1>1, <2>0 DEF TypeOK, Local
  <2>2. row[c.id] \in Row
    BY <1>1, <1>3, <2>0, CallFacts DEF Live
  <2> QED
    BY <2>0, <2>1, <2>2, RowFacts DEF Prepared, HeadIsCurrent, WriteIsSound, InTransaction, AsksModels
<1>9. CASE EmbedAndClassify(r)
  <2>1. PICK e \in Classifications(r) : local' = [local EXCEPT ![r].fresh = e]
    BY <1>9 DEF EmbedAndClassify
  <2>2. /\ local'[r].fresh = e /\ local'[r].source = local[r].source
        /\ local'[r].prior = local[r].prior
    BY <1>1, <2>1 DEF TypeOK, Local
  <2>3. /\ pc[r] = "embed" /\ answer[r] = "pending" /\ pc'[r] = "classified"
        /\ answer' = answer /\ call' = call
    BY <1>1, <1>9 DEF EmbedAndClassify, Goto, TypeOK, Prepared
  <2> QED
    BY <1>1, <2>1, <2>2, <2>3
    DEF Prepared, HeadIsCurrent, WriteIsSound, InTransaction, AsksModels, Classifications
<1> QED
  BY <1>5, <1>6, <1>7, <1>8, <1>9

\* Rows with one key.
LEMMA KeySymmetric ==
  ASSUME NEW x, NEW y, SameKey(x, y)
  PROVE  SameKey(y, x)
BY DEF SameKey

\* Sharing a key is transitive over rows that have one.
LEMMA KeyTransitive ==
  ASSUME NEW x, NEW y, NEW z, SameKey(x, y), SameKey(y, z)
  PROVE  SameKey(x, z)
BY DEF SameKey

\* A merge keeps the key of the row it merges into.
LEMMA MergedKey ==
  ASSUME NEW x \in Row, NEW y, NEW stamp, NEW e, SameKey(y, Merged(x, stamp, e))
  PROVE  SameKey(y, x)
<1>1. /\ Merged(x, stamp, e).fp = x.fp /\ Merged(x, stamp, e).forgotten = x.forgotten
      /\ Merged(x, stamp, e).audience = x.audience /\ Merged(x, stamp, e).content = x.content
  BY DEF Merged, Row
<1> QED
  BY <1>1, RowFacts DEF SameKey, Live

\* The two locking reads.
LEMMA LockedPrepared ==
  ASSUME IInv, NEW r \in Req, LockHead(r) \/ LockCandidate(r)
  PROVE  Prepared(r)' /\ HeadIsCurrent(r)' /\ WriteIsSound(r)'
<1> DEFINE c == call[r]
           x == row[c.id]
<1>1. TypeOK /\ c \in Workload /\ Prepared(r)
  BY DEF IInv, NothingStale
<1>2. CASE pc'[r] = "done"
  BY <1>2, DonePrepared
<1>3. CASE LockHead(r) /\ pc'[r] # "done"
  <2>1. /\ c.op \in {"update", "move", "forget", "restore"}
        /\ c.op = "update" => pc[r] = "classified"
        /\ c.op # "update" => pc[r] = "start"
        /\ Found(c, x) /\ ~AlreadySo(c, x) /\ row' = row /\ call' = call /\ answer' = answer
        /\ Acquire(r, c.id)
        /\ pc'[r] \in {"checked", "locked"}
        /\ local' = [local EXCEPT ![r] = [@ EXCEPT !.target = c.id, !.head = x]]
    BY <1>1, <1>3 DEF LockHead, Finish, Goto, TypeOK, committed
  <2>2. /\ local'[r].target = c.id /\ local'[r].head = x
        /\ local'[r].source = local[r].source /\ local'[r].prior = local[r].prior
        /\ local'[r].fresh = local[r].fresh
    BY <1>1, <2>1 DEF TypeOK, Local
  <2>3. c.id \in Id /\ lock'[c.id] = r
    BY <1>1, <2>1, CallFacts DEF Acquire, TypeOK
  <2>4. Prepared(r)'
    BY <1>1, <2>1, <2>2 DEF Prepared, AsksModels, InTransaction, Classifications
  <2> QED
    BY <2>1, <2>2, <2>3, <2>4 DEF HeadIsCurrent, WriteIsSound, Found
<1>4. CASE LockCandidate(r) /\ pc'[r] # "done"
  <2>1. /\ c.op = "reclassify" /\ pc[r] = "classified"
        /\ StillCandidate(r, x) /\ row' = row /\ call' = call /\ answer' = answer
        /\ Acquire(r, c.id)
        /\ pc'[r] = "checked"
        /\ local' = [local EXCEPT ![r] = [@ EXCEPT !.target = c.id, !.head = x]]
    BY <1>1, <1>4 DEF LockCandidate, Finish, Goto, TypeOK, committed
  <2>2. /\ local'[r].target = c.id /\ local'[r].head = x
        /\ local'[r].source = local[r].source /\ local'[r].prior = local[r].prior
        /\ local'[r].fresh = local[r].fresh
    BY <1>1, <2>1 DEF TypeOK, Local
  <2>3. c.id \in Id /\ lock'[c.id] = r
    BY <1>1, <2>1, CallFacts DEF Acquire, TypeOK
  <2>4. Prepared(r)'
    BY <1>1, <2>1, <2>2 DEF Prepared, AsksModels, InTransaction, Classifications
  <2> QED
    BY <2>1, <2>2, <2>3, <2>4 DEF HeadIsCurrent, WriteIsSound, StillCandidate, Live
<1> QED
  BY <1>2, <1>3, <1>4

\* The probe and the write.
LEMMA WritePrepared ==
  ASSUME IInv, NEW r \in Req, ProbeCollision(r) \/ Write(r)
  PROVE  Prepared(r)' /\ HeadIsCurrent(r)' /\ WriteIsSound(r)'
<1>1. TypeOK /\ Prepared(r) /\ HeadIsCurrent(r)
  BY DEF IInv, NothingStale
<1>2. CASE pc'[r] = "done"
  BY <1>2, DonePrepared
<1>3. CASE pc'[r] # "done"
  <2>1. /\ pc[r] \in {"locked", "checked"} /\ pc'[r] \in {"checked", "violated", "written"}
        /\ row' = row /\ revs' = revs /\ lock' = lock /\ call' = call /\ answer' = answer
        /\ \/ local' = local
           \/ local' = [local EXCEPT ![r].revno = NextRevision(revs[local[r].target])]
    BY <1>1, <1>3 DEF ProbeCollision, Write, Finish, Goto, TypeOK, committed
  <2>2. /\ local'[r].target = local[r].target /\ local'[r].head = local[r].head
        /\ local'[r].source = local[r].source /\ local'[r].prior = local[r].prior
        /\ local'[r].fresh = local[r].fresh
    BY <1>1, <2>1 DEF TypeOK, Local
  <2>3. InTransaction(r) /\ InTransaction(r)' /\ call[r].op # "capture"
    BY <1>1, <2>1 DEF InTransaction, HeadIsCurrent
  <2>4. NewHead(r)' = NewHead(r)
    BY <2>1, <2>2 DEF NewHead
  <2>5. Prepared(r)'
    BY <1>1, <2>1, <2>2, <2>3 DEF Prepared, AsksModels, InTransaction, Classifications
  <2>6. HeadIsCurrent(r)'
    BY <1>1, <2>1, <2>2, <2>3 DEF HeadIsCurrent, StillCandidate
  <2>7. ASSUME pc'[r] = "written" PROVE WriteIsSound(r)'
    <3>1. /\ Write(r) /\ KeyHolders(local[r].target, NewHead(r)) = {}
          /\ ~Busy(r, NewHead(r))
          /\ local' = [local EXCEPT ![r].revno = NextRevision(revs[local[r].target])]
      BY <1>1, <2>1, <2>7 DEF ProbeCollision, Write, Goto, Finish, TypeOK
    <3>2. local'[r].revno = NextRevision(revs[local[r].target])
      BY <1>1, <3>1 DEF TypeOK, Local
    <3>3. \A q \in Req \ {r} : pc'[q] = "written" => ~SameKey(NewHead(q)', NewHead(r)')
      <4> SUFFICES ASSUME NEW q \in Req \ {r}, pc'[q] = "written"
                   PROVE  ~SameKey(NewHead(q)', NewHead(r)')
        OBVIOUS
      <4>1. Frame(r)
        BY <3>1, CallStep DEF Proceed
      <4>2. pc[q] = "written" /\ NewHead(q)' = NewHead(q)
        BY <4>1, SameNewHead DEF Frame
      <4> QED
        BY <2>4, <3>1, <4>2 DEF Busy
    <3> QED
      BY <2>1, <2>2, <2>4, <3>1, <3>2, <3>3 DEF WriteIsSound, KeyHolders
  <2> QED
    BY <2>1, <2>5, <2>6, <2>7 DEF WriteIsSound
<1> QED
  BY <1>2, <1>3

\* The upsert, which locks and writes at once.
LEMMA UpsertPrepared ==
  ASSUME IInv, NEW r \in Req, Upsert(r)
  PROVE  Prepared(r)' /\ HeadIsCurrent(r)' /\ WriteIsSound(r)'
<1> DEFINE c == call[r]
           x == Captured(c.content, c.audience, c.scope.principal, local[r].fresh)
           arbiter == KeyHolders(None, x)
<1>1. TypeOK /\ c \in Workload /\ Prepared(r) /\ c.op = "capture" /\ pc[r] = "classified"
  BY DEF IInv, NothingStale, Upsert
<1>2. CASE pc'[r] = "done"
  BY <1>2, DonePrepared
<1>3. CASE pc'[r] # "done"
  <2>1. PICK id \in IF arbiter # {} THEN arbiter ELSE {i \in Id : row[i] = NoRow} :
          /\ Acquire(r, id)
          /\ local[r].source = IF row[id] = NoRow THEN c.content ELSE row[id].content
          /\ local' = [local EXCEPT ![r] = [@ EXCEPT !.target = id, !.head = row[id]]]
          /\ Goto(r, "written")
    BY <1>1, <1>3 DEF Upsert, Finish, TypeOK, SourceMatches
  <2>2. /\ id \in Id /\ pc'[r] = "written" /\ row' = row /\ call' = call /\ answer' = answer
        /\ lock'[id] = r /\ ~Busy(r, x)
    BY <1>1, <2>1 DEF Upsert, Goto, TypeOK, KeyHolders, committed, Acquire
  <2>3. /\ local'[r].target = id /\ local'[r].head = row[id]
        /\ local'[r].source = local[r].source /\ local'[r].prior = local[r].prior
        /\ local'[r].fresh = local[r].fresh
    BY <1>1, <2>1 DEF TypeOK, Local
  <2>4. /\ row[id] = NoRow => arbiter = {} /\ NewHead(r)' = x
        /\ row[id] # NoRow => /\ SameKey(row[id], x) /\ row[id] \in Row
                              /\ NewHead(r)' = Merged(row[id], c.scope.principal, local[r].fresh)
    <3>1. row[id] # NoRow => SameKey(row[id], x)
      BY <2>1 DEF KeyHolders
    <3>2. row[id] = NoRow => arbiter = {}
      BY <2>1 DEF KeyHolders, SameKey, Live
    <3> QED
      BY <1>1, <2>2, <2>3, <3>1, <3>2 DEF NewHead, TypeOK
  <2>5. Prepared(r)'
    BY <1>1, <2>2, <2>3 DEF Prepared, AsksModels, InTransaction, Classifications
  <2>6. local'[r].source = NewHead(r)'.content
    <3>1. CASE row[id] = NoRow
      BY <2>1, <2>3, <2>4, <3>1 DEF Captured
    <3>2. CASE row[id] # NoRow
      BY <2>1, <2>3, <2>4, <3>2 DEF Merged, Row
    <3> QED
      BY <3>1, <3>2
  <2>7. HeadIsCurrent(r)'
    BY <1>1, <2>2, <2>3, <2>4, <2>6 DEF HeadIsCurrent
  \* Whoever shares the new row's key shares the captured text's.
  <2>8. ASSUME NEW y, SameKey(y, NewHead(r)')
        PROVE  SameKey(y, x) /\ (row[id] # NoRow => SameKey(y, row[id]))
    <3>1. CASE row[id] = NoRow
      BY <2>4, <2>8, <3>1
    <3>2. CASE row[id] # NoRow
      <4>1. SameKey(y, row[id])
        BY <2>4, <2>8, <3>2, MergedKey
      <4> QED
        BY <2>4, <3>2, <4>1, KeyTransitive
    <3> QED
      BY <3>1, <3>2
  <2>9. \A t \in Id \ {id} : ~SameKey(row[t], NewHead(r)')
    <3> SUFFICES ASSUME NEW t \in Id \ {id}, SameKey(row[t], NewHead(r)')
                 PROVE  FALSE
      OBVIOUS
    <3>1. CASE row[id] = NoRow
      BY <2>4, <2>8, <3>1, ThoughtAssumption DEF KeyHolders
    <3>2. CASE row[id] # NoRow
      BY <2>2, <2>8, <3>2 DEF IInv, UniqueKeys
    <3> QED
      BY <3>1, <3>2
  <2>10. \A q \in Req \ {r} : pc'[q] = "written" => ~SameKey(NewHead(q)', NewHead(r)')
    <3> SUFFICES ASSUME NEW q \in Req \ {r}, pc'[q] = "written"
                 PROVE  ~SameKey(NewHead(q)', NewHead(r)')
      OBVIOUS
    <3>1. Frame(r)
      BY CallStep DEF Proceed
    <3>2. pc[q] = "written" /\ NewHead(q)' = NewHead(q)
      BY <3>1, SameNewHead DEF Frame
    <3> QED
      BY <2>2, <2>8, <3>2 DEF Busy
  <2> QED
    BY <1>1, <2>2, <2>3, <2>5, <2>7, <2>9, <2>10 DEF WriteIsSound, KeyHolders
<1> QED
  BY <1>2, <1>3

\* The call that moved, whatever it did.
LEMMA MoverPrepared ==
  ASSUME IInv, NEW r \in Req, Proceed(r) \/ Fail(r)
  PROVE  Prepared(r)' /\ HeadIsCurrent(r)' /\ WriteIsSound(r)'
<1>1. TypeOK
  BY DEF IInv
<1>2. CASE Reprobe(r) \/ Commit(r) \/ Fail(r)
  BY <1>1, <1>2, FinishPrepared DEF Reprobe, Commit, Fail
<1> QED
  BY <1>2, AskingPrepared, LockedPrepared, UpsertPrepared, WritePrepared DEF Proceed

\* What another call has written can still be committed.
LEMMA OthersSound ==
  ASSUME IInv, NEW r \in Req, Proceed(r) \/ Fail(r), NEW q \in Req \ {r}
  PROVE  WriteIsSound(q)'
<1> SUFFICES ASSUME pc'[q] = "written"
             PROVE  WriteIsSound(q)'
  BY DEF WriteIsSound
<1>1. Frame(r) /\ pc[q] = "written" /\ NewHead(q)' = NewHead(q)
  BY CallStep, SameNewHead DEF Frame
<1>2. local[q].target \in Id /\ lock[local[q].target] = q /\ WriteIsSound(q)
  BY <1>1 DEF IInv, NothingStale, HeadIsCurrent, InTransaction
<1>3. KeyHolders(local[q].target, NewHead(q))' = {}
  <2>1. CASE UNCHANGED committed
    BY <1>1, <1>2, <2>1 DEF committed, KeyHolders, WriteIsSound, Frame
  <2>2. CASE Commit(r)
    <3>1. \A t \in Id : row'[t] = row[t] \/ row'[t] = NewHead(r)
      BY <2>2, CommitFacts
    <3>2. ~SameKey(NewHead(r), NewHead(q))
      BY <1>1, <1>2, <2>2, CommitFacts DEF WriteIsSound
    <3> QED
      BY <1>1, <1>2, <3>1, <3>2 DEF KeyHolders, WriteIsSound, Frame
  <2> QED
    BY <2>1, <2>2, OnlyCommitWrites
<1>4. ASSUME NEW p \in Req \ {q}, pc'[p] = "written"
      PROVE  ~SameKey(NewHead(p)', NewHead(q)')
  <2>1. CASE p # r
    <3>1. pc[p] = "written" /\ NewHead(p)' = NewHead(p)
      BY <1>1, <1>4, <2>1, SameNewHead DEF Frame
    <3> QED
      BY <1>1, <1>2, <3>1 DEF WriteIsSound
  <2>2. CASE p = r
    <3>1. ~SameKey(NewHead(q)', NewHead(r)')
      BY <1>4, <2>2, MoverPrepared DEF WriteIsSound
    <3> QED
      BY <2>2, <3>1, KeySymmetric
  <2> QED
    BY <2>1, <2>2
<1>5. revs'[local[q].target] = revs[local[q].target]
  <2>1. CASE UNCHANGED committed
    BY <2>1 DEF committed
  <2>2. CASE Commit(r)
    BY <1>2, <2>2, CommitFacts
  <2> QED
    BY <2>1, <2>2, OnlyCommitWrites
<1> QED
  BY <1>1, <1>2, <1>3, <1>4, <1>5 DEF WriteIsSound, Frame

\* No step makes anything stale.
LEMMA NothingStaleStep ==
  ASSUME IInv, NEW r \in Req, Proceed(r) \/ Fail(r)
  PROVE  NothingStale'
BY MoverPrepared, OthersPrepared, OthersSound DEF NothingStale
-----------------------------------------------------------------------------
\* What each operation changes in a row, column by column.

\* A merge, an update and a reclassification.
LEMMA RewriteFields ==
  ASSUME NEW x \in Row, NEW text, NEW stamp, NEW e
  PROVE  /\ Merged(x, stamp, e).content = x.content /\ Merged(x, stamp, e).fp = x.fp
         /\ Merged(x, stamp, e).audience = x.audience
         /\ Merged(x, stamp, e).forgotten = x.forgotten
         /\ Merged(x, stamp, e).meta.extraction = e
         /\ Edited(x, text, e).content = text /\ Edited(x, text, e).fp = FingerprintOf[text]
         /\ Edited(x, text, e).audience = x.audience
         /\ Edited(x, text, e).forgotten = x.forgotten
         /\ Edited(x, text, e).meta.extraction = e
         /\ Reclassified(x, e).content = x.content /\ Reclassified(x, e).fp = x.fp
         /\ Reclassified(x, e).audience = x.audience
         /\ Reclassified(x, e).forgotten = x.forgotten
         /\ Reclassified(x, e).meta.extraction = e
BY DEF Row, Merged, Edited, Reclassified

\* A move.
LEMMA MovedFields ==
  ASSUME NEW x \in Row, NEW a, NEW y, y = Moved(x, a)
  PROVE  /\ y.content = x.content /\ y.fp = EffectiveFp(x) /\ y.audience = a
         /\ y.forgotten = x.forgotten /\ y.meta = x.meta
BY DEF Row, Moved

\* A forget.
LEMMA ForgottenFields ==
  ASSUME NEW x \in Row, NEW y, y = Forgotten(x)
  PROVE  /\ y.content = x.content /\ y.fp = x.fp /\ y.audience = x.audience
         /\ y.forgotten = TRUE /\ y.meta = x.meta
BY DEF Row, Forgotten

\* A restore.
LEMMA RestoredFields ==
  ASSUME NEW x \in Row, NEW y, y = Restored(x)
  PROVE  /\ y.content = x.content /\ y.fp = EffectiveFp(x) /\ y.audience = x.audience
         /\ y.forgotten = FALSE /\ y.meta = x.meta
BY DEF Row, Restored

\* The row that a commit writes, given the row it found.
Outcome(c, x, e, y) ==
  \/ /\ c.op = "capture" /\ x = NoRow
     /\ y = Captured(c.content, c.audience, c.scope.principal, e)
  \/ /\ c.op = "capture" /\ x \in Row
     /\ y.content = x.content /\ y.fp = x.fp /\ y.audience = x.audience
     /\ y.forgotten = x.forgotten /\ y.meta.extraction = e
     /\ ~x.forgotten /\ x.fp = FingerprintOf[c.content] /\ x.fp # NoFp
  \/ /\ c.op = "update" /\ x \in Row /\ ~x.forgotten /\ x.content # c.content
     /\ y.content = c.content /\ y.fp = FingerprintOf[c.content] /\ y.audience = x.audience
     /\ y.forgotten = x.forgotten /\ y.meta.extraction = e
  \/ /\ c.op = "reclassify" /\ x \in Row /\ ~x.forgotten /\ x.meta.extraction = Stub
     /\ y.content = x.content /\ y.fp = x.fp /\ y.audience = x.audience
     /\ y.forgotten = x.forgotten /\ y.meta.extraction = e /\ e = x.content
  \/ /\ c.op = "move" /\ x \in Row /\ ~x.forgotten /\ x.audience # c.audience
     /\ y.content = x.content /\ y.fp = EffectiveFp(x) /\ y.audience = c.audience
     /\ y.forgotten = x.forgotten /\ y.meta = x.meta
  \/ /\ c.op = "forget" /\ x \in Row /\ ~x.forgotten
     /\ y.content = x.content /\ y.fp = x.fp /\ y.audience = x.audience
     /\ y.forgotten = TRUE /\ y.meta = x.meta
  \/ /\ c.op = "restore" /\ x \in Row /\ x.forgotten
     /\ y.content = x.content /\ y.fp = EffectiveFp(x) /\ y.audience = x.audience
     /\ y.forgotten = FALSE /\ y.meta = x.meta

\* Every commit is one of these.
LEMMA CommitOutcome ==
  ASSUME IInv, NEW r \in Req, Commit(r)
  PROVE  Outcome(call[r], local[r].head, local[r].fresh, NewHead(r))
<1> DEFINE c == call[r]
           x == local[r].head
           e == local[r].fresh
<1>1. /\ TypeOK /\ c \in Workload /\ c.op \in Operation /\ InTransaction(r)
      /\ Prepared(r) /\ HeadIsCurrent(r)
  BY CommitFacts
<1>2. x \in Row \cup {NoRow} /\ (c.op # "capture" => x \in Row)
  BY <1>1, NewHeadType DEF IInv
<1>3. CASE c.op = "capture"
  <2>1. x # NoRow => SameKey(x, Captured(c.content, c.audience, c.scope.principal, e))
    BY <1>1, <1>3 DEF HeadIsCurrent
  <2>2. Captured(c.content, c.audience, c.scope.principal, e).fp = FingerprintOf[c.content]
    BY DEF Captured
  <2>3. x # NoRow => ~x.forgotten /\ x.fp = FingerprintOf[c.content] /\ x.fp # NoFp
    BY <2>1, <2>2 DEF SameKey, Live
  <2>4. x # NoRow => x \in Row /\ NewHead(r) = Merged(x, c.scope.principal, e)
    BY <1>2, <1>3 DEF NewHead
  <2>5. x = NoRow => NewHead(r) = Captured(c.content, c.audience, c.scope.principal, e)
    BY <1>3 DEF NewHead
  <2>6. CASE x = NoRow
    BY <1>3, <2>5, <2>6 DEF Outcome
  <2>7. CASE x # NoRow
    BY <1>3, <2>3, <2>4, <2>7, RewriteFields DEF Outcome
  <2> QED
    BY <2>6, <2>7
<1>4. CASE c.op = "update"
  <2>1. x \in Row /\ Found(c, x) /\ ~AlreadySo(c, x) /\ NewHead(r) = Edited(x, c.content, e)
    BY <1>1, <1>2, <1>4 DEF HeadIsCurrent, NewHead
  <2>2. ~x.forgotten /\ x.content # c.content
    BY <1>4, <2>1 DEF Found, AlreadySo
  <2> QED
    BY <1>4, <2>1, <2>2, RewriteFields DEF Outcome
<1>5. CASE c.op = "reclassify"
  <2>1. /\ x \in Row /\ StillCandidate(r, x) /\ NewHead(r) = Reclassified(x, e)
        /\ local[r].prior.extraction = Stub /\ e = local[r].source
    BY <1>1, <1>2, <1>5 DEF HeadIsCurrent, NewHead, Prepared, AsksModels, Classifications
  <2>2. ~x.forgotten /\ x.meta.extraction = Stub /\ e = x.content
    BY <2>1 DEF StillCandidate, Live
  <2> QED
    BY <1>5, <2>1, <2>2, RewriteFields DEF Outcome
<1>6. CASE c.op = "move"
  <2>1. x \in Row /\ Found(c, x) /\ ~AlreadySo(c, x) /\ NewHead(r) = Moved(x, c.audience)
    BY <1>1, <1>2, <1>6 DEF HeadIsCurrent, NewHead
  <2>2. ~x.forgotten /\ x.audience # c.audience
    BY <1>6, <2>1 DEF Found, AlreadySo
  <2> DEFINE y == NewHead(r)
  <2>3. /\ y.content = x.content /\ y.fp = EffectiveFp(x) /\ y.audience = c.audience
        /\ y.forgotten = x.forgotten /\ y.meta = x.meta
    BY <2>1, MovedFields
  <2> QED
    BY <1>6, <2>1, <2>2, <2>3 DEF Outcome
<1>7. CASE c.op \in {"forget", "restore"}
  <2>1. /\ x \in Row /\ ~AlreadySo(c, x)
        /\ NewHead(r) = IF c.op = "forget" THEN Forgotten(x) ELSE Restored(x)
    BY <1>1, <1>2, <1>7 DEF HeadIsCurrent, NewHead
  <2>2. x.forgotten = (c.op = "restore")
    BY <1>7, <2>1, RowFacts DEF AlreadySo
  <2> DEFINE y == NewHead(r)
  <2>3. CASE c.op = "forget"
    <3>1. /\ y.content = x.content /\ y.fp = x.fp /\ y.audience = x.audience
          /\ y.forgotten = TRUE /\ y.meta = x.meta
      BY <2>1, <2>3, ForgottenFields
    <3> QED
      BY <2>1, <2>2, <2>3, <3>1 DEF Outcome
  <2>4. CASE c.op = "restore"
    <3>1. /\ y.content = x.content /\ y.fp = EffectiveFp(x) /\ y.audience = x.audience
          /\ y.forgotten = FALSE /\ y.meta = x.meta
      BY <2>1, <2>4, RestoredFields
    <3> QED
      BY <2>1, <2>2, <2>4, <3>1 DEF Outcome
  <2> QED
    BY <1>7, <2>3, <2>4
<1> QED
  BY <1>1, <1>3, <1>4, <1>5, <1>6, <1>7 DEF Operation

-----------------------------------------------------------------------------
\* The invariants about committed rows, one by one.

\* A commit stores the fingerprint of the text it stores.
LEMMA StoredFpStep ==
  ASSUME IInv, NEW r \in Req, Commit(r)
  PROVE  StoredFpIsDerived'
<1> DEFINE x == local[r].head
           y == NewHead(r)
<1>1. Outcome(call[r], x, local[r].fresh, y)
  BY CommitOutcome
<1>2. x # NoRow => x.fp \in {NoFp, FingerprintOf[x.content]}
  BY CommitFacts DEF IInv, StoredFpIsDerived
<1>3. x \in Row => x # NoRow
  BY RowFacts
<1>4. y.fp \in {NoFp, FingerprintOf[y.content]}
  BY <1>1, <1>2, <1>3 DEF Outcome, Captured, EffectiveFp
<1>5. \A i \in Id : row'[i] = row[i] \/ row'[i] = y
  BY CommitFacts
<1> QED
  BY <1>4, <1>5 DEF IInv, StoredFpIsDerived

\* A commit stores a classification with the text it describes.
LEMMA ExtractionStep ==
  ASSUME IInv, NEW r \in Req, Commit(r)
  PROVE  ExtractionDescribesThought'
<1> DEFINE c == call[r]
           x == local[r].head
           y == NewHead(r)
           e == local[r].fresh
           Describes(z) == \/ z.meta.extraction = Stub
                           \/ FingerprintOf[z.meta.extraction] = FingerprintOf[z.content]
<1>1. Outcome(c, x, e, y)
  BY CommitOutcome
<1>2. x \in Row => x.fp \in {NoFp, FingerprintOf[x.content]} /\ Describes(x)
  BY CommitFacts, RowFacts DEF IInv, StoredFpIsDerived, ExtractionDescribesThought
<1>3. c.op \in {"capture", "update"} => e \in {c.content, Stub}
  BY CommitFacts DEF Prepared, AsksModels, Classifications
<1>4. Describes(y)
  <2>1. CASE c.op = "capture" /\ x = NoRow
    BY <1>1, <1>3, <2>1, RowFacts DEF Outcome, Captured
  <2>2. CASE c.op # "capture" \/ x # NoRow
    BY <1>1, <1>2, <1>3, <2>2 DEF Outcome
  <2> QED
    BY <2>1, <2>2
<1>5. \A i \in Id : row'[i] = row[i] \/ row'[i] = y
  BY CommitFacts
<1> QED
  BY <1>4, <1>5 DEF IInv, ExtractionDescribesThought

\* A commit keeps or installs vectors of the text it stores.
LEMMA IndexStep ==
  ASSUME IInv, NEW r \in Req, Commit(r)
  PROVE  IndexMatchesContent'
<1> DEFINE c == call[r]
           x == local[r].head
           y == NewHead(r)
           id == local[r].target
<1>1. Outcome(c, x, local[r].fresh, y)
  BY CommitOutcome
<1>2. x \in Row => index[id] \in {NoIndex, x.content}
  BY CommitFacts, RowFacts DEF IInv, IndexMatchesContent
<1>3. NewIndex(r, index[id]) \in {NoIndex, y.content}
  <2>1. c.op = "capture" => NewIndex(r, index[id]) = y.content
    BY CommitFacts DEF NewIndex, HeadIsCurrent
  <2>2. c.op = "update" => NewIndex(r, index[id]) = y.content
    <3> SUFFICES ASSUME c.op = "update"
                 PROVE  NewIndex(r, index[id]) = y.content
      OBVIOUS
    <3>1. local[r].source = c.content
      BY CommitFacts DEF Prepared, AsksModels
    <3>2. y.content = c.content
      BY <1>1 DEF Outcome
    <3> QED
      BY <3>1, <3>2 DEF NewIndex
  <2>3. c.op \notin {"capture", "update"} => NewIndex(r, index[id]) \in {NoIndex, y.content}
    <3> SUFFICES ASSUME c.op \notin {"capture", "update"}
                 PROVE  NewIndex(r, index[id]) \in {NoIndex, y.content}
      OBVIOUS
    <3>1. x \in Row /\ y.content = x.content
      BY <1>1 DEF Outcome
    <3> QED
      BY <1>2, <3>1 DEF NewIndex
  <2> QED
    BY <2>1, <2>2, <2>3
<1>4. ASSUME NEW i \in Id, row'[i] # NoRow
      PROVE  index'[i] \in {NoIndex, row'[i].content}
  <2>1. CASE i = id
    BY <1>3, <2>1, CommitFacts
  <2>2. CASE i # id
    BY <1>4, <2>2, CommitFacts DEF IInv, IndexMatchesContent
  <2> QED
    BY <2>1, <2>2
<1> QED
  BY <1>4 DEF IndexMatchesContent

\* A commit repeats no entry of the unique index.
LEMMA KeysStep ==
  ASSUME IInv, NEW r \in Req, Commit(r)
  PROVE  UniqueKeys'
<1> DEFINE id == local[r].target
           y == NewHead(r)
<1>1. \A t \in Id \ {id} : ~SameKey(row[t], y)
  BY CommitFacts DEF WriteIsSound, KeyHolders
<1>2. \A t \in Id \ {id} : ~SameKey(y, row[t])
  BY <1>1, KeySymmetric
<1>3. ASSUME NEW i \in Id, NEW j \in Id, i # j
      PROVE  ~SameKey(row'[i], row'[j])
  <2>1. CASE i = id
    BY <1>2, <1>3, <2>1, CommitFacts
  <2>2. CASE j = id
    BY <1>1, <1>3, <2>2, CommitFacts
  <2>3. CASE i # id /\ j # id
    BY <1>3, <2>3, CommitFacts DEF IInv, UniqueKeys
  <2> QED
    BY <2>1, <2>2, <2>3
<1> QED
  BY <1>3 DEF UniqueKeys

\* The columns of a revision.
LEMMA SnapshotFields ==
  ASSUME NEW x, NEW n, NEW kind, NEW r, NEW v, v = Snapshot(x, n, kind, r)
  PROVE  /\ v.n = n /\ v.kind = kind /\ v.by = r
         /\ v.content = x.content /\ v.audience = x.audience /\ v.meta = x.meta
BY DEF Snapshot

\* A commit records a change its caller was allowed to make.
LEMMA AuthorizedStep ==
  ASSUME IInv, NEW r \in Req, Commit(r)
  PROVE  OnlyAuthorizedChanges'
<1> DEFINE id == local[r].target
           x == local[r].head
           c == call[r]
<1>1. call' = call
  BY CallStep DEF Proceed, Frame
<1>2. ASSUME NEW i \in Id, NEW v \in revs'[i], v \notin revs[i]
      PROVE  /\ c.op # "capture" /\ c.op \in Operation
             /\ v = Snapshot(x, local[r].revno, KindOf(c.op), r)
  <2>1. i = id
    BY <1>2, CommitFacts
  <2>2. v \in NewHistory(r, revs[id]) /\ v \notin revs[id]
    BY <1>2, <2>1, CommitFacts
  <2> QED
    BY <2>2, CommitFacts DEF NewHistory
<1>3. ASSUME NEW i \in Id, NEW v \in revs'[i], v \notin revs[i]
      PROVE  v.by = r /\ (c.op # "reclassify" => AudienceMatches(c.scope, v.audience))
  <2>1. c.op # "capture" /\ v = Snapshot(x, local[r].revno, KindOf(c.op), r)
    BY <1>2, <1>3
  <2>2. v.by = r /\ v.audience = x.audience
    BY <2>1, SnapshotFields
  <2>3. c.op \in Operation /\ HeadIsCurrent(r) /\ InTransaction(r)
    BY CommitFacts
  <2>4. c.op # "reclassify" => Found(c, x)
    BY <2>1, <2>3 DEF HeadIsCurrent, Operation
  <2> QED
    BY <2>2, <2>4 DEF Found
<1>4. ASSUME NEW i \in Id, NEW v \in revs'[i], v.by # None, call[v.by].op # "reclassify"
      PROVE  AudienceMatches(call[v.by].scope, v.audience)
  <2>1. CASE v \in revs[i]
    BY <1>4, <2>1 DEF IInv, OnlyAuthorizedChanges
  <2>2. CASE v \notin revs[i]
    BY <1>3, <1>4, <2>2
  <2> QED
    BY <2>1, <2>2
<1> QED
  BY <1>1, <1>4 DEF OnlyAuthorizedChanges

-----------------------------------------------------------------------------
\* Histories.

\* What it takes for a history numbered 1..last to replay.
LEMMA StoryReplays ==
  ASSUME NEW story, NEW x, NEW last \in Nat, NextRevision(story) = last + 1,
         {v.n : v \in story} = 1..last,
         \A v, w \in story : v.n = w.n => v = w,
         \A v \in story : v.n < last => \E w \in story : w.n = v.n + 1 /\ Explains(v, w),
         \A v \in story : v.n = last => x # NoRow /\ Explains(v, x),
         \A v, w \in story : w.n = v.n + 1 => (v.kind = "forget" <=> w.kind = "restore"),
         x # NoRow => (x.forgotten <=> \E v \in story : v.n = last /\ v.kind = "forget")
  PROVE  Replays(story, x)
<1>1. NextRevision(story) - 1 = last /\ NextRevision(story) \in Nat \ {0}
  OBVIOUS
<1> QED
  BY <1>1 DEF Replays

\* A history goes on with a revision of its head, numbered next, that the new
\* head explains.
LEMMA HistoryGrows ==
  ASSUME NEW story, NEW x, NEW y, NEW v0, Replays(story, x),
         x # NoRow, y # NoRow,
         v0.n = NextRevision(story), v0.content = x.content, v0.audience = x.audience,
         Explains(v0, y),
         v0.kind = "restore" <=> x.forgotten,
         v0.kind = "forget" <=> y.forgotten
  PROVE  Replays(story \cup {v0}, y)
<1> DEFINE longer == story \cup {v0}
           last == NextRevision(story) - 1
<1>1. last \in Nat /\ NextRevision(story) = last + 1 /\ v0.n = last + 1
  BY DEF Replays
<1>2. {v.n : v \in story} = 1..last
  BY DEF Replays
<1>3. \A v \in story : v.n \in 1..last
  BY <1>2
<1>4. {v.n : v \in longer} = 1..(last + 1)
  <2>1. {v.n : v \in longer} = {v.n : v \in story} \cup {v0.n}
    OBVIOUS
  <2>2. {v.n : v \in longer} = (1..last) \cup {last + 1}
    BY <1>1, <1>2, <2>1
  <2>3. (1..last) \cup {last + 1} = 1..(last + 1)
    BY <1>1
  <2> QED
    BY <2>2, <2>3
<1>5. NextRevision(longer) = last + 2
  <2>1. NextRevision(longer) = (last + 1) + 1
    BY <1>1, <1>4, NextRevisionOfDense
  <2> QED
    BY <1>1, <2>1
<1>6. \A v, w \in longer : v.n = w.n => v = w
  <2>1. \A v, w \in story : v.n = w.n => v = w
    BY DEF Replays
  <2>2. \A v \in story : v.n # v0.n
    BY <1>1, <1>3
  <2> QED
    BY <2>1, <2>2
<1>7. \A v \in story : v.n = last => Explains(v, v0)
  <2>1. \A v \in story : v.n = last => Explains(v, x)
    BY DEF Replays
  <2> QED
    BY <2>1 DEF Explains
<1>8. ASSUME NEW v \in longer, v.n < last + 1
      PROVE  \E w \in longer : w.n = v.n + 1 /\ Explains(v, w)
  <2>1. v \in story
    BY <1>1, <1>8
  <2>2. CASE v.n = last
    BY <1>1, <1>7, <2>1, <2>2
  <2>3. CASE v.n < last
    BY <2>1, <2>3 DEF Replays
  <2> QED
    BY <1>1, <1>3, <2>1, <2>2, <2>3
<1>9. \A v \in longer : v.n = last + 1 => v = v0
  BY <1>1, <1>3
<1>10. ASSUME NEW v \in longer, NEW w \in longer, w.n = v.n + 1
       PROVE  v.kind = "forget" <=> w.kind = "restore"
  <2>1. v \in story
    BY <1>1, <1>3, <1>10
  <2>2. CASE w \in story
    BY <1>10, <2>1, <2>2 DEF Replays
  <2>3. CASE w \notin story
    <3>1. w = v0 /\ v.n = last
      BY <1>1, <1>3, <1>10, <2>1, <2>3
    <3>2. x.forgotten <=> \E u \in story : u.n = last /\ u.kind = "forget"
      BY DEF Replays
    <3>3. \A u \in story : u.n = last => u = v
      BY <1>6, <2>1, <3>1
    <3> QED
      BY <2>1, <3>1, <3>2, <3>3
  <2> QED
    BY <2>2, <2>3
<1>11. last + 1 \in Nat /\ NextRevision(longer) = (last + 1) + 1
  BY <1>1, <1>5
<1>12. y # NoRow => (y.forgotten <=> \E v \in longer : v.n = last + 1 /\ v.kind = "forget")
  BY <1>1, <1>9
<1>13. \A v \in longer : v.n < last + 1 => \E w \in longer : w.n = v.n + 1 /\ Explains(v, w)
  BY <1>8
<1>14. \A v, w \in longer : w.n = v.n + 1 => (v.kind = "forget" <=> w.kind = "restore")
  BY <1>10
<1>15. \A v \in longer : v.n = last + 1 => y # NoRow /\ Explains(v, y)
  BY <1>9
<1>16. Replays(longer, y)
  <2> HIDE DEF longer, last
  <2> QED
    BY <1>4, <1>6, <1>11, <1>12, <1>13, <1>14, <1>15, StoryReplays, Zenon
<1> QED
  BY <1>16

\* A capture that merges writes no revision, and the story still ends well.
LEMMA HistoryStays ==
  ASSUME NEW story, NEW x, NEW y, Replays(story, x), x # NoRow, y # NoRow,
         y.content = x.content, y.audience = x.audience, y.forgotten = x.forgotten
  PROVE  Replays(story, y)
<1>1. \A v \in story : Explains(v, x) => Explains(v, y)
  BY DEF Explains
<1> QED
  BY <1>1 DEF Replays

\* An id without a row has no history.
LEMMA HistoryBegins ==
  ASSUME NEW story, Replays(story, NoRow), NEW y, ~y.forgotten
  PROVE  Replays(story, y)
<1> DEFINE last == NextRevision(story) - 1
<1>1. last \in Nat /\ {v.n : v \in story} = 1..last
  BY DEF Replays
<1>2. \A v \in story : v.n # last
  BY DEF Replays
<1>3. last \notin 1..last
  BY <1>1, <1>2
<1>4. last = 0
  <2>1. \A k \in Nat : k \notin 1..k => k = 0
    OBVIOUS
  <2> QED
    BY <1>1, <1>3, <2>1
<1>5. story = {}
  BY <1>1, <1>4
<1> QED
  BY <1>2, <1>5 DEF Replays

\* A commit continues the history it writes to.
LEMMA HistoryStep ==
  ASSUME IInv, NEW r \in Req, Commit(r)
  PROVE  HistoryReplays'
<1> DEFINE c == call[r]
           x == local[r].head
           y == NewHead(r)
           id == local[r].target
           story == revs[id]
<1>1. Outcome(c, x, local[r].fresh, y) /\ Replays(story, x) /\ y \in Row /\ y # NoRow
  BY CommitOutcome, CommitFacts, RowFacts DEF IInv, HistoryReplays
<1>2. ASSUME c.op = "capture"
      PROVE  Replays(NewHistory(r, story), y)
  <2>1. NewHistory(r, story) = story
    BY <1>2 DEF NewHistory
  <2>2. x = NoRow => ~y.forgotten
    BY <1>1, <1>2, RowFacts DEF Outcome, Captured
  <2>3. x # NoRow => y.content = x.content /\ y.audience = x.audience /\ y.forgotten = x.forgotten
    BY <1>1, <1>2 DEF Outcome
  <2>4. Replays(story, y)
    BY <1>1, <2>2, <2>3, HistoryStays, HistoryBegins
  <2> QED
    BY <2>1, <2>4
<1>3. ASSUME c.op # "capture"
      PROVE  Replays(NewHistory(r, story), y)
  <2> DEFINE v0 == Snapshot(x, local[r].revno, KindOf(c.op), r)
  <2>1. NewHistory(r, story) = story \cup {v0}
    BY <1>3 DEF NewHistory
  <2>2. /\ v0.n = NextRevision(story) /\ v0.content = x.content /\ v0.audience = x.audience
        /\ v0.meta = x.meta /\ v0.kind = KindOf(c.op)
    <3>1. local[r].revno = NextRevision(story)
      BY <1>3, CommitFacts DEF WriteIsSound
    <3> QED
      BY <3>1, SnapshotFields
  <2>3. x \in Row /\ x # NoRow
    BY <1>1, <1>3, RowFacts DEF Outcome
  <2> HIDE DEF v0
  <2>4. Explains(v0, y)
    BY <1>1, <1>3, <2>2 DEF Outcome, Explains, KindOf
  <2>5. /\ v0.kind = "restore" <=> x.forgotten
        /\ v0.kind = "forget" <=> y.forgotten
    BY <1>1, <1>3, <2>2 DEF Outcome, KindOf
  <2>6. Replays(story \cup {v0}, y)
    BY <1>1, <2>2, <2>3, <2>4, <2>5, HistoryGrows
  <2> QED
    BY <2>1, <2>6
<1>4. Replays(NewHistory(r, story), y)
  BY <1>2, <1>3
<1>5. ASSUME NEW i \in Id
      PROVE  Replays(revs'[i], row'[i])
  <2>1. CASE i = id
    BY <1>4, <2>1, CommitFacts
  <2>2. CASE i # id
    BY <2>2, CommitFacts DEF IInv, HistoryReplays
  <2> QED
    BY <2>1, <2>2
<1> QED
  BY <1>5 DEF HistoryReplays

-----------------------------------------------------------------------------
\* The inductive invariant, and what follows from it.

\* Steps that do not commit leave all of this alone.
LEMMA CommittedStep ==
  ASSUME IInv, NEW r \in Req, Proceed(r) \/ Fail(r)
  PROVE  /\ StoredFpIsDerived' /\ UniqueKeys' /\ IndexMatchesContent'
         /\ ExtractionDescribesThought' /\ OnlyAuthorizedChanges' /\ HistoryReplays'
<1>1. CASE UNCHANGED committed
  <2>1. call' = call
    BY CallStep DEF Frame
  <2>2. UniqueKeys'
    BY <1>1 DEF IInv, committed, UniqueKeys
  <2>3. HistoryReplays'
    BY <1>1 DEF IInv, committed, HistoryReplays
  <2>4. OnlyAuthorizedChanges'
    BY <1>1, <2>1 DEF IInv, committed, OnlyAuthorizedChanges
  <2> QED
    BY <1>1, <2>2, <2>3, <2>4
    DEF IInv, committed, StoredFpIsDerived, IndexMatchesContent, ExtractionDescribesThought
<1>2. CASE Commit(r)
  BY <1>2, StoredFpStep, KeysStep, IndexStep, ExtractionStep, AuthorizedStep, HistoryStep
<1> QED
  BY <1>1, <1>2, OnlyCommitWrites

\* The invariant is inductive.
LEMMA NextIInv ==
  ASSUME IInv, [Next]_vars
  PROVE  IInv'
<1>1. CASE UNCHANGED vars
  <2> USE <1>1 DEF vars
  <2>1. TypeOK'
    BY DEF IInv, TypeOK
  <2>2. ASSUME NEW r \in Req
        PROVE  Prepared(r)' /\ HeadIsCurrent(r)' /\ WriteIsSound(r)'
    <3>1. /\ NewHead(r)' = NewHead(r) /\ InTransaction(r)' = InTransaction(r)
          /\ AsksModels(r)' = AsksModels(r) /\ Classifications(r)' = Classifications(r)
          /\ \A x : StillCandidate(r, x)' = StillCandidate(r, x)
      BY DEF NewHead, InTransaction, AsksModels, Classifications, StillCandidate
    <3>2. Prepared(r) /\ HeadIsCurrent(r) /\ WriteIsSound(r)
      BY DEF IInv, NothingStale
    <3> HIDE DEF vars
    <3>3. /\ pc' = pc /\ call' = call /\ local' = local /\ revs' = revs /\ row' = row
          /\ lock' = lock /\ answer' = answer
      BY DEF vars
    <3>5. Prepared(r)'
      BY <3>1, <3>2, <3>3 DEF Prepared
    <3>6. HeadIsCurrent(r)'
      BY <3>1, <3>2, <3>3 DEF HeadIsCurrent
    <3>4. WriteIsSound(r)'
      <4>1. \A q \in Req : NewHead(q)' = NewHead(q)
        BY <3>3 DEF NewHead
      <4>2. KeyHolders(local[r].target, NewHead(r))' = KeyHolders(local[r].target, NewHead(r))
        BY <3>1, <3>3 DEF KeyHolders
      <4> QED
        BY <3>2, <3>3, <4>1, <4>2 DEF WriteIsSound
    <3> QED
      BY <3>4, <3>5, <3>6
  <2>3. NothingStale'
    BY <2>2 DEF NothingStale
  <2>4. UniqueKeys' /\ HistoryReplays'
    BY DEF IInv, UniqueKeys, HistoryReplays
  <2>5. OnlyAuthorizedChanges'
    BY DEF IInv, OnlyAuthorizedChanges
  <2>6. StoredFpIsDerived' /\ IndexMatchesContent' /\ ExtractionDescribesThought'
    BY DEF IInv, StoredFpIsDerived, IndexMatchesContent, ExtractionDescribesThought
  <2> QED
    BY <2>1, <2>3, <2>4, <2>5, <2>6 DEF IInv
<1>2. ASSUME NEW r \in Req, Proceed(r) \/ Fail(r)
      PROVE  IInv'
  <2>1. call' = call
    BY <1>2, CallStep DEF Frame
  <2> QED
    BY <1>2, <2>1, TypeStep, NothingStaleStep, CommittedStep DEF IInv
<1> QED
  BY <1>1, <1>2 DEF Next, Quiescent

\* The thought store keeps everything it relies on, whatever the calls, the
\* failures and their interleaving.
THEOREM Inductive == Spec => []IInv
<1>1. Init => IInv
  BY InitIInv
<1>2. IInv /\ [Next]_vars => IInv'
  BY NextIInv
<1> QED
  BY <1>1, <1>2, PTL DEF Spec

\* Type correctness.
THEOREM TypeCorrect == Spec => []TypeOK
<1>1. IInv => TypeOK
  BY DEF IInv
<1> QED
  BY <1>1, Inductive, PTL

\* A transaction never acts on a row, a probe or a revision number that another
\* call has made obsolete.
THEOREM NeverStale == Spec => []NothingStale
<1>1. IInv => NothingStale
  BY DEF IInv
<1> QED
  BY <1>1, Inductive, PTL

\* Every thought's history is dense and replays into its head.
THEOREM HistoriesReplay == Spec => []HistoryReplays
<1>1. IInv => HistoryReplays
  BY DEF IInv
<1> QED
  BY <1>1, Inductive, PTL

\* Vectors always belong to the text they are stored with.
THEOREM VectorsMatch == Spec => []IndexMatchesContent
<1>1. IInv => IndexMatchesContent
  BY DEF IInv
<1> QED
  BY <1>1, Inductive, PTL

\* A classification always belongs to the text it is stored with.
THEOREM ClassificationsMatch == Spec => []ExtractionDescribesThought
<1>1. IInv => ExtractionDescribesThought
  BY DEF IInv
<1> QED
  BY <1>1, Inductive, PTL

\* No client changes a thought it cannot see.
THEOREM ChangesAuthorized == Spec => []OnlyAuthorizedChanges
<1>1. IInv => OnlyAuthorizedChanges
  BY DEF IInv
<1> QED
  BY <1>1, Inductive, PTL

\* A forgotten thought changes only by being restored as it was.
THEOREM ForgottenIsFrozen == Spec => ForgottenStaysPut
<1> DEFINE Put == \A i \in Id : row[i] # NoRow /\ row[i].forgotten /\ row'[i] # row[i] =>
                    row'[i] = Restored(row[i])
<1>1. ASSUME IInv, [Next]_vars
      PROVE  [Put]_vars
  <2>1. ASSUME NEW r \in Req, Commit(r)
        PROVE  Put
    <3> SUFFICES ASSUME NEW i \in Id, row[i] # NoRow, row[i].forgotten, row'[i] # row[i]
                 PROVE  row'[i] = Restored(row[i])
      OBVIOUS
    <3>1. i = local[r].target /\ row[i] = local[r].head /\ row'[i] = NewHead(r)
      BY <1>1, <2>1, CommitFacts
    <3>2. call[r].op = "restore"
      <4>1. Outcome(call[r], local[r].head, local[r].fresh, NewHead(r))
        BY <1>1, <2>1, CommitOutcome
      <4> QED
        BY <3>1, <4>1 DEF Outcome
    <3>3. NewHead(r) = Restored(local[r].head)
      BY <3>2 DEF NewHead
    <3> QED
      BY <3>1, <3>3
  <2>2. ASSUME NEW r \in Req, Proceed(r) \/ Fail(r)
        PROVE  Put
    BY <2>1, <2>2, OnlyCommitWrites DEF committed
  <2>3. (\E r \in Req : Proceed(r) \/ Fail(r)) => Put
    BY <2>2
  <2> QED
    BY <1>1, <2>3 DEF Next, Quiescent
<1> QED
  BY <1>1, Inductive, PTL DEF Spec, ForgottenStaysPut

-----------------------------------------------------------------------------
\* Duplicates: the probe of rows outside the unique index holds until COMMIT.

\* A commit never makes a live row without a fingerprint out of anything else.
LEMMA OutcomeFp ==
  ASSUME IInv, NEW r \in Req, Commit(r), NewHead(r).fp = NoFp, Live(NewHead(r))
  PROVE  /\ local[r].head \in Row /\ Live(local[r].head)
         /\ NewHead(r).fp = local[r].head.fp
         /\ NewHead(r).content = local[r].head.content
         /\ NewHead(r).audience = local[r].head.audience
<1> DEFINE c == call[r]
           x == local[r].head
           y == NewHead(r)
<1>1. Outcome(c, x, local[r].fresh, y)
  BY CommitOutcome
<1>2. c.op \in {"capture", "update"} => FingerprintOf[c.content] # NoFp
  BY CommitFacts, CallFacts, ThoughtAssumption
<1>3. x \in Row => EffectiveFp(x) # NoFp /\ x # NoRow
  BY RowFacts, ThoughtAssumption
<1>4. c.op = "reclassify"
  BY <1>1, <1>2, <1>3 DEF Outcome, Captured, Live
<1> QED
  BY <1>1, <1>3, <1>4 DEF Outcome, Live

\* The probe itself, and the write after it.
LEMMA MoverProbeHolds ==
  ASSUME IInv, ProbeStillHolds, NEW r \in Req, Proceed(r) \/ Fail(r)
  PROVE  ProbeHolds(r)'
<1> SUFFICES ASSUME pc'[r] \in {"checked", "violated", "written"},
                    call'[r].op \in {"update", "move", "restore"}
             PROVE  ProbeHolds(r)'
  BY DEF ProbeHolds
<1>1. TypeOK /\ call' = call
  BY CallStep DEF IInv, Frame
<1>2. ProbeCollision(r) \/ Write(r)
  BY <1>1 DEF Proceed, Fail, ProbeUnchanged, CaptureSource, ReadCandidate, EmbedAndClassify,
     LockHead, LockCandidate, Upsert, Reprobe, Commit, Goto, Finish, TypeOK
<1>3. /\ row' = row
      /\ local'[r].target = local[r].target /\ local'[r].head = local[r].head
      /\ local'[r].fresh = local[r].fresh
  BY <1>1, <1>2 DEF ProbeCollision, Write, Goto, Finish, TypeOK, Local, committed
<1>4. NewHead(r)' = NewHead(r)
  BY <1>1, <1>3 DEF NewHead
<1>5. \/ Competitors(r) = {}
      \/ pc[r] = "checked"
  BY <1>1, <1>2 DEF ProbeCollision, Write, Finish, TypeOK
<1>6. \A t \in Twins(row, local[r].target, NewHead(r).audience, NewHead(r).fp) : row[t].fp # NoFp
  BY <1>1, <1>5 DEF Competitors, ProbeStillHolds, ProbeHolds
<1> QED
  BY <1>3, <1>4, <1>6 DEF ProbeHolds

\* A commit of r does not put a copy behind the probe of q.
LEMMA OthersProbeHolds ==
  ASSUME IInv, ProbeStillHolds, NEW r \in Req, Proceed(r) \/ Fail(r), NEW q \in Req \ {r}
  PROVE  ProbeHolds(q)'
<1> DEFINE y == NewHead(q)
<1>1. /\ call' = call /\ pc'[q] = pc[q] /\ local'[q] = local[q] /\ y' = y
  BY CallStep, SameNewHead DEF Frame
<1> SUFFICES ASSUME pc[q] \in {"checked", "violated", "written"},
                    call[q].op \in {"update", "move", "restore"},
                    NEW t \in Id \ {local[q].target}, Live(row'[t]),
                    row'[t].audience = y.audience, EffectiveFp(row'[t]) = y.fp,
                    row'[t].fp = NoFp
             PROVE  FALSE
  BY <1>1 DEF ProbeHolds, Twins
<1>2. ~(/\ Live(row[t]) /\ row[t].audience = y.audience /\ EffectiveFp(row[t]) = y.fp
        /\ row[t].fp = NoFp)
  BY DEF ProbeStillHolds, ProbeHolds, Twins
<1>3. Commit(r) /\ t = local[r].target
  BY <1>2, OnlyCommitWrites, CommitFacts DEF committed
<1>4. row'[t] = NewHead(r) /\ row[t] = local[r].head
  BY <1>3, CommitFacts
<1>5. EffectiveFp(row'[t]) = EffectiveFp(row[t]) /\ Live(row[t])
      /\ row[t].audience = row'[t].audience /\ row[t].fp = NoFp
  BY <1>3, <1>4, OutcomeFp DEF EffectiveFp
<1> QED
  BY <1>2, <1>5

\* No live copy outside the unique index appears behind a finished probe.
THEOREM ProbesHold == Spec => []ProbeStillHolds
<1>1. Init => ProbeStillHolds
  BY DEF Init, ProbeStillHolds, ProbeHolds
<1>2. ASSUME IInv, ProbeStillHolds, [Next]_vars
      PROVE  ProbeStillHolds'
  <2>1. ASSUME NEW r \in Req, Proceed(r) \/ Fail(r)
        PROVE  ProbeStillHolds'
    BY <1>2, <2>1, MoverProbeHolds, OthersProbeHolds DEF ProbeStillHolds
  <2>2. CASE UNCHANGED vars
    <3>1. row' = row /\ pc' = pc /\ call' = call /\ local' = local
      BY <2>2 DEF vars
    <3>2. \A r \in Req : NewHead(r)' = NewHead(r)
      BY <3>1 DEF NewHead
    <3> QED
      BY <1>2, <3>1, <3>2 DEF ProbeStillHolds, ProbeHolds
  <2> QED
    BY <1>2, <2>1, <2>2 DEF Next, Quiescent
<1> QED
  BY <1>1, <1>2, Inductive, PTL DEF Spec

\* A commit over an existing row makes no copy of another row.
LEMMA CommitDuplicates ==
  ASSUME IInv, ProbeStillHolds, NEW r \in Req, Commit(r), local[r].head # NoRow,
         NEW t \in Id \ {local[r].target},
         Live(NewHead(r)), Live(row[t]),
         NewHead(r).audience = row[t].audience,
         EffectiveFp(NewHead(r)) = EffectiveFp(row[t])
  PROVE  /\ Live(local[r].head) /\ local[r].head.audience = row[t].audience
         /\ EffectiveFp(local[r].head) = EffectiveFp(row[t])
<1> DEFINE c == call[r]
           x == local[r].head
           y == NewHead(r)
<1>1. Outcome(c, x, local[r].fresh, y)
  BY CommitOutcome
<1>2. c.op \in {"update", "move", "restore"} => y.fp # NoFp
  <2>1. c.op = "update" => FingerprintOf[c.content] # NoFp
    BY CommitFacts, CallFacts, ThoughtAssumption
  <2>2. x \in Row => EffectiveFp(x) # NoFp
    BY RowFacts, ThoughtAssumption
  <2> QED
    BY <1>1, <2>1, <2>2 DEF Outcome
<1>3. c.op \notin {"update", "move", "restore"}
  <2> SUFFICES ASSUME c.op \in {"update", "move", "restore"}
               PROVE  FALSE
    OBVIOUS
  <2>1. EffectiveFp(y) = y.fp
    BY <1>2 DEF EffectiveFp
  <2>2. t \in Twins(row, local[r].target, y.audience, y.fp)
    BY <2>1 DEF Twins
  <2>3. row[t].fp # NoFp
    BY <2>2, CommitFacts DEF ProbeStillHolds, ProbeHolds
  <2>4. row[t].fp = y.fp
    BY <2>1, <2>3 DEF EffectiveFp
  <2>5. SameKey(row[t], y)
    BY <2>3, <2>4 DEF SameKey
  <2> QED
    BY <2>5, CommitFacts DEF WriteIsSound, KeyHolders
<1> QED
  BY <1>1, <1>3, RowFacts DEF Outcome, Live, EffectiveFp

\* A new pair of live copies always involves the row of a fresh capture.
THEOREM DuplicatesComeFromCapture == Spec => OnlyCaptureDuplicates
<1> DEFINE Fresh == \A p \in DuplicatePairs(row)' \ DuplicatePairs(row) :
                      \E i \in p : row[i] = NoRow
<1>1. ASSUME IInv, ProbeStillHolds, [Next]_vars
      PROVE  [Fresh]_vars
  <2>1. ASSUME NEW r \in Req, Commit(r)
        PROVE  Fresh
    <3> SUFFICES ASSUME NEW p \in DuplicatePairs(row'), \A i \in p : row[i] # NoRow
                 PROVE  p \in DuplicatePairs(row)
      OBVIOUS
    <3> DEFINE Copies(heads, s, t) ==
                 /\ Live(heads[s]) /\ Live(heads[t]) /\ heads[s].audience = heads[t].audience
                 /\ EffectiveFp(heads[s]) = EffectiveFp(heads[t])
    <3>1. PICK s \in p, t \in p : s # t /\ p = {s, t} /\ Copies(row', s, t)
      BY DEF DuplicatePairs
    <3>2. s \in Id /\ t \in Id /\ p \in SUBSET Id
      BY DEF DuplicatePairs
    <3>3. ASSUME NEW u \in p, NEW w \in p, u # w, u = local[r].target, Copies(row', u, w)
          PROVE  Copies(row, u, w)
      <4>1. w \in Id \ {u} /\ row'[w] = row[w] /\ row'[u] = NewHead(r) /\ row[u] = local[r].head
        BY <1>1, <2>1, <3>2, <3>3, CommitFacts
      <4> QED
        BY <1>1, <2>1, <3>3, <4>1, CommitDuplicates
    <3>4. Copies(row, s, t)
      <4>1. CASE s = local[r].target
        BY <3>1, <3>3, <4>1
      <4>2. CASE t = local[r].target
        BY <3>1, <3>3, <4>2
      <4>3. CASE s # local[r].target /\ t # local[r].target
        <5>1. row'[s] = row[s] /\ row'[t] = row[t]
          BY <1>1, <2>1, <3>2, <4>3, CommitFacts
        <5> QED
          BY <3>1, <5>1
      <4> QED
        BY <4>1, <4>2, <4>3
    <3> QED
      BY <3>1, <3>2, <3>4 DEF DuplicatePairs
  <2>2. ASSUME NEW r \in Req, Proceed(r) \/ Fail(r)
        PROVE  Fresh
    BY <2>1, <2>2, OnlyCommitWrites DEF committed
  <2> QED
    BY <1>1, <2>2 DEF Next, Quiescent
<1> QED
  BY <1>1, Inductive, ProbesHold, PTL DEF Spec, OnlyCaptureDuplicates

-----------------------------------------------------------------------------
(***************************************************************************)
(* ThoughtStore implements ThoughtLedger: although a call's reads, model   *)
(* calls, locks, probes and writes interleave with everyone else's, each   *)
(* call takes effect, or is refused, at the one instant it is answered.    *)
(***************************************************************************)

\* The ledger's operators are the store's.
LEMMA SamePredicates ==
  /\ \A x : Ledger!Live(x) = Live(x)
  /\ \A x : Ledger!EffectiveFp(x) = EffectiveFp(x)
  /\ \A x, y : Ledger!SameKey(x, y) = SameKey(x, y)
  /\ \A s, a : Ledger!AudienceMatches(s, a) = AudienceMatches(s, a)
  /\ \A heads, id, a, f : Ledger!Twins(heads, id, a, f) = Twins(heads, id, a, f)
  /\ \A story : Ledger!NextRevision(story) = NextRevision(story)
  /\ Ledger!Refusal = Refusal
<1>1. /\ \A x : Ledger!Live(x) = Live(x)
      /\ \A x : Ledger!EffectiveFp(x) = EffectiveFp(x)
  BY DEF Ledger!Live, Live, Ledger!EffectiveFp, EffectiveFp
<1>2. \A x, y : Ledger!SameKey(x, y) = SameKey(x, y)
  BY DEF Ledger!SameKey, SameKey, Ledger!Live, Live
<1>3. \A s, a : Ledger!AudienceMatches(s, a) = AudienceMatches(s, a)
  BY DEF Ledger!AudienceMatches, AudienceMatches
<1>4. \A heads, id, a, f : Ledger!Twins(heads, id, a, f) = Twins(heads, id, a, f)
  BY DEF Ledger!Twins, Twins, Ledger!Live, Live, Ledger!EffectiveFp, EffectiveFp
<1>5. \A story : Ledger!NextRevision(story) = NextRevision(story)
  BY DEF Ledger!NextRevision, NextRevision
<1>6. Ledger!Refusal = Refusal
  BY DEF Ledger!Refusal, Refusal
<1> QED
  BY <1>1, <1>2, <1>3, <1>4, <1>5, <1>6

\* The ledger's rows and revisions are the store's.
LEMMA SameRows ==
  /\ \A t, a, s, e : Ledger!Captured(t, a, s, e) = Captured(t, a, s, e)
  /\ \A x, s, e : Ledger!Merged(x, s, e) = Merged(x, s, e)
  /\ \A x, t, e : Ledger!Edited(x, t, e) = Edited(x, t, e)
  /\ \A x, a : Ledger!Moved(x, a) = Moved(x, a)
  /\ \A x : Ledger!Forgotten(x) = Forgotten(x)
  /\ \A x : Ledger!Restored(x) = Restored(x)
  /\ \A x, e : Ledger!Reclassified(x, e) = Reclassified(x, e)
  /\ \A x, n, k, r : Ledger!Snapshot(x, n, k, r) = Snapshot(x, n, k, r)
BY DEF Ledger!Captured, Captured, Ledger!Merged, Merged, Ledger!Edited, Edited,
   Ledger!Moved, Moved, Ledger!Forgotten, Forgotten, Ledger!Restored, Restored,
   Ledger!Reclassified, Reclassified, Ledger!Snapshot, Snapshot,
   Ledger!EffectiveFp, EffectiveFp

-----------------------------------------------------------------------------
\* Only calls that look for competitors can be told of one.
MayConflict(r) ==
  pc[r] \in {"locked", "violated"} => call[r].op \in {"update", "move", "restore"}

OnlyProbersConflict == \A r \in Req : MayConflict(r)

\* A forget or a reclassification cannot violate the unique index.
LEMMA NeverViolates ==
  ASSUME IInv, NEW r \in Req, InTransaction(r), call[r].op \in {"forget", "reclassify"}
  PROVE  KeyHolders(local[r].target, NewHead(r)) = {}
<1> DEFINE x == local[r].head
           id == local[r].target
<1>1. /\ TypeOK /\ Prepared(r) /\ HeadIsCurrent(r) /\ id \in Id /\ row[id] = x
      /\ call[r].op # "capture"
  BY DEF IInv, NothingStale, HeadIsCurrent
<1>2. x \in Row
  BY <1>1, NewHeadType DEF IInv
<1>3. CASE call[r].op = "forget"
  <2>1. NewHead(r) = Forgotten(x)
    BY <1>3 DEF NewHead
  <2>2. NewHead(r).forgotten = TRUE
    BY <1>2, <2>1, ForgottenFields
  <2> QED
    BY <2>2 DEF KeyHolders, SameKey, Live
<1>4. CASE call[r].op = "reclassify"
  <2>1. NewHead(r) = Reclassified(x, local[r].fresh)
    BY <1>4 DEF NewHead
  <2>2. /\ NewHead(r).fp = x.fp /\ NewHead(r).audience = x.audience
        /\ NewHead(r).forgotten = x.forgotten /\ x # NoRow
    BY <1>2, <2>1, RewriteFields, RowFacts
  <2>3. ASSUME NEW t \in Id \ {id}, SameKey(row[t], NewHead(r))
        PROVE  SameKey(row[t], x)
    BY <2>2, <2>3 DEF SameKey, Live
  <2> QED
    BY <1>1, <2>3 DEF IInv, UniqueKeys, KeyHolders
<1> QED
  BY <1>3, <1>4

\* Only an update, move or restore waits for a probe or meets a unique violation.
THEOREM ConflictsAreProbed == Spec => []OnlyProbersConflict
<1>1. Init => OnlyProbersConflict
  BY DEF Init, OnlyProbersConflict, MayConflict
<1>2. ASSUME IInv, OnlyProbersConflict, [Next]_vars
      PROVE  OnlyProbersConflict'
  <2>1. ASSUME NEW r \in Req, Proceed(r) \/ Fail(r)
        PROVE  OnlyProbersConflict'
    <3>1. TypeOK /\ Frame(r) /\ call[r].op \in Operation
      BY <1>2, <2>1, CallStep, CallFacts DEF IInv, Call
    <3>2. \A q \in Req \ {r} : MayConflict(q)'
      BY <1>2, <3>1 DEF Frame, OnlyProbersConflict, MayConflict
    <3>3. CASE pc'[r] \notin {"locked", "violated"}
      BY <3>2, <3>3 DEF OnlyProbersConflict, MayConflict
    <3>4. CASE pc'[r] = "locked"
      <4>1. LockHead(r)
        BY <2>1, <3>1, <3>4 DEF Proceed, Fail, ProbeUnchanged, CaptureSource, ReadCandidate,
           EmbedAndClassify, LockCandidate, Upsert, ProbeCollision, Write, Reprobe, Commit,
           Goto, Finish, TypeOK
      <4>2. call[r].op \in {"update", "move", "restore"}
        BY <3>1, <3>4, <4>1 DEF LockHead, Goto, Finish, TypeOK
      <4> QED
        BY <3>1, <3>2, <4>2 DEF OnlyProbersConflict, MayConflict, Frame
    <3>5. CASE pc'[r] = "violated"
      <4>1. Write(r)
        BY <2>1, <3>1, <3>5 DEF Proceed, Fail, ProbeUnchanged, CaptureSource, ReadCandidate,
           EmbedAndClassify, LockHead, LockCandidate, Upsert, ProbeCollision, Reprobe, Commit,
           Goto, Finish, TypeOK
      <4>2. KeyHolders(local[r].target, NewHead(r)) # {} /\ pc[r] = "checked"
        BY <3>1, <3>5, <4>1 DEF Write, Goto, TypeOK
      <4>3. InTransaction(r) /\ HeadIsCurrent(r)
        BY <1>2, <4>2 DEF InTransaction, IInv, NothingStale
      <4>4. call[r].op \notin {"forget", "reclassify", "capture"}
        BY <1>2, <4>2, <4>3, NeverViolates DEF HeadIsCurrent
      <4> QED
        BY <3>1, <3>2, <4>4 DEF OnlyProbersConflict, MayConflict, Frame, Operation
    <3> QED
      BY <3>3, <3>4, <3>5
  <2>2. CASE UNCHANGED vars
    BY <1>2, <2>2 DEF vars, OnlyProbersConflict, MayConflict
  <2> QED
    BY <1>2, <2>1, <2>2 DEF Next, Quiescent
<1> QED
  BY <1>1, <1>2, Inductive, PTL DEF Spec

-----------------------------------------------------------------------------
\* Refusals.

\* What a refusal says of the call and of the row it names.
TrueOf(why, c) ==
  LET x == row[c.id]
      visible == x # NoRow /\ AudienceMatches(c.scope, x.audience)
  IN  /\ why = "invisible" => ~visible \/ (c.op \in {"update", "move"} /\ ~Live(x))
      /\ why = "unchanged" => visible /\ AlreadySo(c, x)
      /\ why = "conflict" =>
           /\ visible
           /\ Twins(row, c.id, IF c.op = "move" THEN c.audience ELSE x.audience,
                    IF c.op = "update" THEN FingerprintOf[c.content] ELSE EffectiveFp(x)) # {}
      /\ why = "stale" => c.op = "reclassify"

\* A true refusal is a step of the ledger.
LEMMA RefusalStep ==
  ASSUME IInv, NEW r \in Req, NEW why \in Refusal, pc[r] # "done",
         Finish(r, why), UNCHANGED committed, TrueOf(why, call[r])
  PROVE  Ledger!Next
<1> DEFINE c == call[r]
           x == row[c.id]
<1>1. Ledger!Reply(r, why)
  BY DEF Ledger!Reply, Finish, IInv, NothingStale, Prepared
<1>2. Ledger!Visible(r, c.id) <=> x # NoRow /\ AudienceMatches(c.scope, x.audience)
  BY SamePredicates DEF Ledger!Visible
<1>3. x # NoRow => (AlreadySo(c, x) <=> \/ c.op = "update"  /\ x.content = c.content
                                        \/ c.op = "move"    /\ x.audience = c.audience
                                        \/ c.op = "forget"  /\ ~Ledger!Live(x)
                                        \/ c.op = "restore" /\ Ledger!Live(x))
  BY SamePredicates DEF AlreadySo, Live
<1>4. /\ Ledger!Destination(c) = IF c.op = "move" THEN c.audience ELSE x.audience
      /\ Ledger!NewFp(c) = IF c.op = "update" THEN FingerprintOf[c.content] ELSE EffectiveFp(x)
  BY SamePredicates DEF Ledger!Destination, Ledger!NewFp
<1>5. why = "invisible" => \/ ~Ledger!Visible(r, c.id)
                           \/ c.op \in {"update", "move"} /\ ~Ledger!Live(x)
  BY <1>2, SamePredicates DEF TrueOf
<1>6. why = "unchanged" => /\ Ledger!Visible(r, c.id)
                           /\ \/ c.op = "update"  /\ x.content = c.content
                              \/ c.op = "move"    /\ x.audience = c.audience
                              \/ c.op = "forget"  /\ ~Ledger!Live(x)
                              \/ c.op = "restore" /\ Ledger!Live(x)
  BY <1>2, <1>3 DEF TrueOf
<1>7. why = "conflict" => /\ Ledger!Visible(r, c.id)
                          /\ Ledger!Twins(row, c.id, Ledger!Destination(c), Ledger!NewFp(c)) # {}
  BY <1>2, <1>4, SamePredicates DEF TrueOf
<1>8. why = "stale" => c.op = "reclassify"
  BY DEF TrueOf
<1>9. Ledger!Refuse(r, why)
  BY <1>1, <1>5, <1>6, <1>7, <1>8 DEF Ledger!Refuse, committed
<1> QED
  BY <1>9, SamePredicates DEF Ledger!Next

\* Whoever is told of a competitor has one.
LEMMA ConflictIsTrue ==
  ASSUME IInv, OnlyProbersConflict, NEW r \in Req, pc[r] \in {"locked", "violated"},
         Competitors(r) # {}
  PROVE  TrueOf("conflict", call[r])
<1> DEFINE c == call[r]
           x == local[r].head
<1>1. /\ HeadIsCurrent(r) /\ InTransaction(r) /\ c.op \in {"update", "move", "restore"}
  BY DEF IInv, NothingStale, InTransaction, OnlyProbersConflict, MayConflict
<1>2. /\ local[r].target = c.id /\ row[c.id] = x /\ Found(c, x)
  BY <1>1 DEF HeadIsCurrent
<1>3. x \in Row
  BY <1>1, NewHeadType DEF IInv, NothingStale
<1>4. /\ NewHead(r).audience = IF c.op = "move" THEN c.audience ELSE x.audience
      /\ NewHead(r).fp = IF c.op = "update" THEN FingerprintOf[c.content] ELSE EffectiveFp(x)
  <2>1. CASE c.op = "update"
    BY <1>3, <2>1, RewriteFields DEF NewHead
  <2>2. CASE c.op = "move"
    <3>1. NewHead(r) = Moved(x, c.audience)
      BY <2>2 DEF NewHead
    <3> QED
      BY <1>3, <2>2, <3>1, MovedFields
  <2>3. CASE c.op = "restore"
    <3>1. NewHead(r) = Restored(x)
      BY <2>3 DEF NewHead
    <3> QED
      BY <1>3, <2>3, <3>1, RestoredFields
  <2> QED
    BY <1>1, <2>1, <2>2, <2>3
<1> QED
  BY <1>2, <1>4 DEF TrueOf, Competitors, Found

\* Every step but COMMIT stutters or refuses.
LEMMA UncommittedStep ==
  ASSUME IInv, OnlyProbersConflict, NEW r \in Req, Proceed(r) \/ Fail(r), ~Commit(r)
  PROVE  Ledger!Next \/ UNCHANGED Ledger!ledgerVars
<1> DEFINE c == call[r]
<1>1. UNCHANGED committed /\ c.op \in Operation /\ pc \in [Req -> Step]
  BY OnlyCommitWrites, CallFacts DEF IInv, TypeOK, Call
<1>2. CASE UNCHANGED <<call, answer>>
  BY <1>1, <1>2 DEF committed, Ledger!ledgerVars
<1>3. ASSUME NEW why \in Refusal, pc[r] # "done", Finish(r, why), TrueOf(why, c)
      PROVE  Ledger!Next
  BY <1>1, <1>3, RefusalStep
<1>4. TrueOf("error", c) /\ "error" \in Refusal
  BY DEF TrueOf, Refusal
<1>5. {"invisible", "unchanged", "conflict", "stale"} \subseteq Refusal
  BY DEF Refusal
<1>6. CASE Fail(r)
  BY <1>3, <1>4, <1>6 DEF Fail
<1>7. CASE CaptureSource(r) \/ EmbedAndClassify(r) \/ Write(r)
  BY <1>2, <1>7 DEF CaptureSource, EmbedAndClassify, Write, Goto
<1>8. ASSUME ~Found(c, row[c.id]) PROVE TrueOf("invisible", c)
  BY <1>8 DEF Found, TrueOf, Live
<1>9. ASSUME Found(c, row[c.id]), AlreadySo(c, row[c.id]) PROVE TrueOf("unchanged", c)
  BY <1>9 DEF Found, TrueOf
<1>10. CASE ProbeUnchanged(r)
  BY <1>2, <1>3, <1>5, <1>8, <1>9, <1>10 DEF ProbeUnchanged, Goto
<1>11. CASE LockHead(r)
  BY <1>2, <1>3, <1>5, <1>8, <1>9, <1>11 DEF LockHead, Goto
<1>12. CASE ReadCandidate(r)
  BY <1>2, <1>3, <1>5, <1>12 DEF ReadCandidate, Goto, TrueOf
<1>13. CASE LockCandidate(r)
  BY <1>2, <1>3, <1>5, <1>13 DEF LockCandidate, Goto, TrueOf
<1>14. CASE Upsert(r)
  <2>1. pc[r] # "done" /\ (UNCHANGED <<call, answer>> \/ Finish(r, "error"))
    BY <1>14 DEF Upsert, Goto
  <2> QED
    BY <1>2, <1>3, <1>4, <2>1
<1>15. CASE ProbeCollision(r)
  BY <1>2, <1>3, <1>5, <1>15, ConflictIsTrue DEF ProbeCollision, Goto
<1>16. CASE Reprobe(r)
  BY <1>3, <1>4, <1>5, <1>16, ConflictIsTrue DEF Reprobe
<1> QED
  BY <1>6, <1>7, <1>10, <1>11, <1>12, <1>13, <1>14, <1>15, <1>16 DEF Proceed

-----------------------------------------------------------------------------
\* Commits.

\* No live copy of what an update, move or restore writes exists when it commits.
LEMMA NoTwinsAtCommit ==
  ASSUME IInv, ProbeStillHolds, NEW r \in Req, Commit(r),
         call[r].op \in {"update", "move", "restore"}
  PROVE  Twins(row, local[r].target, NewHead(r).audience, NewHead(r).fp) = {}
<1> DEFINE id == local[r].target
           y == NewHead(r)
<1> SUFFICES ASSUME NEW t \in Twins(row, id, y.audience, y.fp)
             PROVE  FALSE
  OBVIOUS
<1>1. row[t].fp # NoFp
  BY CommitFacts DEF ProbeStillHolds, ProbeHolds
<1>2. t \in Id \ {id} /\ Live(row[t]) /\ row[t].audience = y.audience /\ row[t].fp = y.fp
  BY <1>1 DEF Twins, EffectiveFp
<1>3. Live(y)
  <2>1. Outcome(call[r], local[r].head, local[r].fresh, y) /\ y # NoRow
    BY CommitOutcome, CommitFacts, RowFacts
  <2> QED
    BY <2>1 DEF Outcome, Live
<1>4. SameKey(row[t], y)
  BY <1>1, <1>2, <1>3 DEF SameKey
<1> QED
  BY <1>2, <1>4, CommitFacts DEF WriteIsSound, KeyHolders

\* What a commit does, in the ledger's terms.
LEMMA CommitInLedger ==
  ASSUME IInv, NEW r \in Req, Commit(r)
  PROVE  /\ Ledger!Done(r, Success(call[r].op))
         /\ call[r].op # "capture" =>
              Ledger!Change(r, call[r].id, KindOf(call[r].op), NewHead(r))
         /\ call[r].op \in {"move", "forget", "restore", "reclassify"} => index' = index
         /\ call[r].op \in {"capture", "update"} =>
              index' = [index EXCEPT ![local[r].target] = local[r].source]
         /\ call[r].op = "capture" => revs' = revs
<1> DEFINE c == call[r]
           id == local[r].target
           x == local[r].head
<1>1. /\ TypeOK /\ c.op \in Operation /\ Prepared(r) /\ HeadIsCurrent(r) /\ WriteIsSound(r)
      /\ InTransaction(r) /\ pc[r] = "written" /\ id \in Id /\ row[id] = x
  BY CommitFacts
<1>2. Ledger!Done(r, Success(c.op))
  BY <1>1 DEF Ledger!Done, Ledger!Reply, Commit, Finish, Prepared
<1>3. ASSUME c.op # "capture"
      PROVE  Ledger!Change(r, c.id, KindOf(c.op), NewHead(r))
  <2>1. id = c.id /\ local[r].revno = NextRevision(revs[id])
    BY <1>1, <1>3 DEF HeadIsCurrent, WriteIsSound
  <2>2. revs' = [revs EXCEPT ![id] = @ \cup {Snapshot(x, local[r].revno, KindOf(c.op), r)}]
    BY <1>3 DEF Commit, NewHistory
  <2>3. row' = [row EXCEPT ![id] = NewHead(r)]
    BY DEF Commit
  <2> QED
    BY <1>1, <2>1, <2>2, <2>3, SameRows, SamePredicates DEF Ledger!Change
<1>4. ASSUME c.op \in {"move", "forget", "restore", "reclassify"}
      PROVE  index' = index
  <2>1. Outcome(c, x, local[r].fresh, NewHead(r))
    BY CommitOutcome
  <2>2. NewHead(r).content = x.content
    BY <1>4, <2>1 DEF Outcome
  <2>3. NewIndex(r, index[id]) = index[id]
    BY <1>4, <2>2 DEF NewIndex
  <2> QED
    BY <1>1, <2>3 DEF Commit, TypeOK
<1>5. c.op \in {"capture", "update"} => index' = [index EXCEPT ![id] = local[r].source]
  BY DEF Commit, NewIndex
<1>6. c.op = "capture" => revs' = revs
  BY <1>1 DEF Commit, NewHistory, TypeOK
<1> QED
  BY <1>2, <1>3, <1>4, <1>5, <1>6

\* A captured text's key does not depend on its metadata.
LEMMA ArbiterKey ==
  ASSUME NEW y, NEW text \in Content, NEW a \in AudienceSet,
         NEW s \in Principal \cup {None}, NEW e \in Content \cup {Stub}
  PROVE  SameKey(y, Captured(text, a, s, e)) <=> SameKey(y, Captured(text, a, None, Stub))
<1>1. /\ Captured(text, a, s, e).fp = Captured(text, a, None, Stub).fp
      /\ Captured(text, a, s, e).audience = Captured(text, a, None, Stub).audience
      /\ Captured(text, a, s, e).forgotten = FALSE
      /\ Captured(text, a, None, Stub).forgotten = FALSE
  BY DEF Captured
<1>2. Captured(text, a, s, e) # NoRow /\ Captured(text, a, None, Stub) # NoRow
  BY CapturedType, RowFacts
<1> QED
  BY <1>1, <1>2 DEF SameKey, Live

\* A commit of a capture.
LEMMA CaptureStep ==
  ASSUME IInv, NEW r \in Req, Commit(r), call[r].op = "capture"
  PROVE  \E id \in Id : \/ Ledger!CaptureNew(r, id, local[r].fresh)
                        \/ Ledger!CaptureAgain(r, id, local[r].fresh)
<1> DEFINE c == call[r]
           x == local[r].head
           e == local[r].fresh
           id == local[r].target
           new == Captured(c.content, c.audience, c.scope.principal, e)
<1>1. /\ HeadIsCurrent(r) /\ InTransaction(r) /\ WriteIsSound(r) /\ pc[r] = "written"
      /\ id \in Id /\ row[id] = x
      /\ row' = [row EXCEPT ![id] = NewHead(r)] /\ NewHead(r) \in Row
  BY CommitFacts
<1>2. /\ Ledger!Done(r, "captured") /\ revs' = revs
      /\ index' = [index EXCEPT ![id] = NewHead(r).content]
  BY <1>1, CommitInLedger DEF Success, HeadIsCurrent
<1>3. Ledger!Arbiter(c) = {t \in Id : SameKey(row[t], new)}
  <2>1. /\ c.content \in Content /\ c.audience \in AudienceSet
        /\ c.scope.principal \in Principal \cup {None}
    BY CommitFacts, CallFacts
  <2>2. e \in Content \cup {Stub}
    BY <1>1, <2>1, CommitFacts DEF Prepared, AsksModels, Classifications
  <2>3. \A t \in Id : SameKey(row[t], new)
          <=> SameKey(row[t], Captured(c.content, c.audience, None, Stub))
    BY <2>1, <2>2, ArbiterKey
  <2> QED
    BY <2>3, SamePredicates, SameRows DEF Ledger!Arbiter
<1>4. CASE x = NoRow
  <2>1. NewHead(r) = new /\ new.content = c.content
    BY <1>4 DEF NewHead, Captured
  <2>2. Ledger!Arbiter(c) = {}
    BY <1>1, <1>3, <1>4, <2>1 DEF WriteIsSound, KeyHolders, SameKey, Live
  <2>3. Ledger!CaptureNew(r, id, e)
    BY <1>1, <1>2, <1>4, <2>1, <2>2, SameRows DEF Ledger!CaptureNew
  <2> QED
    BY <1>1, <2>3
<1>5. CASE x # NoRow
  <2>1. NewHead(r) = Merged(x, c.scope.principal, e) /\ SameKey(x, new)
    BY <1>1, <1>5 DEF NewHead, HeadIsCurrent
  <2>2. NewHead(r).content = x.content
    BY <1>5, CommitOutcome DEF Outcome
  <2>3. Ledger!CaptureAgain(r, id, e)
    BY <1>1, <1>2, <1>3, <2>1, <2>2, SameRows DEF Ledger!CaptureAgain
  <2> QED
    BY <1>1, <2>3
<1> QED
  BY <1>4, <1>5

\* Every commit is a step of the ledger.
LEMMA CommitStep ==
  ASSUME IInv, ProbeStillHolds, NEW r \in Req, Commit(r)
  PROVE  Ledger!Next
<1> DEFINE c == call[r]
           x == local[r].head
           e == local[r].fresh
           id == local[r].target
<1>1. /\ c.op \in Operation /\ Prepared(r) /\ HeadIsCurrent(r) /\ InTransaction(r)
      /\ id \in Id /\ row[id] = x /\ Outcome(c, x, e, NewHead(r))
  BY CommitFacts, CommitOutcome
<1>2. c.op # "capture" => id = c.id /\ x \in Row /\ x # NoRow
  BY <1>1, RowFacts, NewHeadType DEF HeadIsCurrent, IInv
<1>3. c.op \in {"capture", "update"} => e \in {c.content, Stub}
  BY <1>1 DEF Prepared, AsksModels, Classifications
<1>4. CASE c.op = "capture"
  <2>1. \E i \in Id : Ledger!CaptureNew(r, i, e) \/ Ledger!CaptureAgain(r, i, e)
    BY <1>4, CaptureStep
  <2> QED
    BY <1>3, <1>4, <2>1 DEF Ledger!Next
<1>5. ASSUME c.op \in {"update", "move", "forget", "restore"}
      PROVE  /\ Ledger!Visible(r, c.id) /\ Found(c, x) /\ ~AlreadySo(c, x)
             /\ Ledger!Live(row[c.id]) = Live(x)
  BY <1>1, <1>2, <1>5, SamePredicates DEF HeadIsCurrent, Found, Ledger!Visible
<1>6. CASE c.op = "update"
  <2>1. NewHead(r) = Edited(x, c.content, e)
    BY <1>6 DEF NewHead
  <2>2. Twins(row, c.id, x.audience, FingerprintOf[c.content]) = {}
    BY <1>1, <1>2, <1>6, NoTwinsAtCommit DEF Outcome
  <2>3. Live(x) /\ c.content # x.content
    BY <1>2, <1>5, <1>6 DEF Found, AlreadySo, Live
  <2>4. index' = [index EXCEPT ![c.id] = c.content]
    BY <1>1, <1>2, <1>6, CommitInLedger DEF Prepared, AsksModels
  <2>5. /\ Ledger!Done(r, "updated")
        /\ Ledger!Change(r, c.id, "content", Edited(x, c.content, e))
    BY <1>6, <2>1, CommitInLedger DEF Success, KindOf
  <2>6. Ledger!Update(r, e)
    BY <1>1, <1>2, <1>5, <1>6, <2>2, <2>3, <2>4, <2>5, SamePredicates, SameRows
    DEF Ledger!Update
  <2> QED
    BY <1>3, <1>6, <2>6 DEF Ledger!Next
<1>7. CASE c.op = "move"
  <2>1. NewHead(r) = Moved(x, c.audience)
    BY <1>7 DEF NewHead
  <2>2. Twins(row, c.id, c.audience, EffectiveFp(x)) = {}
    BY <1>1, <1>2, <1>7, NoTwinsAtCommit DEF Outcome
  <2>3. Live(x) /\ c.audience # x.audience
    BY <1>2, <1>5, <1>7 DEF Found, AlreadySo, Live
  <2>4. /\ Ledger!Done(r, "moved") /\ index' = index
        /\ Ledger!Change(r, c.id, "scope", Moved(x, c.audience))
    BY <1>7, <2>1, CommitInLedger DEF Success, KindOf
  <2>5. Ledger!Move(r)
    BY <1>1, <1>2, <1>5, <1>7, <2>2, <2>3, <2>4, SamePredicates, SameRows DEF Ledger!Move
  <2> QED
    BY <2>5 DEF Ledger!Next
<1>8. CASE c.op = "forget"
  <2>1. NewHead(r) = Forgotten(x)
    BY <1>8 DEF NewHead
  <2>2. Live(x)
    BY <1>2, <1>5, <1>8 DEF AlreadySo, Live
  <2>3. /\ Ledger!Done(r, "forgotten") /\ index' = index
        /\ Ledger!Change(r, c.id, "forget", Forgotten(x))
    BY <1>8, <2>1, CommitInLedger DEF Success, KindOf
  <2>4. Ledger!Forget(r)
    BY <1>1, <1>2, <1>5, <1>8, <2>2, <2>3, SameRows DEF Ledger!Forget
  <2> QED
    BY <2>4 DEF Ledger!Next
<1>9. CASE c.op = "restore"
  <2>1. NewHead(r) = Restored(x)
    BY <1>9 DEF NewHead
  <2>2. Twins(row, c.id, x.audience, EffectiveFp(x)) = {}
    BY <1>1, <1>2, <1>9, NoTwinsAtCommit DEF Outcome
  <2>3. ~Live(x)
    BY <1>2, <1>5, <1>9 DEF AlreadySo, Live
  <2>4. /\ Ledger!Done(r, "restored") /\ index' = index
        /\ Ledger!Change(r, c.id, "restore", Restored(x))
    BY <1>9, <2>1, CommitInLedger DEF Success, KindOf
  <2>5. Ledger!Restore(r)
    BY <1>1, <1>2, <1>5, <1>9, <2>2, <2>3, <2>4, SamePredicates, SameRows DEF Ledger!Restore
  <2> QED
    BY <2>5 DEF Ledger!Next
<1>10. CASE c.op = "reclassify"
  <2>1. Live(x) /\ x.meta.extraction = Stub /\ e = x.content
    BY <1>1, <1>2, <1>10 DEF Outcome, Live
  <2>2. NewHead(r) = Reclassified(x, x.content)
    BY <1>10, <2>1 DEF NewHead
  <2>3. /\ Ledger!Done(r, "reclassified") /\ index' = index
        /\ Ledger!Change(r, c.id, "metadata", Reclassified(x, x.content))
    BY <1>10, <2>2, CommitInLedger DEF Success, KindOf
  <2>4. Ledger!Reclassify(r)
    BY <1>1, <1>2, <1>10, <2>1, <2>3, SamePredicates, SameRows DEF Ledger!Reclassify
  <2> QED
    BY <2>4 DEF Ledger!Next
<1> QED
  BY <1>1, <1>4, <1>6, <1>7, <1>8, <1>9, <1>10 DEF Operation

-----------------------------------------------------------------------------
\* The store implements the ledger: every answered call took effect, or was
\* refused, at one instant in which its answer was true.
THEOREM StoreImplementsLedger == Spec => Serializable
<1>1. Init => Ledger!Init
  BY DEF Init, Ledger!Init, InitialHistory, Ledger!InitialHistory, InitialIndex,
     Ledger!InitialIndex, Snapshot, Ledger!Snapshot
<1>2. ASSUME IInv, ProbeStillHolds, OnlyProbersConflict, [Next]_vars
      PROVE  [Ledger!Next]_(Ledger!ledgerVars)
  <2>1. ASSUME NEW r \in Req, Proceed(r) \/ Fail(r)
        PROVE  Ledger!Next \/ UNCHANGED Ledger!ledgerVars
    BY <1>2, <2>1, CommitStep, UncommittedStep
  <2>2. CASE UNCHANGED vars
    BY <2>2 DEF vars, Ledger!ledgerVars
  <2> QED
    BY <1>2, <2>1, <2>2 DEF Next, Quiescent
<1> QED
  BY <1>1, <1>2, Inductive, ProbesHold, ConflictsAreProbed, PTL
  DEF Spec, Serializable, Ledger!Spec
=============================================================================
