---------------------------- MODULE ThoughtStore ----------------------------
(***************************************************************************)
(* The thought store as server/services.ts, server/queries.ts, the         *)
(* SECURITY DEFINER functions of db/17-forget-thoughts.sql and the         *)
(* maintenance tool server/metadata_reclassify.ts run it: a call reads and *)
(* asks the models outside any transaction, then locks, probes, writes and *)
(* commits in one READ COMMITTED transaction, any step of which may fail.  *)
(* Every statement is one step, so calls interleave between statements.    *)
(***************************************************************************)
EXTENDS Thoughts

VARIABLES
  row, revs, index, call, answer,   \* as in ThoughtLedger
  pc,      \* what each call does next
  lock,    \* the call whose transaction holds each row's FOR UPDATE lock
  local    \* what each call has read and computed so far

committed == <<row, revs, index>>
vars == <<row, revs, index, call, answer, pc, lock, local>>

Ledger == INSTANCE ThoughtLedger

Step == {"start", "embed", "classified", "locked", "checked", "violated",
         "written", "done"}

\* target: the row acted on;  source: the text given to the embedder;  prior:
\* the metadata read before classifying;  fresh: the classification;  head: the
\* row as locked, NoRow for an insert;  revno: the revision number taken.
Local == [target : Id \cup {None}, source : Content \cup {None},
          prior : Metadata \cup {None}, fresh : Content \cup {Stub, None},
          head : Row \cup {NoRow}, revno : Nat]

NoWork == [target |-> None, source |-> None, prior |-> None, fresh |-> None,
           head |-> NoRow, revno |-> 0]

Init ==
  /\ row \in InitialHeads
  /\ revs = [i \in Id |-> InitialHistory(row[i])]
  /\ index = [i \in Id |-> InitialIndex(row[i])]
  /\ call \in [Req -> Workload]
  /\ answer = [r \in Req |-> "pending"]
  /\ pc = [r \in Req |-> "start"]
  /\ lock = [i \in Id |-> None]
  /\ local = [r \in Req |-> NoWork]

-----------------------------------------------------------------------------
Goto(r, step) ==
  /\ pc' = [pc EXCEPT ![r] = step]
  /\ UNCHANGED <<call, answer>>

\* Seeded fault: the head is read without FOR UPDATE.
ReadUnlocked(r, id) == lock' = [lock EXCEPT ![id] = r]

Acquire(r, id) ==
  /\ lock[id] = None
  /\ lock' = [lock EXCEPT ![id] = r]

\* Seeded fault: a pooled connection goes back with its transaction open.
KeepLocks(r) == UNCHANGED lock

\* The call returns, its transaction over: withScopeClient's COMMIT or ROLLBACK
\* releases the locks.
Release(r) == lock' = [i \in Id |-> IF lock[i] = r THEN None ELSE lock[i]]

Finish(r, a) ==
  /\ answer' = [answer EXCEPT ![r] = a]
  /\ pc' = [pc EXCEPT ![r] = "done"]
  /\ local' = [local EXCEPT ![r] = NoWork]
  /\ Release(r)
  /\ UNCHANGED call

\* Seeded faults: a definer function that finds rows by id alone, and a read
\* that still finds forgotten rows.
FoundById(c, x) == x # NoRow /\ (c.op \in {"update", "move"} => ~x.forgotten)

FoundForgotten(c, x) == x # NoRow /\ AudienceMatches(c.scope, x.audience)

\* The WHERE clause and row policies of each operation's locking read: a row is
\* found by audience; update and move find live rows only.
Found(c, x) ==
  /\ x # NoRow
  /\ AudienceMatches(c.scope, x.audience)
  /\ c.op \in {"update", "move"} => ~x.forgotten

\* Seeded fault: a repeated forget is carried out again.
AlreadySoButForget(c, x) ==
  \/ c.op = "update"  /\ x.content = c.content
  \/ c.op = "move"    /\ x.audience = c.audience
  \/ c.op = "restore" /\ ~x.forgotten

\* The locked row is already what the call asks for.
AlreadySo(c, x) ==
  \/ c.op = "update"  /\ x.content = c.content
  \/ c.op = "move"    /\ x.audience = c.audience
  \/ c.op = "forget"  /\ x.forgotten
  \/ c.op = "restore" /\ ~x.forgotten

\* The row each call means to leave behind, from the head it locked.
NewHead(r) ==
  LET c == call[r]
      x == local[r].head
      e == local[r].fresh
  IN  CASE c.op = "capture" /\ x = NoRow ->
             Captured(c.content, c.audience, c.scope.principal, e)
        [] c.op = "capture" /\ x # NoRow -> Merged(x, c.scope.principal, e)
        [] c.op = "update"     -> Edited(x, c.content, e)
        [] c.op = "move"       -> Moved(x, c.audience)
        [] c.op = "forget"     -> Forgotten(x)
        [] c.op = "restore"    -> Restored(x)
        [] c.op = "reclassify" -> Reclassified(x, e)

KindOf(op) ==
  CASE op = "update"     -> "content"
    [] op = "move"       -> "scope"
    [] op = "forget"     -> "forget"
    [] op = "restore"    -> "restore"
    [] op = "reclassify" -> "metadata"

Success(op) ==
  CASE op = "capture"    -> "captured"
    [] op = "update"     -> "updated"
    [] op = "move"       -> "moved"
    [] op = "forget"     -> "forgotten"
    [] op = "restore"    -> "restored"
    [] op = "reclassify" -> "reclassified"

\* The unique index makes a writer of key x wait while another transaction has
\* written, and not committed, a row that has the key or is giving it up.
Busy(r, x) ==
  \E q \in Req \ {r} : /\ pc[q] = "written"
                       /\ \/ SameKey(NewHead(q), x)
                          \/ SameKey(local[q].head, x)

\* Committed rows, other than id, whose index entry the row x would repeat.
KeyHolders(id, x) == {t \in Id \ {id} : SameKey(row[t], x)}

-----------------------------------------------------------------------------
\* Before the transaction that writes.

\* probeThoughtUnchanged: a transaction of its own, which waits out a writer.
ProbeUnchanged(r) ==
  LET c == call[r]
      x == row[c.id] IN
  /\ pc[r] = "start" /\ c.op = "update"
  /\ \/ ~Found(c, x) /\ Finish(r, "invisible")
     \/ /\ Found(c, x) /\ lock[c.id] = None
        /\ AlreadySo(c, x)
        /\ Finish(r, "unchanged")
     \/ /\ Found(c, x) /\ lock[c.id] = None
        /\ ~AlreadySo(c, x)
        /\ Goto(r, "embed")
        /\ local' = [local EXCEPT ![r].source = c.content]
        /\ UNCHANGED lock
  /\ UNCHANGED committed

\* thoughtEmbeddingSource: a capture that will merge embeds the retained text.
CaptureSource(r) ==
  LET c == call[r]
      retained == KeyHolders(None, Captured(c.content, c.audience, None, Stub)) IN
  /\ pc[r] = "start" /\ c.op = "capture"
  /\ \E text \in IF retained = {} THEN {c.content} ELSE {row[t].content : t \in retained} :
       local' = [local EXCEPT ![r].source = text]
  /\ Goto(r, "embed")
  /\ UNCHANGED <<row, revs, index, lock>>

\* reclassifyMetadata reads one candidate outside any transaction.
ReadCandidate(r) ==
  LET x == row[call[r].id] IN
  /\ pc[r] = "start" /\ call[r].op = "reclassify"
  /\ \/ /\ Live(x) /\ x.meta.extraction = Stub
        /\ local' = [local EXCEPT ![r] = [@ EXCEPT !.source = x.content, !.prior = x.meta]]
        /\ Goto(r, "embed")
        /\ UNCHANGED lock
     \/ ~(Live(x) /\ x.meta.extraction = Stub) /\ Finish(r, "stale")
  /\ UNCHANGED committed

\* Client calls fall back to a stub when no classifier answers; maintenance
\* gives up instead.  An embedder that fails ends the call (see Fail).
Classifications(r) ==
  IF call[r].op = "reclassify" THEN {local[r].source} ELSE {call[r].content, Stub}

EmbedAndClassify(r) ==
  /\ pc[r] = "embed"
  /\ \E e \in Classifications(r) : local' = [local EXCEPT ![r].fresh = e]
  /\ Goto(r, "classified")
  /\ UNCHANGED <<row, revs, index, lock>>

-----------------------------------------------------------------------------
\* Inside the transaction.

\* The SELECT ... FOR UPDATE of update, move, forget and restore.  A row that
\* is not found is not waited for; one that is found is looked at again once
\* its lock is free.
LockHead(r) ==
  LET c == call[r]
      x == row[c.id] IN
  /\ \/ c.op = "update" /\ pc[r] = "classified"
     \/ c.op \in {"move", "forget", "restore"} /\ pc[r] = "start"
  /\ \/ ~Found(c, x) /\ Finish(r, "invisible")
     \/ /\ Found(c, x) /\ lock[c.id] = None
        /\ AlreadySo(c, x)
        /\ Finish(r, "unchanged")
     \/ /\ Found(c, x)
        /\ ~AlreadySo(c, x)
        /\ Acquire(r, c.id)
        /\ local' = [local EXCEPT ![r] = [@ EXCEPT !.target = c.id, !.head = x]]
        /\ Goto(r, IF c.op = "forget" THEN "checked" ELSE "locked")
  /\ UNCHANGED committed

\* Seeded fault: the text is not compared again before writing.
StillStub(r, x) == Live(x) /\ x.meta = local[r].prior

\* What reclassification wrote its answer for is still what the row holds.
StillCandidate(r, x) ==
  Live(x) /\ x.content = local[r].source /\ x.meta = local[r].prior

LockCandidate(r) ==
  LET id == call[r].id
      x == row[id] IN
  /\ pc[r] = "classified" /\ call[r].op = "reclassify"
  /\ lock[id] = None
  /\ \/ /\ StillCandidate(r, x)
        /\ Acquire(r, id)
        /\ local' = [local EXCEPT ![r] = [@ EXCEPT !.target = id, !.head = x]]
        /\ Goto(r, "checked")
     \/ ~StillCandidate(r, x) /\ Finish(r, "stale")
  /\ UNCHANGED committed

\* Seeded fault: the probe relies on the partial unique index.
IndexedCompetitors(r) == KeyHolders(local[r].target, NewHead(r))

Competitors(r) ==
  Twins(row, local[r].target, NewHead(r).audience, NewHead(r).fp)

ProbeCollision(r) ==
  /\ pc[r] = "locked"
  /\ \/ /\ Competitors(r) = {}
        /\ Goto(r, "checked")
        /\ UNCHANGED <<lock, local>>
     \/ Competitors(r) # {} /\ Finish(r, "conflict")
  /\ UNCHANGED committed

\* The savepoint: the revision and the new head, or a unique violation that
\* rolls both back.
Write(r) ==
  LET id == local[r].target IN
  /\ pc[r] = "checked"
  /\ ~Busy(r, NewHead(r))
  /\ \/ /\ KeyHolders(id, NewHead(r)) = {}
        /\ local' = [local EXCEPT ![r].revno = NextRevision(revs[id])]
        /\ Goto(r, "written")
     \/ /\ KeyHolders(id, NewHead(r)) # {}
        /\ Goto(r, "violated")
        /\ UNCHANGED local
  /\ UNCHANGED <<row, revs, index, lock>>

\* Seeded fault: every violation is called a conflict.
ReprobeNothing(r) ==
  /\ pc[r] = "violated"
  /\ Finish(r, "conflict")
  /\ UNCHANGED committed

\* A violation is reported as a conflict only if the competitor can be named.
Reprobe(r) ==
  /\ pc[r] = "violated"
  /\ \/ Competitors(r) # {} /\ Finish(r, "conflict")
     \/ Competitors(r) = {} /\ Finish(r, "error")
  /\ UNCHANGED committed

\* Seeded fault: no trigger compares the source of the vectors.
AnySource(r, text) == TRUE

\* check_embedding_index: vectors are kept only for the text they were built
\* from.
SourceMatches(r, text) == local[r].source = text

\* captureThought: INSERT ... ON CONFLICT DO UPDATE, which waits for the row it
\* merges into, then putEmbeddingIndex.
Upsert(r) ==
  LET c == call[r]
      x == Captured(c.content, c.audience, c.scope.principal, local[r].fresh)
      arbiter == KeyHolders(None, x) IN
  /\ pc[r] = "classified" /\ c.op = "capture"
  /\ ~Busy(r, x)
  /\ \E id \in IF arbiter # {} THEN arbiter ELSE {i \in Id : row[i] = NoRow} :
       /\ lock[id] = None
       /\ LET kept == IF row[id] = NoRow THEN c.content ELSE row[id].content IN
          \/ /\ SourceMatches(r, kept)
             /\ Acquire(r, id)
             /\ local' = [local EXCEPT ![r] = [@ EXCEPT !.target = id, !.head = row[id]]]
             /\ Goto(r, "written")
          \/ ~SourceMatches(r, kept) /\ Finish(r, "error")
  /\ UNCHANGED committed

\* invalidate_embedding_index drops the index of a text that changed;
\* putEmbeddingIndex then installs the new one.
NewIndex(r, old) ==
  IF call[r].op \in {"capture", "update"} THEN local[r].source
  ELSE IF NewHead(r).content = local[r].head.content THEN old
  ELSE NoIndex

\* Seeded fault: the revision snapshots the state after the change.
HistoryOfResult(r, old) ==
  IF call[r].op = "capture" THEN old
  ELSE old \cup {Snapshot(NewHead(r), local[r].revno, KindOf(call[r].op), r)}

NewHistory(r, old) ==
  IF call[r].op = "capture" THEN old
  ELSE old \cup {Snapshot(local[r].head, local[r].revno, KindOf(call[r].op), r)}

\* COMMIT, whose acknowledgement may be lost with the connection.
Commit(r) ==
  LET id == local[r].target IN
  /\ pc[r] = "written"
  /\ row' = [row EXCEPT ![id] = NewHead(r)]
  /\ revs' = [revs EXCEPT ![id] = NewHistory(r, @)]
  /\ index' = [index EXCEPT ![id] = NewIndex(r, @)]
  /\ Finish(r, Success(call[r].op)) \/ Finish(r, "error")

\* Any statement, model call or connection may fail; the transaction's writes
\* and locks go with it.
Fail(r) ==
  /\ pc[r] # "done"
  /\ Finish(r, "error")
  /\ UNCHANGED committed

Proceed(r) ==
  \/ ProbeUnchanged(r) \/ CaptureSource(r) \/ ReadCandidate(r)
  \/ EmbedAndClassify(r)
  \/ LockHead(r) \/ LockCandidate(r) \/ Upsert(r)
  \/ ProbeCollision(r) \/ Write(r) \/ Reprobe(r)
  \/ Commit(r)

Quiescent == (\A r \in Req : pc[r] = "done") /\ UNCHANGED vars

Next == (\E r \in Req : Proceed(r) \/ Fail(r)) \/ Quiescent

Spec == Init /\ [][Next]_vars

\* Every statement is eventually executed once it can be: the server awaits
\* each one, and the model calls have deadlines.
FairSpec == Spec /\ \A r \in Req : WF_vars(Proceed(r))

-----------------------------------------------------------------------------
TypeOK ==
  /\ row \in [Id -> Row \cup {NoRow}]
  /\ revs \in [Id -> SUBSET Revision]
  /\ index \in [Id -> Content \cup {NoIndex}]
  /\ call \in [Req -> Call]
  /\ answer \in [Req -> Answer]
  /\ pc \in [Req -> Step]
  /\ lock \in [Id -> Req \cup {None}]
  /\ local \in [Req -> Local]

\* What change v made, read off the state that followed it.
Explains(v, next) ==
  CASE v.kind = "content"  -> next.content # v.content /\ next.audience = v.audience
    [] v.kind = "scope"    -> next.content = v.content /\ next.audience # v.audience
    [] v.kind = "metadata" -> /\ next.content = v.content /\ next.audience = v.audience
                              /\ v.meta.extraction = Stub
    [] OTHER               -> next.content = v.content /\ next.audience = v.audience

\* A history tells one story that ends in the head x: revisions are numbered
\* 1..n, each number once, each is explained by the state after it, a forget is
\* followed by nothing but its restore, and the head is forgotten exactly when
\* the story ends so.
Replays(story, x) ==
  LET last == NextRevision(story) - 1 IN
  /\ NextRevision(story) \in Nat \ {0}
  /\ {v.n : v \in story} = 1..last
  /\ \A v, w \in story : v.n = w.n => v = w
  /\ \A v \in story : v.n < last => \E w \in story : w.n = v.n + 1 /\ Explains(v, w)
  /\ \A v \in story : v.n = last => x # NoRow /\ Explains(v, x)
  /\ \A v, w \in story :
       w.n = v.n + 1 => (v.kind = "forget" <=> w.kind = "restore")
  /\ x # NoRow =>
       (x.forgotten <=> \E v \in story : v.n = last /\ v.kind = "forget")

\* Every history replays (db/10's "1-based, dense per thought. Revision N
\* records the state that existed immediately before change N").
HistoryReplays == \A i \in Id : Replays(revs[i], row[i])

\* Vectors served for a thought were built from the text it holds, whatever
\* raced with the capture or update that built them.
IndexMatchesContent == \A i \in Id : row[i] # NoRow => index[i] \in {NoIndex, row[i].content}

\* A classification that was reached describes the thought it is stored with,
\* though it was made outside the transaction, of a text read before it.
ExtractionDescribesThought ==
  \A i \in Id : row[i] # NoRow =>
    \/ row[i].meta.extraction = Stub
    \/ FingerprintOf[row[i].meta.extraction] = FingerprintOf[row[i].content]

\* Every client change was made to a thought its caller could see at that
\* moment, not when the call first looked.
OnlyAuthorizedChanges ==
  \A i \in Id : \A v \in revs[i] :
    v.by # None /\ call[v.by].op # "reclassify" =>
      AudienceMatches(call[v.by].scope, v.audience)

\* A forgotten thought changes only by being restored as it was.
ForgottenStaysPut ==
  [][\A i \in Id : row[i] # NoRow /\ row[i].forgotten /\ row'[i] # row[i] =>
       row'[i] = Restored(row[i])]_vars

\* No update, move, restore or reclassification puts two live copies of a text
\* into one audience, old NULL-fingerprint rows included (db/10's "every dedupe
\* decision"): a new pair of copies involves a row that a capture just made.
OnlyCaptureDuplicates ==
  [][\A p \in DuplicatePairs(row)' \ DuplicatePairs(row) :
       \E i \in p : row[i] = NoRow]_vars

\* What db/10 and FINGERPRINT_SQL's comment say of every dedupe decision.
NothingDuplicates ==
  [][DuplicatePairs(row)' \subseteq DuplicatePairs(row)]_vars

\* Each answered call took effect, or was refused, at one instant in which its
\* answer was true.
Serializable == Ledger!Spec

\* Every call is answered: no call waits for ever on a lock or a unique key.
EveryCallIsAnswered == \A r \in Req : <>(answer[r] # "pending")

-----------------------------------------------------------------------------
\* What makes these true: a call inside its transaction still knows what the
\* store holds, because nobody else may change the row it locked.

InTransaction(r) == pc[r] \in {"locked", "checked", "violated", "written"}

AsksModels(r) == call[r].op \in {"capture", "update", "reclassify"}

\* What was asked of the models, and what they said.
Prepared(r) ==
  /\ pc[r] # "done" => answer[r] = "pending"
  /\ pc[r] \in {"embed", "classified"} => AsksModels(r)
  /\ AsksModels(r) /\ (pc[r] \in {"embed", "classified"} \/ InTransaction(r)) =>
       /\ local[r].source \in Content
       /\ call[r].op = "update" => local[r].source = call[r].content
       /\ call[r].op = "reclassify" =>
            local[r].prior \in Metadata /\ local[r].prior.extraction = Stub
  /\ AsksModels(r) /\ (pc[r] = "classified" \/ InTransaction(r)) =>
       local[r].fresh \in Classifications(r)

\* The head a transaction works from is the committed row, locked by it, and
\* still what its operation looked for.
HeadIsCurrent(r) ==
  InTransaction(r) =>
    /\ local[r].target \in Id
    /\ lock[local[r].target] = r
    /\ row[local[r].target] = local[r].head
    /\ call[r].op = "capture" =>
         LET x == Captured(call[r].content, call[r].audience,
                           call[r].scope.principal, local[r].fresh) IN
         /\ pc[r] = "written"
         /\ local[r].head # NoRow => SameKey(local[r].head, x)
         /\ local[r].source = NewHead(r).content
    /\ call[r].op # "capture" =>
         local[r].target = call[r].id /\ local[r].head # NoRow
    /\ call[r].op \in {"update", "move", "forget", "restore"} =>
         Found(call[r], local[r].head) /\ ~AlreadySo(call[r], local[r].head)
    /\ call[r].op = "reclassify" => StillCandidate(r, local[r].head)

\* What a transaction has written can be committed: its key is nobody else's
\* and its revision is the next.
WriteIsSound(r) ==
  pc[r] = "written" =>
    /\ KeyHolders(local[r].target, NewHead(r)) = {}
    /\ \A q \in Req \ {r} : pc[q] = "written" => ~SameKey(NewHead(q), NewHead(r))
    /\ call[r].op # "capture" => local[r].revno = NextRevision(revs[local[r].target])

\* No transaction's view of the rows it is about to change has gone stale.
NothingStale == \A r \in Req : Prepared(r) /\ HeadIsCurrent(r) /\ WriteIsSound(r)

\* After the collision probe, and until its transaction ends, no live row of the
\* target audience that the unique index does not cover holds the same text:
\* nothing locks such rows, and nothing but a dump creates them.
ProbeHolds(r) ==
  /\ pc[r] \in {"checked", "violated", "written"}
  /\ call[r].op \in {"update", "move", "restore"}
  => \A t \in Twins(row, local[r].target, NewHead(r).audience, NewHead(r).fp) :
       row[t].fp # NoFp

ProbeStillHolds == \A r \in Req : ProbeHolds(r)

\* PostgreSQL keeps the entries of idx_thoughts_fingerprint apart.
UniqueKeys == \A i, j \in Id : i # j => ~SameKey(row[i], row[j])

\* A stored fingerprint is that of the stored text.
StoredFpIsDerived ==
  \A i \in Id : row[i] # NoRow => row[i].fp \in {NoFp, FingerprintOf[row[i].content]}

IInv ==
  /\ TypeOK
  /\ call \in [Req -> Workload]
  /\ NothingStale
  /\ StoredFpIsDerived
  /\ UniqueKeys
  /\ IndexMatchesContent
  /\ ExtractionDescribesThought
  /\ OnlyAuthorizedChanges
  /\ HistoryReplays
=============================================================================
