--------------------------- MODULE SessionCapture ---------------------------
(***************************************************************************)
(* The session tools, statement by statement (services.ts,                 *)
(* session_queries.ts, the triggers of db/15).  A capture probes the       *)
(* session it refreshes, embeds outside any transaction unless the stored  *)
(* vectors are of its text already, and then writes the row, its index     *)
(* entry and its artifacts in one transaction.  What a transaction has     *)
(* written is in its call's local until it commits.                        *)
(***************************************************************************)
EXTENDS Sessions

CONSTANTS
    Contract,  \* the generations of the embedding index, in their order
    Requests,  \* the requests that calls may carry
    Stores     \* the stores the calls may find

NoEntry == [contract |-> 0]
Entries == [contract : Contract, source : Text]

\* vec: the text whose first passage's vector the row itself keeps.
Row == [fields : Fields, vec : Text]
NoRow == [vec |-> None]

ASSUME SessionWorkloadAssumption ==
    /\ Requests \subseteq Request
    /\ \A q \in Requests : q.op = "status" => q.status \in Status
    /\ Contract \subseteq Nat \ {0} /\ None \notin Text
    /\ \A s \in Stores : s.generation \in Contract /\ s.row \in [Id -> Row \cup {NoRow}]
    /\ \A s \in Stores : \A i \in Id : s.row[i] # NoRow => s.row[i].vec = s.row[i].fields.text

VARIABLES
    request, seen, reply,  \* as in SessionLedger
    row,         \* committed rows of sessions.session
    artifact,    \* per key, the calls whose artifacts are committed
    entry,       \* committed rows of sessions.embedding_index
    generation,  \* the active generation of the index
    lock,        \* per key, the call whose transaction has locked the row
    pc,
    local

vars == <<request, row, artifact, entry, generation, lock, pc, local, seen, reply>>
tables == <<request, row, artifact, entry, generation>>

Pcs == {"start", "embed", "recheck", "write", "index", "artifacts", "commit",
        "picked", "read", "done"}

\* known: the entry the probe found current; contract and index: what the
\* embedding phase returned; new, kept, mine: what the transaction has written.
Local == [known : Entries \cup {NoEntry}, contract : Contract \cup {0}, index : BOOLEAN,
          key : Id, new : Row \cup {NoRow}, kept : Entries \cup {NoEntry}, gone : SUBSET (Call \cup {None})]

Nothing == [known |-> NoEntry, contract |-> 0, index |-> FALSE,
            key |-> CHOOSE i \in Id : TRUE, new |-> NoRow, kept |-> NoEntry, gone |-> {}]

TypeOK ==
    /\ request \in [Call -> Request]
    /\ row \in [Id -> Row \cup {NoRow}]
    /\ artifact \in [Id -> SUBSET (Call \cup {None})]
    /\ entry \in [Id -> Entries \cup {NoEntry}]
    /\ generation \in Contract
    /\ lock \in [Id -> Call \cup {None}]
    /\ pc \in [Call -> Pcs]
    /\ local \in [Call -> Local]
    /\ seen \in [Call -> [id : Id, fields : Fields] \cup {NoSession}]
    /\ reply \in [Call -> Replies]

Stored(i) == row[i] # NoRow

Init ==
    /\ request \in [Call -> Requests]
    /\ \E s \in Stores :
         /\ row = s.row
         /\ generation = s.generation
         /\ artifact = [i \in Id |-> IF s.row[i] = NoRow THEN {} ELSE {None}]
         /\ entry = [i \in Id |-> IF s.row[i] = NoRow THEN NoEntry
                       ELSE [contract |-> s.generation, source |-> s.row[i].fields.text]]
    /\ lock = [i \in Id |-> None]
    /\ pc = [c \in Call |-> "start"]
    /\ local = [c \in Call |-> Nothing]
    /\ seen = [c \in Call |-> NoSession]
    /\ reply = [c \in Call |-> Unanswered]

-----------------------------------------------------------------------------
Op(c) == request[c].op
Goto(c, p) == pc' = [pc EXCEPT ![c] = p]

\* COMMIT or ROLLBACK: the locks go, and the caller gets r.
Finish(c, r) ==
    /\ Goto(c, "done")
    /\ lock' = [i \in Id |-> IF lock[i] = c THEN None ELSE lock[i]]
    /\ local' = [local EXCEPT ![c] = Nothing]
    /\ reply' = [reply EXCEPT ![c] = r]

\* The row policies of a call's scope.
Sight(c, i) == Stored(i) /\ row[i].fields.audience \in Sees[request[c].audience]

\* The entry of a session, if it is of the text the row has.
CurrentEntry(i) == IF entry[i] # NoEntry /\ entry[i].source = row[i].fields.text THEN entry[i] ELSE NoEntry

\* A first capture goes straight to the embedder; a refresh looks up its key.
Probe(c) ==
    /\ pc[c] = "start" /\ Op(c) \in {"create", "refresh"}
    /\ IF Op(c) = "refresh" /\ ~Sight(c, request[c].id)
       THEN Finish(c, Told("not found"))
       ELSE /\ local' = [local EXCEPT ![c].key = request[c].id,
                           ![c].known = IF Op(c) = "refresh" THEN CurrentEntry(request[c].id) ELSE NoEntry]
            /\ Goto(c, "embed")
            /\ UNCHANGED <<lock, reply>>
    /\ UNCHANGED <<tables, seen>>

\* Unchanged text under an unchanged contract is not embedded again; k is the
\* contract of the model that the embedding server has now.
Embed(c, k) ==
    /\ pc[c] = "embed"
    /\ LET unchanged == local[c].known = [contract |-> k, source |-> request[c].text] IN
       /\ local' = [local EXCEPT ![c].contract = k, ![c].index = ~unchanged]
       /\ Goto(c, IF unchanged THEN "recheck" ELSE "write")
    /\ UNCHANGED <<tables, lock, seen, reply>>

\* Seeded fault: a refresh that keeps its vectors trusts its probe.
TrustProbe(c) == TRUE

\* The vectors a refresh is about to keep are still those of its text.
StillCurrent(c) ==
    CurrentEntry(local[c].key) = [contract |-> local[c].contract, source |-> request[c].text]

\* SELECT ... FOR UPDATE: it decides on the row as it is when the lock is free.
Recheck(c) ==
    LET i == local[c].key IN
    /\ pc[c] = "recheck"
    /\ lock[i] = None
    /\ IF StillCurrent(c)
       THEN lock' = [lock EXCEPT ![i] = c] /\ Goto(c, "write") /\ UNCHANGED <<local, reply>>
       ELSE Finish(c, Told("conflict"))
    /\ UNCHANGED <<tables, seen>>

\* Keys nobody else has; the sequence does not give out the key of a failed
\* insert again, which makes no difference to who shares a key.
FreeKey(i) == ~Stored(i) /\ lock[i] = None

NewRow(c, status, vec) == [fields |-> NewFields(c, request[c], status), vec |-> vec]

Insert(c) ==
    /\ pc[c] = "write" /\ Op(c) = "create"
    /\ \E i \in Id :
         /\ FreeKey(i) /\ \A j \in Id : FreeKey(j) => i <= j
         /\ lock' = [lock EXCEPT ![i] = c]
         /\ local' = [local EXCEPT ![c].key = i,
              ![c].new = NewRow(c, FirstStatus(request[c]), request[c].text)]
    /\ Goto(c, "index")
    /\ UNCHANGED <<tables, seen, reply>>

\* Seeded fault: a capture without a status resets it.
ProbedStatus(c) == FirstStatus(request[c])

\* COALESCE: a status, or a vector, that is not given stays.
KeptStatus(c) ==
    IF request[c].status = None THEN row[local[c].key].fields.status ELSE request[c].status

\* The UPDATE waits for the row and sees its latest version, pins the audience,
\* and its trigger deletes the entry of a text that goes.
Update(c) ==
    LET i == local[c].key IN
    /\ pc[c] = "write" /\ Op(c) = "refresh"
    /\ lock[i] \in {None, c}
    /\ IF row[i].fields.audience # request[c].audience
       THEN Finish(c, Told("error"))
       ELSE /\ lock' = [lock EXCEPT ![i] = c]
            /\ local' = [local EXCEPT
                 ![c].new = NewRow(c, KeptStatus(c),
                                   IF local[c].index THEN request[c].text ELSE row[i].vec),
                 ![c].kept = IF row[i].fields.text = request[c].text THEN entry[i] ELSE NoEntry]
            /\ Goto(c, "index")
            /\ UNCHANGED reply
    /\ UNCHANGED <<tables, seen>>

\* putEmbeddingIndex, whose trigger refuses another generation than the active.
PutIndex(c) ==
    /\ pc[c] = "index"
    /\ IF local[c].index /\ local[c].contract # generation
       THEN Finish(c, Told("error"))
       ELSE /\ local' = [local EXCEPT ![c].kept =
                 IF local[c].index THEN [contract |-> local[c].contract, source |-> request[c].text] ELSE @]
            /\ Goto(c, "artifacts")
            /\ UNCHANGED <<lock, reply>>
    /\ UNCHANGED <<tables, seen>>

\* DELETE the artifacts that are committed now, INSERT the call's.
Reconcile(c) ==
    /\ pc[c] = "artifacts"
    /\ local' = [local EXCEPT ![c].gone = artifact[local[c].key]]
    /\ Goto(c, "commit")
    /\ UNCHANGED <<tables, lock, seen, reply>>

Commit(c) ==
    LET i == local[c].key IN
    /\ pc[c] = "commit"
    /\ row' = [row EXCEPT ![i] = local[c].new]
    /\ entry' = [entry EXCEPT ![i] = local[c].kept]
    /\ artifact' = [artifact EXCEPT ![i] = (@ \ local[c].gone) \cup {c}]
    /\ \E r \in {"done", "error"} : Finish(c, Told(r))
    /\ UNCHANGED <<request, generation, seen>>

\* updateSessionStatus is one statement, applied when it commits.
UpdateStatus(c) ==
    LET i == request[c].id IN
    /\ pc[c] = "start" /\ Op(c) = "status"
    /\ IF ~Sight(c, i)
       THEN Finish(c, Told("not found")) /\ UNCHANGED row
       ELSE /\ lock[i] = None
            /\ row' = [row EXCEPT ![i].fields.status = request[c].status]
            /\ \E r \in {"done", "error"} : Finish(c, Told(r))
    /\ UNCHANGED <<request, artifact, entry, generation, seen>>

-----------------------------------------------------------------------------
\* getSession: the row, then its artifacts, two snapshots of one transaction.
ReadRow(c, i) ==
    /\ seen' = [seen EXCEPT ![c] = [id |-> i, fields |-> row[i].fields]]
    /\ Goto(c, "read")
    /\ UNCHANGED <<tables, lock, local, reply>>

Get(c) ==
    /\ pc[c] = "start" /\ Op(c) = "get"
    /\ IF Sight(c, request[c].id)
       THEN ReadRow(c, request[c].id)
       ELSE Finish(c, Told("not found")) /\ UNCHANGED <<tables, seen>>

\* Which session of the branch is the freshest is left open.
OnBranch(c) == {i \in Id : Sight(c, i) /\ row[i].fields.branch = request[c].branch}

\* resumeSession picks a key in one transaction and reads it in another.
Pick(c) ==
    /\ pc[c] = "start" /\ Op(c) = "branch"
    /\ IF OnBranch(c) = {}
       THEN Finish(c, Told("not found"))
       ELSE /\ \E i \in OnBranch(c) : local' = [local EXCEPT ![c].key = i]
            /\ Goto(c, "picked")
            /\ UNCHANGED <<lock, reply>>
    /\ UNCHANGED <<tables, seen>>

GetPicked(c) == pc[c] = "picked" /\ ReadRow(c, local[c].key)

ReadArtifactRows(c) ==
    /\ pc[c] = "read"
    /\ Finish(c, Found(seen[c].fields, artifact[seen[c].id]))
    /\ UNCHANGED <<tables, seen>>

-----------------------------------------------------------------------------
\* A statement, a model or a connection fails: nothing of the call remains.
Fail(c) ==
    /\ pc[c] # "done"
    /\ Finish(c, Told("error"))
    /\ UNCHANGED <<tables, seen>>

\* backfillEmbeddingIndex: one entry, under the row's lock.
Reembed(i, k) ==
    /\ k > generation
    /\ Stored(i) /\ lock[i] = None
    /\ entry' = [entry EXCEPT ![i] = [contract |-> k, source |-> row[i].fields.text]]
    /\ UNCHANGED <<request, row, artifact, generation, lock, pc, local, seen, reply>>

\* The activation waits for the transactions that have written sessions.
Activate(k) ==
    /\ k > generation
    /\ \A c \in Call : pc[c] \notin {"index", "artifacts", "commit"}
    /\ \A i \in Id : Stored(i) => CurrentEntry(i) # NoEntry /\ entry[i].contract = k
    /\ generation' = k
    /\ UNCHANGED <<request, row, artifact, entry, lock, pc, local, seen, reply>>

Step(c) ==
    \/ Probe(c) \/ (\E k \in Contract : Embed(c, k)) \/ Recheck(c)
    \/ Insert(c) \/ Update(c) \/ PutIndex(c) \/ Reconcile(c) \/ Commit(c)
    \/ UpdateStatus(c)
    \/ Get(c) \/ Pick(c) \/ GetPicked(c) \/ ReadArtifactRows(c)

Quiescent == (\A c \in Call : pc[c] = "done") /\ UNCHANGED vars

Next ==
    \/ \E c \in Call : Step(c) \/ Fail(c)
    \/ \E k \in Contract : Activate(k) \/ \E i \in Id : Reembed(i, k)
    \/ Quiescent

Spec == Init /\ [][Next]_vars

-----------------------------------------------------------------------------
(* Every session can be found by what it says: both its vector and its      *)
(* index entry are of the text it has, also after a refresh that kept them *)
(* while another capture of the same session, or a backfill, was under     *)
(* way (upsertSession's re-check under FOR UPDATE; the triggers of db/15). *)
VectorsFollowText ==
    \A i \in Id : Stored(i) =>
        /\ row[i].vec = row[i].fields.text
        /\ CurrentEntry(i) # NoEntry

RecordOfTables ==
    [i \in Id |-> IF Stored(i) THEN [fields |-> row[i].fields, artifacts |-> artifact[i]] ELSE NoSession]

Ledger == INSTANCE SessionLedger WITH record <- RecordOfTables

(* SessionCapture implements SessionLedger: a capture replaces row and     *)
(* artifacts together and at once, keeps the latest status when it names   *)
(* none, is refused or fails without a trace, and a lookup never pairs a   *)
(* record with artifacts of an earlier capture.                            *)
CapturesAreAtomic == Ledger!LedgerSpec
=============================================================================
