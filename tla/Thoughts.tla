------------------------------ MODULE Thoughts ------------------------------
(***************************************************************************)
(* The rows the thought modules share: public.thoughts (the head of each   *)
(* thought), public.thought_revisions (its history), and the dedupe rule   *)
(* over heads.  Values and pure operators only.                            *)
(***************************************************************************)
EXTENDS Audience, Integers, FiniteSets

CONSTANTS
  Content,        \* thought texts
  Fingerprint,    \* canonical fingerprints
  FingerprintOf,  \* the fingerprint each text normalises to
  NoFp,           \* content_fingerprint IS NULL (a row of an old dump)
  Stub,           \* metadata left by a classifier that was not reached
  Id,             \* thought ids
  NoRow,          \* an id no row has yet
  NoIndex,        \* no row in thought_embedding_index
  Req,            \* calls, each made once
  InitialHeads,   \* the stores a deployment may start from
  Workload        \* the calls that clients and operators make

ASSUME ThoughtAssumption ==
  /\ FingerprintOf \in [Content -> Fingerprint]
  /\ NoFp \notin Fingerprint
  /\ Stub \notin Content
  /\ NoIndex \notin Content
  /\ None \notin Id \cup Req

\* metadata: the keys preserved from capture (here the capturing principal)
\* and the classifier's output, named by the text it classified.
Metadata == [stamp : Principal \cup {None}, extraction : Content \cup {Stub}]

Row == [content : Content, fp : Fingerprint \cup {NoFp}, audience : AudienceSet,
        forgotten : BOOLEAN, meta : Metadata]

ASSUME NoRowAssumption == NoRow \notin Row

Kind == {"content", "scope", "metadata", "forget", "restore"}

\* A revision snapshots the head as it was before change n; by is the call
\* that made the change, None for one older than every call.
Revision == [n : Nat, kind : Kind, content : Content, audience : AudienceSet,
             meta : Metadata, by : Req \cup {None}]

Live(x) == x # NoRow /\ ~x.forgotten

\* COALESCE(content_fingerprint, derived fingerprint).
EffectiveFp(x) == IF x.fp = NoFp THEN FingerprintOf[x.content] ELSE x.fp

\* Seeded fault: the probe compares stored fingerprints only.
StoredTwins(heads, id, audience, f) ==
  {t \in Id \ {id} : /\ Live(heads[t])
                     /\ heads[t].audience = audience
                     /\ heads[t].fp = f}

\* The dedupe probes of update_thought, move_thought and restore_thought: live
\* rows of one exact audience, other than the head itself, whose stored or
\* derived fingerprint is f.
Twins(heads, id, audience, f) ==
  {t \in Id \ {id} : /\ Live(heads[t])
                     /\ heads[t].audience = audience
                     /\ EffectiveFp(heads[t]) = f}

\* idx_thoughts_fingerprint: two entries of the partial unique index collide.
SameKey(x, y) ==
  /\ Live(x) /\ Live(y)
  /\ x.fp # NoFp
  /\ x.fp = y.fp
  /\ x.audience = y.audience

\* Live rows of one audience that hold the same text up to normalisation.
DuplicatePairs(heads) ==
  {p \in SUBSET Id : \E s, t \in p : /\ s # t /\ p = {s, t}
                                     /\ Live(heads[s]) /\ Live(heads[t])
                                     /\ heads[s].audience = heads[t].audience
                                     /\ EffectiveFp(heads[s]) = EffectiveFp(heads[t])}

\* COALESCE(max(revision), 0) + 1 over one thought's history.
NextRevision(history) ==
  IF history = {} THEN 1
  ELSE 1 + (CHOOSE m \in {v.n : v \in history} : \A v \in history : v.n <= m)

Snapshot(x, n, kind, r) ==
  [n |-> n, kind |-> kind, content |-> x.content, audience |-> x.audience,
   meta |-> x.meta, by |-> r]

\* A capture's new row.
Captured(content, audience, stamp, extraction) ==
  [content |-> content, fp |-> FingerprintOf[content], audience |-> audience,
   forgotten |-> FALSE, meta |-> [stamp |-> stamp, extraction |-> extraction]]

\* metadata := old || new: the capture's own keys win, and the text stays.
Merged(x, stamp, extraction) ==
  [x EXCEPT !.meta = [stamp |-> stamp, extraction |-> extraction]]

\* The head each mutation writes over the locked head x.
Edited(x, content, extraction) ==
  [x EXCEPT !.content = content, !.fp = FingerprintOf[content],
            !.meta = [stamp |-> x.meta.stamp, extraction |-> extraction]]

\* Seeded fault: a move that rewrites the visibility column alone.
MovedVisibility(x, audience) ==
  [x EXCEPT !.audience.visibility = audience.visibility, !.fp = EffectiveFp(x)]

Moved(x, audience) ==
  [x EXCEPT !.audience = audience, !.fp = EffectiveFp(x)]

Forgotten(x) == [x EXCEPT !.forgotten = TRUE]

Restored(x) == [x EXCEPT !.forgotten = FALSE, !.fp = EffectiveFp(x)]

Reclassified(x, extraction) ==
  [x EXCEPT !.meta = [stamp |-> x.meta.stamp, extraction |-> extraction]]

-----------------------------------------------------------------------------
\* Calls.  A field an operation does not take is None.

Operation == {"capture", "update", "move", "forget", "restore", "reclassify"}

Call == [op : Operation, scope : ScopeSet, id : Id \cup {None},
         content : Content \cup {None}, audience : AudienceSet \cup {None}]

\* A call's scope and target audience are the ones the server resolved for its
\* verified principal; a maintenance tool's scope is never consulted.
Resolved(c) ==
  /\ c.op = "capture" =>
       /\ c.content \in Content
       /\ \E input \in RequestSet :
            /\ ~WriteScopeRefused(input, c.scope.principal)
            /\ c.audience = WriteAudience(input, c.scope.principal)
            /\ c.scope = WriteScope(input, c.scope.principal)
  /\ c.op # "capture" => c.id \in Id
  /\ c.op \in {"update", "move", "forget", "restore"} =>
       c.scope \in ReadScopes(c.scope.principal)
  /\ c.op = "update" => c.content \in Content
  /\ c.op = "move" => c.audience \in WriteAudiences(c.scope.principal)

ASSUME WorkloadAssumption == Workload \subseteq {c \in Call : Resolved(c)}

Refusal == {"invisible", "unchanged", "conflict", "stale", "error"}

Applied == {"captured", "updated", "moved", "forgotten", "restored", "reclassified"}

Answer == {"pending"} \cup Refusal \cup Applied

-----------------------------------------------------------------------------
\* The stores an upgrade can leave behind: a stored fingerprint agrees with
\* its text, a classification describes its text, and no two entries of the
\* unique index collide.
PossibleHeads(heads) ==
  /\ heads \in [Id -> Row \cup {NoRow}]
  /\ \A i \in Id : heads[i] # NoRow =>
       /\ heads[i].fp \in {NoFp, FingerprintOf[heads[i].content]}
       /\ \/ heads[i].meta.extraction = Stub
          \/ FingerprintOf[heads[i].meta.extraction] = FingerprintOf[heads[i].content]
  /\ \A i, j \in Id : i # j => ~SameKey(heads[i], heads[j])

ASSUME InitialHeadsAssumption == \A heads \in InitialHeads : PossibleHeads(heads)

\* A row that starts forgotten has the revision that says so, and a row of an
\* old dump starts without an embedding index.
InitialHistory(x) ==
  IF x # NoRow /\ x.forgotten THEN {Snapshot(x, 1, "forget", None)} ELSE {}

InitialIndex(x) == IF x = NoRow \/ x.fp = NoFp THEN NoIndex ELSE x.content
=============================================================================
