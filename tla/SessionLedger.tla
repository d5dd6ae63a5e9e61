--------------------------- MODULE SessionLedger ---------------------------
(***************************************************************************)
(* What the session tools promise.  A session is a record with artifacts;  *)
(* a capture creates one or replaces all of it, except that a status it    *)
(* does not name stays as it is; a status change touches nothing else; and *)
(* each takes effect at one instant.  A lookup reads the record, then the  *)
(* artifacts: the latter may be of a later capture, never of an earlier.   *)
(***************************************************************************)
EXTENDS Sessions

VARIABLES
    request,  \* what each call asks for
    record,   \* per key: the session, or NoSession
    seen,     \* per call: the key and fields it has read, or NoSession
    reply     \* per call: its answer, Unanswered until it is answered

ledger == <<request, record, seen, reply>>

Answer(c, r) == reply[c] = Unanswered /\ reply' = [reply EXCEPT ![c] = r]
\* The answer to a change may be lost on the way.
Done(c) == Answer(c, Told("done")) \/ Answer(c, Told("error"))

Exists(i) == record[i] # NoSession
Visible(c, i) == Exists(i) /\ record[i].fields.audience \in Sees[request[c].audience]

Captured(c, status) == [fields |-> NewFields(c, request[c], status), artifacts |-> {c}]

Create(c, i) ==
    /\ request[c].op = "create" /\ ~Exists(i)
    /\ record' = [record EXCEPT ![i] = Captured(c, FirstStatus(request[c]))]
    /\ Done(c)
    /\ UNCHANGED <<request, seen>>

Refresh(c) ==
    LET i == request[c].id IN
    /\ request[c].op = "refresh" /\ Exists(i)
    /\ record[i].fields.audience = request[c].audience
    /\ record' = [record EXCEPT ![i] =
         Captured(c, IF request[c].status = None THEN @.fields.status ELSE request[c].status)]
    /\ Done(c)
    /\ UNCHANGED <<request, seen>>

SetStatus(c) ==
    /\ request[c].op = "status" /\ Visible(c, request[c].id)
    /\ record' = [record EXCEPT ![request[c].id].fields.status = request[c].status]
    /\ Done(c)
    /\ UNCHANGED <<request, seen>>

ReadFields(c, i) ==
    /\ request[c].op = "get" => i = request[c].id
    /\ request[c].op \in {"get", "branch"} /\ Visible(c, i)
    /\ seen[c] = NoSession /\ reply[c] = Unanswered
    /\ seen' = [seen EXCEPT ![c] = [id |-> i, fields |-> record[i].fields]]
    /\ UNCHANGED <<request, record, reply>>

\* The artifacts answered are those the session has now.
ReadArtifacts(c) ==
    /\ seen[c] # NoSession
    /\ Answer(c, Found(seen[c].fields, record[seen[c].id].artifacts))
    /\ UNCHANGED <<request, record, seen>>

\* Nothing the call may see has the key, or none is on the branch; a key that
\* was picked for its branch cannot vanish again.
NotFound(c) ==
    /\ CASE request[c].op = "create" -> FALSE
         [] request[c].op = "branch" ->
              ~\E i \in Id : Visible(c, i) /\ record[i].fields.branch = request[c].branch
         [] OTHER -> ~Visible(c, request[c].id)
    /\ Answer(c, Told("not found"))
    /\ UNCHANGED <<request, record, seen>>

\* The session changed while a refresh that keeps its vectors was under way.
Conflict(c) ==
    /\ request[c].op = "refresh" /\ Exists(request[c].id)
    /\ Answer(c, Told("conflict"))
    /\ UNCHANGED <<request, record, seen>>

Failed(c) == Answer(c, Told("error")) /\ UNCHANGED <<request, record, seen>>

LedgerNext ==
    \E c \in Call :
      \/ \E i \in Id : Create(c, i) \/ ReadFields(c, i)
      \/ ReadArtifacts(c) \/ Refresh(c) \/ SetStatus(c)
      \/ NotFound(c) \/ Conflict(c) \/ Failed(c)

LedgerInit ==
    /\ request \in [Call -> Request]
    /\ record \in [Id -> Record \cup {NoSession}]
    /\ seen = [c \in Call |-> NoSession]
    /\ reply = [c \in Call |-> Unanswered]

LedgerSpec == LedgerInit /\ [][LedgerNext]_ledger
=============================================================================
