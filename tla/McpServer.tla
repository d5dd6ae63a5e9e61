------------------------------ MODULE McpServer ------------------------------
(***************************************************************************)
(* One life of the server process (index.ts, auth.ts, auth_audit.ts): it   *)
(* boots behind its gates, admits or refuses requests by the credential    *)
(* tables while an operator changes them, writes one audit event per       *)
(* decision on the side, uses a pool for all of it while the database      *)
(* fails and returns, and drains before it exits.                          *)
(***************************************************************************)
EXTENDS Credentials, ConnectionPool

CONSTANTS
    Req,                      \* requests
    Main, Audit,              \* the two pools
    Worker,                   \* the notification worker
    TaskOf,                   \* TaskOf[r]: the audit task of r's decision
    MaxInFlight,              \* the cap of the audit queue
    Scenarios,                \* the settings, what the requests carry, and
                              \* the rows the tables begin with
    MaxDisturbances           \* bound: changes by an operator and outages

ASSUME ServerAssumption ==
    /\ Pool = {Main, Audit} /\ Main # Audit /\ IsFiniteSet(Req)
    /\ TaskOf \in [Req -> Borrower] /\ \A r, s \in Req : TaskOf[r] = TaskOf[s] => r = s
    /\ Req \cup {Worker} \subseteq Borrower /\ Worker \notin Req
    /\ \A r \in Req : TaskOf[r] \notin Req \cup {Worker} /\ Attempts[TaskOf[r]] = 1
    /\ Scenarios \subseteq [settings : Settings, request : [Req -> Request],
                          tokens : TokenTable, subjects : SubjectTable]
    /\ \A s \in Scenarios : HasDoor(s.settings)
    /\ MaxInFlight \in Nat \ {0} /\ MaxDisturbances \in Nat

VARIABLES
    settings, request,  \* fixed at the start
    phase,      \* of the process
    tokens, subjects,   \* the credential tables
    stage,      \* per request, where its handler is
    context,    \* per request, the identity the middleware has set
    reply,      \* per request, its answer
    pending,    \* per request, the event its audit task is to write
    event,      \* per request, the row of mcp_auth_events
    inFlight, dropped, lost,  \* the audit queue; lost: writes that failed
    verdict,    \* per request, what a lookup has found
    since,      \* per request, every identity that was live since it arrived
    changes, failures   \* how many of each so far

auditVars == <<pending, event, inFlight, dropped, lost>>
tables == <<tokens, subjects, changes>>
requestVars == <<stage, context, reply, verdict, since>>
vars == <<poolVars, settings, request, phase, tables, requestVars, auditVars, failures>>

Phases == {"boot", "serving", "draining", "stopping", "exited"}
Stages == {"new", "key", "bearer", "admitted", "service", "denied", "ready", "answered"}
Replies == {"none", "ok", "error", "refused", "unauthorized", "unavailable"}

\* What a lookup in the credential tables comes to.
Found(x) == [answer |-> "found", context |-> x]
Unread == [answer |-> "unread", context |-> NoContext]
Unavailable == [answer |-> "unavailable", context |-> NoContext]

Init ==
    /\ InitPool
    /\ \E s \in Scenarios : /\ settings = s.settings /\ request = s.request
                           /\ tokens = s.tokens /\ subjects = s.subjects
    /\ phase = "boot"
    /\ stage = [r \in Req |-> "new"]
    /\ context = [r \in Req |-> NoContext]
    /\ reply = [r \in Req |-> "none"]
    /\ pending = [r \in Req |-> NoEvent]
    /\ event = [r \in Req |-> NoEvent]
    /\ inFlight = 0 /\ dropped = 0 /\ lost = 0
    /\ verdict = [r \in Req |-> Unread]
    /\ since = [r \in Req |-> {}]
    /\ changes = 0 /\ failures = 0

-----------------------------------------------------------------------------
\* The gates: the eager pool connects and the schema is probed while the JWKS
\* is fetched, then the embedding index and the admission table are read; a
\* failure exits, and the supervisor starts another process.
Boot ==
    /\ phase = "boot"
    /\ up
    /\ phase' = "serving"
    /\ conn' = [k \in Client |-> IF PoolOf[k] = Main THEN Fresh ELSE conn[k]]
    /\ UNCHANGED <<up, idle, queue, at, hand, tries, settings, request, tables, requestVars, auditVars, failures>>

\* SIGTERM: the listener closes and requests in flight are waited for, then
\* the worker is stopped and waited for, then the pool ends.
Signal ==
    /\ phase = "serving"
    /\ phase' = "draining"
    /\ UNCHANGED <<poolVars, settings, request, tables, requestVars, auditVars, failures>>

\* Seeded fault: nobody waits for the requests.
Unwaited == TRUE
Drained == \A r \in Req : stage[r] \in {"new", "answered"}

StopWorker ==
    /\ phase = "draining" /\ Drained
    /\ phase' = "stopping"
    /\ UNCHANGED <<poolVars, settings, request, tables, requestVars, auditVars, failures>>

Exit ==
    /\ phase = "stopping" /\ at[Worker] = "out"
    /\ phase' = "exited"
    /\ UNCHANGED <<poolVars, settings, request, tables, requestVars, auditVars, failures>>

Running == phase \in {"serving", "draining", "stopping"}

\* One cycle of the worker is one use of the pool here.
StartCycle ==
    /\ settings.notify /\ phase \in {"serving", "draining"} /\ at[Worker] = "out"
    /\ Borrowing(Worker)
    /\ UNCHANGED <<up, conn, idle, queue, hand, settings, request, phase, tables, requestVars, auditVars, failures>>

Cycle ==
    /\ Running
    /\ Getting(Worker, Main) \/ Ask(Worker) \/ Unserved(Worker)
    /\ UNCHANGED <<settings, request, phase, tables, requestVars, auditVars, failures>>

-----------------------------------------------------------------------------
\* enqueue: beyond the cap an event is dropped and counted, never queued.
Enqueue(r, row) ==
    IF ~settings.audit THEN UNCHANGED <<auditVars, at, tries>>
    ELSE IF inFlight >= MaxInFlight
    THEN dropped' = dropped + 1 /\ UNCHANGED <<pending, event, inFlight, lost, at, tries>>
    ELSE /\ inFlight' = inFlight + 1
         /\ pending' = [pending EXCEPT ![r] = row]
         /\ Borrowing(TaskOf[r])
         /\ UNCHANGED <<event, dropped, lost>>

\* The middleware sets who the request is, records it, and lets it go on.
Admit(r, x) ==
    /\ context' = [context EXCEPT ![r] = x]
    /\ stage' = [stage EXCEPT ![r] = "admitted"]
    /\ Enqueue(r, Allowed(x))
    /\ UNCHANGED reply

Refuse(r, reason, subject) ==
    /\ stage' = [stage EXCEPT ![r] = "denied"]
    /\ Enqueue(r, Denied(reason, subject))
    /\ UNCHANGED <<context, reply>>

Reply(r, a) ==
    /\ stage' = [stage EXCEPT ![r] = "answered"]
    /\ reply' = [reply EXCEPT ![r] = a]

Unchanged(r) == UNCHANGED <<settings, request, phase, tables, since, failures>>
IdlePool == UNCHANGED <<up, conn, idle, queue, hand>>

KeyTried(r) ==
    (settings.static \/ settings.native) /\ KeyOf(settings, request[r]) # "none"
BearerTried(r) == settings.oauth /\ request[r].bearer # "none"

Arrive(r) ==
    /\ phase = "serving" /\ stage[r] = "new"
    /\ stage' = [stage EXCEPT ![r] = IF request[r].path = "ready" THEN "ready" ELSE "key"]
    /\ since' = [since EXCEPT ![r] = LiveContexts(tokens, subjects)]
    /\ IF request[r].path = "ready" THEN Borrowing(r) ELSE UNCHANGED <<at, tries>>
    /\ UNCHANGED <<up, conn, idle, queue, hand, settings, request, phase, tables,
                   context, reply, verdict, auditVars, failures>>

\* The key first: the static one is compared in memory, a token is looked up,
\* and whatever is not admitted goes on to the bearer token.
CheckKey(r) ==
    LET key == KeyOf(settings, request[r]) IN
    /\ stage[r] = "key" /\ at[r] = "out" /\ verdict[r] = Unread
    /\ IF settings.static /\ key = "static" THEN Admit(r, StaticContext)
       ELSE IF settings.native /\ key \in Token
       THEN Borrowing(r) /\ UNCHANGED <<stage, context, reply, auditVars>>
       ELSE /\ stage' = [stage EXCEPT ![r] = "bearer"]
            /\ UNCHANGED <<at, tries, context, reply, auditVars>>
    /\ IdlePool /\ Unchanged(r) /\ UNCHANGED verdict

\* SELECT ... WHERE prefix = $1, and the connection goes back.
Read(r, answer) ==
    /\ \/ Ask(r) /\ verdict' = [verdict EXCEPT ![r] = answer]
       \/ Unserved(r) /\ verdict' = [verdict EXCEPT ![r] = Unavailable]
    /\ Unchanged(r) /\ UNCHANGED <<stage, context, reply, auditVars>>

ReadToken(r) ==
    LET t == request[r].key IN
    /\ stage[r] = "key"
    /\ Read(r, Found(IF TokenAdmitted(tokens, t) THEN TokenContext(t) ELSE NoContext))

DecideKey(r) ==
    /\ stage[r] = "key" /\ verdict[r] # Unread
    /\ verdict' = [verdict EXCEPT ![r] = Unread]
    /\ IF verdict[r].context # NoContext
       THEN Admit(r, verdict[r].context)
       ELSE /\ stage' = [stage EXCEPT ![r] = "bearer"]
            /\ UNCHANGED <<at, tries, context, reply, auditVars>>
    /\ IdlePool /\ Unchanged(r)

\* jwtVerify: signature, issuer, audience, expiry; it may fail for a good
\* token too, when the keys cannot be fetched.
VerifyBearer(r) ==
    /\ stage[r] = "bearer" /\ at[r] = "out" /\ verdict[r] = Unread
    /\ \/ /\ BearerTried(r) /\ request[r].bearer \in Subject
          /\ Borrowing(r) /\ UNCHANGED <<stage, context, reply, auditVars>>
       \/ Refuse(r, Reason(KeyTried(r), BearerTried(r), FALSE, FALSE), Nobody)
    /\ IdlePool /\ Unchanged(r) /\ UNCHANGED verdict

ReadSubject(r) ==
    LET s == request[r].bearer IN
    /\ stage[r] = "bearer"
    /\ Read(r, Found(IF SubjectAdmitted(subjects, s)
                     THEN SubjectContext(s, subjects[s].kind, request[r].machine) ELSE NoContext))

DecideBearer(r) ==
    /\ stage[r] = "bearer" /\ verdict[r] # Unread
    /\ verdict' = [verdict EXCEPT ![r] = Unread]
    /\ IF verdict[r] = Unavailable
       THEN Refuse(r, Reason(KeyTried(r), TRUE, FALSE, TRUE), Nobody)
       ELSE IF verdict[r].context = NoContext
       THEN Refuse(r, Reason(KeyTried(r), TRUE, TRUE, FALSE), request[r].bearer)
       ELSE Admit(r, verdict[r].context)
    /\ IdlePool /\ Unchanged(r)

\* The 401, after a bounded look for the id in the body.
Unauthorized(r) ==
    /\ stage[r] = "denied"
    /\ Reply(r, "unauthorized")
    /\ IdlePool /\ Unchanged(r) /\ UNCHANGED <<at, tries, context, verdict, auditVars>>

\* A body beyond the limit, or a context that is none, is refused here.
Handle(r) ==
    /\ stage[r] = "admitted"
    /\ \/ Reply(r, "refused") /\ UNCHANGED <<at, tries>>
       \/ /\ SoundContext(context[r])
          /\ stage' = [stage EXCEPT ![r] = "service"]
          /\ Borrowing(r) /\ UNCHANGED reply
    /\ IdlePool /\ Unchanged(r) /\ UNCHANGED <<context, verdict, auditVars>>

\* The service, and pingDb of the readiness probe, by their use of the pool.
Serve(r) ==
    /\ stage[r] \in {"service", "ready"}
    /\ \/ Ask(r) /\ Reply(r, "ok")
       \/ Unserved(r) /\ Reply(r, IF stage[r] = "ready" THEN "unavailable" ELSE "error")
    /\ Unchanged(r) /\ UNCHANGED <<context, verdict, auditVars>>

Get(r) ==
    /\ Getting(r, Main)
    /\ Unchanged(r) /\ UNCHANGED <<requestVars, auditVars>>

RequestStep(r) ==
    /\ Running
    /\ \/ Get(r) \/ CheckKey(r) \/ ReadToken(r) \/ DecideKey(r)
       \/ VerifyBearer(r) \/ ReadSubject(r) \/ DecideBearer(r)
       \/ Unauthorized(r) \/ Handle(r) \/ Serve(r)

-----------------------------------------------------------------------------
\* Seeded fault: a finished write keeps its place in the queue.
KeepPlace == inFlight' = inFlight
LeaveQueue == inFlight' = inFlight - 1   \* in a finally

\* doInsert, with a single attempt; it never speaks to the request again.  An
\* INSERT whose answer is lost may have been applied.
Written(r) == event' = [event EXCEPT ![r] = pending[r]]

AuditStep(r) ==
    LET p == TaskOf[r] IN
    /\ Running
    /\ \/ Getting(p, Audit) /\ UNCHANGED auditVars
       \/ /\ Ask(p) /\ Written(r) /\ LeaveQueue /\ UNCHANGED lost
          /\ pending' = [pending EXCEPT ![r] = NoEvent] /\ UNCHANGED dropped
       \/ /\ Unserved(p) /\ LeaveQueue /\ lost' = lost + 1
          /\ (at[p] = "held" /\ Written(r)) \/ UNCHANGED event
          /\ pending' = [pending EXCEPT ![r] = NoEvent] /\ UNCHANGED dropped
    /\ UNCHANGED <<settings, request, phase, tables, requestVars, failures>>

\* The operator's tools, each one statement of its own transaction.
Change(newTokens, newSubjects) ==
    /\ changes + failures < MaxDisturbances /\ up
    /\ tokens' = newTokens /\ subjects' = newSubjects
    /\ <<tokens, subjects>>' # <<tokens, subjects>>
    /\ changes' = changes + 1
    /\ since' = [r \in Req |-> IF stage[r] = "new" THEN {} ELSE since[r] \cup LiveContexts(newTokens, newSubjects)]
    /\ UNCHANGED <<poolVars, settings, request, phase, stage, context, reply, verdict, auditVars, failures>>

TokenAdmin ==
    \E t \in Token : Change(CreateToken(tokens, t), subjects) \/ Change(RevokeToken(tokens, t), subjects)

SubjectAdmin ==
    \/ \E s \in Subject :
         \/ \E kind \in Kinds : Change(tokens, AllowSubject(subjects, s, kind))
         \/ Change(tokens, RevokeSubject(subjects, s))
    \/ \E services \in SUBSET Subject : Change(tokens, ImportSubjects(subjects, Subject, services))

Outage ==
    /\ \/ changes + failures < MaxDisturbances /\ DatabaseFails /\ failures' = failures + 1
       \/ DatabaseReturns /\ UNCHANGED failures
    /\ UNCHANGED <<settings, request, phase, tables, requestVars, auditVars>>

Next ==
    \/ Boot \/ Signal \/ StopWorker \/ Exit
    \/ StartCycle \/ Cycle
    \/ \E r \in Req : Arrive(r) \/ RequestStep(r) \/ AuditStep(r)
    \/ TokenAdmin \/ SubjectAdmin \/ Outage

\* The runtime runs every task that can; it owes nobody a database.
Fairness ==
    /\ \A r \in Req : WF_vars(RequestStep(r)) /\ WF_vars(AuditStep(r))
    /\ WF_vars(Cycle) /\ WF_vars(StopWorker) /\ WF_vars(Exit)

Spec == Init /\ [][Next]_vars /\ Fairness

-----------------------------------------------------------------------------
Decided(r) ==
    \/ stage[r] \in {"admitted", "service", "denied"}
    \/ stage[r] = "answered" /\ request[r].path = "mcp"

(* Whoever is let in was entitled to it at some moment since the request   *)
(* arrived, as exactly the identity it carries, and came by the route its  *)
(* key is for; in particular a credential revoked before a request is not  *)
(* honoured (createRequireAuth, authenticateAccessToken,                   *)
(* lookupOAuthSubject).                                                    *)
AdmissionsAreEarned ==
    \A r \in Req : context[r] # NoContext =>
        /\ \/ context[r] = StaticContext /\ settings.static /\ request[r].key = "static"
           \/ context[r] \in since[r] /\ context[r].label = request[r].key
           \/ context[r] \in since[r] /\ context[r].sub = request[r].bearer
        /\ (context[r].door = "tailnet" /\ settings.marker) => request[r].tailnet

Decision(r) ==
    IF context[r] # NoContext THEN {Allowed(context[r])}
    ELSE {Denied(reason, s) : reason \in Reasons, s \in {Nobody, request[r].bearer}}

(* The audit tells the truth and its queue stays bounded: a written event  *)
(* is of a request that was so decided and names nobody but its verified   *)
(* identity; every decision is written, under way, dropped or lost, none   *)
(* twice, and exactly the tasks under way count against the cap (enqueue,  *)
(* doInsert).                                                              *)
AuditTellsTheDecision ==
    /\ \A r \in Req : event[r] # NoEvent =>
         /\ Decided(r) /\ event[r] \in Decision(r)
         /\ (event[r].reason = "subject_not_allowed") <=> (event[r].subject # Nobody /\ event[r].outcome = "denied")
    /\ inFlight = Cardinality({r \in Req : pending[r] # NoEvent}) /\ inFlight <= MaxInFlight
    /\ settings.audit =>
         LET decided == Cardinality({r \in Req : Decided(r)})
             left == inFlight + dropped + lost
         IN  left <= decided /\ decided <= left + Cardinality({r \in Req : event[r] # NoEvent})

(* Every request that was accepted is answered, by an error at worst: an   *)
(* outage costs no slot of a pool, nobody waits for one forever, and the   *)
(* process does not exit under a request (DeferredAccessStack.pop,         *)
(* getClient, shutdown).                                                   *)
EveryRequestIsAnswered == \A r \in Req : stage[r] # "new" ~> stage[r] = "answered"
=============================================================================
