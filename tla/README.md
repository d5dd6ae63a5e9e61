# Verification of ob1-selfhosted

TLA+ models of the self-hosted Open Brain: a memory server (TypeScript on Deno)
over PostgreSQL. This directory holds the models, the TLC configurations that
check them on small instances, and TLAPS proofs of what matters most for every
instance. Paths in comments and below are relative to `src/`.

- [The system](#the-system): components, state, hard behaviours
- [Modules](#modules): which module models what, and how
- [Runs](#runs): what TLC checks, bounds, fairness
- [Proofs](#proofs): what is proved, from what, how
- [Findings](#findings)
- [Plan](#plan) and [what is not modelled](#what-is-not-modelled)

## The system

One or more server processes (`server/index.ts`) serve MCP and HTTP calls against
one PostgreSQL database; maintenance tools run beside them; a separate process
ingests the web server's access logs. All shared state is in PostgreSQL, except
for the log cursors, which are files, and the embedding server, which can be upgraded
without anybody being told.

| Component | State | Operations | What makes it hard | What makes it correct |
|---|---|---|---|---|
| Scope and audiences (`scope.ts`, `scoped_db.ts`, `db/06`) | workspace and project registry; an audience per row; scope settings of one transaction | resolve a read or write scope; row policies compare it with rows | every statement and definer function must use the same predicate | a change is made only to a row its caller may see at that moment |
| Thought store (`services.ts`, `queries.ts`, `db/10`, `db/15`-`17`, `metadata_reclassify.ts`) | heads (`thoughts`), history (`thought_revisions`), embedding index, row locks | capture, update, move, forget, restore, reclassify | model calls outside the transaction; READ COMMITTED; a partial unique index that old rows escape; collision probes; savepoints; commits whose answer is lost | each call is atomic; histories replay; vectors and classifications belong to the stored text; no duplicates are made |
| Degradation notifications (`metadata.ts`, `metadata_notifications.ts`, `db/07`) | event table, outbox, ledger row | record events with a capture; a worker per process polls, claims, sends, settles | several processes; ids visible out of order; a send inside a transaction that may not commit; stale clock samples | at least once, exact counts, no needless repeats, spaced rollups |
| Access log ingester (`log_ingester.ts`, `db/log-sink`) | log files, cursor files, `funnel_access_log` | tick: read cursor, stat and read, insert rows, write cursor | rotation, truncation and appends between any two steps; partial lines; crash between insert and cursor write; torn cursor files | no line passed over or cut, no holes, no repeats without failures |
| Embedding generations (`embedding_*.ts`, `services.ts`, `db/15`) | one row of generation state; an index entry per thought and session; a cached verdict about the embedding server | embed for a call, search, start, backfill, rebuild, activate, relabel | the embedding server changes between two passages, or under an unchanged contract; transactions open across an activation; a search of several statements | a vector was made by the model its contract names; the active generation stays complete; a search ranks one generation |
| Sessions (`session_queries.ts`, `services.ts`, `db/04`, `db/15`) | keyed session rows, artifacts, index entries | create, refresh, change the status, look up by key or branch | a refresh that keeps its vectors decides on a probe; a capture in three statements under readers in two | a capture replaces a session at once; vectors follow the text |
| Session documents (`session_toml.ts`, `temporal.ts`) | none | scan a TOML source beside its parser; read strictly; hash | two lexers of one language; calendar and time zones; large integers | what is stored is what was written, or the document is refused |
| Database pool (`db_pool.ts`, `postgres_deferred_patched.ts`) | stacks of clients, queues of borrowers | borrow with validation, evict, retry, release | clients that died while idle; a hand-over to a waiting borrower; two pools | no slot leaks, nobody waits for ever |
| Authentication and audit (`auth.ts`, `access_tokens.ts`, `oauth_subjects.ts`, `auth_audit.ts`, `db/08`, `12`-`14`) | tokens, subjects, audit events, a bounded queue of writes | admit or refuse a request; create, allow, revoke, import; record an event | a revocation between lookup and use; two credentials in one request; a full queue; an outage at any moment | whoever is admitted was entitled to it; every decision is written, under way or counted |
| Server process (`index.ts`, `readiness.ts`) | its phase | boot behind gates, serve, drain, stop the worker, exit | a signal under requests, audit writes and a worker that all share the pools | every accepted request is answered |
| Schema and boot gates (`db/*.sql`, `db_boot_probe.ts`, `embedding_startup.ts`, `auth.ts`) | catalogue, grants, rows of older releases | migrate, replay, probe, refuse with advice | a gate of seven queries beside an operator who migrates; replays over newer data; a supervisor that restarts | a server serves only on a whole catalogue; advice leads to a serving server |
| Search and lists (`queries.ts`, `session_queries.ts`, `db/05`, `db/17`) | none | two legs and their fusion; approximate search with an exact retry; lists | ties, depths, filters that exclude, a bounded scan | what an audience's list shows can be found; nothing is silently missing |
| Surfaces (`mcp-server.ts`, `api.ts`, `schemas.ts`, `mcp_result.ts`) | none | the same services as MCP tools and as REST routes; answers cut to a budget | two tables of rules for one set of calls; text cut inside a surrogate pair | the transports agree; a cut answer says what it left out |
| Configuration and model servers (`config.ts`, `env.ts`, `bounded_fetch.ts`, `metadata.ts`, `embeddings.ts`) | none | read settings; one bounded exchange; primary, fallback, stub | "set but blank"; an answer that arrives while its deadline fires; degraded modes | the operator's choice of doors and classifiers holds; nothing late, cut or malformed is used |
| Deployment files and scripts | none | static checks of compose and environment files, of grants | - | - |

Interactions: a request passes the middleware, resolves a scope, works on the store
through a pooled connection, asks the embedder and the classifier between
transactions, and records degradation events in the capture's own transaction (the
outbox); its audit event is written on the side, from a pool of its own. The
notification workers, the operator tools (backfill, relabel, reclassification, token
and subject administration) and the migrations meet the calls only in the database,
through row locks, table locks and unique keys. The ingester shares nothing with the
rest but the pool code.

The hazards, each at its line with the properties that would catch it, are listed
in `PROJECT.json`.

## Modules

| Module | Models | Kind |
|---|---|---|
| `Audience` | scope resolution, audience predicate, audience shape | pure operators |
| `Thoughts` | rows, revisions, keys, what each operation makes of a row | pure operators |
| `ThoughtLedger` | what the store promises: every call takes effect at once | abstract specification |
| `ThoughtStore` | the store, statement by statement | detailed specification |
| `ThoughtStoreProofs` | invariants; implementation of the ledger | proofs |
| `DegradationReports` | what operators are promised about alerts | abstract specification |
| `NotificationOutbox` | captures' events, ledger, workers, channels, clock | detailed specification |
| `NotificationProofs` | invariants; implementation of the promise | proofs |
| `LogIngester` | the ingester, its cursors, the web server's log files | specification |
| `IngesterProofs` | invariants | proofs |
| `EmbeddingGeneration` | embedding under a server that changes, generations, the tools that move between them | specification |
| `GenerationProofs` | invariants | proofs |
| `Sessions` | what a session is, what calls ask | pure operators |
| `SessionLedger` | what the session tools promise | abstract specification |
| `SessionCapture` | the session tools, statement by statement | detailed specification |
| `SessionProofs` | invariants; implementation of the ledger | proofs |
| `Credentials` | credential tables, identities, reasons, audit rows | pure operators |
| `ConnectionPool` | the pools and `getClient`, under outages | actions of a borrower |
| `McpServer` | a server process: the middleware, the audit queue, the drain; composes the two above | specification |
| `ServerProofs` | invariants of the three above | proofs |
| `SchemaUpgrade` | migrations, boot gates, supervisor, operator | specification |
| `UpgradeProofs` | invariants | proofs |
| `BoundaryProofs` | invariants of the boundary, and its statements for all inputs | proofs |
| `SessionDocument` | the scan of a TOML source beside the parser's grammar | specification |
| `SessionFields` | what the parsed document becomes | pure operators |
| `Orders` | what sorting and filtering return, for `Search` and `ToolResults` | pure operators |
| `ToolResults` | answers cut to a budget | pure operators |
| `Search` | fusion, approximate search, lists | pure operators |
| `Settings` | doors and classifiers of an environment | pure operators |
| `Outbound` | one exchange with a model server, embedder, classifier | pure operators |
| `Surfaces` | the MCP tools and the REST routes; extends `Audience`, `SessionFields` | pure operators |
| `MC...` | small instances: `MCThoughtStore`, `MCLogIngester`, `MCEmbeddingGeneration`, `MCSessionCapture`, `MCMcpServer`, `MCBoundary` | for TLC |

`PROJECT.json` maps every definition to the lines it stands for. A definition whose
comment begins with "Seeded fault" or "A plausible slip" belongs to no specification:
it is a plausible mistake next to the definition it would replace, kept to show that a
property notices it.

### ThoughtStore

One step is one statement, or one read or model call outside a transaction, so
calls (`Req`) interleave between statements as they do under READ COMMITTED.

- `row`, `revs`, `index` are the committed tables. What a transaction has written
  and not committed is in its caller's `local` until `Commit`, so nobody reads it.
- `lock` is the `FOR UPDATE` lock (or the lock of an `ON CONFLICT` target). A
  locking read decides on the row as it is when the lock is free: READ COMMITTED
  evaluates the WHERE clause again after the wait. A row that does not qualify is
  not waited for.
- A unique index makes a writer wait for another transaction that wrote, or is
  giving up, the same key (`Busy`). Its outcome decides between `written` and
  `violated`. The latter is the savepoint of `db/17` and `queries.ts`: the violation
  is rolled back and the competitor looked for again (`Reprobe`); if it is gone the
  call ends in an error.
- The probes before an update and before a capture (`ProbeUnchanged`,
  `CaptureSource`) and the candidate read of the reclassification run before the
  model calls; what they read may be stale when the transaction begins.
- `Commit` applies head, revision and index together; its acknowledgement may be
  lost, so the caller may be told "error" of a change that was made. `Fail` ends a
  call before its commit anywhere: statement error, model error, lost connection.
- The triggers of `db/15` are part of the step whose statement fires them:
  `SourceMatches` (vectors must be those of the text stored), `NewIndex` (the index
  of a changed text goes).
- A text is a model value with a fingerprint; two spellings share one. Rows may
  start without a stored fingerprint, as rows restored from old dumps do; for those
  the code derives it (`EffectiveFp`). Of the metadata, the stamp of the writer and
  the text the classification was made of are kept.

`ThoughtLedger` has one action per operation: guard, effect and answer in one
step, and refusals that must be true when given. `Serializable` says that
`ThoughtStore` implements it, variables by the same names.

### NotificationOutbox

`RecordEvents` takes ids from the sequence when a capture inserts its events;
`CommitCapture` makes them visible, possibly after later ids. `extractMetadata` is
`Degradations`: the events of each outcome for each configuration of classifiers;
all causes of a primary failure are one event. A cycle is `Poll`, `LockLedger`
(SKIP LOCKED: another holder ends it), `Claim` (lowest ids, count, decide),
`Send` (all channels at once; each may receive and not acknowledge), `Settle`
(ledger and deletions commit). `Die` rolls a cycle back at any point, a lost send or
commit acknowledgement included.

Time: `Tick` is one unit. The code samples the clock before it borrows a
connection, so a cycle knows the time with a `lag`; `age` is the time since
`last_notified_at`, saturating where no comparison can tell it from more, which is
also where a ledger that never notified starts. `counted`, `told`, `quiet` and
`trouble` are history variables: no action's guard reads them, except that
`trouble` caps failures. `last_delivery_attempt_at` and `last_failed_channels` are
written and never read by the code, and left out. A missing ledger row, which
makes a cycle throw, is not modelled: the schema inserts it.

### LogIngester

A file is the sequence of offsets just past its newlines (`ends`) with a size and an
identity; bytes are counted, not modelled. `gen` numbers the files a log has had; the
code has no such number, and `cursor[g].gen` only records where an offset came
from, for the properties. The web server may append (with or without finishing a
line), rename, create, truncate between any two steps. The process reads the
cursor (`Load`), stats and reads (`ReadNewLines(n)`, any `n` up to what is there: a
short read, or growth after the stat), inserts line by line (`InsertLine`), and
writes the cursor (`Save`). Lines that do not parse, also the rest of a line cut by a
misplaced offset, are dropped from the batch at the read; the code drops them one by
one without touching any state. An insert may fail, or fail after it committed;
`Die` is the death of the process or an exception that ends a tick, and may leave a
cursor file cut short, which reads as fresh. `Refused` logs stand for a permanent
failure of all rows of one log.

What the code cannot tell apart: a replacement of the same identity (or behind a
legacy cursor without one) that has already grown to the cursor or past it. The code
says so of legacy cursors (`log_ingester.ts`, "one-time upgrade gap"); a reused inode
and an in-place truncation are the same case. The model notes it (`twin`) and
`CursorIsSound`, `NoHoles` and `EveryLineIsIngested` exempt that log from then on;
lines are then passed over.

### EmbeddingGeneration

A build is a state of the embedding server: model digest, runtime version, whether it
answers the canaries, and the space of its vectors. `Swap` replaces the build between any
two steps. A contract names the digest (server 1.28 named the runtime too). Every job
(`set` is a capture or update, `again` a capture of a text a record holds, `search`, `boot`,
`backfill`, `rebuild`, `relabel`) goes through `embeddingContract`: `Begin`/`Identify`
reads the identity; if the process has not validated this build, `Confirm` is the canaries
and the second reading, `StartOver` the one retry. The verdict is cached for the life of
the process (`validated`, lost in `Crash`; a tool has its own). `Embed` is one passage; the
contract is read again before anything is written.

An application transaction is `Write` (statements, trigger checks) and `Commit`, because
an activation's `LOCK TABLE ... IN SHARE MODE` must wait for exactly that window
(`ShareLockFree`, `ShareLockHeld`). A search is `PassGate` and `Retrieve` in one REPEATABLE
READ transaction: both see the snapshot `snap`. The tool scans in keyset order, puts one entry
per transaction under the row's lock, and activates if nothing is missing. `GiveUp` ends
any job at any step. `sealed` is a history variable: no entry was rewritten for another
contract since the last activation.

### SessionCapture

`Probe`, `Embed`, `Recheck` (`FOR UPDATE`, only of a refresh that keeps its vectors), `Insert` or
`Update` (waits for the row, pins the audience, keeps a status or a vector that is not
given, and its trigger deletes the entry of a text that goes), `PutIndex` (refused under
another generation), `Reconcile` (the artifacts committed at that moment go), `Commit`
(acknowledged or not). A status change is one statement. A lookup reads the row and then
the artifacts, two snapshots (`ReadRow`, `ReadArtifactRows`); by branch it first picks a key.
`Reembed` and `Activate` are the backfill beside them. `CapturesAreAtomic` says that this
implements `SessionLedger`, where a capture is one step and a lookup may be newer in its
artifacts than in its record, never older.

### McpServer

`ConnectionPool` has the two halves of the patched `pop` (`Pop`, `Initialize`), `push` with its
hand-over to the first who waits (`Push`), the validation of `getClient` with eviction and
retries (`Probe`), and use and release (`Ask`, `AskInVain`). A client does not notice an outage:
what the driver believes (`connected`, `terminated`) is apart from the truth (`live`).
`McpServer` adds the requests (`Arrive`, `CheckKey`, `ReadToken`, `DecideKey`, `VerifyBearer`,
`ReadSubject`, `DecideBearer`, `Unauthorized`, `Handle`, `Serve`), the audit task of each decision
(`Enqueue`, `AuditStep`), the worker (a use of the pool), an operator who changes the credential
tables between any two steps, and the phases of the process. What a lookup found is in
`verdict` until the middleware uses it. `since` is a history variable: every identity that was
live since a request arrived. The service behind a request is one use of the pool: what it
does is `ThoughtStore` and `SessionCapture`.

### SchemaUpgrade

A catalogue is a set of facts with the shape of the fingerprint index, the change kinds the
history admits and the state of three helpers: what the gates and the server's statements tell
apart. `AfterNN` is what each migration makes of it, `Needs` what it refers to, `Fits` whether the
rows satisfy the result. The probe reads the catalogue in one query, reports part of what it
found (`EarlyChecks`), reads the token columns, reports the rest (`late`), and goes on
(`LaterQueries`); the JWKS probe runs beside it, the embedding gate after it. A refusal exits with
the migrations to apply; the supervisor restarts. `Follow` applies that advice, with the
server stopped or beside the restarting one (the offline backfill only with it stopped);
`Upgrade` is the documented block, every file in numeric order, ended by the first that fails.
The databases start at any release (`Releases`), holding anything that release could have stored. One operator works
at a time. Migrations 01 and 09 are not replayed: the first makes the base tables, the second
retires tables no gate looks at.

### The boundary

`SessionDocument` is a state machine over symbols: the scan's lexer and the grammar of TOML
read the same document in lock step, of any length; `CalendarDatesOnly` compares what each takes
for a bare date. The other modules are operators, one per function of the code, each with
statements that relate it to an independent definition or to its counterpart on the other
side: `NothingAuthoredIsLost`, `ArtifactsAreKept`, `DaysAreKept`, `SourcesDiffer` (fields);
`TextIsLongestThatFits`, `EveryRecordIsAccountedFor`, `NoFieldIsOmittedInVain` (results);
`RanksAreRespected`, `TextWinsTies`, `SearchAgreesWithList`, `FiltersCompose`,
`NeverSilentlyShort`, `ListsAgree` (search); `TransportsAgree`, `StrangersLearnNothing`,
`RecoveryFindsTheRecord`, `MoveLandsWhereNamed` (surfaces); `DoorsMeanWhatTheySay`,
`FallbackIsAsked`, `NumberIsAsWritten` (settings); `LateAnswersAreNotUsed`, `DegradationIsTold`,
`OnlySoundVectors` (exchanges). `MCBoundary` makes one call of one operator per behaviour, over
all the inputs of its action; the theorems of `BoundaryProofs` are about the others too.

A value is its type and which one of that type, a text its length in bytes, a set variable of
the environment its class ("blank", "true", ...). JavaScript's numbers are kept to
`MaxSafe`, beyond which two integers become one.

## Runs

Each property of a passing run has a mutant in `PROJECT.json`: a seeded fault of the
code that makes TLC find it violated under the same configuration.

| Run | Configuration | Shows |
|---|---|---|
| `store_pairs` | two calls, each any of twelve: every operation, two principals, shared and private targets; four stores; fair | type and safety invariants, `ForgottenStaysPut`, `OnlyCaptureDuplicates`, `Serializable`, `EveryCallIsAnswered` |
| `store_duplicates` | one capture beside an old row | the first finding below (a violation) |
| `outbox` | 2 captures, 2 processes, 2 channels, batch 2, rollup 2 ticks, one trouble; fair | outbox invariants, `RollupsAreSpaced`, `ReportsKept`, `EveryAlertIsDelivered` |
| `ingester_safety` | one log, files of up to 3 bytes, one replacement, 2 troubles, one garbled line | `CursorIsSound`, `NoHoles`, `OnceUnlessTroubled` |
| `ingester_live` | two logs, the first refused; fair | `EveryLineIsIngested` |
| `generation` | 2 records of 2 texts, one call of any kind beside tools and restarts, four builds: a model under two good runtimes, under a defective one, another model | the five properties of `EmbeddingGeneration` |
| `sessions` | 3 calls out of seven requests, 2 keys, 2 generations; the calls are symmetric | `VectorsFollowText`, `CapturesAreAtomic` |
| `requests` | 2 requests in 4 scenarios, one connection per pool, one place in the audit queue, one outage or change of a credential; fair | `AdmissionsAreEarned`, `AuditTellsTheDecision`, `EveryRequestIsAnswered` |
| `upgrade` | a database of any release, one replay, one outage, abandoned window or drifted grant; fair | `ServingCatalogueIsWhole`, `ReplaysFitTheData`, `AdviceConverges` |
| `upgrade_guidance` | the same | the second finding (a violation) |
| `boundary` | some 170,000 calls of the boundary operators, documents of any length with runs of up to 7 quotes | `DocumentsAreReadAsWritten`, `AnswersAreFaithful`, `SurfacesAgree`, `OperatorsChoicesHold` |
| `document_dates` | the scan alone | the third finding (a violation) |

Why the bounds are enough to be interesting. In the store a race needs two transactions on one
row or one key; the initial stores hold live, forgotten, fingerprint-less and twin rows; two
spellings of a text separate "same content" from "same fingerprint". (A re-probe that finds
nothing needs a third call; it is covered by the proofs, which hold for any number.) In the outbox
two captures of up to two events make ids visible out of order around a full batch; a rollup
of two ticks and a lag of one let a stale sample pass or fail the cooldown; two channels allow
partial delivery. In the ingester three bytes make a full line, a partial one and its
completion; one replacement may be shorter than, as long as or longer than the cursor; two
troubles allow a torn cursor followed by a failed batch. Two records let a call change one the
scan has passed while the tool is at the other; four builds give a change of the runtime under one contract, a defective
build that comes and goes between two readings, and a change of the contract. Three session calls let
a second capture commit between a refresh's probe and its re-check while a third reads. Two requests
and one connection make every borrow a wait, every release a hand-over, and the second audit event a
dropped one. One drifted grant or abandoned window is enough to lead from any release's catalogue to any
refusal, and one replay to undo a later migration.

Every bound: `MaxEvent`, `MaxLag`, `MaxTrouble` (outbox); `MaxSize`, `MaxGen`,
`MaxGarbled`, `MaxTrouble`, `Busy` (ingester); `MaxText`, `NumRecords` and the length of `Builds`
(generation); `MaxDisturbances` (server); `MaxReplays`, `MaxTrouble` (upgrade); `MaxRun` (document).
The store and the sessions need none: each call runs once.

Deadlock is checked in the runs of the store, the outbox, the ingester and the sessions (the end of
all calls is `Quiescent`). `generation`, `requests`, `upgrade` and `boundary` really stop: the last
build is served and the call is over, the process has exited, the operator has nothing to do, the
call is answered.

Fairness, and why the code gives it:

- Store: `WF_vars(Proceed(r))` for each call. The server awaits each statement;
  model calls carry deadlines; PostgreSQL grants a free lock. Nothing is assumed
  about `Fail`.
- Outbox: `WF_vars(Work(w))` and `WF_vars(Tick)`: the worker polls again after every
  cycle (`startMetadataNotificationWorker`), each send has a timeout, and clocks move.
  `SF_vars(Heard(w))`: a process that sends again and again is heard by some provider at
  some time; no code can promise delivery without it.
- Ingester: `WF_vars(Work)`: `main` loops for ever and catches what a tick throws.
  `SF_vars(WholeRead(g))`: a log read again and again is at some time read to its end.
  `MaxTrouble` is 0 there, as a table that refuses a log for ever is already modelled by
  `Refused`.
- Server: weak fairness of each request's and each audit task's steps, of the worker's cycle and of
  the drain: the event loop runs every task that can run. Nothing is assumed of the database, of the
  operator or of the signal: an outage may last for ever, and requests are answered.
- Upgrade: the supervisor restarts (`restart: unless-stopped`), a boot proceeds (the probe has its own
  deadline), outages end, an operator does what a refusal says. `SF_vars(Upgrade)`: an operator who is
  told nothing useful again and again at some time runs the documented upgrade.

What the properties say, in short:

- `HistoryReplays`: revisions are numbered without gaps, each is explained by the state
  that followed it, forget and restore alternate, and the head is where the story ends.
- `IndexMatchesContent`, `ExtractionDescribesThought`: vectors and classifications, made
  outside the transaction, are those of the text they end up with.
- `OnlyAuthorizedChanges`: every change was to a row its caller could see then.
- `OnlyCaptureDuplicates`: no duplicates, old rows included, but for captures. (That stored keys do not
  repeat is PostgreSQL's own guarantee: `UniqueKeys` is only a part of the store's `IInv`.)
- `ForgottenStaysPut`: a forgotten row changes only by being restored as it was.
- `NothingStale`, `ProbeStillHolds`: what a transaction read before writing still holds.
- `CountsAreExact`, `ClaimIsCurrent`, `NothingLost`, `NoNeedlessRepeat`,
  `RollupsAreSpaced`: the ledger, exclusive claims, at least once, no repeats without
  cause, rollups spaced up to the lag.
- `CursorIsSound`, `NoHoles`, `OnceUnlessTroubled`: nothing passed over or cut, no hole
  before a row, repeats only after failures.
- `VectorsMatchTheirContract`, `ObservedBuildsAreTested`: a stored vector was made by the model it is
  compared under; a build some reading saw was tested before its vectors are used.
- `ActiveGenerationStaysComplete`, `SearchSeesOneGeneration`, `RelabelKeepsComparableVectors`: no
  transaction open across an activation leaves an old entry behind; a search never mixes; a
  relabel keeps only vectors comparable with those made now.
- `VectorsFollowText`, `CapturesAreAtomic`: a session is found by what it says; captures take effect
  at one instant.
- `AdmissionsAreEarned`, `AuditTellsTheDecision`, `EveryRequestIsAnswered`: who is let in was entitled
  at some moment since the request arrived; each decision is accounted for and the cap holds; outages cost no slot.
- `ServingCatalogueIsWhole`, `ReplaysFitTheData`, `AdviceConverges`: the gates let nobody serve on a
  part of a catalogue, no replay fails on stored rows, following refusals ends.

## Proofs

All theorems hold for every value of the constants that satisfies the assumptions:
`RegistryAssumption` (constraints of the workspace registry), `ThoughtAssumption`
(texts have fingerprints; the null values are outside their sets), `NoRowAssumption`,
`WorkloadAssumption` (calls carry scopes that `scope.ts` resolves),
`InitialHeadsAssumption` (heads satisfy the table's constraints; old rows may lack
fingerprints), `OutboxAssumption`, `IngesterAssumption`, `SizesAssumption`, `BuildsAssumption` (builds are numbered
as they are served; the model and runtime of each), `DigestsDoNotReturn` (an embedding
server does not go back to a model it has left), `ProcsAssumption`, `SessionAssumption`,
`SessionWorkloadAssumption` (a status update names a status, `schemas.ts:379`),
`PoolAssumption` (finitely many connections, each of one pool), `CredentialAssumption` (the
words for no key, the static key and an unknown key are no tokens, those for no bearer and a bad one no
subjects), `ServerAssumption` (finitely many requests; bounds are numbers), and for the boundary
`DocumentAssumption`, `NumberAssumption` (the largest exact integer is odd, as 2^53 - 1 is),
`SubjectsAssumption`, `OutboundAssumption`, `LimitsAssumption`, `BudgetAssumption` and `DepthAssumption`
(bounds are numbers; those of `Search` are not 0, and a leg is at least as deep as it must be). `SchemaUpgrade` needs none.
TLC evaluates each of them in the runs.

**Store** (`ThoughtStoreProofs`). The properties are not inductive: a commit is sound only
because of what its transaction read before and because nobody changed it since. `IInv` adds
`NothingStale`: what was prepared outside the transaction is what the call asked for
(`Prepared`); the head a transaction works from is the committed row, locked by it
(`HeadIsCurrent`); and what it has written has a free key and the next revision number
(`WriteIsSound`). `StoredFpIsDerived` connects stored fingerprints with texts. Theorems:
type correctness, each safety invariant of the runs, and `ForgottenStaysPut`.
`ProbeStillHolds` and `OnlyCaptureDuplicates` need one more step: after the probe, no
statement of any call creates a live row that the unique index does not cover.

**Refinement** (`ThoughtStoreProofs`, second part). `StoreImplementsLedger`: every `Commit` is the
ledger's action of that operation, every refusal is true at the step that gives it, and every
other step stutters. It uses `IInv`, `ProbeStillHolds` and `ConflictsAreProbed` (only
operations that probe can meet a violation).

**Outbox** (`NotificationProofs`). `IInv` adds to the checked properties: ids are fresh
(`IdsAreFresh`), only recorded alerts are counted or told (`OnlyAlerts`), an accepted cycle
was heard (`AcceptedWasHeard`), what was told is retired or about to be unless something
failed (`ToldIsRetired`), and what is sent is due (`SendingIsDue`, from which
`RollupsAreSpaced` follows). `KeepsReports`: a send is a Tell, a settlement a Retire, a
capture's commit a Happen.

**Ingester** (`IngesterProofs`). `StepForms` reduces every step to one of eight forms.
`IInv` adds: lines are those of files the log has had (`LinesExist`); a cursor of the
present file fits it and an unrecognisable replacement has been noted (`CursorsFit`); the
batch at hand starts where the cursor stands and holds everything unsettled up to the offset
it will save (`BatchIsSound`); untroubled, rows are behind the cursor or of the batch
(`RowsAreBehind`) and the batch has none (`BatchIsNew`). The heart is `StartIsSound`: unless
the log is a `twin`, everything before the place where a read starts is settled.

**Generations** (`GenerationProofs`). What makes a vector right is spread over time: the
identity a job read first, the passages it then embedded, the identity it read last. `JobsAreSound` says
for each place in a job what it may still assume. After the first reading every passage was made by
that build or a later one (`From`); after the last, by one between the two (`Prepared`), and
`DigestsDoNotReturn` makes all of these one model (`IntervalsAreOfOneModel`); a job about to ask
again knows what for (`Identifying`). `Tests` says whose canaries a process has passed.
`OpenIsActive`: an open transaction is of the active generation, and none is open
under the tool's table lock; this carries `ActiveGenerationStaysComplete` over an activation.
`SnapshotsAreUniform` does the same for the two statements of a search. `RelabelIsSafe` keeps from
the sample to the lock that what 1.28 left is comparable with the first build of the relabel. The
scan's next record is a minimum, which exists by `WellFoundedInduction`.

**Sessions** (`SessionProofs`). `IInv` says of each call what its open transaction holds (`Holding`),
for which session (`Aiming`), that a refresh without new vectors has locked a row whose vectors are
of its text (`Keeping`), what it will store (`Writing`, `Indexing`), and what a lookup
has seen (`Reading`). `OthersStaySound` is the frame: a step of one call changes only rows that are
locked by it or by nobody, so what the others know stays true. `SessionsImplementLedger`:
`Commit` is the ledger's create or refresh, a status change one step, a lookup two; every
refusal is true when given, and everything else stutters.

**Server** (`ServerProofs`). The pools come first: `NotShared`, `NotLost`, `HandsFit` and
`QueuesFit` say that every connection is idle in its stack, once, or in the hand of one borrower
of its pool, and that whoever waits is queued once, while the stack is empty. That each step of
a borrower keeps them is shown once, for `Pop`, `Push` and their kin, and used by requests, audit
inserts and the worker alike. `RequestShape` says what a handler may rely on at each place,
`LookupIsTrue` that an identity a lookup found was live since the request arrived and is the
one asked for (with `SinceIsCurrent`), `AuditShape` that an event is of one task and written once,
`PhaseFits` what the boot and the drain have left. From their conjunction follow `AdmissionsEarned`,
`AuditIsTrue`, `ConnectionsAreKept` (no outage, eviction or hand-over loses or shares a
connection), `NobodyIsCutOff` (the process exits under nobody) and, as an action property,
`DecisionsAreFinal`.

**Upgrade** (`UpgradeProofs`). For each migration lemmas say what it keeps of any catalogue
(`Keeps`: the shapes the rows depend on) and when it takes nothing from the gates (`Grows`). 06,
10 and 15 bring back an unfiltered helper and 08 the old register, so with them `Grows` depends on who asks:
`Pending` says that beside a running server they are asked for only while a gate that the probe
has not passed is shut, or while the history they make is missing, and `Passed` that what
the probe has passed is so still. The delicate step is the answer of the catalogue query
that is reported after the next one (`late`): by then an operator may be at work.
`Sound` is what the migrations guarantee of one another. `ServesOnWhole` and `ReplaysFit` follow,
and `ShapesAdvance`: no step of anybody brings an older index or CHECK back.

**Boundary** (`BoundaryProofs`). The four invariants of `boundary` are theorems, for every bound, registry
and principal (`DocumentsKept`, `TransportsKept`, `ChoicesKept`, `AnswersKept`). Three arguments carry them.

The scan and the parser are one state machine, and its inductive invariant `DocumentInv` says that,
while no string has ended in more than three quotes, they agree: about being inside a string or a
comment (`LexerFollows`), about what of the present line is visible (`LineFollows`), and about a date
seen in the root table having been checked (`DateFollows`). The delicate case is a run of quotes: what
the recursion `AfterQuotes` makes of it is put in closed form (by the remainders of the length and the
state it starts in), and compared with what the grammar takes of the same run. `DatesAreOfTheCalendar` follows.

The other calls ask an operator once, so what is to be shown is the operator's statement for all its
inputs, of which the run asks a finite part: `FieldsAreStored`, `ArtifactsAreStored`,
`StoredDaysAreTheInstants` (the day before and after are the neighbours of a day number, over
months, leap years and centuries), `SourcesAreTold` (texts of any length, cut at their first
separator), `DoorsAreAsSet`, `FallbackIsOptIn`, `NumbersAreAsWritten`, `NothingLateIsUsed`, `DegradationsAreTold`,
`VectorsAreSound`, `AbridgedRecordsAreFound`, `MovesLand`, `TransportsTakeTheSame` (every tool, every
outcome of it and every JSON value of every field). `StrangersLearnNothing` is a step of `TransportsKept`.

Searches, lists and cut answers are about sums, sorted sequences and loops, for tables, texts and records of
any size. The library's induction theorems take an operator, which no installed prover can
instantiate; so the induction is stated once of sets: a set of numbers that has 0 and each next number is
`Nat` (`NumbersFollow`, from the well-foundedness of <), and a family of sets that has the empty one and grows
by single elements has every finite set (`SetsGrow`). A recursion has a solution because it can be built step by step
(`StepsExist`), and what solves it is what it should be. From these follow, in turn:

- a finite set under a strict total order has one enumeration in that order, and a filter keeps its order
  (`Orders`). Then a leg is the best of its eligible rows; whoever is no worse on both legs is before the
  other in the fused order, where equal reciprocal ranks are told apart by the match and by the id. This gives
  `SearchAgreesAlways`, `RanksAreAlwaysRespected`, `TextAlwaysWinsTies`, `SearchIsNeverSilentlyShort` and
  `ListsAlwaysAgree`; `FiltersAlwaysCompose` needs no order;
- a sum over a finite set does not depend on the order it is taken in (`SumsAdd`, `SumWithOneMore`);
- `CutsAreLongest`: a prefix of a text is cut where no pair is split, and its bytes grow with its length
  there. So the binary search keeps that nothing above `high` fits and that `best` is the safe end
  of the longest length seen to fit; one round leaves out at least one length;
- `RecordsAreAccountedFor`: the running sums from the left and from the right are the bytes of the answer.
  When not even the account of the records fits beside a heading, it is sent alone and cut like any text
  (`mcp_result.ts:290`, `:349`); then the ids that are named are the first ones, as many as the cut text holds;
- `NoFieldIsEverOmittedInVain`: each reduction kept after the pass in reverse was needed by the set kept at
  that moment, and what is taken from a set of reductions later makes the record larger, so it is still needed.

The last step of that argument is the condition `Shrink`, which the proof brought to light: the reductions
of a record must make it smaller. Without it undoing a reduction can make room, and a field looked at
before stays omitted although it would now fit. TLC has a case in three fields of 3, 12 and 20 bytes under the
run's budget of 30, with reductions of the first and the third to 6 bytes: the second is left out, does not fit
back, and would once the first is back. The reductions of the server that can grow a record are those of a
thought (`mcp-server.ts:382`): the notice that replaces a short text, and the entry that names metadata that was
empty already. All others leave a field out. Such an answer still fits and names what it omits.

`AnswersKept` applies these to the inputs of the run.

These proofs changed how the model is written, not what it says. Answers that depend on the first of
several conditions are chains of IF: the arms of a CASE that overlap have no order in TLA+, although TLC
tries them from the top, and nothing can be proved of which is taken. Shapes are `Joined`, and the
scan of a run of quotes is a function of its length.

For the answers sorting is `InOrder`, the one sequence that an order allows, and not the library's
`SetToSortSeq`, which the provers cannot expand; sums are `SumFunction`, and the search by halves counts its rounds.

Only model-checked: the liveness properties (fairness is outside TLAPS). Every invariant and every
action property that a run checks is a theorem. No module uses RECURSIVE.

## Findings

`store_duplicates`: `db/10-thought-mutations.sql` says that every dedupe decision treats a row
without a stored fingerprint by the fingerprint derived from its content. Updates, moves and
restores do (`OnlyCaptureDuplicates` holds and is proved). A capture does not: its
`ON CONFLICT` sees only the partial unique index, so capturing a text that such a row already
holds makes a second live copy in the same audience. This is a disagreement between comment
and code, confined to rows restored from old dumps.

`upgrade_guidance`: the first query of the boot probe names `memory_scope.workspace`
(`server/db_boot_probe.ts:118`). On a database without migration 06 it fails to parse, and the server
reports an unreachable database; the advice to apply 05 or 06 can never be given there. The
same file explains, of another table, why such a name must not be in that query. Upgrades still
converge (`AdviceConverges`): the operator ends up with the documented procedure.

`document_dates`: the scan of a session document ends a multi-line string at the first three quotes
(`server/session_toml.ts:324`); the grammar lets it end in four, or open and close in a run of
seven. From there the scan and the parser disagree about what is a string, and a bare
`last_update = 2026-02-30` passes as a day of March, which the scan is there to prevent.

Two disagreements without a run of their own: `schemas.ts:447` says that the REST bounds mirror the
MCP shapes exactly, but the REST lookup of a session refuses an empty branch beside an id, which the
tool takes; and
C1 control characters in a subject pass the configuration and are refused by the import.

## Plan

In order; each step comes with its runs, mutants and, where named, proofs.

1. Done: `Audience`, `Thoughts`, `ThoughtLedger`, `ThoughtStore`, with proofs and refinement.
2. Done: `DegradationReports`, `NotificationOutbox`, with proofs and refinement.
3. Done: `LogIngester`, with proofs.
4. Done: `EmbeddingGeneration`, `SessionCapture` with its ledger, `McpServer` over `ConnectionPool` and
   `Credentials`, `SchemaUpgrade`, each with proofs, the sessions with their refinement.
5. Done: the boundary modules, with proofs of their four invariants for inputs of any size.
6. Three session calls and two generations at once (`sessions` beside an activation), which joins
   `SessionCapture` to `EmbeddingGeneration`.

## What is not modelled

- Statistics (`thought_stats`), rendering, descriptions and citation URLs: for display.
- Where a document is cut into passages; the fenced TOML block in a surrounding text; what TOML
  escapes may contain: below the abstraction of texts.
- Following the embedding gate's advice to backfill beside a restarting server: the model requires the
  server to be stopped, as the advice says ("offline"). Two operator tools at once.
- In-place truncation and reused inodes of a log: noted as `twin` (see `LogIngester`).
- Grants assertions (`db/03`), smoke tests against a live database (`*_db_smoke.ts`, `*-smoke.sql`),
  deployment and CI scripts: static checks of one pass over their input, nothing interleaves.
- Content of prompts, alerts and log lines: only whether they parse or were accepted.
- PostgreSQL itself is assumed to do what its documentation says of READ COMMITTED, REPEATABLE READ,
  row and table locks, unique indexes, savepoints and sequences; the models contain exactly that behaviour.
