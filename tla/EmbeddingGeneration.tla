------------------------ MODULE EmbeddingGeneration ------------------------
(***************************************************************************)
(* The embedding index of thoughts and sessions, and the generation that   *)
(* search may use.                                                         *)
(*                                                                         *)
(* An embedding server outside the system can be upgraded, or its model    *)
(* replaced, at any moment; each state of it is a build.  Every vector     *)
(* carries a contract, the hash of what must not change between vectors    *)
(* that are compared (the model digest).  Service calls embed between two  *)
(* readings of the contract and write under the generation recorded in the *)
(* database; an operator's tool (backfill or relabel) moves the whole      *)
(* corpus to another contract and activates it under a table lock; the     *)
(* server starts, and search answers, only over a complete generation.     *)
(*                                                                         *)
(* Transactions of the application span two steps (the statements, then    *)
(* the commit), because that is the window the table lock exists for.      *)
(***************************************************************************)
EXTENDS Naturals, FiniteSets

CONSTANTS
    NumRecords,  \* thoughts and sessions, numbered in keyset order
    Callers,     \* service calls
    Builds,      \* successive states of the embedding server
    MaxText      \* texts a record may have are 1..MaxText

ASSUME SizesAssumption ==
    /\ NumRecords \in Nat \ {0}
    /\ MaxText \in Nat \ {0}

Records == 1..NumRecords
Texts == 1..MaxText

(***************************************************************************)
(* Builds is a sequence: build b has a model digest, a runtime version,    *)
(* answers the canaries soundly or not, and produces vectors of a space;   *)
(* vectors of different spaces are not close to each other.  A (runtime,   *)
(* digest) pair names one build, and a replaced digest does not come back: *)
(* the code says it cannot exclude a swap and swap back.                   *)
(***************************************************************************)
Build == DOMAIN Builds
Digest(b) == Builds[b].digest
Runtime(b) == Builds[b].runtime
Sound(b) == Builds[b].sound
Space(b) == Builds[b].space

ASSUME BuildsAssumption ==
    /\ Build # {} /\ Cardinality(Build) \in Nat /\ Build = 1..Cardinality(Build)
    /\ \A b \in Build : DOMAIN Builds[b] = {"digest", "runtime", "sound", "space"}
    /\ \A b \in Build : Sound(b) \in BOOLEAN
    /\ \A b, c \in Build : Digest(b) = Digest(c) /\ Runtime(b) = Runtime(c) => b = c
    /\ \A b \in Build : Runtime(b) \notin {"unversioned", "none"}

ASSUME DigestsDoNotReturn ==
    \A b, c, d \in Build : b < c /\ c < d /\ Digest(b) = Digest(d) => Digest(c) = Digest(b)

Unversioned == "unversioned"
NoContract == [digest |-> "none", runtime |-> "none"]

\* The contract names the model digest; server 1.28 named the runtime as well.
ContractFor(b) == [digest |-> Digest(b), runtime |-> Unversioned]
LegacyContractFor(b) == [digest |-> Digest(b), runtime |-> Runtime(b)]
Contracts == {ContractFor(b) : b \in Build} \cup {LegacyContractFor(b) : b \in Build}

NoEntry == [contract |-> NoContract, source |-> 0, made |-> {}]
Entries == [contract : Contracts, source : Texts, made : (SUBSET Build) \ {{}}]

Tool == "operator tool"
Gate == "startup gate"
Procs == Callers \cup {Tool, Gate}
ASSUME ProcsAssumption == Tool \notin Callers /\ Gate \notin Callers

Kinds == {"none", "set", "again", "search", "boot", "backfill", "rebuild", "relabel"}
Pcs == {"idle", "identify", "reread", "embed", "write", "commit",
        "gate", "retrieve", "answered", "scan", "put", "lock", "locked",
        "survey", "sample", "sampled", "done"}

\* A job: what a call or a tool run has in memory.
Job == [kind : Kinds, pc : Pcs, aim : {"begin", "end", "final"},
        rec : 0..NumRecords, text : 0..MaxText,
        contract : Contracts \cup {NoContract}, old : Contracts \cup {NoContract},
        seen : Build \cup {0}, tested : Build \cup {0}, tries : 1..2,
        made : SUBSET Build, first : Build \cup {0}, last : Build \cup {0},
        snap : SUBSET [contract : Contracts \cup {NoContract}, fresh : BOOLEAN]]

IdleJob == [kind |-> "none", pc |-> "idle", aim |-> "begin", rec |-> 0, text |-> 0,
            contract |-> NoContract, old |-> NoContract, seen |-> 0, tested |-> 0, tries |-> 1,
            made |-> {}, first |-> 0, last |-> 0, snap |-> {}]

VARIABLES
    served,     \* the build the embedding server runs now
    validated,  \* the build whose canaries the server last passed, 0 if none
    content,    \* per record: its committed text, 0 while it does not exist
    index,      \* per record: its committed index entry
    active,     \* the contract of the activated generation
    up,         \* the request server passed its startup gate
    job,        \* per process: its job
    sealed      \* no tool run has rewritten entries since the last activation

vars == <<served, validated, content, index, active, up, job, sealed>>
store == <<content, index, active, sealed>>

TypeOK ==
    /\ served \in Build
    /\ validated \in Build \cup {0}
    /\ content \in [Records -> 0..MaxText]
    /\ index \in [Records -> Entries \cup {NoEntry}]
    /\ active \in Contracts \cup {NoContract}
    /\ up \in BOOLEAN
    /\ job \in [Procs -> Job]
    /\ sealed \in BOOLEAN

\* The first deployment of the index finds records without entries and no
\* generation; a server 1.28 left a complete generation with its own contracts.
Init ==
    /\ served = 1
    /\ validated = 0
    /\ content \in [Records -> {0, 1}]
    /\ \/ /\ index = [r \in Records |-> NoEntry]
          /\ active = NoContract
       \/ /\ index = [r \in Records |-> IF content[r] = 0 THEN NoEntry
                        ELSE [contract |-> LegacyContractFor(1),
                              source |-> content[r], made |-> {1}]]
          /\ active = LegacyContractFor(1)
    /\ up = FALSE
    /\ job = [p \in Procs |-> IdleJob]
    /\ sealed = TRUE

Live == {r \in Records : content[r] # 0}

\* Every record that exists has an entry of this contract, made from its text.
Ready(c) ==
    /\ active = c
    /\ \A r \in Live : index[r].contract = c /\ index[r].source = content[r]

-----------------------------------------------------------------------------
(* Starting and giving up.                                                 *)

Goto(p, pc) == job' = [job EXCEPT ![p].pc = pc]
Ask(p, aim) == job' = [job EXCEPT ![p].pc = "identify", ![p].aim = aim]
\* Each of Callers is one call; a tool can be run again, a server restarted.
Ended(p) == IF p \in Callers THEN [IdleJob EXCEPT !.pc = "done"] ELSE IdleJob
Drop(p) == job' = [job EXCEPT ![p] = Ended(p)]

\* A deadline, a refused or failed request, an error of the database: the job
\* ends, and its open transaction is rolled back.
GiveUp(p) ==
    /\ job[p].pc \notin {"idle", "done"}
    /\ Drop(p)
    /\ UNCHANGED <<served, validated, store, up>>

\* The request server dies with everything it has in memory.
Crash ==
    /\ up \/ job[Gate].pc # "idle"
    /\ up' = FALSE
    /\ validated' = 0
    /\ job' = [p \in Procs |-> IF p = Tool \/ job[p].pc \in {"idle", "done"} THEN job[p] ELSE Ended(p)]
    /\ UNCHANGED <<served, store>>

\* The embedding server is upgraded, or its model replaced.
Swap ==
    /\ served + 1 \in Build
    /\ served' = served + 1
    /\ UNCHANGED <<validated, store, up, job>>

(***************************************************************************)
(* embeddingContract: read the identity, run the canaries unless this      *)
(* build is the one validated last, read the identity again, and start     *)
(* over once if it moved.  Builds do not return, so canaries between two   *)
(* equal readings were answered by the build that both readings saw.       *)
(***************************************************************************)

\* The cache of the validated runtime lives as long as the process that holds it.
Tested(p) == IF p = Tool THEN job[p].tested ELSE validated

\* Seeded fault: the contract is not compared with the one the job began with.
AnyContract(j, b) == TRUE

SameContract(j, b) == ContractFor(b) = j.contract

\* What p, with job j, does with the contract of build b.
Obtained(p, j, b) ==
    LET k == [j EXCEPT !.seen = 0, !.tries = 1, !.aim = "begin"] IN
    CASE j.aim = "begin" ->
           [k EXCEPT !.contract = ContractFor(b), !.first = b, !.made = {},
                     !.pc = CASE j.kind \in {"set", "again", "search"} -> "embed"
                              [] j.kind = "boot" -> "gate"
                              [] j.kind \in {"backfill", "rebuild"} -> "scan"
                              [] j.kind = "relabel" -> "survey"]
      [] j.aim = "end" /\ SameContract(j, b) ->
           [k EXCEPT !.last = b,
                     !.pc = CASE j.kind \in {"set", "again"} -> "write"
                              [] j.kind = "search" -> "gate"
                              [] j.kind \in {"backfill", "rebuild"} -> "put"]
      [] j.aim = "final" /\ SameContract(j, b) -> [k EXCEPT !.pc = "lock"]
      [] OTHER -> Ended(p)

\* Seeded fault: the cache is keyed by the contract, which a runtime upgrade keeps.
ValidatedContract(p, b) == Tested(p) # 0 /\ ContractFor(Tested(p)) = ContractFor(b)

Validated(p, b) == Tested(p) = b

\* The first reading: the canaries come next, unless this build passed them.
Identified(p, j, b) ==
    IF Validated(p, b) THEN Obtained(p, j, b) ELSE [j EXCEPT !.seen = b, !.pc = "reread"]

\* A job begins with the identity.
Begin(p, kind, rec, text) ==
    /\ job[p].pc = "idle"
    /\ LET j == [IdleJob EXCEPT !.kind = kind, !.rec = rec, !.text = text] IN
       job' = [job EXCEPT ![p] = Identified(p, j, served)]
    /\ UNCHANGED <<served, validated, store, up>>

\* capture, update and session capture set a record's text.
BeginSet(p) ==
    /\ up
    /\ \E r \in Records, t \in Texts : Begin(p, "set", r, t)

\* A capture of a text that a record already holds writes its entry again.
BeginAgain(p) ==
    /\ up
    /\ \E r \in Live : Begin(p, "again", r, content[r])

BeginSearch(p) == up /\ Begin(p, "search", 0, 0)

BeginBoot == ~up /\ Begin(Gate, "boot", 0, 0)

BeginTool == \E k \in {"backfill", "rebuild", "relabel"} : Begin(Tool, k, 0, 0)

Identify(p) ==
    /\ job[p].pc = "identify"
    /\ job' = [job EXCEPT ![p] = Identified(p, @, served)]
    /\ UNCHANGED <<served, validated, store, up>>

\* The canaries passed, and the identity is still the same.
Confirm(p) ==
    /\ job[p].pc = "reread"
    /\ served = job[p].seen /\ Sound(served)
    /\ IF p = Tool
       THEN /\ job' = [job EXCEPT ![p] = Obtained(p, [@ EXCEPT !.tested = served], served)]
            /\ UNCHANGED validated
       ELSE /\ job' = [job EXCEPT ![p] = Obtained(p, @, served)]
            /\ validated' = served
    /\ UNCHANGED <<served, store, up>>

\* The identity moved: start over with the one that is served now, once.
StartOver(p) ==
    /\ job[p].pc = "reread"
    /\ served # job[p].seen /\ job[p].tries = 1
    /\ job' = [job EXCEPT ![p].tries = 2, ![p].seen = served]
    /\ UNCHANGED <<served, validated, store, up>>

\* One passage is embedded by whatever build serves it; when the last one is
\* done the contract is read again.
Embed(p) ==
    /\ job[p].pc = "embed"
    /\ \E last \in BOOLEAN :
         LET made == IF job[p].kind = "search" THEN {} ELSE job[p].made \cup {served} IN
         /\ last \/ made # job[p].made
         /\ job' = [job EXCEPT ![p].made = made,
                      ![p].pc = IF last THEN "identify" ELSE "embed",
                      ![p].aim = "end"]
    /\ UNCHANGED <<served, validated, store, up>>

-----------------------------------------------------------------------------
(* The application's transactions.                                         *)

OpenOn(r) == {p \in Callers : job[p].pc = "commit" /\ job[p].rec = r}
Open == UNION {OpenOn(r) : r \in Records}

\* Seeded fault: the activation takes no table lock.
NoShareLock == TRUE

\* LOCK TABLE ... IN SHARE MODE waits for open transactions that wrote the
\* parents, and holds new ones back until the tool's transaction ends.
ShareLockFree == Open = {}
ShareLockHeld == job[Tool].pc = "locked"

\* check_embedding_index for the application's role: the source is the text the
\* row holds in this transaction, and the contract is the active one.
Accepted(p) ==
    /\ job[p].kind = "again" => content[job[p].rec] = job[p].text
    /\ active = job[p].contract

\* captureThought, updateThoughtContent, upsertSession: the row and its entry.
Write(p) ==
    /\ job[p].pc = "write"
    /\ OpenOn(job[p].rec) = {}
    /\ ~ShareLockHeld
    /\ IF Accepted(p)
       THEN job' = [job EXCEPT ![p].pc = "commit", ![p].first = 0, ![p].last = 0]
       ELSE Drop(p)
    /\ UNCHANGED <<served, validated, store, up>>

EntryOf(p) == [contract |-> job[p].contract, source |-> job[p].text, made |-> job[p].made]

Commit(p) ==
    /\ job[p].pc = "commit"
    /\ content' = [content EXCEPT ![job[p].rec] = job[p].text]
    /\ index' = [index EXCEPT ![job[p].rec] = EntryOf(p)]
    /\ Drop(p)
    /\ UNCHANGED <<served, validated, active, sealed, up>>

\* A later statement of a transaction reads what its first one saw.
Corpus == {[contract |-> index[r].contract, fresh |-> index[r].source = content[r]] : r \in Live}
\* Seeded fault: the transaction of a search is READ COMMITTED.
LatestCorpus(p) == Corpus

Snapshot(p) == job[p].snap

\* verifyEmbeddingStartup, and requireEmbeddingReady of a search: the first
\* statement of a transaction.
PassGate(p) ==
    /\ job[p].pc = "gate"
    /\ IF ~Ready(job[p].contract) THEN Drop(p) /\ UNCHANGED up
       ELSE IF p = Gate THEN Drop(p) /\ up' = TRUE
       ELSE job' = [job EXCEPT ![p].snap = Corpus, ![p].pc = "retrieve"] /\ UNCHANGED up
    /\ UNCHANGED <<served, validated, store>>

\* The ranking statement of the same transaction.
Retrieve(p) ==
    /\ job[p].pc = "retrieve"
    /\ job' = [job EXCEPT ![p].snap = Snapshot(p), ![p].pc = "answered"]
    /\ UNCHANGED <<served, validated, store, up>>

-----------------------------------------------------------------------------
(* backfillEmbeddingIndex: every record in keyset order, one transaction   *)
(* each, then the activation.                                              *)

Current(r, c) == index[r].contract = c /\ index[r].source = content[r]
NextRecords(p) == {r \in Live : r > job[p].rec}

Scan ==
    LET p == Tool IN
    /\ job[p].pc = "scan"
    /\ IF NextRecords(p) = {} THEN Ask(p, "final")
       ELSE LET r == CHOOSE s \in NextRecords(p) : \A t \in NextRecords(p) : s <= t IN
            job' = [job EXCEPT ![p].rec = r, ![p].text = content[r], ![p].made = {}, ![p].last = 0,
                      ![p].pc = IF job[p].kind = "backfill" /\ Current(r, job[p].contract)
                                THEN "scan" ELSE "embed"]
    /\ UNCHANGED <<served, validated, store, up>>

\* The trigger waits for the row, and refuses an entry of another text.
Put ==
    LET p == Tool  r == job[Tool].rec IN
    /\ job[p].pc = "put"
    /\ OpenOn(r) = {}
    /\ IF content[r] = job[p].text
       THEN /\ index' = [index EXCEPT ![r] = EntryOf(p)]
            /\ sealed' = (sealed /\ active = job[p].contract)
            /\ Goto(p, "scan")
       ELSE Drop(p) /\ UNCHANGED <<index, sealed>>
    /\ UNCHANGED <<served, validated, content, active, up>>

Lock ==
    LET p == Tool IN
    /\ job[p].pc = "lock"
    /\ job[p].kind = "relabel" => served = job[p].first
    /\ ShareLockFree
    /\ Goto(p, "locked")
    /\ UNCHANGED <<served, validated, store, up>>

Complete(c) == \A r \in Live : Current(r, c)

Activate ==
    LET p == Tool  c == job[Tool].contract IN
    /\ job[p].pc = "locked" /\ job[p].kind \in {"backfill", "rebuild"}
    /\ IF Complete(c) THEN active' = c /\ sealed' = TRUE ELSE UNCHANGED <<active, sealed>>
    /\ Drop(p)
    /\ UNCHANGED <<served, validated, content, index, up>>

-----------------------------------------------------------------------------
(* relabelEmbeddingGeneration: a generation of server 1.28 is converted    *)
(* without embedding it again, after a sample of its vectors was compared. *)

SameRuntime(p) == served = job[p].first

\* findLegacyRuntime: a runtime that, with this model, gives the old contract.
LegacyOf(b, c) == \E v \in Build : Digest(v) = Digest(b) /\ c = LegacyContractFor(v)

Survey ==
    LET p == Tool IN
    /\ job[p].pc = "survey"
    /\ IF /\ SameRuntime(p)
          /\ LegacyOf(job[p].first, active)
          /\ Ready(active)
       THEN job' = [job EXCEPT ![p].old = active, ![p].pc = "sample"]
       ELSE Drop(p)
    /\ UNCHANGED <<served, validated, store, up>>

Alike(r, b) == \A m \in index[r].made : Space(m) = Space(b)

\* Seeded fault: a sample of which every record was left out passes.
AnySample(stored, S) == TRUE

\* Only an empty generation may be converted without a comparison.
Convincing(stored, S) == stored = {} \/ S # {}

\* A record whose text changed meanwhile is left out of the sample.
Sample ==
    LET p == Tool
        Stored == {r \in Live : index[r].contract = job[p].old} IN
    /\ job[p].pc = "sample"
    /\ \E S \in SUBSET {r \in Stored : index[r].source = content[r]} :
         IF Convincing(Stored, S) /\ \A r \in S : Alike(r, served)
         THEN Goto(p, "sampled") ELSE Drop(p)
    /\ UNCHANGED <<served, validated, store, up>>

Sampled ==
    /\ job[Tool].pc = "sampled"
    /\ IF SameRuntime(Tool) THEN Ask(Tool, "final") ELSE Drop(Tool)
    /\ UNCHANGED <<served, validated, store, up>>

Relabel ==
    LET p == Tool  c == job[Tool].contract  old == job[Tool].old IN
    /\ job[p].pc = "locked" /\ job[p].kind = "relabel"
    /\ IF Ready(old)
       THEN /\ index' = [r \in Records |-> IF index[r].contract = old
                           THEN [index[r] EXCEPT !.contract = c] ELSE index[r]]
            /\ active' = c
            /\ sealed' = TRUE
       ELSE UNCHANGED <<index, active, sealed>>
    /\ Drop(p)
    /\ UNCHANGED <<served, validated, content, up>>

-----------------------------------------------------------------------------
CallerStep(p) ==
    \/ BeginSet(p) \/ BeginAgain(p) \/ BeginSearch(p)
    \/ Write(p) \/ Commit(p) \/ Retrieve(p)

ProcStep(p) == Identify(p) \/ Confirm(p) \/ StartOver(p) \/ Embed(p) \/ PassGate(p) \/ GiveUp(p)

ToolStep == BeginTool \/ Scan \/ Put \/ Lock \/ Activate \/ Survey \/ Sample \/ Sampled \/ Relabel

Next ==
    \/ \E p \in Callers : CallerStep(p)
    \/ \E p \in Procs : ProcStep(p)
    \/ ToolStep \/ BeginBoot \/ Crash \/ Swap

Spec == Init /\ [][Next]_vars

-----------------------------------------------------------------------------
(* Every stored vector was made by the model its contract names, whatever  *)
(* build was serving when its passages were embedded                       *)
(* (prepareEmbeddingIndex and backfillEmbeddingIndex read the contract     *)
(* before and after embedding).                                            *)
VectorsMatchTheirContract ==
    \A r \in Live : \A b \in index[r].made : Digest(b) = index[r].contract.digest

(* No vector that is about to be written comes from a build that fails the *)
(* canaries, unless that build came and went between the two readings of   *)
(* the contract: a build seen by a reading was tested before its vectors   *)
(* are used, even when the contract did not change.                        *)
ObservedBuildsAreTested ==
    \A p \in Procs : job[p].pc \in {"write", "put"} =>
        \A b \in job[p].made : Sound(b) \/ (job[p].first < b /\ b < job[p].last)

(* From an activation until a tool run rewrites entries for another        *)
(* contract, the active generation stays complete and current under every  *)
(* concurrent capture and update: no transaction that was open across the  *)
(* activation leaves an entry of the old contract behind.                  *)
ActiveGenerationStaysComplete ==
    sealed /\ active # NoContract => Ready(active)

(* A search ranks one generation: every record of its snapshot has a       *)
(* current entry of the contract that embedded the query.                  *)
SearchSeesOneGeneration ==
    \A p \in Callers : job[p].pc = "answered" =>
        \A e \in job[p].snap : e.fresh /\ e.contract = job[p].contract

(* A relabel happens only while every vector it keeps is comparable with    *)
(* those of the build whose canaries passed before the sample was compared. *)
RelabelKeepsComparableVectors ==
    [][job[Tool].kind = "relabel" /\ active' # active =>
         \A r \in Live : \A b \in index[r].made : Space(b) = Space(job[Tool].first)]_vars

=============================================================================
