-------------------------- MODULE GenerationProofs --------------------------
(***************************************************************************)
(* Proofs about EmbeddingGeneration, for any number of records, calls and  *)
(* builds of the embedding server.                                         *)
(***************************************************************************)
EXTENDS EmbeddingGeneration, Integers, WellFoundedInduction, TLAPS

-----------------------------------------------------------------------------
\* The contract of the generation that server 1.28 left.
Legacy(c) == c = LegacyContractFor(1)

\* j holds the contract of a sound build, and embeds since.
From(j, s) ==
  /\ j.first \in Build /\ Sound(j.first) /\ j.first <= s
  /\ j.contract = ContractFor(j.first)
  /\ \A m \in j.made : j.first <= m /\ m <= s

\* It has read the contract again, and may write what it made.
Prepared(j, s) ==
  /\ From(j, s)
  /\ j.last \in Build /\ Sound(j.last) /\ j.last <= s
  /\ ContractFor(j.last) = j.contract
  /\ j.made # {} /\ \A m \in j.made : m <= j.last

Named(j) == j.rec \in Records /\ j.text \in Texts

\* The generation a relabel converts is of the model it converts it to.
OldFits(j) == Legacy(j.old) /\ j.old.digest = j.contract.digest

Embedding == {"set", "again", "search", "backfill", "rebuild"}

\* What j is about to do with the contract, whichever build answers.
Identifying(j, s) ==
  /\ j.kind # "none"
  /\ j.kind \in {"set", "again"} => Named(j)
  /\ j.aim = "end" => /\ j.kind \in Embedding /\ From(j, s)
                      /\ j.kind # "search" => Named(j) /\ j.made # {}
  /\ j.aim = "final" => /\ j.kind \in {"backfill", "rebuild", "relabel"} /\ From(j, s)
                        /\ j.kind = "relabel" => OldFits(j)

\* What holds of a job at each place; s is the build that is served.
JobShape(j, s) ==
  /\ j.pc \in {"identify", "reread"} => Identifying(j, s)
  /\ j.pc = "embed" => j.kind \in Embedding /\ From(j, s) /\ (j.kind # "search" => Named(j))
  /\ j.pc \in {"write", "put"} => Named(j) /\ Prepared(j, s)
  /\ j.pc = "write" => j.kind \in {"set", "again"}
  /\ j.pc = "put" => j.kind \in {"backfill", "rebuild"}
  /\ j.pc = "commit" => /\ j.kind \in {"set", "again"} /\ Named(j) /\ j.made # {}
                        /\ \E b \in Build : j.contract = ContractFor(b)
                        /\ \A m \in j.made : Digest(m) = j.contract.digest
  /\ j.pc = "scan" => j.kind \in {"backfill", "rebuild"} /\ From(j, s)
  /\ j.pc \in {"survey", "sample", "sampled"} => j.kind = "relabel" /\ From(j, s)
  /\ j.pc \in {"sample", "sampled"} => OldFits(j)
  /\ j.pc \in {"lock", "locked"} => /\ j.kind \in {"backfill", "rebuild", "relabel"} /\ From(j, s)
                                    /\ j.kind = "relabel" => OldFits(j)

Tests ==
  /\ validated # 0 => Sound(validated)
  /\ \A p \in Procs : job[p].tested # 0 => Sound(job[p].tested)

JobsAreSound == \A p \in Procs : JobShape(job[p], served)

ActiveIsKnown == active \in {NoContract, LegacyContractFor(1)} \cup {ContractFor(b) : b \in Build}

\* Vectors are of their contract's model; 1.28 made its own in the first build.
EntriesAreSound ==
  \A r \in Records :
    /\ \A m \in index[r].made : Digest(m) = index[r].contract.digest
    /\ Legacy(index[r].contract) => index[r].made = {1}

\* Open transactions are of the active generation, and none is open under the table lock.
OpenIsActive ==
  /\ \A p \in Callers : job[p].pc = "commit" => job[p].contract = active
  /\ job[Tool].pc = "locked" => \A p \in Callers : job[p].pc # "commit"

SnapshotsAreUniform ==
  \A p \in Callers : job[p].pc \in {"retrieve", "answered"} =>
    \A e \in job[p].snap : e.fresh /\ e.contract = job[p].contract

\* Everything 1.28 has left is comparable with what the relabel's first build makes.
Comparable(b) == Space(1) = Space(b) \/ \A r \in Live : ~Legacy(index[r].contract)

RelabelIsSafe ==
  LET j == job[Tool] IN
  j.kind = "relabel" =>
    /\ j.pc = "sampled" /\ served = j.first => Comparable(j.first)
    /\ j.pc \in {"identify", "reread"} /\ j.aim = "final" => Comparable(j.first)
    /\ j.pc \in {"lock", "locked"} => Comparable(j.first)

IInv ==
  /\ TypeOK /\ Tests /\ JobsAreSound /\ ActiveIsKnown /\ EntriesAreSound
  /\ OpenIsActive /\ SnapshotsAreUniform /\ RelabelIsSafe
  /\ ActiveGenerationStaysComplete

-----------------------------------------------------------------------------
(* Constants and small facts. *)

\* Builds are numbers; 0 stands for none.
LEMMA BuildsAreNumbers ==
  /\ 0 \notin Build /\ 1 \in Build
  /\ \A b \in Build : b \in Int /\ 1 <= b
BY BuildsAssumption

\* Tools and the gate are no callers.
LEMMA ProcsAreApart ==
  /\ Tool \in Procs /\ Gate \in Procs /\ Callers \subseteq Procs
  /\ Tool \notin Callers /\ Gate \notin Callers /\ Tool # Gate
BY ProcsAssumption DEF Procs, Tool, Gate

\* Only 1.28 named a runtime.
LEMMA ContractsAreApart ==
  ASSUME NEW b \in Build
  PROVE  /\ ~Legacy(ContractFor(b)) /\ ~Legacy(NoContract)
         /\ ContractFor(b) \in Contracts /\ LegacyContractFor(b) \in Contracts
         /\ ContractFor(b).digest = Digest(b) /\ LegacyContractFor(b).digest = Digest(b)
         /\ ContractFor(b) # NoContract
<1>1. \A v \in Build : Runtime(v) \notin {Unversioned, "none"}
  BY BuildsAssumption DEF Unversioned
<1>2. ~Legacy(ContractFor(b))
  BY <1>1, BuildsAreNumbers DEF Legacy, ContractFor, LegacyContractFor
<1>3. ~Legacy(NoContract)
  BY <1>1, BuildsAreNumbers DEF Legacy, NoContract, LegacyContractFor
<1>4. ContractFor(b) # NoContract
  BY DEF ContractFor, NoContract, Unversioned
<1> QED BY <1>2, <1>3, <1>4 DEF Contracts, ContractFor, LegacyContractFor

\* Vectors made between two readings of one contract are of its model.
LEMMA IntervalsAreOfOneModel ==
  ASSUME NEW j \in Job, NEW s \in Build, Prepared(j, s)
  PROVE  \A m \in j.made : m \in Build /\ Digest(m) = j.contract.digest
<1> TAKE m \in j.made
<1>1. m \in Build /\ m \in Int /\ j.first \in Int /\ j.last \in Int
  BY BuildsAreNumbers DEF Job, Prepared, From
<1>2. j.first \in Build /\ j.last \in Build /\ j.first <= m /\ m <= j.last
  BY DEF Prepared, From
<1>3. Digest(j.first) = j.contract.digest /\ Digest(j.last) = j.contract.digest
  BY <1>2, ContractsAreApart DEF Prepared, From
<1>4. CASE m = j.first \/ m = j.last
  BY <1>1, <1>3, <1>4
<1>5. CASE j.first < m /\ m < j.last
  BY <1>1, <1>2, <1>3, <1>5, DigestsDoNotReturn
<1> QED BY <1>1, <1>2, <1>4, <1>5

\* A build that comes later disturbs no job.
LEMMA ShapesAge ==
  ASSUME NEW j \in Job, NEW s \in Build, NEW t \in Build, s <= t, JobShape(j, s)
  PROVE  JobShape(j, t)
<1>1. From(j, s) => From(j, t)
  <2>1. j.first \in Int /\ \A m \in j.made : m \in Int
    BY BuildsAreNumbers DEF Job
  <2> QED BY <2>1, BuildsAreNumbers DEF From
<1>2. Prepared(j, s) => Prepared(j, t)
  BY <1>1, BuildsAreNumbers DEF Prepared
<1> QED BY <1>1, <1>2 DEF JobShape, Identifying

\* An idle or finished job is sound and typed.
LEMMA EndedIsSound ==
  ASSUME NEW p \in Procs, NEW s \in Build
  PROVE  /\ Ended(p) \in Job /\ JobShape(Ended(p), s)
         /\ Ended(p).pc \in {"idle", "done"} /\ Ended(p).tested = 0 /\ Ended(p).kind = "none"
<1>1. IdleJob \in Job
  BY SizesAssumption DEF IdleJob, Job, Kinds, Pcs
<1>2. [IdleJob EXCEPT !.pc = "done"] \in Job
  BY SizesAssumption DEF IdleJob, Job, Kinds, Pcs
<1>3. Ended(p).pc \in {"idle", "done"} /\ Ended(p).tested = 0 /\ Ended(p).kind = "none"
  BY DEF Ended, IdleJob
<1> QED BY <1>1, <1>2, <1>3 DEF Ended, JobShape

\* The contract of a sound build sends a job on, or ends it.
LEMMA ObtainedIsSound ==
  ASSUME NEW p \in Procs, NEW j \in Job, NEW s \in Build, Sound(s), Identifying(j, s)
  PROVE  LET o == Obtained(p, j, s) IN
         /\ o \in Job /\ JobShape(o, s)
         /\ o.pc \in {"embed", "gate", "scan", "survey", "write", "put", "lock", "idle", "done"}
         /\ o.tested \in {0, j.tested}
         /\ o.kind = "relabel" /\ o.pc = "lock" => j.kind = "relabel" /\ j.aim = "final" /\ o.first = j.first
<1> DEFINE k == [j EXCEPT !.seen = 0, !.tries = 1, !.aim = "begin"]
           o == Obtained(p, j, s)
<1> USE EndedIsSound
<1>1. k \in Job
  <2> DEFINE k1 == [j EXCEPT !.tries = 1]
  <2>1. k1 \in Job BY DEF Job
  <2> HIDE DEF k1
  <2>2. [k1 EXCEPT !.seen = 0, !.aim = "begin"] \in Job BY <2>1 DEF Job
  <2>3. k = [k1 EXCEPT !.seen = 0, !.aim = "begin"] BY DEF k1
  <2> QED BY <2>2, <2>3
<1>2. ContractFor(s) \in Contracts
  BY ContractsAreApart
<1>3. CASE j.aim = "begin"
  <2> DEFINE pc == CASE j.kind \in {"set", "again", "search"} -> "embed"
                     [] j.kind = "boot" -> "gate"
                     [] j.kind \in {"backfill", "rebuild"} -> "scan"
                     [] j.kind = "relabel" -> "survey"
  <2>1. o = [k EXCEPT !.contract = ContractFor(s), !.first = s, !.made = {}, !.pc = pc]
    BY <1>3 DEF Obtained
  <2>2. j.kind \in {"set", "again", "search", "boot", "backfill", "rebuild", "relabel"}
    BY DEF Identifying, Job, Kinds
  <2>3. /\ pc \in {"embed", "gate", "scan", "survey"}
        /\ pc = "embed" => j.kind \in {"set", "again", "search"}
        /\ pc = "scan" => j.kind \in {"backfill", "rebuild"}
        /\ pc = "survey" => j.kind = "relabel"
    BY <2>2
  <2> HIDE DEF pc
  <2>4. o \in Job
    <3> DEFINE k1 == [k EXCEPT !.contract = ContractFor(s), !.first = s]
    <3>1. k1 \in Job BY <1>1, <1>2 DEF Job
    <3> HIDE DEF k, o, k1
    <3> DEFINE k2 == [k1 EXCEPT !.made = {}]
    <3>2. k2 \in Job BY <3>1 DEF Job
    <3> HIDE DEF k2
    <3>4. [k2 EXCEPT !.pc = pc] \in Job BY <2>3, <3>2 DEF Job, Pcs
    <3>3. o = [k2 EXCEPT !.pc = pc] BY <2>1 DEF k1, k2
    <3> QED BY <3>3, <3>4
  <2>5. /\ o.pc = pc /\ o.kind = j.kind /\ o.first = s /\ o.contract = ContractFor(s) /\ o.made = {}
        /\ o.rec = j.rec /\ o.text = j.text /\ o.tested = j.tested
    BY <1>1, <2>1 DEF Job
  <2>6. From(o, s)
    BY <2>5, BuildsAreNumbers DEF From
  <2>7. JobShape(o, s)
    BY <2>3, <2>5, <2>6, <1>3 DEF JobShape, Identifying, Named, Embedding
  <2> QED BY <2>3, <2>4, <2>5, <2>7
<1>4. CASE j.aim = "end" /\ SameContract(j, s)
  <2> DEFINE pc == CASE j.kind \in {"set", "again"} -> "write"
                     [] j.kind = "search" -> "gate"
                     [] j.kind \in {"backfill", "rebuild"} -> "put"
  <2>1. o = [k EXCEPT !.last = s, !.pc = pc]
    BY <1>4 DEF Obtained
  <2>2. j.kind \in Embedding /\ From(j, s) /\ (j.kind # "search" => Named(j) /\ j.made # {})
    BY <1>4 DEF Identifying
  <2>3. /\ pc \in {"write", "gate", "put"}
        /\ pc = "write" => j.kind \in {"set", "again"}
        /\ pc = "put" => j.kind \in {"backfill", "rebuild"}
    BY <2>2 DEF Embedding
  <2> HIDE DEF pc
  <2>4. o \in Job
    <3> HIDE DEF k, o
    <3> QED BY <1>1, <2>1, <2>3 DEF Job, Pcs
  <2>5. /\ o.pc = pc /\ o.kind = j.kind /\ o.first = j.first /\ o.contract = j.contract /\ o.made = j.made
        /\ o.rec = j.rec /\ o.text = j.text /\ o.tested = j.tested /\ o.last = s
    BY <1>1, <2>1 DEF Job
  <2>6. ContractFor(s) = j.contract
    BY <1>4 DEF SameContract
  <2>7. From(o, s)
    BY <2>2, <2>5 DEF From
  <2>8. o.made # {} => Prepared(o, s)
    BY <2>5, <2>6, <2>7, BuildsAreNumbers DEF Prepared, From
  <2>9. JobShape(o, s)
    BY <2>2, <2>3, <2>5, <2>8 DEF JobShape, Named
  <2> QED BY <2>3, <2>4, <2>5, <2>9
<1>5. CASE j.aim = "final" /\ SameContract(j, s)
  <2>1. o = [k EXCEPT !.pc = "lock"]
    BY <1>5 DEF Obtained
  <2>2. o \in Job
    <3> HIDE DEF k, o
    <3> QED BY <1>1, <2>1 DEF Job, Pcs
  <2>3. /\ o.pc = "lock" /\ o.kind = j.kind /\ o.first = j.first /\ o.contract = j.contract /\ o.made = j.made
        /\ o.old = j.old /\ o.tested = j.tested
    BY <1>1, <2>1 DEF Job
  <2>4. JobShape(o, s)
    BY <1>5, <2>3 DEF JobShape, Identifying, From, OldFits
  <2> QED BY <1>5, <2>2, <2>3, <2>4
<1>6. CASE j.aim \in {"end", "final"} /\ ~SameContract(j, s)
  <2>1. o = Ended(p)
    BY <1>6 DEF Obtained
  <2> QED BY <2>1
<1>7. j.aim \in {"begin", "end", "final"}
  BY DEF Job
<1> QED BY <1>3, <1>4, <1>5, <1>6, <1>7

\* The first reading of the identity.
LEMMA IdentifiedIsSound ==
  ASSUME NEW p \in Procs, NEW j \in Job, NEW s \in Build, Identifying(j, s),
         Tests
  PROVE  LET o == Identified(p, j, s) IN
         /\ o \in Job /\ JobShape(o, s)
         /\ o.pc \in {"reread", "embed", "gate", "scan", "survey", "write", "put", "lock", "idle", "done"}
         /\ o.tested \in {0, j.tested}
         /\ o.kind = "relabel" /\ o.pc = "lock" => j.kind = "relabel" /\ j.aim = "final" /\ o.first = j.first
         /\ o.kind = "relabel" /\ o.pc = "reread" /\ o.aim = "final" =>
              j.kind = "relabel" /\ j.aim = "final" /\ o.first = j.first
<1> DEFINE o == Identified(p, j, s)
<1>1. CASE Validated(p, s)
  <2>1. Sound(s)
    BY <1>1, BuildsAreNumbers DEF Validated, Tested, Tests
  <2>2. o = Obtained(p, j, s)
    BY <1>1 DEF Identified
  <2> HIDE DEF o
  <2>3. /\ o \in Job /\ JobShape(o, s)
        /\ o.pc \in {"embed", "gate", "scan", "survey", "write", "put", "lock", "idle", "done"}
        /\ o.tested \in {0, j.tested}
        /\ o.kind = "relabel" /\ o.pc = "lock" => j.kind = "relabel" /\ j.aim = "final" /\ o.first = j.first
    BY <2>1, <2>2, ObtainedIsSound
  <2> QED BY <2>3 DEF o
<1>2. CASE ~Validated(p, s)
  <2>1. o = [j EXCEPT !.seen = s, !.pc = "reread"]
    BY <1>2 DEF Identified
  <2>2. o \in Job
    BY <2>1 DEF Job, Pcs
  <2>3. /\ o.pc = "reread" /\ o.kind = j.kind /\ o.first = j.first /\ o.contract = j.contract /\ o.made = j.made
        /\ o.old = j.old /\ o.tested = j.tested /\ o.aim = j.aim /\ o.rec = j.rec /\ o.text = j.text
    BY <2>1 DEF Job
  <2>4. Identifying(o, s)
    BY <2>3 DEF Identifying, From, Named, OldFits
  <2>5. JobShape(o, s)
    BY <2>3, <2>4 DEF JobShape
  <2> QED BY <2>2, <2>3, <2>5
<1> QED BY <1>1, <1>2

-----------------------------------------------------------------------------
(* Every step keeps the jobs typed and sound.  The steps that do nothing   *)
(* else are ordinary.                                                      *)

JobsInv == TypeOK /\ Tests /\ JobsAreSound

\* p goes on outside the database.
Ordinary(p) ==
  /\ UNCHANGED <<served, store>>
  /\ TypeOK' /\ Tests' /\ JobsAreSound'
  /\ \A q \in Procs \ {p} : job'[q] = job[q]
  /\ job'[p].pc \notin {"commit", "locked", "retrieve", "answered"}
  /\ p = Tool => RelabelIsSafe'

\* What is comparable stays so while the index stays.
LEMMA ComparableStays ==
  ASSUME UNCHANGED store, NEW b
  PROVE  Comparable(b) => Comparable(b)'
BY DEF Comparable, Live, Legacy, LegacyContractFor, Digest, Runtime, Space, store

\* The tool's new job decides whether the relabel is safe.
LEMMA SafeByTheJob ==
  ASSUME NEW k \in Job, job'[Tool] = k, UNCHANGED store,
         k.kind = "relabel" =>
           /\ k.pc = "sampled" /\ served' = k.first => Comparable(k.first)
           /\ k.pc \in {"identify", "reread"} /\ k.aim = "final" => Comparable(k.first)
           /\ k.pc \in {"lock", "locked"} => Comparable(k.first)
  PROVE  RelabelIsSafe'
BY ComparableStays DEF RelabelIsSafe

\* A job of p that is sound, and safe if it relabels, is all an ordinary step needs.
LEMMA SoundJobIsOrdinary ==
  ASSUME JobsInv, NEW p \in Procs, NEW k \in Job, job' = [job EXCEPT ![p] = k],
         JobShape(k, served), k.tested # 0 => Sound(k.tested),
         UNCHANGED <<served, store>>, validated' \in Build \cup {0}, up' \in BOOLEAN,
         validated' # 0 => Sound(validated'),
         k.pc \notin {"commit", "locked", "retrieve", "answered"},
         p = Tool /\ k.kind = "relabel" =>
           /\ k.pc = "sampled" /\ served = k.first => Comparable(k.first)
           /\ k.pc \in {"identify", "reread"} /\ k.aim = "final" => Comparable(k.first)
           /\ k.pc = "lock" => Comparable(k.first)
  PROVE  Ordinary(p)
<1>1. job \in [Procs -> Job] BY DEF JobsInv, TypeOK
<1>2. job'[p] = k /\ \A q \in Procs \ {p} : job'[q] = job[q] /\ job[q] \in Job
  BY <1>1
<1>3. job' \in [Procs -> Job]
  BY <1>1
<1>4. Tests'
  BY <1>2 DEF JobsInv, Tests, Sound
<1>5. JobsAreSound'
  <2> SUFFICES ASSUME NEW q \in Procs PROVE JobShape(job'[q], served')
    BY DEF JobsAreSound, JobShape, Identifying, Named, From, Prepared, OldFits, Legacy, LegacyContractFor, ContractFor, Digest, Runtime, Sound, Embedding
  <2> QED BY <1>2 DEF JobsInv, JobsAreSound
<1>6. TypeOK'
  BY <1>3 DEF JobsInv, TypeOK, store
<1>7. p = Tool => RelabelIsSafe'
  BY <1>2, SafeByTheJob
<1> QED BY <1>2, <1>3, <1>4, <1>5, <1>6, <1>7 DEF Ordinary

\* The identity, or the start of a job.
LEMMA IdentityIsOrdinary ==
  ASSUME JobsInv, NEW p \in Procs, NEW j \in Job, Identifying(j, served),
         job' = [job EXCEPT ![p] = Identified(p, j, served)],
         UNCHANGED <<served, validated, store, up>>,
         j.tested # 0 => Sound(j.tested),
         p = Tool /\ j.kind = "relabel" /\ j.aim = "final" => Comparable(j.first)
  PROVE  Ordinary(p)
<1>1. served \in Build /\ Tests /\ validated \in Build \cup {0} /\ up \in BOOLEAN
  BY DEF JobsInv, TypeOK
<1>2. PICK k \in Job : k = Identified(p, j, served)
  BY <1>1, IdentifiedIsSound
<1>3. /\ JobShape(k, served)
      /\ k.pc \in {"reread", "embed", "gate", "scan", "survey", "write", "put", "lock", "idle", "done"}
      /\ k.tested \in {0, j.tested}
      /\ k.kind = "relabel" /\ k.pc = "lock" => j.kind = "relabel" /\ j.aim = "final" /\ k.first = j.first
      /\ k.kind = "relabel" /\ k.pc = "reread" /\ k.aim = "final" =>
           j.kind = "relabel" /\ j.aim = "final" /\ k.first = j.first
  BY <1>1, <1>2, IdentifiedIsSound
<1>4. job' = [job EXCEPT ![p] = k]
  BY <1>2
<1>5. validated' # 0 => Sound(validated')
  BY <1>1 DEF Tests
<1> QED BY <1>1, <1>3, <1>4, <1>5, SoundJobIsOrdinary

-----------------------------------------------------------------------------
(* The steps that only change a job.                                       *)

Started(kind, rec, text) == [IdleJob EXCEPT !.kind = kind, !.rec = rec, !.text = text]

LEMMA BeginIsOrdinary ==
  ASSUME JobsInv, NEW p \in Procs, NEW kind \in Kinds \ {"none"}, NEW rec \in 0..NumRecords, NEW text \in 0..MaxText,
         kind \in {"set", "again"} => rec \in Records /\ text \in Texts,
         Begin(p, kind, rec, text)
  PROVE  Ordinary(p)
<1>1. PICK j \in Job : /\ j = Started(kind, rec, text)
                       /\ j.kind = kind /\ j.rec = rec /\ j.text = text /\ j.aim = "begin" /\ j.tested = 0
  <2>2. Started(kind, rec, text) \in Job
    <3> DEFINE i == [IdleJob EXCEPT !.kind = kind]
    <3>1. IdleJob \in Job
      BY SizesAssumption DEF IdleJob, Job, Kinds, Pcs
    <3>2. i \in Job
      BY <3>1 DEF Job
    <3> HIDE DEF i
    <3>3. [i EXCEPT !.rec = rec, !.text = text] \in Job
      BY <3>2 DEF Job
    <3> QED BY <3>3 DEF i, Started
  <2>1. LET j == Started(kind, rec, text) IN
        j.kind = kind /\ j.rec = rec /\ j.text = text /\ j.aim = "begin" /\ j.tested = 0
    BY DEF Started, IdleJob
  <2> QED BY <2>1, <2>2
<1>2. Identifying(j, served)
  BY <1>1 DEF Identifying, Named
<1>3. job' = [job EXCEPT ![p] = Identified(p, j, served)] /\ UNCHANGED <<served, validated, store, up>>
  BY <1>1 DEF Begin, Started
<1> QED BY <1>1, <1>2, <1>3, IdentityIsOrdinary

\* A call begins.
LEMMA CallIsOrdinary ==
  ASSUME JobsInv, NEW p \in Callers, BeginSet(p) \/ BeginAgain(p) \/ BeginSearch(p)
  PROVE  Ordinary(p)
<1>0. p \in Procs /\ {"set", "again", "search"} \subseteq Kinds \ {"none"} /\ 0 \in 0..NumRecords /\ 0 \in 0..MaxText
  BY SizesAssumption DEF Procs, Kinds
<1>1. CASE BeginSet(p)
  <2>1. PICK r \in Records, t \in Texts : Begin(p, "set", r, t)
    BY <1>1 DEF BeginSet
  <2>2. r \in 0..NumRecords /\ t \in 0..MaxText
    BY DEF Records, Texts
  <2> QED BY <1>0, <2>1, <2>2, BeginIsOrdinary
<1>2. CASE BeginAgain(p)
  <2>1. PICK r \in Live : Begin(p, "again", r, content[r])
    BY <1>2 DEF BeginAgain
  <2>2. r \in Records /\ content[r] \in Texts /\ r \in 0..NumRecords /\ content[r] \in 0..MaxText
    BY SizesAssumption DEF Live, JobsInv, TypeOK, Records, Texts
  <2>3. PICK t \in Texts : t = content[r] /\ t \in 0..MaxText
    BY <2>2
  <2> QED BY <1>0, <2>1, <2>2, <2>3, BeginIsOrdinary
<1>3. CASE BeginSearch(p)
  BY <1>0, <1>3, BeginIsOrdinary DEF BeginSearch
<1> QED BY <1>1, <1>2, <1>3

\* A tool, or the server, is started.
LEMMA StartIsOrdinary ==
  ASSUME JobsInv
  PROVE  /\ BeginBoot => Ordinary(Gate)
         /\ BeginTool => Ordinary(Tool)
<1>0. Gate \in Procs /\ Tool \in Procs /\ {"boot", "backfill", "rebuild", "relabel"} \subseteq Kinds \ {"none"}
      /\ 0 \in 0..NumRecords /\ 0 \in 0..MaxText
  BY SizesAssumption, ProcsAreApart DEF Kinds
<1>1. ASSUME BeginBoot PROVE Ordinary(Gate)
  BY <1>0, <1>1, BeginIsOrdinary DEF BeginBoot
<1>2. ASSUME BeginTool PROVE Ordinary(Tool)
  <2>1. PICK k \in {"backfill", "rebuild", "relabel"} : Begin(Tool, k, 0, 0)
    BY <1>2 DEF BeginTool
  <2> QED BY <1>0, <2>1, BeginIsOrdinary
<1> QED BY <1>1, <1>2

LEMMA IdentifyIsOrdinary ==
  ASSUME JobsInv, RelabelIsSafe, NEW p \in Procs, Identify(p)
  PROVE  Ordinary(p)
<1>1. PICK j \in Job : j = job[p]
  BY DEF JobsInv, TypeOK
<1>2. Identifying(j, served) /\ (j.tested # 0 => Sound(j.tested))
  BY <1>1 DEF Identify, JobsInv, JobsAreSound, JobShape, Tests
<1>3. p = Tool /\ j.kind = "relabel" /\ j.aim = "final" => Comparable(j.first)
  BY <1>1 DEF Identify, RelabelIsSafe
<1>4. job' = [job EXCEPT ![p] = Identified(p, j, served)] /\ UNCHANGED <<served, validated, store, up>>
  BY <1>1 DEF Identify
<1> QED BY <1>2, <1>3, <1>4, IdentityIsOrdinary

LEMMA ConfirmIsOrdinary ==
  ASSUME JobsInv, RelabelIsSafe, NEW p \in Procs, Confirm(p)
  PROVE  Ordinary(p)
<1>1. PICK i \in Job : i = job[p]
  BY DEF JobsInv, TypeOK
<1>2. Identifying(i, served) /\ (i.tested # 0 => Sound(i.tested)) /\ served \in Build /\ Sound(served)
  BY <1>1 DEF Confirm, JobsInv, JobsAreSound, JobShape, Tests, TypeOK
<1>3. PICK j \in Job : j = IF p = Tool THEN [i EXCEPT !.tested = served] ELSE i
  <2>1. [i EXCEPT !.tested = served] \in Job
    BY <1>2 DEF Job
  <2> QED BY <2>1
<1>4. /\ j.kind = i.kind /\ j.aim = i.aim /\ j.first = i.first /\ j.contract = i.contract /\ j.made = i.made
      /\ j.rec = i.rec /\ j.text = i.text /\ j.old = i.old /\ j.tested \in {served, i.tested}
  BY <1>3 DEF Job
<1>5. Identifying(j, served)
  BY <1>2, <1>4 DEF Identifying, From, Named, OldFits
<1>6. PICK k \in Job : k = Obtained(p, j, served)
  BY <1>2, <1>5, ObtainedIsSound
<1>7. /\ JobShape(k, served)
      /\ k.pc \in {"embed", "gate", "scan", "survey", "write", "put", "lock", "idle", "done"}
      /\ k.tested \in {0, j.tested}
      /\ k.kind = "relabel" /\ k.pc = "lock" => j.kind = "relabel" /\ j.aim = "final" /\ k.first = j.first
  BY <1>2, <1>5, <1>6, ObtainedIsSound
<1>8. job' = [job EXCEPT ![p] = k]
  BY <1>1, <1>3, <1>6 DEF Confirm
<1>9. p = Tool /\ i.kind = "relabel" /\ i.aim = "final" => Comparable(i.first)
  BY <1>1 DEF Confirm, RelabelIsSafe
<1>10. validated' \in Build \cup {0} /\ (validated' # 0 => Sound(validated')) /\ up' \in BOOLEAN
       /\ UNCHANGED <<served, store>>
  <2>1. validated' \in {validated, served} /\ up' = up /\ UNCHANGED <<served, store>>
    BY DEF Confirm
  <2> QED BY <1>2, <2>1 DEF JobsInv, TypeOK, Tests
<1>11. k.tested # 0 => Sound(k.tested)
  BY <1>2, <1>4, <1>7
<1>12. p = Tool /\ k.kind = "relabel" /\ k.pc = "lock" => Comparable(k.first)
  BY <1>4, <1>7, <1>9
<1> QED BY <1>7, <1>8, <1>10, <1>11, <1>12, SoundJobIsOrdinary

\* The identity moved, or a passage was embedded.
LEMMA EmbedIsOrdinary ==
  ASSUME JobsInv, RelabelIsSafe, NEW p \in Procs, StartOver(p) \/ Embed(p)
  PROVE  Ordinary(p)
<1>1. PICK i \in Job : i = job[p]
  BY DEF JobsInv, TypeOK
<1>2. JobShape(i, served) /\ (i.tested # 0 => Sound(i.tested)) /\ served \in Build
      /\ validated \in Build \cup {0} /\ up \in BOOLEAN /\ (validated # 0 => Sound(validated))
  BY <1>1 DEF JobsInv, JobsAreSound, Tests, TypeOK
<1>3. validated' \in Build \cup {0} /\ up' \in BOOLEAN /\ (validated' # 0 => Sound(validated')) /\ UNCHANGED <<served, store>>
  BY <1>2 DEF StartOver, Embed
<1>4. CASE StartOver(p)
  <2>1. PICK k \in Job : k = [i EXCEPT !.tries = 2, !.seen = served]
    <3> DEFINE i1 == [i EXCEPT !.tries = 2]
    <3>1. i1 \in Job BY DEF Job
    <3> HIDE DEF i1
    <3>2. [i1 EXCEPT !.seen = served] \in Job BY <1>2, <3>1 DEF Job
    <3> QED BY <3>2 DEF i1
  <2>2. job' = [job EXCEPT ![p] = k]
    BY <1>1, <1>4, <2>1 DEF StartOver
  <2>3. /\ k.pc = "reread" /\ k.kind = i.kind /\ k.aim = i.aim /\ k.first = i.first /\ k.contract = i.contract
        /\ k.made = i.made /\ k.rec = i.rec /\ k.text = i.text /\ k.old = i.old /\ k.tested = i.tested
    BY <1>1, <1>4, <2>1 DEF StartOver, Job
  <2>4. JobShape(k, served)
    BY <1>1, <1>2, <1>4, <2>3 DEF StartOver, JobShape, Identifying, From, Named, OldFits
  <2>5. p = Tool /\ k.kind = "relabel" /\ k.aim = "final" => Comparable(k.first)
    BY <1>1, <1>4, <2>3 DEF StartOver, RelabelIsSafe
  <2> QED BY <1>2, <1>3, <2>2, <2>3, <2>4, <2>5, SoundJobIsOrdinary
<1>5. CASE Embed(p)
  <2>1. PICK made \in SUBSET Build, pc \in {"identify", "embed"}, k \in Job :
          /\ k = [i EXCEPT !.made = made, !.pc = pc, !.aim = "end"]
          /\ made = IF i.kind = "search" THEN {} ELSE i.made \cup {served}
          /\ job' = [job EXCEPT ![p] = k]
    <3>1. PICK last \in BOOLEAN :
            LET made == IF job[p].kind = "search" THEN {} ELSE job[p].made \cup {served} IN
            job' = [job EXCEPT ![p].made = made, ![p].pc = IF last THEN "identify" ELSE "embed", ![p].aim = "end"]
      BY <1>5 DEF Embed
    <3> DEFINE made == IF i.kind = "search" THEN {} ELSE i.made \cup {served}
               pc == IF last THEN "identify" ELSE "embed"
    <3>2. job' = [job EXCEPT ![p] = [i EXCEPT !.made = made, !.pc = pc, !.aim = "end"]]
      BY <1>1, <3>1
    <3>3. made \in SUBSET Build /\ pc \in {"identify", "embed"}
      BY <1>2 DEF Job
    <3> HIDE DEF made, pc
    <3>4. [i EXCEPT !.made = made, !.pc = pc, !.aim = "end"] \in Job
      <4> DEFINE i1 == [i EXCEPT !.made = made]
      <4>1. i1 \in Job BY <3>3 DEF Job
      <4> HIDE DEF i1
      <4> DEFINE i2 == [i1 EXCEPT !.pc = pc]
      <4>2. i2 \in Job BY <3>3, <4>1 DEF Job, Pcs
      <4> HIDE DEF i2
      <4>3. [i2 EXCEPT !.aim = "end"] \in Job BY <4>2 DEF Job
      <4>4. [i2 EXCEPT !.aim = "end"] = [i EXCEPT !.made = made, !.pc = pc, !.aim = "end"]
        BY DEF i1, i2
      <4> QED BY <4>3, <4>4
    <3> QED BY <3>2, <3>3, <3>4 DEF made
  <2>2. /\ k.pc = pc /\ k.kind = i.kind /\ k.aim = "end" /\ k.first = i.first /\ k.contract = i.contract
        /\ k.made = made /\ k.rec = i.rec /\ k.text = i.text /\ k.tested = i.tested
    BY <2>1 DEF Job
  <2>3. i.kind \in Embedding /\ From(i, served) /\ (i.kind # "search" => Named(i))
    BY <1>1, <1>2, <1>5 DEF Embed, JobShape
  <2>4. From(k, served)
    BY <1>2, <2>1, <2>2, <2>3, BuildsAreNumbers DEF From
  <2>5. JobShape(k, served) /\ k.kind # "none" /\ k.kind # "relabel"
    BY <2>1, <2>2, <2>3, <2>4 DEF JobShape, Identifying, Named, Embedding
  <2> QED BY <1>2, <1>3, <2>1, <2>2, <2>5, SoundJobIsOrdinary
<1> QED BY <1>4, <1>5

\* A job is given up.
LEMMA DropIsOrdinary ==
  ASSUME JobsInv, NEW p \in Procs, Drop(p), UNCHANGED <<served, validated, store>>, up' \in BOOLEAN
  PROVE  Ordinary(p)
<1>1. served \in Build /\ validated' \in Build \cup {0} /\ (validated' # 0 => Sound(validated'))
  BY DEF JobsInv, TypeOK, Tests
<1>2. PICK k \in Job : k = Ended(p)
  BY <1>1, EndedIsSound
<1>3. JobShape(k, served) /\ k.pc \in {"idle", "done"} /\ k.tested = 0 /\ k.kind = "none"
  BY <1>1, <1>2, EndedIsSound
<1>4. job' = [job EXCEPT ![p] = k]
  BY <1>2 DEF Drop
<1> QED BY <1>1, <1>3, <1>4, SoundJobIsOrdinary

\* The scan comes to a record.
LEMMA NextIsLive ==
  ASSUME JobsInv, NextRecords(Tool) # {}
  PROVE  (CHOOSE s \in NextRecords(Tool) : \A t \in NextRecords(Tool) : s <= t) \in Live
<1>1. NextRecords(Tool) \subseteq Live /\ NextRecords(Tool) \subseteq Nat
  BY SizesAssumption DEF NextRecords, Live, Records
<1>2. PICK x \in NextRecords(Tool) : \A y \in NextRecords(Tool) : ~(<<y, x>> \in OpToRel(<, Nat))
  BY <1>1, NatLessThanWellFounded, WFMin, Zenon
<1>3. \A y \in NextRecords(Tool) : x <= y
  <2>1. \A y \in NextRecords(Tool) : ~(y < x)
    BY <1>1, <1>2, Zenon DEF OpToRel
  <2> QED BY <1>1, <2>1
<1> QED BY <1>1, <1>3

\* The tool goes on to another place without a change of what it holds.
LEMMA AskOrGotoIsOrdinary ==
  ASSUME JobsInv, NEW pc \in {"sample", "sampled", "identify"}, NEW aim \in {"begin", "end", "final"},
         NEW i \in Job, i = job[Tool], NEW old \in Contracts \cup {NoContract},
         job' = [job EXCEPT ![Tool] = [i EXCEPT !.pc = pc, !.aim = aim, !.old = old]],
         JobShape([i EXCEPT !.pc = pc, !.aim = aim, !.old = old], served),
         UNCHANGED <<served, validated, store, up>>,
         pc = "sampled" /\ served = i.first => Comparable(i.first),
         pc = "identify" /\ aim = "final" /\ i.kind = "relabel" => Comparable(i.first)
  PROVE  Ordinary(Tool)
<1> DEFINE i1 == [i EXCEPT !.pc = pc]
           i2 == [i1 EXCEPT !.aim = aim]
           i3 == [i2 EXCEPT !.old = old]
<1>1. i1 \in Job BY DEF Job, Pcs
<1> HIDE DEF i1
<1>2. i2 \in Job BY <1>1 DEF Job
<1> HIDE DEF i2
<1>3. i3 \in Job BY <1>2 DEF Job
<1> HIDE DEF i3
<1>4. i3 = [i EXCEPT !.pc = pc, !.aim = aim, !.old = old] BY DEF i1, i2, i3
<1>5. PICK k \in Job : k = i3 BY <1>3
<1>6. /\ k.pc = pc /\ k.aim = aim /\ k.kind = i.kind /\ k.first = i.first /\ k.tested = i.tested
  BY <1>4, <1>5 DEF Job
<1>7. JobShape(k, served) /\ job' = [job EXCEPT ![Tool] = k]
  BY <1>4, <1>5
<1>8. (k.tested # 0 => Sound(k.tested)) /\ (validated' # 0 => Sound(validated'))
      /\ validated' \in Build \cup {0} /\ up' \in BOOLEAN
  BY <1>6, ProcsAreApart DEF JobsInv, Tests, TypeOK
<1> QED BY <1>6, <1>7, <1>8, SoundJobIsOrdinary, ProcsAreApart

LEMMA ScanIsOrdinary ==
  ASSUME JobsInv, Scan
  PROVE  Ordinary(Tool)
<1>1. PICK i \in Job : i = job[Tool]
  BY ProcsAreApart DEF JobsInv, TypeOK
<1>2. i.kind \in {"backfill", "rebuild"} /\ From(i, served) /\ (i.tested # 0 => Sound(i.tested))
      /\ i.old \in Contracts \cup {NoContract}
  BY <1>1, ProcsAreApart DEF Scan, JobsInv, JobsAreSound, JobShape, Tests, Job
<1>3. CASE NextRecords(Tool) = {}
  <2>1. job' = [job EXCEPT ![Tool] = [i EXCEPT !.pc = "identify", !.aim = "final"]]
    BY <1>1, <1>3 DEF Scan, Ask
  <2>2. [i EXCEPT !.pc = "identify", !.aim = "final", !.old = i.old] = [i EXCEPT !.pc = "identify", !.aim = "final"]
    BY DEF Job
  <2>3. JobShape([i EXCEPT !.pc = "identify", !.aim = "final", !.old = i.old], served)
    BY <1>2 DEF JobShape, Identifying, From, Embedding, Job
  <2> QED BY <1>1, <1>2, <2>1, <2>2, <2>3, AskOrGotoIsOrdinary DEF Scan
<1>4. CASE NextRecords(Tool) # {}
  <2> DEFINE r == CHOOSE s \in NextRecords(Tool) : \A t \in NextRecords(Tool) : s <= t
             pc == IF i.kind = "backfill" /\ Current(r, i.contract) THEN "scan" ELSE "embed"
             text == content[r]
  <2>1. r \in Records /\ text \in Texts /\ r \in 0..NumRecords /\ text \in 0..MaxText /\ pc \in {"scan", "embed"}
    BY <1>4, NextIsLive, SizesAssumption DEF Live, JobsInv, TypeOK, Records, Texts
  <2>2. job' = [job EXCEPT ![Tool] = [i EXCEPT !.rec = r, !.text = text, !.made = {}, !.last = 0, !.pc = pc]]
    BY <1>1, <1>4 DEF Scan
  <2> HIDE DEF r, pc, text
  <2>3. PICK k \in Job : k = [i EXCEPT !.rec = r, !.text = text, !.made = {}, !.last = 0, !.pc = pc]
    <3> DEFINE i1 == [i EXCEPT !.rec = r, !.text = text]
               i2 == [i1 EXCEPT !.made = {}]
               i3 == [i2 EXCEPT !.last = 0]
               i4 == [i3 EXCEPT !.pc = pc]
    <3>1. i1 \in Job BY <2>1 DEF Job
    <3> HIDE DEF i1
    <3>2. i2 \in Job BY <3>1 DEF Job
    <3> HIDE DEF i2
    <3>3. i3 \in Job BY <3>2 DEF Job
    <3> HIDE DEF i3
    <3>4. i4 \in Job BY <2>1, <3>3 DEF Job, Pcs
    <3>5. i4 = [i EXCEPT !.rec = r, !.text = text, !.made = {}, !.last = 0, !.pc = pc]
      BY DEF i1, i2, i3
    <3> QED BY <3>4, <3>5
  <2>4. /\ k.pc = pc /\ k.kind = i.kind /\ k.first = i.first /\ k.contract = i.contract /\ k.made = {}
        /\ k.rec = r /\ k.text = text /\ k.tested = i.tested
    BY <2>3 DEF Job
  <2>5. JobShape(k, served)
    BY <1>2, <2>1, <2>4 DEF JobShape, From, Named, Embedding
  <2>6. /\ UNCHANGED <<served, store>> /\ validated' \in Build \cup {0} /\ up' \in BOOLEAN
        /\ validated' # 0 => Sound(validated')
    BY DEF Scan, JobsInv, TypeOK, Tests
  <2>7. k.kind # "relabel" /\ k.pc \notin {"commit", "locked", "retrieve", "answered"}
    BY <1>2, <2>1, <2>4
  <2> QED BY <1>2, <2>2, <2>3, <2>4, <2>5, <2>6, <2>7, SoundJobIsOrdinary, ProcsAreApart
<1> QED BY <1>3, <1>4

\* The survey finds the generation that 1.28 left, of the model served now.
LEMMA SurveyIsOrdinary ==
  ASSUME JobsInv, ActiveIsKnown, Survey
  PROVE  Ordinary(Tool)
<1>1. PICK i \in Job : i = job[Tool]
  BY ProcsAreApart DEF JobsInv, TypeOK
<1>2. i.kind = "relabel" /\ From(i, served) /\ active \in Contracts \cup {NoContract} /\ i.aim \in {"begin", "end", "final"}
  BY <1>1, ProcsAreApart DEF Survey, JobsInv, JobsAreSound, JobShape, TypeOK, Job
<1>3. CASE Drop(Tool)
  BY <1>3, ProcsAreApart, DropIsOrdinary DEF Survey, JobsInv, TypeOK
<1>4. CASE /\ LegacyOf(i.first, active)
           /\ job' = [job EXCEPT ![Tool] = [i EXCEPT !.old = active, !.pc = "sample"]]
  <2>1. Legacy(active) /\ active.digest = i.contract.digest
    <3>1. PICK v \in Build : Digest(v) = Digest(i.first) /\ active = LegacyContractFor(v)
      BY <1>4 DEF LegacyOf
    <3>2. active.runtime = Runtime(v) /\ active.digest = Digest(i.first) /\ i.contract.digest = Digest(i.first)
      BY <1>2, <3>1 DEF LegacyContractFor, From, ContractFor
    <3>3. active # NoContract /\ \A b \in Build : active # ContractFor(b)
      BY <3>2, BuildsAssumption DEF NoContract, ContractFor, Unversioned
    <3> QED BY <3>2, <3>3 DEF ActiveIsKnown, Legacy
  <2>2. [i EXCEPT !.old = active, !.pc = "sample"] = [i EXCEPT !.pc = "sample", !.aim = i.aim, !.old = active]
    BY DEF Job
  <2>3. JobShape([i EXCEPT !.pc = "sample", !.aim = i.aim, !.old = active], served)
    BY <1>2, <2>1 DEF JobShape, From, OldFits, Job
  <2>4. PICK old \in Contracts \cup {NoContract} : old = active
    BY <1>2
  <2> QED BY <1>1, <1>2, <1>4, <2>2, <2>3, <2>4, AskOrGotoIsOrdinary DEF Survey
<1> QED BY <1>1, <1>3, <1>4 DEF Survey

\* A sample that convinces was made in the space of the build that is served.
LEMMA SampleIsOrdinary ==
  ASSUME JobsInv, EntriesAreSound, Sample
  PROVE  Ordinary(Tool)
<1>1. PICK i \in Job : i = job[Tool]
  BY ProcsAreApart DEF JobsInv, TypeOK
<1>2. i.kind = "relabel" /\ From(i, served) /\ OldFits(i) /\ i.aim \in {"begin", "end", "final"}
      /\ i.old \in Contracts \cup {NoContract}
  BY <1>1, ProcsAreApart DEF Sample, JobsInv, JobsAreSound, JobShape, Job
<1> DEFINE Stored == {r \in Live : index[r].contract = i.old}
<1>3. PICK S \in SUBSET {r \in Stored : index[r].source = content[r]} :
        IF Convincing(Stored, S) /\ \A r \in S : Alike(r, served)
        THEN Goto(Tool, "sampled") ELSE Drop(Tool)
  BY <1>1 DEF Sample
<1>6. UNCHANGED <<served, validated, store, up>>
  BY DEF Sample
<1>4. CASE Drop(Tool)
  BY <1>4, ProcsAreApart, DropIsOrdinary DEF Sample, JobsInv, TypeOK
<1>5. CASE Goto(Tool, "sampled") /\ Convincing(Stored, S) /\ \A r \in S : Alike(r, served)
  <2>1. Comparable(served)
    <3>1. CASE Stored = {}
      BY <1>2, <3>1 DEF Comparable, OldFits, Legacy
    <3>2. CASE S # {}
      <4>1. PICK r \in S : r \in Records /\ Legacy(index[r].contract) /\ Alike(r, served)
        BY <1>2, <1>5, <3>2 DEF OldFits, Legacy, Live
      <4>2. index[r].made = {1}
        BY <4>1 DEF EntriesAreSound
      <4> QED BY <4>1, <4>2 DEF Alike, Comparable
    <3> QED BY <1>5, <3>1, <3>2 DEF Convincing
  <2>2. [i EXCEPT !.pc = "sampled"] = [i EXCEPT !.pc = "sampled", !.aim = i.aim, !.old = i.old]
    BY DEF Job
  <2>3. JobShape([i EXCEPT !.pc = "sampled", !.aim = i.aim, !.old = i.old], served)
    BY <1>2 DEF JobShape, From, OldFits, Job
  <2>4. job' = [job EXCEPT ![Tool] = [i EXCEPT !.pc = "sampled"]]
    BY <1>1, <1>5 DEF Goto
  <2>5. served = i.first => Comparable(i.first)
    BY <2>1
  <2>6. job' = [job EXCEPT ![Tool] = [i EXCEPT !.pc = "sampled", !.aim = i.aim, !.old = i.old]]
    BY <2>2, <2>4
  <2> HIDE DEF Stored
  <2> QED BY <1>1, <1>2, <1>6, <2>3, <2>5, <2>6, AskOrGotoIsOrdinary
<1> QED BY <1>3, <1>4, <1>5

LEMMA SampledIsOrdinary ==
  ASSUME JobsInv, RelabelIsSafe, Sampled
  PROVE  Ordinary(Tool)
<1>1. PICK i \in Job : i = job[Tool]
  BY ProcsAreApart DEF JobsInv, TypeOK
<1>2. i.pc = "sampled" /\ i.kind = "relabel" /\ From(i, served) /\ OldFits(i) /\ i.old \in Contracts \cup {NoContract}
  BY <1>1, ProcsAreApart DEF Sampled, JobsInv, JobsAreSound, JobShape, Job
<1>3. CASE Drop(Tool)
  BY <1>3, ProcsAreApart, DropIsOrdinary DEF Sampled, JobsInv, TypeOK
<1>4. CASE SameRuntime(Tool) /\ Ask(Tool, "final")
  <2>1. Comparable(i.first)
    BY <1>1, <1>2, <1>4 DEF RelabelIsSafe, SameRuntime
  <2>2. [i EXCEPT !.pc = "identify", !.aim = "final"] = [i EXCEPT !.pc = "identify", !.aim = "final", !.old = i.old]
    BY DEF Job
  <2>3. JobShape([i EXCEPT !.pc = "identify", !.aim = "final", !.old = i.old], served)
    BY <1>2 DEF JobShape, Identifying, From, OldFits, Job
  <2>4. job' = [job EXCEPT ![Tool] = [i EXCEPT !.pc = "identify", !.aim = "final"]]
    BY <1>1, <1>4 DEF Ask
  <2> QED BY <1>1, <1>2, <2>1, <2>2, <2>3, <2>4, AskOrGotoIsOrdinary DEF Sampled
<1> QED BY <1>3, <1>4 DEF Sampled

\* All of them.
OrdinaryStep(p) ==
  \/ p \in Callers /\ (BeginSet(p) \/ BeginAgain(p) \/ BeginSearch(p))
  \/ p \in Procs /\ (Identify(p) \/ Confirm(p) \/ StartOver(p) \/ Embed(p) \/ GiveUp(p))
  \/ p = Tool /\ (BeginTool \/ Scan \/ Survey \/ Sample \/ Sampled)
  \/ p = Gate /\ BeginBoot

LEMMA OrdinarySteps ==
  ASSUME IInv, NEW p \in Procs, OrdinaryStep(p)
  PROVE  Ordinary(p)
<1>1. JobsInv /\ RelabelIsSafe /\ EntriesAreSound /\ ActiveIsKnown
  BY DEF IInv, JobsInv
<1>2. CASE p \in Callers /\ (BeginSet(p) \/ BeginAgain(p) \/ BeginSearch(p))
  BY <1>1, <1>2, CallIsOrdinary
<1>3. CASE Identify(p) \/ Confirm(p) \/ StartOver(p) \/ Embed(p)
  BY <1>1, <1>3, IdentifyIsOrdinary, ConfirmIsOrdinary, EmbedIsOrdinary
<1>4. CASE GiveUp(p)
  BY <1>1, <1>4, DropIsOrdinary DEF GiveUp, JobsInv, TypeOK
<1>5. CASE p = Tool /\ (BeginTool \/ Scan \/ Survey \/ Sample \/ Sampled)
  BY <1>1, <1>5, StartIsOrdinary, ScanIsOrdinary, SurveyIsOrdinary, SampleIsOrdinary, SampledIsOrdinary
<1>6. CASE p = Gate /\ BeginBoot
  BY <1>1, <1>6, StartIsOrdinary
<1> QED BY <1>2, <1>3, <1>4, <1>5, <1>6 DEF OrdinaryStep

\* An ordinary step leaves the rest as it is.
LEMMA OrdinaryKeepsInvariant ==
  ASSUME IInv, NEW p \in Procs, Ordinary(p)
  PROVE  IInv'
<1>1. \A q \in Callers : job'[q].pc \in {"commit", "retrieve", "answered"} => job'[q] = job[q]
  BY ProcsAreApart DEF Ordinary
<1>2. job'[Tool].pc = "locked" => job'[Tool] = job[Tool]
  BY ProcsAreApart DEF Ordinary
<1>3. EntriesAreSound' /\ ActiveIsKnown'
  BY DEF IInv, Ordinary, store, EntriesAreSound, ActiveIsKnown, Legacy, LegacyContractFor, ContractFor, Digest, Runtime
<1>4. OpenIsActive'
  BY <1>1, <1>2 DEF IInv, OpenIsActive, Ordinary, store
<1>5. SnapshotsAreUniform'
  BY <1>1 DEF IInv, SnapshotsAreUniform
<1>6. RelabelIsSafe'
  <2>1. CASE p = Tool
    BY <2>1 DEF Ordinary
  <2>2. CASE p # Tool
    <3>1. job'[Tool] = job[Tool] /\ job[Tool] \in Job
      BY <2>2, ProcsAreApart DEF Ordinary, IInv, TypeOK
    <3>2. PICK k \in Job : k = job[Tool]
      BY <3>1
    <3> QED BY <3>1, <3>2, SafeByTheJob DEF IInv, RelabelIsSafe, Ordinary
  <2> QED BY <2>1, <2>2
<1>7. ActiveGenerationStaysComplete'
  BY DEF IInv, ActiveGenerationStaysComplete, Ready, Live, Ordinary, store
<1> QED BY <1>3, <1>4, <1>5, <1>6, <1>7 DEF IInv, Ordinary

-----------------------------------------------------------------------------
(* The steps of the transactions.                                          *)

\* One job changes, and stays sound; the database may change with it.
LEMMA OneJobChanges ==
  ASSUME JobsInv, NEW p \in Procs, NEW k \in Job, job' = [job EXCEPT ![p] = k],
         JobShape(k, served), k.tested # 0 => Sound(k.tested),
         UNCHANGED <<served, validated>>
  PROVE  /\ job' \in [Procs -> Job] /\ Tests' /\ JobsAreSound'
         /\ job'[p] = k /\ \A q \in Procs \ {p} : job'[q] = job[q]
<1>1. job \in [Procs -> Job] BY DEF JobsInv, TypeOK
<1>2. job'[p] = k /\ \A q \in Procs \ {p} : job'[q] = job[q] /\ job[q] \in Job
  BY <1>1
<1>3. job' \in [Procs -> Job]
  BY <1>1
<1>4. Tests'
  BY <1>2 DEF JobsInv, Tests, Sound
<1>5. JobsAreSound'
  <2> SUFFICES ASSUME NEW q \in Procs PROVE JobShape(job'[q], served')
    BY DEF JobsAreSound, JobShape, Identifying, Named, From, Prepared, OldFits, Legacy, LegacyContractFor, ContractFor, Digest, Runtime, Sound, Embedding
  <2> QED BY <1>2 DEF JobsInv, JobsAreSound
<1> QED BY <1>2, <1>3, <1>4, <1>5

\* A job of another process than the tool leaves the relabel safe.
LEMMA OthersLeaveTheRelabel ==
  ASSUME JobsInv, RelabelIsSafe, job'[Tool] = job[Tool], UNCHANGED <<served, store>>
  PROVE  RelabelIsSafe'
<1>1. PICK k \in Job : k = job[Tool]
  BY ProcsAreApart DEF JobsInv, TypeOK
<1> QED BY <1>1, SafeByTheJob DEF RelabelIsSafe

\* A statement writes the row and its entry: only under the active contract, and not under the table lock.
LEMMA WriteKeepsInvariant ==
  ASSUME IInv, NEW p \in Callers, Write(p)
  PROVE  IInv'
<1>0. JobsInv /\ RelabelIsSafe /\ p \in Procs /\ p # Tool /\ served \in Build
  BY ProcsAreApart DEF IInv, JobsInv, TypeOK
<1>1. PICK i \in Job : i = job[p]
  BY <1>0 DEF JobsInv, TypeOK
<1>2. CASE Drop(p)
  <2>1. Ordinary(p)
    BY <1>0, <1>2, DropIsOrdinary DEF Write, JobsInv, TypeOK
  <2> QED BY <1>0, <2>1, OrdinaryKeepsInvariant
<1>3. CASE Accepted(p) /\ job' = [job EXCEPT ![p] = [i EXCEPT !.pc = "commit", !.first = 0, !.last = 0]]
  <2>1. PICK k \in Job : k = [i EXCEPT !.pc = "commit", !.first = 0, !.last = 0]
    <3> DEFINE i1 == [i EXCEPT !.pc = "commit"]
               i2 == [i1 EXCEPT !.first = 0]
               i3 == [i2 EXCEPT !.last = 0]
    <3>1. i1 \in Job BY DEF Job, Pcs
    <3> HIDE DEF i1
    <3>2. i2 \in Job BY <3>1 DEF Job
    <3> HIDE DEF i2
    <3>3. i3 \in Job BY <3>2 DEF Job
    <3>4. i3 = [i EXCEPT !.pc = "commit", !.first = 0, !.last = 0] BY DEF i1, i2
    <3> QED BY <3>3, <3>4
  <2>2. /\ k.pc = "commit" /\ k.kind = i.kind /\ k.contract = i.contract /\ k.made = i.made
        /\ k.rec = i.rec /\ k.text = i.text /\ k.tested = i.tested
    BY <2>1 DEF Job
  <2>3. Named(i) /\ Prepared(i, served) /\ i.kind \in {"set", "again"} /\ (i.tested # 0 => Sound(i.tested))
    BY <1>0, <1>1 DEF Write, JobsInv, JobsAreSound, JobShape, Tests
  <2>4. \A m \in i.made : Digest(m) = i.contract.digest
    BY <1>0, <2>3, IntervalsAreOfOneModel
  <2>5. JobShape(k, served)
    BY <2>2, <2>3, <2>4 DEF JobShape, Named, Prepared, From
  <2>6. job' = [job EXCEPT ![p] = k] /\ UNCHANGED <<served, validated, store, up>>
    BY <1>3, <2>1 DEF Write
  <2>7. /\ job' \in [Procs -> Job] /\ Tests' /\ JobsAreSound'
        /\ job'[p] = k /\ \A q \in Procs \ {p} : job'[q] = job[q]
    BY <1>0, <2>2, <2>3, <2>5, <2>6, OneJobChanges
  <2>8. TypeOK'
    BY <2>6, <2>7 DEF IInv, TypeOK, store
  <2>9. EntriesAreSound' /\ ActiveIsKnown' /\ ActiveGenerationStaysComplete'
    <3>1. EntriesAreSound'
      BY <2>6 DEF IInv, EntriesAreSound, Legacy, LegacyContractFor, Digest, Runtime, store
    <3>2. ActiveIsKnown'
      BY <2>6 DEF IInv, ActiveIsKnown, LegacyContractFor, ContractFor, Digest, Runtime, store
    <3>3. ActiveGenerationStaysComplete'
      BY <2>6 DEF IInv, ActiveGenerationStaysComplete, Ready, Live, store
    <3> QED BY <3>1, <3>2, <3>3
  <2>10. OpenIsActive'
    BY <1>0, <1>1, <1>3, <2>2, <2>6, <2>7, ProcsAreApart DEF IInv, OpenIsActive, Accepted, ShareLockHeld, Write, store
  <2>11. SnapshotsAreUniform'
    BY <2>2, <2>7, ProcsAreApart DEF IInv, SnapshotsAreUniform
  <2>12. RelabelIsSafe'
    BY <1>0, <2>6, <2>7, ProcsAreApart, OthersLeaveTheRelabel
  <2> QED BY <2>7, <2>8, <2>9, <2>10, <2>11, <2>12 DEF IInv
<1> QED BY <1>1, <1>2, <1>3 DEF Write

\* The gate's statement: what it reads is one complete generation.
LEMMA GateKeepsInvariant ==
  ASSUME IInv, NEW p \in Procs, PassGate(p)
  PROVE  IInv'
<1>0. JobsInv /\ RelabelIsSafe
  BY DEF IInv, JobsInv
<1>1. PICK i \in Job : i = job[p]
  BY <1>0 DEF JobsInv, TypeOK
<1>2. CASE Drop(p)
  <2>1. up' \in BOOLEAN
    BY <1>0 DEF PassGate, JobsInv, TypeOK
  <2>2. Ordinary(p)
    BY <1>0, <1>2, <2>1, DropIsOrdinary DEF PassGate
  <2> QED BY <2>2, OrdinaryKeepsInvariant
<1>3. CASE Ready(i.contract) /\ job' = [job EXCEPT ![p] = [i EXCEPT !.snap = Corpus, !.pc = "retrieve"]] /\ UNCHANGED up
  <2>1. PICK snap \in SUBSET [contract : Contracts \cup {NoContract}, fresh : BOOLEAN] : snap = Corpus
    <3>1. \A r \in Live : index[r].contract \in Contracts \cup {NoContract}
      BY DEF IInv, TypeOK, Entries, NoEntry, Live
    <3>2. Corpus \in SUBSET [contract : Contracts \cup {NoContract}, fresh : BOOLEAN]
      <4> SUFFICES ASSUME NEW e \in Corpus
                   PROVE  e \in [contract : Contracts \cup {NoContract}, fresh : BOOLEAN]
        OBVIOUS
      <4>1. PICK r \in Live : e = [contract |-> index[r].contract, fresh |-> index[r].source = content[r]]
        BY DEF Corpus
      <4>2. PICK fresh \in BOOLEAN : fresh = (index[r].source = content[r])
        OBVIOUS
      <4> QED BY <3>1, <4>1, <4>2
    <3> QED BY <3>2
  <2>2. PICK k \in Job : k = [i EXCEPT !.snap = snap, !.pc = "retrieve"]
    <3> DEFINE i1 == [i EXCEPT !.snap = snap]
    <3>1. i1 \in Job BY DEF Job
    <3> HIDE DEF i1
    <3>2. [i1 EXCEPT !.pc = "retrieve"] \in Job BY <3>1 DEF Job, Pcs
    <3> QED BY <3>2 DEF i1
  <2>3. k.pc = "retrieve" /\ k.snap = snap /\ k.contract = i.contract /\ k.tested = i.tested /\ k.kind = i.kind
    BY <2>2 DEF Job
  <2>4. JobShape(k, served) /\ (k.tested # 0 => Sound(k.tested))
    BY <1>0, <1>1, <2>3 DEF JobShape, JobsInv, Tests
  <2>5. job' = [job EXCEPT ![p] = k] /\ UNCHANGED <<served, validated, store, up>>
    BY <1>3, <2>1, <2>2 DEF PassGate
  <2>6. /\ job' \in [Procs -> Job] /\ Tests' /\ JobsAreSound'
        /\ job'[p] = k /\ \A q \in Procs \ {p} : job'[q] = job[q]
    BY <1>0, <2>4, <2>5, OneJobChanges
  <2>7. TypeOK'
    BY <2>5, <2>6 DEF IInv, TypeOK, store
  <2>8. EntriesAreSound' /\ ActiveIsKnown' /\ ActiveGenerationStaysComplete'
    <3>1. EntriesAreSound'
      BY <2>5 DEF IInv, EntriesAreSound, Legacy, LegacyContractFor, Digest, Runtime, store
    <3>2. ActiveIsKnown'
      BY <2>5 DEF IInv, ActiveIsKnown, LegacyContractFor, ContractFor, Digest, Runtime, store
    <3>3. ActiveGenerationStaysComplete'
      BY <2>5 DEF IInv, ActiveGenerationStaysComplete, Ready, Live, store
    <3> QED BY <3>1, <3>2, <3>3
  <2>9. OpenIsActive'
    BY <2>3, <2>5, <2>6, ProcsAreApart DEF IInv, OpenIsActive, store
  <2>10. \A e \in snap : e.fresh /\ e.contract = i.contract
    BY <1>3, <2>1 DEF Ready, Corpus
  <2>11. SnapshotsAreUniform'
    BY <2>3, <2>6, <2>10, ProcsAreApart DEF IInv, SnapshotsAreUniform
  <2>12. RelabelIsSafe'
    <3>1. CASE p = Tool
      BY <2>3, <2>5, <2>6, <3>1, SafeByTheJob
    <3>2. CASE p # Tool
      BY <1>0, <2>5, <2>6, <3>2, ProcsAreApart, OthersLeaveTheRelabel
    <3> QED BY <3>1, <3>2
  <2> QED BY <2>6, <2>7, <2>8, <2>9, <2>11, <2>12 DEF IInv
<1> QED BY <1>1, <1>2, <1>3 DEF PassGate

\* The ranking reads what the gate's statement saw.
LEMMA RetrieveKeepsInvariant ==
  ASSUME IInv, NEW p \in Callers, Retrieve(p)
  PROVE  IInv'
<1>0. JobsInv /\ RelabelIsSafe /\ p \in Procs /\ p # Tool
  BY ProcsAreApart DEF IInv, JobsInv
<1>1. PICK i \in Job : i = job[p]
  BY <1>0 DEF JobsInv, TypeOK
<1>2. PICK k \in Job : k = [i EXCEPT !.pc = "answered"]
  <2>1. [i EXCEPT !.pc = "answered"] \in Job BY DEF Job, Pcs
  <2> QED BY <2>1
<1>3. k.pc = "answered" /\ k.snap = i.snap /\ k.contract = i.contract /\ k.tested = i.tested
  BY <1>2 DEF Job
<1>4. JobShape(k, served) /\ (k.tested # 0 => Sound(k.tested))
  BY <1>0, <1>1, <1>3 DEF JobShape, JobsInv, Tests
<1>5. job' = [job EXCEPT ![p] = k] /\ UNCHANGED <<served, validated, store, up>>
  <2>1. [i EXCEPT !.snap = i.snap, !.pc = "answered"] = [i EXCEPT !.pc = "answered"]
    BY DEF Job
  <2>2. job' = [job EXCEPT ![p] = [i EXCEPT !.snap = i.snap, !.pc = "answered"]]
    BY <1>1 DEF Retrieve, Snapshot
  <2> QED BY <1>2, <2>1, <2>2 DEF Retrieve
<1>6. /\ job' \in [Procs -> Job] /\ Tests' /\ JobsAreSound'
      /\ job'[p] = k /\ \A q \in Procs \ {p} : job'[q] = job[q]
  BY <1>0, <1>4, <1>5, OneJobChanges
<1>7. TypeOK'
  BY <1>5, <1>6 DEF IInv, TypeOK, store
<1>8. EntriesAreSound'
  BY <1>5 DEF IInv, EntriesAreSound, Legacy, LegacyContractFor, Digest, Runtime, store
<1>9. ActiveIsKnown'
  BY <1>5 DEF IInv, ActiveIsKnown, LegacyContractFor, ContractFor, Digest, Runtime, store
<1>10. ActiveGenerationStaysComplete'
  BY <1>5 DEF IInv, ActiveGenerationStaysComplete, Ready, Live, store
<1>11. OpenIsActive'
  BY <1>3, <1>5, <1>6, ProcsAreApart DEF IInv, OpenIsActive, store
<1>12. SnapshotsAreUniform'
  <2>1. \A e \in k.snap : e.fresh /\ e.contract = k.contract
    BY <1>1, <1>3 DEF IInv, SnapshotsAreUniform, Retrieve
  <2> QED BY <1>6, <2>1, ProcsAreApart DEF IInv, SnapshotsAreUniform
<1>13. RelabelIsSafe'
  BY <1>0, <1>5, <1>6, ProcsAreApart, OthersLeaveTheRelabel
<1> QED BY <1>6, <1>7, <1>8, <1>9, <1>10, <1>11, <1>12, <1>13 DEF IInv

\* An entry of vectors of its contract's model replaces another.
LEMMA SoundEntryKeepsEntriesSound ==
  ASSUME EntriesAreSound, NEW q \in Records, NEW e, ~Legacy(e.contract), \A m \in e.made : Digest(m) = e.contract.digest,
         \A r \in Records : r # q => index'[r] = index[r],
         index'[q] = e
  PROVE  EntriesAreSound'
<1> SUFFICES ASSUME NEW r \in Records
             PROVE  /\ \A m \in index'[r].made : Digest(m) = index'[r].contract.digest
                    /\ Legacy(index'[r].contract) => index'[r].made = {1}
  BY DEF EntriesAreSound, Legacy, LegacyContractFor, Digest, Runtime
<1>1. CASE r = q
  BY <1>1
<1>2. CASE r # q
  BY <1>2 DEF EntriesAreSound
<1> QED BY <1>1, <1>2

\* A commit puts in an entry of the active contract.
LEMMA CommitKeepsInvariant ==
  ASSUME IInv, NEW p \in Callers, Commit(p)
  PROVE  IInv'
<1>0. JobsInv /\ RelabelIsSafe /\ p \in Procs /\ p # Tool /\ served \in Build
  BY ProcsAreApart DEF IInv, JobsInv, TypeOK
<1>1. PICK i \in Job : i = job[p]
  BY <1>0 DEF JobsInv, TypeOK
<1>2. /\ Named(i) /\ i.made # {} /\ i.contract = active
      /\ \A m \in i.made : Digest(m) = i.contract.digest
  BY <1>0, <1>1 DEF Commit, JobsInv, JobsAreSound, JobShape, IInv, OpenIsActive
<1>3. i.contract \in Contracts /\ ~Legacy(i.contract)
  <2>1. PICK b \in Build : i.contract = ContractFor(b)
    BY <1>0, <1>1 DEF Commit, JobsInv, JobsAreSound, JobShape
  <2> QED BY <2>1, ContractsAreApart
<1> DEFINE e == [contract |-> i.contract, source |-> i.text, made |-> i.made]
<1>4. e \in Entries
  BY <1>2, <1>3 DEF Entries, Named, Job
<1>5. /\ content' = [content EXCEPT ![i.rec] = i.text]
      /\ index' = [index EXCEPT ![i.rec] = e]
      /\ UNCHANGED <<served, validated, active, sealed, up>>
  BY <1>1 DEF Commit, EntryOf
<1>6. PICK k \in Job : k = Ended(p)
  BY <1>0, EndedIsSound
<1>7. JobShape(k, served) /\ k.pc \in {"idle", "done"} /\ k.tested = 0
  BY <1>0, <1>6, EndedIsSound
<1>8. /\ job' \in [Procs -> Job] /\ Tests' /\ JobsAreSound'
      /\ job'[p] = k /\ \A q \in Procs \ {p} : job'[q] = job[q]
  BY <1>0, <1>5, <1>6, <1>7, OneJobChanges DEF Commit, Drop
<1>9. i.rec \in Records /\ i.text \in Texts /\ i.text \in 0..MaxText /\ i.text # 0
  BY <1>2, SizesAssumption DEF Named, Texts
<1>10. /\ content' \in [Records -> 0..MaxText] /\ index' \in [Records -> Entries \cup {NoEntry}]
       /\ \A r \in Records : r # i.rec => content'[r] = content[r] /\ index'[r] = index[r]
       /\ content'[i.rec] = i.text /\ index'[i.rec] = e
  BY <1>4, <1>5, <1>9 DEF IInv, TypeOK
<1> HIDE DEF e
<1>11. e.contract = i.contract /\ e.source = i.text /\ e.made = i.made
  BY DEF e
<1>12. TypeOK'
  BY <1>5, <1>8, <1>10 DEF IInv, TypeOK
<1>13. EntriesAreSound'
  BY <1>2, <1>3, <1>9, <1>10, <1>11, SoundEntryKeepsEntriesSound DEF IInv
<1>14. ActiveIsKnown'
  BY <1>5 DEF IInv, ActiveIsKnown, LegacyContractFor, ContractFor, Digest, Runtime
<1>15. OpenIsActive'
  BY <1>0, <1>5, <1>7, <1>8, ProcsAreApart DEF IInv, OpenIsActive
<1>16. SnapshotsAreUniform'
  BY <1>7, <1>8, ProcsAreApart DEF IInv, SnapshotsAreUniform
<1>17. ActiveGenerationStaysComplete'
  BY <1>2, <1>5, <1>10, <1>11 DEF IInv, ActiveGenerationStaysComplete, Ready, Live
<1>18. \A b : Comparable(b) => Comparable(b)'
  BY <1>3, <1>10, <1>11 DEF Comparable, Live, Legacy, LegacyContractFor, Digest, Runtime, Space
<1>19. RelabelIsSafe'
  BY <1>0, <1>5, <1>8, <1>18, ProcsAreApart DEF RelabelIsSafe
<1> QED BY <1>8, <1>12, <1>13, <1>14, <1>15, <1>16, <1>17, <1>19 DEF IInv

\* The tool puts in the entry it prepared for a record.
LEMMA PutKeepsInvariant ==
  ASSUME IInv, Put
  PROVE  IInv'
<1>0. JobsInv /\ served \in Build
  BY DEF IInv, JobsInv, TypeOK
<1>1. PICK i \in Job : i = job[Tool]
  BY <1>0, ProcsAreApart DEF JobsInv, TypeOK
<1>2. CASE Drop(Tool) /\ UNCHANGED <<index, sealed>>
  <2>1. Ordinary(Tool)
    BY <1>0, <1>2, DropIsOrdinary, ProcsAreApart DEF Put, JobsInv, TypeOK, store
  <2> QED BY <2>1, OrdinaryKeepsInvariant, ProcsAreApart
<1> DEFINE e == [contract |-> i.contract, source |-> i.text, made |-> i.made]
<1>3. CASE /\ content[i.rec] = i.text
           /\ index' = [index EXCEPT ![i.rec] = e]
           /\ sealed' = (sealed /\ active = i.contract)
           /\ Goto(Tool, "scan")
  <2>1. Named(i) /\ Prepared(i, served) /\ i.kind \in {"backfill", "rebuild"} /\ (i.tested # 0 => Sound(i.tested))
    BY <1>0, <1>1, ProcsAreApart DEF Put, JobsInv, JobsAreSound, JobShape, Tests
  <2>2. \A m \in i.made : Digest(m) = i.contract.digest
    BY <1>0, <2>1, IntervalsAreOfOneModel
  <2>3. i.contract \in Contracts /\ ~Legacy(i.contract) /\ i.made # {}
    BY <2>1, ContractsAreApart DEF Prepared, From
  <2>4. e \in Entries
    BY <2>1, <2>3 DEF Entries, Named, Job
  <2>5. PICK k \in Job : k = [i EXCEPT !.pc = "scan"]
    <3>1. [i EXCEPT !.pc = "scan"] \in Job BY DEF Job, Pcs
    <3> QED BY <3>1
  <2>6. /\ k.pc = "scan" /\ k.kind = i.kind /\ k.first = i.first /\ k.contract = i.contract
        /\ k.made = i.made /\ k.tested = i.tested
    BY <2>5 DEF Job
  <2>7. JobShape(k, served)
    BY <2>1, <2>6 DEF JobShape, Prepared, From
  <2>8. job' = [job EXCEPT ![Tool] = k] /\ UNCHANGED <<served, validated, content, active, up>>
    BY <1>1, <1>3, <2>5 DEF Put, Goto
  <2>9. /\ job' \in [Procs -> Job] /\ Tests' /\ JobsAreSound'
        /\ job'[Tool] = k /\ \A q \in Procs \ {Tool} : job'[q] = job[q]
    BY <1>0, <2>1, <2>6, <2>7, <2>8, OneJobChanges, ProcsAreApart
  <2>10. i.rec \in Records
    BY <2>1 DEF Named
  <2>11. /\ index' \in [Records -> Entries \cup {NoEntry}]
         /\ \A r \in Records : r # i.rec => index'[r] = index[r]
         /\ index'[i.rec] = e
    BY <1>3, <2>4, <2>10 DEF IInv, TypeOK
  <2> HIDE DEF e
  <2>12. e.contract = i.contract /\ e.source = i.text /\ e.made = i.made
    BY DEF e
  <2>13. sealed' \in BOOLEAN /\ (sealed' => sealed /\ active = i.contract)
    BY <1>3 DEF IInv, TypeOK
  <2>14. TypeOK'
    BY <2>8, <2>9, <2>11, <2>13 DEF IInv, TypeOK
  <2>15. EntriesAreSound'
    BY <2>2, <2>3, <2>10, <2>11, <2>12, SoundEntryKeepsEntriesSound DEF IInv
  <2>16. ActiveIsKnown'
    BY <2>8 DEF IInv, ActiveIsKnown, LegacyContractFor, ContractFor, Digest, Runtime
  <2>17. OpenIsActive'
    BY <2>6, <2>8, <2>9, ProcsAreApart DEF IInv, OpenIsActive
  <2>18. SnapshotsAreUniform'
    BY <2>9, ProcsAreApart DEF IInv, SnapshotsAreUniform
  <2>19. ActiveGenerationStaysComplete'
    BY <1>3, <2>8, <2>11, <2>12, <2>13 DEF IInv, ActiveGenerationStaysComplete, Ready, Live
  <2>20. RelabelIsSafe'
    BY <2>1, <2>6, <2>9 DEF RelabelIsSafe
  <2> QED BY <2>9, <2>14, <2>15, <2>16, <2>17, <2>18, <2>19, <2>20 DEF IInv
<1> QED BY <1>1, <1>2, <1>3 DEF Put, EntryOf

\* The table lock is granted when no transaction is open.
LEMMA LockKeepsInvariant ==
  ASSUME IInv, Lock
  PROVE  IInv'
<1>0. JobsInv /\ served \in Build
  BY DEF IInv, JobsInv, TypeOK
<1>1. PICK i \in Job : i = job[Tool]
  BY <1>0, ProcsAreApart DEF JobsInv, TypeOK
<1>2. JobShape(i, served) /\ i.pc = "lock" /\ (i.tested # 0 => Sound(i.tested))
  BY <1>0, <1>1, ProcsAreApart DEF JobsInv, JobsAreSound, Tests, Lock
<1>3. PICK k \in Job : k = [i EXCEPT !.pc = "locked"]
  <2>1. [i EXCEPT !.pc = "locked"] \in Job BY DEF Job, Pcs
  <2> QED BY <2>1
<1>4. /\ k.pc = "locked" /\ k.kind = i.kind /\ k.first = i.first /\ k.contract = i.contract
      /\ k.made = i.made /\ k.tested = i.tested /\ k.old = i.old
  BY <1>3 DEF Job
<1>5. JobShape(k, served)
  BY <1>2, <1>4 DEF JobShape, From, OldFits
<1>6. job' = [job EXCEPT ![Tool] = k] /\ UNCHANGED <<served, validated, store, up>>
  BY <1>1, <1>3 DEF Lock, Goto
<1>7. /\ job' \in [Procs -> Job] /\ Tests' /\ JobsAreSound'
      /\ job'[Tool] = k /\ \A q \in Procs \ {Tool} : job'[q] = job[q]
  BY <1>0, <1>2, <1>4, <1>5, <1>6, OneJobChanges, ProcsAreApart
<1>8. \A q \in Callers : job[q].pc # "commit"
  <2> SUFFICES ASSUME NEW q \in Callers, job[q].pc = "commit" PROVE FALSE
    OBVIOUS
  <2>1. job[q].rec \in Records
    BY <1>0, ProcsAreApart DEF JobsInv, JobsAreSound, JobShape, Named
  <2>2. q \in OpenOn(job[q].rec)
    BY DEF OpenOn
  <2>3. q \in Open
    BY <2>1, <2>2 DEF Open
  <2> QED BY <2>3 DEF Lock, ShareLockFree
<1>9. TypeOK'
  BY <1>6, <1>7 DEF IInv, TypeOK, store
<1>10. EntriesAreSound'
  BY <1>6 DEF IInv, EntriesAreSound, Legacy, LegacyContractFor, Digest, Runtime, store
<1>11. ActiveIsKnown'
  BY <1>6 DEF IInv, ActiveIsKnown, LegacyContractFor, ContractFor, Digest, Runtime, store
<1>12. ActiveGenerationStaysComplete'
  BY <1>6 DEF IInv, ActiveGenerationStaysComplete, Ready, Live, store
<1>13. OpenIsActive'
  BY <1>6, <1>7, <1>8, ProcsAreApart DEF IInv, OpenIsActive, store
<1>14. SnapshotsAreUniform'
  BY <1>7, ProcsAreApart DEF IInv, SnapshotsAreUniform
<1>15. RelabelIsSafe'
  BY <1>1, <1>2, <1>4, <1>6, <1>7, SafeByTheJob DEF IInv, RelabelIsSafe
<1> QED BY <1>7, <1>9, <1>10, <1>11, <1>12, <1>13, <1>14, <1>15 DEF IInv

\* The tool's transaction under the lock ends, with another generation or the same.
LEMMA ToolEnds ==
  ASSUME IInv, job[Tool].pc = "locked", Drop(Tool), UNCHANGED <<served, validated>>
  PROVE  /\ job' \in [Procs -> Job] /\ Tests' /\ JobsAreSound'
         /\ \A q \in Callers : job'[q] = job[q] /\ job'[q].pc # "commit"
         /\ job'[Tool].pc # "locked"
         /\ SnapshotsAreUniform' /\ RelabelIsSafe' /\ OpenIsActive'
<1>0. JobsInv /\ served \in Build
  BY DEF IInv, JobsInv, TypeOK
<1>1. PICK k \in Job : k = Ended(Tool)
  BY <1>0, EndedIsSound, ProcsAreApart
<1>2. JobShape(k, served) /\ k.pc \in {"idle", "done"} /\ k.tested = 0 /\ k.kind = "none"
  BY <1>0, <1>1, EndedIsSound, ProcsAreApart
<1>3. /\ job' \in [Procs -> Job] /\ Tests' /\ JobsAreSound'
      /\ job'[Tool] = k /\ \A q \in Procs \ {Tool} : job'[q] = job[q]
  BY <1>0, <1>1, <1>2, OneJobChanges, ProcsAreApart DEF Drop
<1>4. \A q \in Callers : job'[q] = job[q] /\ job'[q].pc # "commit"
  BY <1>3, ProcsAreApart DEF IInv, OpenIsActive
<1>5. SnapshotsAreUniform'
  BY <1>4 DEF IInv, SnapshotsAreUniform
<1>6. RelabelIsSafe'
  BY <1>2, <1>3 DEF RelabelIsSafe
<1>7. OpenIsActive'
  BY <1>2, <1>3, <1>4 DEF OpenIsActive
<1> QED BY <1>2, <1>3, <1>4, <1>5, <1>6, <1>7

\* A complete generation is activated.
LEMMA ActivateKeepsInvariant ==
  ASSUME IInv, Activate
  PROVE  IInv'
<1>1. PICK i \in Job : i = job[Tool] /\ From(i, served)
  BY ProcsAreApart DEF IInv, TypeOK, Activate, JobsAreSound, JobShape
<1>2. /\ job' \in [Procs -> Job] /\ Tests' /\ JobsAreSound'
      /\ SnapshotsAreUniform' /\ RelabelIsSafe' /\ OpenIsActive'
  BY ToolEnds DEF Activate
<1>3. UNCHANGED <<served, validated, content, index, up>>
  BY DEF Activate
<1>4. i.contract \in Contracts /\ i.contract \in {ContractFor(b) : b \in Build}
  BY <1>1, ContractsAreApart DEF From
<1>5. EntriesAreSound'
  BY <1>3 DEF IInv, EntriesAreSound, Legacy, LegacyContractFor, Digest, Runtime
<1>6. active' \in {active, i.contract} /\ sealed' \in {TRUE, sealed}
  BY <1>1 DEF Activate
<1>7. TypeOK'
  BY <1>2, <1>3, <1>4, <1>6 DEF IInv, TypeOK
<1>8. ActiveIsKnown'
  BY <1>4, <1>6 DEF IInv, ActiveIsKnown, LegacyContractFor, ContractFor, Digest, Runtime
<1>9. ActiveGenerationStaysComplete'
  <2>1. CASE Complete(i.contract)
    BY <1>1, <1>3, <2>1 DEF Activate, Complete, Current, ActiveGenerationStaysComplete, Ready, Live
  <2>2. CASE ~Complete(i.contract)
    BY <1>1, <1>3, <2>2 DEF Activate, IInv, ActiveGenerationStaysComplete, Ready, Live
  <2> QED BY <2>1, <2>2
<1> QED BY <1>2, <1>5, <1>7, <1>8, <1>9 DEF IInv

\* A generation of 1.28 gets the name of the same model.
LEMMA RelabelKeepsInvariant ==
  ASSUME IInv, Relabel
  PROVE  IInv'
<1>1. PICK i \in Job : i = job[Tool] /\ From(i, served) /\ OldFits(i)
  BY ProcsAreApart DEF IInv, TypeOK, Relabel, JobsAreSound, JobShape
<1>2. /\ job' \in [Procs -> Job] /\ Tests' /\ JobsAreSound'
      /\ SnapshotsAreUniform' /\ RelabelIsSafe' /\ OpenIsActive'
  BY ToolEnds DEF Relabel
<1>3. UNCHANGED <<served, validated, content, up>>
  BY DEF Relabel
<1>4. i.contract \in Contracts /\ i.contract \in {ContractFor(b) : b \in Build} /\ ~Legacy(i.contract)
  BY <1>1, ContractsAreApart DEF From
<1>5. CASE UNCHANGED <<index, active, sealed>>
  <2>1. EntriesAreSound'
    BY <1>5 DEF IInv, EntriesAreSound, Legacy, LegacyContractFor, Digest, Runtime
  <2>2. ActiveIsKnown'
    BY <1>5 DEF IInv, ActiveIsKnown, LegacyContractFor, ContractFor, Digest, Runtime
  <2>3. ActiveGenerationStaysComplete'
    BY <1>3, <1>5 DEF IInv, ActiveGenerationStaysComplete, Ready, Live
  <2>4. TypeOK'
    BY <1>2, <1>3, <1>5 DEF IInv, TypeOK
  <2> QED BY <1>2, <2>1, <2>2, <2>3, <2>4 DEF IInv
<1>6. CASE /\ Ready(i.old)
           /\ index' = [r \in Records |-> IF index[r].contract = i.old
                          THEN [index[r] EXCEPT !.contract = i.contract] ELSE index[r]]
           /\ active' = i.contract
           /\ sealed' = TRUE
  <2>1. \A r \in Records : index[r].contract = i.old =>
          /\ index'[r] \in Entries /\ index'[r].contract = i.contract
          /\ index'[r].source = index[r].source /\ index'[r].made = index[r].made
    <3> SUFFICES ASSUME NEW r \in Records, index[r].contract = i.old
                 PROVE  /\ index'[r] \in Entries /\ index'[r].contract = i.contract
                        /\ index'[r].source = index[r].source /\ index'[r].made = index[r].made
      OBVIOUS
    <3>1. index[r] \in Entries
      <4>1. index[r] \in Entries \cup {NoEntry}
        BY DEF IInv, TypeOK
      <4>2. ~Legacy(NoContract)
        BY BuildsAreNumbers, ContractsAreApart
      <4> QED BY <1>1, <4>1, <4>2 DEF OldFits, NoEntry
    <3>2. index'[r] = [index[r] EXCEPT !.contract = i.contract]
      BY <1>6
    <3> QED BY <1>4, <3>1, <3>2 DEF Entries
  <2>2. \A r \in Records : index[r].contract # i.old => index'[r] = index[r]
    BY <1>6
  <2>3. index' \in [Records -> Entries \cup {NoEntry}]
    <3>1. \A r \in Records : index'[r] \in Entries \cup {NoEntry}
      BY <2>1, <2>2 DEF IInv, TypeOK
    <3> QED BY <1>6, <3>1
  <2>4. TypeOK'
    BY <1>2, <1>3, <1>4, <1>6, <2>3 DEF IInv, TypeOK
  <2>5. EntriesAreSound'
    <3> SUFFICES ASSUME NEW r \in Records
                 PROVE  /\ \A m \in index'[r].made : Digest(m) = index'[r].contract.digest
                        /\ Legacy(index'[r].contract) => index'[r].made = {1}
      BY DEF EntriesAreSound, Legacy, LegacyContractFor, Digest, Runtime
    <3>1. CASE index[r].contract = i.old
      BY <1>1, <1>4, <2>1, <3>1 DEF IInv, EntriesAreSound, OldFits
    <3>2. CASE index[r].contract # i.old
      BY <2>2, <3>2 DEF IInv, EntriesAreSound
    <3> QED BY <3>1, <3>2
  <2>6. ActiveIsKnown'
    BY <1>4, <1>6 DEF ActiveIsKnown, LegacyContractFor, ContractFor, Digest, Runtime
  <2>7. ActiveGenerationStaysComplete'
    BY <1>3, <1>6, <2>1 DEF ActiveGenerationStaysComplete, Ready, Live
  <2> QED BY <1>2, <2>4, <2>5, <2>6, <2>7 DEF IInv
<1> QED BY <1>1, <1>5, <1>6 DEF Relabel

-----------------------------------------------------------------------------
(* The surroundings. *)

\* A crash ends every job but the tool's and those that are over.
LEMMA CrashKeepsInvariant ==
  ASSUME IInv, Crash
  PROVE  IInv'
<1>1. served \in Build /\ job \in [Procs -> Job] /\ UNCHANGED <<served, store>> /\ validated' = 0 /\ up' = FALSE
  BY DEF IInv, TypeOK, Crash
<1>2. \A q \in Procs : job'[q] = job[q] \/ (q # Tool /\ job'[q] = Ended(q))
  BY DEF Crash
<1>3. /\ job'[Tool] = job[Tool]
      /\ \A q \in Callers : job'[q].pc \in {"commit", "retrieve", "answered"} => job'[q] = job[q]
  <2>1. job'[Tool] = job[Tool]
    BY <1>2, ProcsAreApart
  <2>2. \A q \in Callers : job'[q] = Ended(q) => job'[q].pc \in {"idle", "done"}
    BY <1>1, EndedIsSound, ProcsAreApart
  <2> QED BY <1>2, <2>1, <2>2, ProcsAreApart
<1>4. job' \in [Procs -> Job]
  <2>1. \A q \in Procs : job'[q] \in Job
    BY <1>1, <1>2, EndedIsSound
  <2> QED BY <2>1 DEF Crash
<1>5. Tests'
  BY <1>1, <1>2, EndedIsSound DEF IInv, Tests, Sound
<1>6. JobsAreSound'
  <2> SUFFICES ASSUME NEW q \in Procs PROVE JobShape(job'[q], served)
    BY <1>1 DEF JobsAreSound, JobShape, Identifying, Named, From, Prepared, OldFits, Legacy, LegacyContractFor, ContractFor, Digest, Runtime, Sound, Embedding
  <2> QED BY <1>1, <1>2, EndedIsSound DEF IInv, JobsAreSound
<1>7. TypeOK'
  BY <1>1, <1>4 DEF IInv, TypeOK, store
<1>8. EntriesAreSound'
  BY <1>1 DEF IInv, EntriesAreSound, Legacy, LegacyContractFor, Digest, Runtime, store
<1>9. ActiveIsKnown'
  BY <1>1 DEF IInv, ActiveIsKnown, LegacyContractFor, ContractFor, Digest, Runtime, store
<1>10. ActiveGenerationStaysComplete'
  BY <1>1 DEF IInv, ActiveGenerationStaysComplete, Ready, Live, store
<1>11. OpenIsActive'
  BY <1>1, <1>3 DEF IInv, OpenIsActive, store
<1>12. SnapshotsAreUniform'
  BY <1>3 DEF IInv, SnapshotsAreUniform
<1>13. RelabelIsSafe'
  BY <1>1, <1>3, OthersLeaveTheRelabel DEF IInv, JobsInv
<1> QED BY <1>5, <1>6, <1>7, <1>8, <1>9, <1>10, <1>11, <1>12, <1>13 DEF IInv

\* Another build is served.
LEMMA SwapKeepsInvariant ==
  ASSUME IInv, Swap
  PROVE  IInv'
<1>1. served \in Build /\ served' \in Build /\ served <= served' /\ served' = served + 1 /\ served \in Int
      /\ UNCHANGED <<validated, store, up, job>>
  BY BuildsAreNumbers DEF IInv, TypeOK, Swap
<1>2. JobsAreSound'
  <2> SUFFICES ASSUME NEW q \in Procs PROVE JobShape(job[q], served')
    BY <1>1 DEF JobsAreSound, JobShape, Identifying, Named, From, Prepared, OldFits, Legacy, LegacyContractFor, ContractFor, Digest, Runtime, Sound, Embedding
  <2>1. job[q] \in Job /\ JobShape(job[q], served)
    BY DEF IInv, TypeOK, JobsAreSound
  <2> QED BY <1>1, <2>1, ShapesAge
<1>3. Tests'
  BY <1>1 DEF IInv, Tests, Sound
<1>4. TypeOK'
  BY <1>1 DEF IInv, TypeOK, store
<1>5. EntriesAreSound'
  BY <1>1 DEF IInv, EntriesAreSound, Legacy, LegacyContractFor, Digest, Runtime, store
<1>6. ActiveIsKnown'
  BY <1>1 DEF IInv, ActiveIsKnown, LegacyContractFor, ContractFor, Digest, Runtime, store
<1>7. ActiveGenerationStaysComplete'
  BY <1>1 DEF IInv, ActiveGenerationStaysComplete, Ready, Live, store
<1>8. OpenIsActive' /\ SnapshotsAreUniform'
  BY <1>1 DEF IInv, OpenIsActive, SnapshotsAreUniform, store
<1>9. RelabelIsSafe'
  <2>1. PICK k \in Job : k = job[Tool] /\ JobShape(k, served)
    BY ProcsAreApart DEF IInv, TypeOK, JobsAreSound
  <2>2. k.pc = "sampled" => served' # k.first
    BY <1>1, <2>1, BuildsAreNumbers DEF JobShape, From
  <2> QED BY <1>1, <2>1, <2>2, SafeByTheJob DEF IInv, RelabelIsSafe
<1> QED BY <1>2, <1>3, <1>4, <1>5, <1>6, <1>7, <1>8, <1>9 DEF IInv

-----------------------------------------------------------------------------
(* The invariant, and what follows from it. *)

LEMMA InitIsSound ==
  Init => IInv
<1> SUFFICES ASSUME Init PROVE IInv
  OBVIOUS
<1>1. served = 1 /\ 1 \in Build /\ validated = 0 /\ up = FALSE /\ sealed = TRUE
  BY BuildsAreNumbers DEF Init
<1>2. IdleJob \in Job /\ IdleJob.tested = 0 /\ IdleJob.pc = "idle" /\ IdleJob.kind = "none"
  BY SizesAssumption DEF IdleJob, Job, Kinds, Pcs
<1>3. job \in [Procs -> Job] /\ \A q \in Procs : job[q] = IdleJob
  BY <1>2 DEF Init
<1>4. content \in [Records -> 0..MaxText] /\ \A r \in Records : content[r] \in {0, 1}
  BY SizesAssumption DEF Init
<1> DEFINE old == LegacyContractFor(1)
<1>5. old \in Contracts /\ old.digest = Digest(1) /\ Legacy(old) /\ ~Legacy(NoContract)
  BY <1>1, ContractsAreApart DEF Legacy
<1> HIDE DEF old
<1>6. /\ index \in [Records -> Entries \cup {NoEntry}]
      /\ \A r \in Records : \/ index[r] = NoEntry
                            \/ index[r].contract = old /\ index[r].made = {1} /\ index[r].source = content[r]
      /\ active \in {NoContract, old}
      /\ active # NoContract => \A r \in Live : index[r].contract = active /\ index[r].source = content[r]
  <2>1. CASE index = [r \in Records |-> NoEntry] /\ active = NoContract
    BY <2>1
  <2>2. CASE /\ index = [r \in Records |-> IF content[r] = 0 THEN NoEntry
                           ELSE [contract |-> old, source |-> content[r], made |-> {1}]]
             /\ active = old
    <3>1. \A r \in Records : content[r] # 0 => [contract |-> old, source |-> content[r], made |-> {1}] \in Entries
      BY <1>1, <1>4, <1>5, SizesAssumption DEF Entries, Texts
    <3>2. index \in [Records -> Entries \cup {NoEntry}]
      BY <2>2, <3>1
    <3> QED BY <2>2, <3>2 DEF Live
  <2> QED BY <2>1, <2>2 DEF Init, old
<1>7. TypeOK
  BY <1>1, <1>3, <1>4, <1>5, <1>6 DEF TypeOK
<1>8. Tests /\ JobsAreSound
  BY <1>1, <1>2, <1>3 DEF Tests, JobsAreSound, JobShape
<1>9. ActiveIsKnown
  BY <1>6 DEF ActiveIsKnown, old
<1>10. EntriesAreSound
  BY <1>5, <1>6 DEF EntriesAreSound, NoEntry
<1>11. OpenIsActive /\ SnapshotsAreUniform /\ RelabelIsSafe
  BY <1>2, <1>3, ProcsAreApart DEF OpenIsActive, SnapshotsAreUniform, RelabelIsSafe
<1>12. ActiveGenerationStaysComplete
  BY <1>6 DEF ActiveGenerationStaysComplete, Ready
<1> QED BY <1>7, <1>8, <1>9, <1>10, <1>11, <1>12 DEF IInv

LEMMA StepKeepsInvariant ==
  IInv /\ [Next]_vars => IInv'
<1> SUFFICES ASSUME IInv, [Next]_vars PROVE IInv'
  OBVIOUS
<1>1. CASE UNCHANGED vars
  <2>1. TypeOK' /\ Tests' /\ OpenIsActive' /\ SnapshotsAreUniform'
    BY <1>1 DEF IInv, vars, TypeOK, Tests, OpenIsActive, SnapshotsAreUniform, Sound
  <2>2. JobsAreSound'
    BY <1>1 DEF vars, IInv, JobsAreSound, JobShape, Identifying, Named, From, Prepared, OldFits, Legacy, LegacyContractFor, ContractFor, Digest, Runtime, Sound, Embedding
  <2>3. EntriesAreSound' /\ ActiveIsKnown' /\ ActiveGenerationStaysComplete'
    BY <1>1 DEF IInv, vars, EntriesAreSound, ActiveIsKnown, ActiveGenerationStaysComplete, Ready, Live,
         Legacy, LegacyContractFor, ContractFor, Digest, Runtime
  <2>4. RelabelIsSafe'
    BY <1>1, OthersLeaveTheRelabel DEF IInv, JobsInv, vars, store
  <2> QED BY <2>1, <2>2, <2>3, <2>4 DEF IInv
<1>2. ASSUME NEW p \in Procs, OrdinaryStep(p) PROVE IInv'
  BY <1>2, OrdinarySteps, OrdinaryKeepsInvariant
<1>3. ASSUME NEW p \in Callers, CallerStep(p) PROVE IInv'
  BY <1>2, <1>3, ProcsAreApart, WriteKeepsInvariant, CommitKeepsInvariant, RetrieveKeepsInvariant DEF CallerStep, OrdinaryStep
<1>4. ASSUME NEW p \in Procs, ProcStep(p) PROVE IInv'
  BY <1>2, <1>4, GateKeepsInvariant DEF ProcStep, OrdinaryStep
<1>5. CASE ToolStep
  BY <1>2, <1>5, ProcsAreApart, PutKeepsInvariant, LockKeepsInvariant, ActivateKeepsInvariant, RelabelKeepsInvariant
     DEF ToolStep, OrdinaryStep
<1>6. CASE BeginBoot
  BY <1>2, <1>6, ProcsAreApart DEF OrdinaryStep
<1> QED BY <1>1, <1>3, <1>4, <1>5, <1>6, CrashKeepsInvariant, SwapKeepsInvariant DEF Next

LEMMA InvariantHolds ==
  Spec => []IInv
<1> QED BY InitIsSound, StepKeepsInvariant, PTL DEF Spec

\* Every variable keeps its type, for any number of records, calls and builds.
THEOREM TypeCorrect ==
  Spec => []TypeOK
<1>1. IInv => TypeOK
  BY DEF IInv
<1> QED BY <1>1, InvariantHolds, PTL

\* Vectors made between two readings of one contract, and those a relabel
\* renames, were made by the model their contract names.
THEOREM VectorsAreOfTheirModel ==
  Spec => []VectorsMatchTheirContract
<1>1. IInv => VectorsMatchTheirContract
  BY DEF IInv, EntriesAreSound, VectorsMatchTheirContract, Live
<1> QED BY <1>1, InvariantHolds, PTL

\* Before vectors are written, every build that a reading of the contract saw
\* has passed the canaries.
THEOREM SeenBuildsWereTested ==
  Spec => []ObservedBuildsAreTested
<1>1. ASSUME IInv PROVE ObservedBuildsAreTested
  <2> SUFFICES ASSUME NEW p \in Procs, job[p].pc \in {"write", "put"}, NEW b \in job[p].made
               PROVE  Sound(b) \/ (job[p].first < b /\ b < job[p].last)
    BY DEF ObservedBuildsAreTested
  <2>1. Prepared(job[p], served) /\ job[p] \in Job
    BY <1>1 DEF IInv, TypeOK, JobsAreSound, JobShape
  <2>2. /\ job[p].first <= b /\ b <= job[p].last /\ Sound(job[p].first) /\ Sound(job[p].last)
        /\ b \in Int /\ job[p].first \in Int /\ job[p].last \in Int
    BY <2>1, BuildsAreNumbers DEF Prepared, From, Job
  <2> QED BY <2>2
<1> QED BY <1>1, InvariantHolds, PTL

\* Nothing that was open across an activation leaves the active generation
\* incomplete.
THEOREM ActiveGenerationIsComplete ==
  Spec => []ActiveGenerationStaysComplete
<1>1. IInv => ActiveGenerationStaysComplete
  BY DEF IInv
<1> QED BY <1>1, InvariantHolds, PTL

\* What a search ranks is current and of the contract that embedded its query,
\* whatever is written, activated or relabelled between its statements.
THEOREM SearchRanksOneGeneration ==
  Spec => []SearchSeesOneGeneration
<1>1. IInv => SearchSeesOneGeneration
  BY DEF IInv, SnapshotsAreUniform, SearchSeesOneGeneration
<1> QED BY <1>1, InvariantHolds, PTL

\* A relabel happens only if what it keeps was made in the space of the build
\* whose canaries passed before the sample was compared.
THEOREM RelabelIsOfComparableVectors ==
  Spec => RelabelKeepsComparableVectors
<1> DEFINE Kept == job[Tool].kind = "relabel" /\ active' # active =>
                     \A r \in Live : \A b \in index[r].made : Space(b) = Space(job[Tool].first)
<1>1. ASSUME IInv, [Next]_vars PROVE [Kept]_vars
  <2> SUFFICES ASSUME job[Tool].kind = "relabel", active' # active, NEW r \in Live, NEW b \in index[r].made
               PROVE  Space(b) = Space(job[Tool].first)
    OBVIOUS
  <2>1. Relabel /\ Ready(job[Tool].old)
    <3>1. Relabel
      BY <1>1 DEF Next, vars, store, CallerStep, ProcStep, ToolStep, Begin, BeginSet, BeginAgain, BeginSearch, Write, Commit,
        Retrieve, Identify, Confirm, StartOver, Embed, PassGate, GiveUp, BeginTool, Scan, Put, Lock, Activate, Survey,
        Sampled, Sample, BeginBoot, Crash, Swap
    <3> QED BY <3>1 DEF Relabel
  <2>2. OldFits(job[Tool]) /\ Comparable(job[Tool].first)
    BY <1>1, <2>1, ProcsAreApart DEF IInv, JobsAreSound, JobShape, RelabelIsSafe, Relabel
  <2>3. Legacy(index[r].contract) /\ r \in Records
    BY <2>1, <2>2 DEF Ready, OldFits, Legacy, Live
  <2>4. b = 1
    BY <1>1, <2>3 DEF IInv, EntriesAreSound
  <2> QED BY <2>2, <2>3, <2>4 DEF Comparable
<1> HIDE DEF Kept
<1>2. Spec => [][Kept]_vars
  BY <1>1, InvariantHolds, PTL DEF Spec
<1> QED BY <1>2 DEF Kept, RelabelKeepsComparableVectors
=============================================================================
