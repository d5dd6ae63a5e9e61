--------------------------- MODULE SessionProofs ---------------------------
(***************************************************************************)
(* Proofs about SessionCapture, for any number of sessions, calls and      *)
(* generations: vectors follow their text, and every call takes effect at  *)
(* one instant.                                                            *)
(***************************************************************************)
EXTENDS SessionCapture, TLAPS

Writes == {"create", "refresh"}

\* What c holds while its transaction is open, and where it may hold it.
Holding(c) ==
  /\ \A i \in Id : lock[i] = c =>
       /\ i = local[c].key
       /\ \/ pc[c] \in {"index", "artifacts", "commit"}
          \/ pc[c] = "write" /\ Op(c) = "refresh"
  /\ pc[c] \in {"index", "artifacts", "commit"} => lock[local[c].key] = c

\* What a capture does is for the session it names, which does not vanish.
Aiming(c) ==
  /\ pc[c] \in {"embed", "recheck", "write", "index", "artifacts", "commit"} =>
       /\ Op(c) \in Writes
       /\ Op(c) = "refresh" => local[c].key = request[c].id /\ Stored(request[c].id)
  /\ pc[c] = "recheck" => Op(c) = "refresh"
  /\ pc[c] = "embed" /\ Op(c) = "create" => local[c].known = NoEntry

\* A refresh that keeps its vectors has locked a row whose vectors are of its text.
Keeping(c) ==
  pc[c] = "write" /\ ~local[c].index =>
    /\ Op(c) = "refresh" /\ lock[local[c].key] = c
    /\ CurrentEntry(local[c].key) # NoEntry
    /\ row[local[c].key].fields.text = request[c].text

\* What has been written replaces the row as the ledger would.
Writing(c) ==
  LET i == local[c].key IN
  pc[c] \in {"index", "artifacts", "commit"} =>
    /\ local[c].new \in Row /\ local[c].new.vec = request[c].text
    /\ Op(c) = "create" =>
         ~Stored(i) /\ local[c].new.fields = NewFields(c, request[c], FirstStatus(request[c]))
    /\ Op(c) = "refresh" =>
         /\ row[i].fields.audience = request[c].audience
         /\ local[c].new.fields = NewFields(c, request[c], KeptStatus(c))

\* The entry that will be committed is of the new text; the artifacts that go are all there are.
Indexing(c) ==
  /\ pc[c] \in {"artifacts", "commit"} \/ (pc[c] = "index" /\ ~local[c].index) =>
       local[c].kept # NoEntry /\ local[c].kept.source = request[c].text
  /\ pc[c] = "commit" => local[c].gone = artifact[local[c].key]

\* What a lookup has seen stays visible to it.
Reading(c) ==
  /\ pc[c] = "picked" => Op(c) = "branch" /\ Sight(c, local[c].key)
  /\ pc[c] = "read" => /\ Op(c) \in {"get", "branch"} /\ seen[c] # NoSession
                       /\ seen[c].id \in Id /\ Stored(seen[c].id)
  /\ pc[c] \notin {"read", "done"} => seen[c] = NoSession
  /\ reply[c] = Unanswered <=> pc[c] # "done"

CallIsSound(c) ==
  Holding(c) /\ Aiming(c) /\ Keeping(c) /\ Writing(c) /\ Indexing(c) /\ Reading(c)

IInv == TypeOK /\ (\A c \in Call : CallIsSound(c)) /\ VectorsFollowText

-----------------------------------------------------------------------------
(* Small facts. *)

LEMMA NothingIsLocal ==
  Nothing \in Local /\ NoRow \notin Row /\ NoEntry \notin Entries
<1>1. (CHOOSE i \in Id : TRUE) \in Id
  BY SessionAssumption
<1>2. Nothing \in Local
  BY <1>1 DEF Nothing, Local
<1>3. NoRow \notin Row
  BY SessionWorkloadAssumption DEF NoRow, Row
<1>4. NoEntry \notin Entries
  BY SessionWorkloadAssumption DEF NoEntry, Entries
<1> QED BY <1>2, <1>3, <1>4

LEMMA AnswersAreReplies ==
  /\ \A k \in {"done", "error", "not found", "conflict"} : Told(k) \in Replies \ {Unanswered}
  /\ \A f \in Fields, a \in SUBSET (Call \cup {None}) : Found(f, a) \in Replies \ {Unanswered}
BY DEF Told, Unanswered, Found, None, Replies

\* c may have changed its own state, what it has locked, and what nobody has locked.
Frame(c) ==
  /\ request' = request
  /\ \A d \in Call \ {c} : pc'[d] = pc[d] /\ local'[d] = local[d] /\ seen'[d] = seen[d] /\ reply'[d] = reply[d]
  /\ \A i \in Id : lock'[i] = lock[i] \/ (lock[i] \in {None, c} /\ lock'[i] \in {None, c})
  /\ \A i \in Id : \/ row'[i] = row[i] /\ entry'[i] = entry[i] /\ artifact'[i] = artifact[i]
                   \/ lock[i] \in {None, c}
  /\ \A i \in Id : Stored(i) => Stored(i)' /\ row'[i].fields.audience = row[i].fields.audience

LEMMA OthersStaySound ==
  ASSUME IInv, NEW c \in Call \cup {None}, Frame(c), NEW d \in Call, d # c
  PROVE  CallIsSound(d)'
<1>1. CallIsSound(d) /\ d # None /\ local[d].key \in Id /\ request[d].id \in Id
  BY SessionAssumption DEF IInv, TypeOK, Local, Request
<1>2. /\ request'[d] = request[d] /\ pc'[d] = pc[d] /\ local'[d] = local[d]
      /\ seen'[d] = seen[d] /\ reply'[d] = reply[d]
  BY DEF Frame
<1>3. \A i \in Id : lock'[i] = d <=> lock[i] = d
  BY <1>1 DEF Frame
<1>4. \A i \in Id : lock[i] = d => row'[i] = row[i] /\ entry'[i] = entry[i] /\ artifact'[i] = artifact[i]
  BY <1>1 DEF Frame
<1>5. Holding(d)'
  BY <1>1, <1>2, <1>3 DEF CallIsSound, Holding, Op
<1>6. Aiming(d)'
  BY <1>1, <1>2 DEF CallIsSound, Aiming, Op, Frame
<1>7. Keeping(d)'
  BY <1>1, <1>2, <1>3, <1>4 DEF CallIsSound, Keeping, Op, CurrentEntry
<1>8. Writing(d)'
  BY <1>1, <1>2, <1>3, <1>4 DEF CallIsSound, Holding, Writing, Op, Stored, KeptStatus, NewFields, FirstStatus
<1>9. Indexing(d)'
  BY <1>1, <1>2, <1>3, <1>4 DEF CallIsSound, Holding, Indexing
<1>10. Reading(d)'
  BY <1>1, <1>2 DEF CallIsSound, Reading, Op, Sight, Frame
<1> QED BY <1>5, <1>6, <1>7, <1>8, <1>9, <1>10 DEF CallIsSound

\* A call that ends is sound; the others were not disturbed.
LEMMA FinishKeepsInvariant ==
  ASSUME IInv, NEW c \in Call, NEW r \in Replies \ {Unanswered}, Finish(c, r), UNCHANGED <<request, generation, seen>>,
         row' \in [Id -> Row \cup {NoRow}], artifact' \in [Id -> SUBSET (Call \cup {None})],
         entry' \in [Id -> Entries \cup {NoEntry}],
         \A i \in Id : \/ row'[i] = row[i] /\ entry'[i] = entry[i] /\ artifact'[i] = artifact[i]
                       \/ lock[i] \in {None, c},
         \A i \in Id : Stored(i) => Stored(i)' /\ row'[i].fields.audience = row[i].fields.audience,
         VectorsFollowText'
  PROVE  IInv'
<1>1. /\ pc' = [pc EXCEPT ![c] = "done"] /\ local' = [local EXCEPT ![c] = Nothing] /\ reply' = [reply EXCEPT ![c] = r]
      /\ lock' = [i \in Id |-> IF lock[i] = c THEN None ELSE lock[i]]
  BY DEF Finish, Goto
<1>2. TypeOK'
  BY <1>1, NothingIsLocal DEF IInv, TypeOK, Pcs
<1>3. Frame(c)
  BY <1>1 DEF Frame, IInv, TypeOK
<1>4. pc'[c] = "done" /\ reply'[c] # Unanswered /\ \A i \in Id : lock'[i] # c
  BY <1>1, SessionAssumption DEF IInv, TypeOK
<1>5. CallIsSound(c)'
  BY <1>4 DEF CallIsSound, Holding, Aiming, Keeping, Writing, Indexing, Reading
<1>6. \A d \in Call : CallIsSound(d)'
  BY <1>3, <1>5, OthersStaySound
<1> QED BY <1>2, <1>6 DEF IInv

\* An answer that changes nothing in the tables.
LEMMA AnswerKeepsInvariant ==
  ASSUME IInv, NEW c \in Call, NEW r \in Replies \ {Unanswered}, Finish(c, r), UNCHANGED <<tables, seen>>
  PROVE  IInv'
<1>1. UNCHANGED <<request, row, artifact, entry, generation, seen>>
  BY DEF tables
<1>2. VectorsFollowText'
  BY <1>1 DEF IInv, VectorsFollowText, Stored, CurrentEntry
<1>3. \A i \in Id : Stored(i) => Stored(i)' /\ row'[i].fields.audience = row[i].fields.audience
  BY <1>1 DEF Stored
<1> QED BY <1>1, <1>2, <1>3, FinishKeepsInvariant DEF IInv, TypeOK

\* A statement of c that is not the last changes only what c has at hand.
LEMMA StatementKeepsInvariant ==
  ASSUME IInv, NEW c \in Call, NEW p \in Pcs, NEW l \in Local,
         pc' = [pc EXCEPT ![c] = p], local' = [local EXCEPT ![c] = l],
         lock' \in [Id -> Call \cup {None}],
         \A i \in Id : lock'[i] = lock[i] \/ (lock[i] \in {None, c} /\ lock'[i] \in {None, c}),
         seen' \in [Call -> [id : Id, fields : Fields] \cup {NoSession}],
         \A d \in Call \ {c} : seen'[d] = seen[d],
         UNCHANGED <<tables, reply>>,
         CallIsSound(c)'
  PROVE  IInv'
<1>1. UNCHANGED <<request, row, artifact, entry, generation, reply>>
  BY DEF tables
<1>2. VectorsFollowText'
  BY <1>1 DEF IInv, VectorsFollowText, Stored, CurrentEntry
<1>3. TypeOK'
  BY <1>1 DEF IInv, TypeOK
<1>4. Frame(c)
  BY <1>1 DEF Frame, IInv, TypeOK, Stored
<1>5. \A d \in Call : CallIsSound(d)'
  BY <1>4, OthersStaySound
<1> QED BY <1>2, <1>3, <1>5 DEF IInv

\* Most take no lock, and read nothing that is answered.
LEMMA MoveKeepsInvariant ==
  ASSUME IInv, NEW c \in Call, NEW p \in Pcs, NEW l \in Local,
         pc' = [pc EXCEPT ![c] = p], local' = [local EXCEPT ![c] = l],
         UNCHANGED <<tables, lock, seen, reply>>,
         CallIsSound(c)'
  PROVE  IInv'
<1>1. /\ lock' \in [Id -> Call \cup {None}]
      /\ seen' \in [Call -> [id : Id, fields : Fields] \cup {NoSession}]
      /\ UNCHANGED <<tables, reply>> /\ lock' = lock /\ seen' = seen
  BY DEF IInv, TypeOK
<1> QED BY <1>1, StatementKeepsInvariant

-----------------------------------------------------------------------------
(* One lemma per statement. *)

\* What is known of a call.
LEMMA AtHand ==
  ASSUME IInv, NEW c \in Call
  PROVE  /\ CallIsSound(c) /\ c # None
         /\ pc \in [Call -> Pcs] /\ local \in [Call -> Local]
         /\ local[c] \in Local /\ local[c].key \in Id
         /\ request[c] \in Request /\ request[c].id \in Id
         /\ lock \in [Id -> Call \cup {None}]
         /\ \A i \in Id : Stored(i) => row[i] \in Row
BY SessionAssumption DEF IInv, TypeOK, Local, Request, Stored

LEMMA ProbeKeepsInvariant ==
  ASSUME IInv, NEW c \in Call, Probe(c)
  PROVE  IInv'
<1>1. CASE Finish(c, Told("not found"))
  BY <1>1, AnswersAreReplies, AnswerKeepsInvariant DEF Probe
<1>2. CASE ~(Op(c) = "refresh" /\ ~Sight(c, request[c].id)) /\ Goto(c, "embed")
  <2> DEFINE known == IF Op(c) = "refresh" THEN CurrentEntry(request[c].id) ELSE NoEntry
  <2>0. UNCHANGED <<tables, lock, seen, reply>> /\ local' = [local EXCEPT ![c] = [local[c] EXCEPT !.key = request[c].id, !.known = known]]
    BY <1>2, AtHand DEF Probe, Finish, Goto
  <2>1. known \in Entries \cup {NoEntry}
    BY AtHand DEF CurrentEntry, IInv, TypeOK
  <2>2. PICK l \in Local : l = [local[c] EXCEPT !.key = request[c].id, !.known = known]
    <3> HIDE DEF known
    <3>1. [local[c] EXCEPT !.key = request[c].id, !.known = known] \in Local
      BY <2>1, AtHand DEF Local
    <3> QED BY <3>1
  <2>3. l.key = request[c].id /\ l.known = known
    BY <2>2, AtHand DEF Local
  <2>4. pc' = [pc EXCEPT ![c] = "embed"] /\ local' = [local EXCEPT ![c] = l]
    BY <1>2, <2>0, <2>2 DEF Goto
  <2>5. pc'[c] = "embed" /\ local'[c] = l /\ UNCHANGED <<request, row, artifact, entry, lock, seen, reply>>
    BY <2>0, <2>4, AtHand DEF tables
  <2>6. CallIsSound(c) /\ pc[c] = "start" /\ Op(c) \in Writes
    BY AtHand DEF Probe, Writes
  <2>7. Op(c) = "refresh" => Stored(request[c].id)
    BY <1>2 DEF Sight
  <2>8. Op(c) = "create" => l.known = NoEntry
    BY <2>3
  <2>9. CallIsSound(c)'
    <3>1. Holding(c)'
      BY <2>5, <2>6 DEF CallIsSound, Holding
    <3>2. Aiming(c)'
      BY <2>3, <2>5, <2>6, <2>7, <2>8 DEF Aiming, Op, Stored
    <3>3. Keeping(c)' /\ Writing(c)' /\ Indexing(c)'
      BY <2>5 DEF Keeping, Writing, Indexing
    <3>4. Reading(c)'
      BY <2>5, <2>6 DEF CallIsSound, Reading
    <3> QED BY <3>1, <3>2, <3>3, <3>4 DEF CallIsSound
  <2> QED BY <2>0, <2>4, <2>9, MoveKeepsInvariant DEF Pcs
<1> QED BY <1>1, <1>2 DEF Probe

LEMMA EmbedKeepsInvariant ==
  ASSUME IInv, NEW c \in Call, NEW k \in Contract, Embed(c, k)
  PROVE  IInv'
<1> DEFINE unchanged == local[c].known = [contract |-> k, source |-> request[c].text]
           p == IF unchanged THEN "recheck" ELSE "write"
<1>1. /\ UNCHANGED <<tables, lock, seen, reply>> /\ pc[c] = "embed"
      /\ local' = [local EXCEPT ![c] = [local[c] EXCEPT !.contract = k, !.index = ~unchanged]]
      /\ pc' = [pc EXCEPT ![c] = p]
  BY AtHand DEF Embed, Goto
<1>2. PICK index \in BOOLEAN : index = ~unchanged
  OBVIOUS
<1>3. unchanged => Op(c) = "refresh"
  <2>1. [contract |-> k, source |-> request[c].text] \in Entries
    BY AtHand DEF Entries, Request
  <2>2. unchanged => local[c].known # NoEntry
    BY <2>1, NothingIsLocal
  <2> QED BY <1>1, <2>2, AtHand DEF CallIsSound, Aiming, Writes
<1>4. p \in {"recheck", "write"} /\ (p = "recheck" => Op(c) = "refresh") /\ (p = "write" => index = TRUE)
  BY <1>2, <1>3
<1> HIDE DEF unchanged, p
<1>5. PICK l \in Local : l = [local[c] EXCEPT !.contract = k, !.index = index]
  <2>1. [local[c] EXCEPT !.contract = k, !.index = index] \in Local
    BY AtHand DEF Local
  <2> QED BY <2>1
<1>6. l.key = local[c].key /\ l.index = index
  BY <1>5, AtHand DEF Local
<1>7. local' = [local EXCEPT ![c] = l]
  BY <1>1, <1>2, <1>5
<1>8. pc'[c] = p /\ local'[c] = l /\ UNCHANGED <<request, row, artifact, entry, lock, seen, reply>>
  BY <1>1, <1>7, AtHand DEF tables
<1>9. CallIsSound(c)'
  <2>1. Holding(c)'
    BY <1>1, <1>4, <1>8, AtHand DEF CallIsSound, Holding
  <2>2. Aiming(c)'
    BY <1>1, <1>4, <1>6, <1>8, AtHand DEF CallIsSound, Aiming, Op, Stored
  <2>3. Keeping(c)' /\ Writing(c)' /\ Indexing(c)'
    BY <1>4, <1>6, <1>8 DEF Keeping, Writing, Indexing
  <2>4. Reading(c)'
    BY <1>1, <1>4, <1>8, AtHand DEF CallIsSound, Reading
  <2> QED BY <2>1, <2>2, <2>3, <2>4 DEF CallIsSound
<1> QED BY <1>1, <1>4, <1>7, <1>9, MoveKeepsInvariant DEF Pcs

LEMMA RecheckKeepsInvariant ==
  ASSUME IInv, NEW c \in Call, Recheck(c)
  PROVE  IInv'
<1> DEFINE i == local[c].key
<1>1. CASE Finish(c, Told("conflict"))
  BY <1>1, AnswersAreReplies, AnswerKeepsInvariant DEF Recheck
<1>2. CASE StillCurrent(c) /\ lock' = [lock EXCEPT ![i] = c] /\ Goto(c, "write") /\ UNCHANGED <<local, reply>>
  <2>1. /\ pc' = [pc EXCEPT ![c] = "write"] /\ local' = [local EXCEPT ![c] = local[c]]
        /\ lock' \in [Id -> Call \cup {None}]
        /\ \A j \in Id : lock'[j] = lock[j] \/ (lock[j] \in {None, c} /\ lock'[j] \in {None, c})
        /\ UNCHANGED <<tables, seen, reply>> /\ pc[c] = "recheck"
    BY <1>2, AtHand DEF Recheck, Goto
  <2>2. /\ pc'[c] = "write" /\ local'[c] = local[c] /\ lock'[i] = c /\ \A j \in Id \ {i} : lock'[j] = lock[j]
        /\ UNCHANGED <<request, row, artifact, entry, seen, reply>>
    BY <1>2, <2>1, AtHand DEF tables
  <2>3. CallIsSound(c) /\ Op(c) = "refresh" /\ c # None /\ i \in Id
    BY <2>1, AtHand DEF CallIsSound, Aiming
  <2>4. CurrentEntry(i) # NoEntry /\ row[i].fields.text = request[c].text
    <3>1. [contract |-> local[c].contract, source |-> request[c].text] # NoEntry
      BY DEF NoEntry
    <3>2. CurrentEntry(i) = [contract |-> local[c].contract, source |-> request[c].text]
      BY <1>2 DEF StillCurrent
    <3> QED BY <3>1, <3>2 DEF CurrentEntry
  <2>5. CallIsSound(c)'
    <3>1. Holding(c)'
      BY <2>1, <2>2, <2>3 DEF CallIsSound, Holding, Op
    <3>2. Aiming(c)'
      BY <2>1, <2>2, <2>3 DEF CallIsSound, Aiming, Op, Stored
    <3>3. Keeping(c)'
      BY <2>2, <2>3, <2>4 DEF Keeping, Op, CurrentEntry
    <3>4. Writing(c)' /\ Indexing(c)'
      BY <2>2 DEF Writing, Indexing
    <3>5. Reading(c)'
      BY <2>1, <2>2, <2>3 DEF CallIsSound, Reading
    <3> QED BY <3>1, <3>2, <3>3, <3>4, <3>5 DEF CallIsSound
  <2> QED BY <2>1, <2>5, AtHand, StatementKeepsInvariant DEF Pcs, IInv, TypeOK
<1> QED BY <1>1, <1>2 DEF Recheck

LEMMA NewRowIsRow ==
  ASSUME IInv, NEW c \in Call, NEW status \in Status, NEW vec \in Text
  PROVE  /\ NewRow(c, status, vec) \in Row
         /\ NewRow(c, status, vec).vec = vec
         /\ NewRow(c, status, vec).fields = NewFields(c, request[c], status)
<1>1. request[c] \in Request
  BY AtHand
<1>2. NewFields(c, request[c], status) \in Fields
  BY <1>1 DEF NewFields, Fields, Request
<1> QED BY <1>2 DEF NewRow, Row

LEMMA InsertKeepsInvariant ==
  ASSUME IInv, NEW c \in Call, Insert(c)
  PROVE  IInv'
<1> DEFINE status == FirstStatus(request[c])
           new == NewRow(c, status, request[c].text)
<1>1. PICK i \in Id : /\ FreeKey(i) /\ lock' = [lock EXCEPT ![i] = c]
                      /\ local' = [local EXCEPT ![c] = [local[c] EXCEPT !.key = i, !.new = new]]
  BY AtHand DEF Insert
<1>2. status \in Status /\ request[c].text \in Text
  BY AtHand, SessionAssumption DEF FirstStatus, Request
<1>3. new \in Row /\ new.vec = request[c].text /\ new.fields = NewFields(c, request[c], status)
  BY <1>2, NewRowIsRow
<1> HIDE DEF new
<1>4. PICK l \in Local : l = [local[c] EXCEPT !.key = i, !.new = new]
  <2>1. [local[c] EXCEPT !.key = i, !.new = new] \in Local
    BY <1>3, AtHand DEF Local
  <2> QED BY <2>1
<1>5. l.key = i /\ l.new = new /\ l.index = local[c].index
  BY <1>4, AtHand DEF Local
<1>6. /\ pc' = [pc EXCEPT ![c] = "index"] /\ local' = [local EXCEPT ![c] = l]
      /\ lock' \in [Id -> Call \cup {None}]
      /\ \A j \in Id : lock'[j] = lock[j] \/ (lock[j] \in {None, c} /\ lock'[j] \in {None, c})
      /\ UNCHANGED <<tables, seen, reply>> /\ pc[c] = "write" /\ Op(c) = "create"
  BY <1>1, <1>4, AtHand DEF Insert, Goto, FreeKey
<1>7. /\ pc'[c] = "index" /\ local'[c] = l /\ lock'[i] = c /\ \A j \in Id \ {i} : lock'[j] = lock[j]
      /\ UNCHANGED <<request, row, artifact, entry, seen, reply>>
  BY <1>1, <1>6, AtHand DEF tables
<1>8. CallIsSound(c) /\ \A j \in Id : lock[j] # c
  BY <1>6, AtHand DEF CallIsSound, Holding
<1>9. l.index = TRUE
  BY <1>5, <1>6, <1>8, AtHand DEF CallIsSound, Keeping, Local
<1>10. CallIsSound(c)'
  <2>1. Holding(c)'
    BY <1>5, <1>7, <1>8 DEF Holding
  <2>2. Aiming(c)'
    BY <1>6, <1>7 DEF Aiming, Op, Writes
  <2>3. Keeping(c)' /\ Indexing(c)'
    BY <1>7, <1>9 DEF Keeping, Indexing
  <2>4. Writing(c)'
    BY <1>1, <1>3, <1>5, <1>6, <1>7 DEF Writing, Op, Stored, FreeKey, NewFields, FirstStatus
  <2>5. Reading(c)'
    BY <1>6, <1>7, <1>8 DEF CallIsSound, Reading
  <2> QED BY <2>1, <2>2, <2>3, <2>4, <2>5 DEF CallIsSound
<1> QED BY <1>6, <1>10, StatementKeepsInvariant DEF Pcs, IInv, TypeOK

LEMMA UpdateKeepsInvariant ==
  ASSUME IInv, NEW c \in Call, Update(c)
  PROVE  IInv'
<1> DEFINE i == local[c].key
           vec == IF local[c].index THEN request[c].text ELSE row[i].vec
           new == NewRow(c, KeptStatus(c), vec)
           kept == IF row[i].fields.text = request[c].text THEN entry[i] ELSE NoEntry
<1>1. CASE Finish(c, Told("error"))
  BY <1>1, AnswersAreReplies, AnswerKeepsInvariant DEF Update
<1>2. CASE /\ row[i].fields.audience = request[c].audience
           /\ lock' = [lock EXCEPT ![i] = c]
           /\ local' = [local EXCEPT ![c] = [local[c] EXCEPT !.new = new, !.kept = kept]]
           /\ Goto(c, "index")
           /\ UNCHANGED reply
  <2>1. /\ CallIsSound(c) /\ pc[c] = "write" /\ Op(c) = "refresh" /\ Stored(i) /\ row[i] \in Row /\ i \in Id
        /\ request[c].text \in Text /\ i = request[c].id
    BY AtHand DEF Update, CallIsSound, Aiming, Request
  <2>2. vec = request[c].text
    <3>1. CASE local[c].index = TRUE
      BY <3>1
    <3>2. CASE local[c].index = FALSE
      BY <2>1, <3>2 DEF CallIsSound, Keeping, IInv, VectorsFollowText
    <3> QED BY <3>1, <3>2, AtHand DEF Local
  <2>3. KeptStatus(c) \in Status
    BY <2>1, AtHand DEF KeptStatus, Request, Row, Fields
  <2>4. new \in Row /\ new.vec = request[c].text /\ new.fields = NewFields(c, request[c], KeptStatus(c))
    BY <2>1, <2>2, <2>3, NewRowIsRow
  <2>5. kept \in Entries \cup {NoEntry}
    BY <2>1 DEF IInv, TypeOK
  <2>6. ~local[c].index => kept # NoEntry /\ kept.source = request[c].text
    <3>1. ~local[c].index => CurrentEntry(i) # NoEntry /\ row[i].fields.text = request[c].text
      BY <2>1 DEF CallIsSound, Keeping
    <3> QED BY <3>1 DEF CurrentEntry
  <2> HIDE DEF new, kept, vec
  <2>7. PICK l \in Local : l = [local[c] EXCEPT !.new = new, !.kept = kept]
    <3>1. [local[c] EXCEPT !.new = new, !.kept = kept] \in Local
      BY <2>4, <2>5, AtHand DEF Local
    <3> QED BY <3>1
  <2>8. l.key = i /\ l.new = new /\ l.kept = kept /\ l.index = local[c].index
    BY <2>7, AtHand DEF Local
  <2>9. lock[i] \in {None, c}
    BY DEF Update
  <2>10. /\ pc' = [pc EXCEPT ![c] = "index"] /\ local' = [local EXCEPT ![c] = l]
         /\ lock' \in [Id -> Call \cup {None}]
         /\ \A j \in Id : lock'[j] = lock[j] \/ (lock[j] \in {None, c} /\ lock'[j] \in {None, c})
         /\ UNCHANGED <<tables, seen, reply>>
    BY <1>2, <2>7, <2>9, AtHand DEF Update, Goto
  <2>11. /\ pc'[c] = "index" /\ local'[c] = l /\ lock'[i] = c /\ \A j \in Id \ {i} : lock'[j] = lock[j]
         /\ UNCHANGED <<request, row, artifact, entry, seen, reply>>
    BY <1>2, <2>1, <2>10, AtHand DEF tables
  <2>12. CallIsSound(c)'
    <3>1. Holding(c)'
      BY <2>1, <2>8, <2>11 DEF CallIsSound, Holding
    <3>2. Aiming(c)'
      BY <2>1, <2>8, <2>11 DEF Aiming, Op, Writes, Stored
    <3>3. Keeping(c)'
      BY <2>11 DEF Keeping
    <3>4. Indexing(c)'
      BY <2>6, <2>8, <2>11 DEF Indexing
    <3>5. Writing(c)'
      <4>1. KeptStatus(c)' = KeptStatus(c)
        BY <2>8, <2>11 DEF KeptStatus
      <4> QED BY <1>2, <2>1, <2>4, <2>8, <2>11, <4>1 DEF Writing, Op
    <3>6. Reading(c)'
      BY <2>1, <2>11 DEF CallIsSound, Reading
    <3> QED BY <3>1, <3>2, <3>3, <3>4, <3>5, <3>6 DEF CallIsSound
  <2> QED BY <2>10, <2>12, StatementKeepsInvariant DEF Pcs, IInv, TypeOK
<1>3. \/ Finish(c, Told("error"))
      \/ /\ row[i].fields.audience = request[c].audience
         /\ lock' = [lock EXCEPT ![i] = c]
         /\ local' = [local EXCEPT ![c].new = new, ![c].kept = kept]
         /\ Goto(c, "index")
         /\ UNCHANGED reply
  BY DEF Update
<1>4. [local EXCEPT ![c].new = new, ![c].kept = kept] = [local EXCEPT ![c] = [local[c] EXCEPT !.new = new, !.kept = kept]]
  BY AtHand
<1> QED BY <1>1, <1>2, <1>3, <1>4

\* The entry and the artifacts: nothing else of the call changes.
LEMMA WrittenStaysSound ==
  ASSUME IInv, NEW c \in Call, pc[c] \in {"index", "artifacts"}, NEW p \in {"artifacts", "commit"}, NEW l \in Local,
         pc' = [pc EXCEPT ![c] = p], local' = [local EXCEPT ![c] = l],
         l.key = local[c].key, l.new = local[c].new,
         l.kept # NoEntry, l.kept.source = request[c].text,
         p = "commit" => l.gone = artifact[l.key],
         UNCHANGED <<tables, lock, seen, reply>>
  PROVE  IInv'
<1>1. /\ pc'[c] = p /\ local'[c] = l
      /\ UNCHANGED <<request, row, artifact, entry, lock, seen, reply>>
  BY AtHand DEF tables
<1>2. CallIsSound(c)
  BY AtHand
<1>3. CallIsSound(c)'
  <2>1. Holding(c)'
    BY <1>1, <1>2 DEF CallIsSound, Holding
  <2>2. Aiming(c)'
    BY <1>1, <1>2 DEF CallIsSound, Aiming, Op, Stored
  <2>3. Keeping(c)' /\ Indexing(c)'
    BY <1>1 DEF Keeping, Indexing
  <2>4. Writing(c)'
    <3>1. KeptStatus(c)' = KeptStatus(c)
      BY <1>1 DEF KeptStatus
    <3> QED BY <1>1, <1>2, <3>1 DEF CallIsSound, Writing, Op, Stored, NewFields, FirstStatus
  <2>5. Reading(c)'
    BY <1>1, <1>2 DEF CallIsSound, Reading
  <2> QED BY <2>1, <2>2, <2>3, <2>4, <2>5 DEF CallIsSound
<1> QED BY <1>3, MoveKeepsInvariant DEF Pcs

LEMMA IndexKeepsInvariant ==
  ASSUME IInv, NEW c \in Call, PutIndex(c) \/ Reconcile(c)
  PROVE  IInv'
<1>1. CASE PutIndex(c)
  <2> DEFINE made == [contract |-> local[c].contract, source |-> request[c].text]
             kept == IF local[c].index THEN made ELSE local[c].kept
  <2>1. CASE Finish(c, Told("error"))
    BY <1>1, <2>1, AnswersAreReplies, AnswerKeepsInvariant DEF PutIndex
  <2>2. CASE /\ ~(local[c].index /\ local[c].contract # generation)
             /\ local' = [local EXCEPT ![c] = [local[c] EXCEPT !.kept = kept]]
             /\ Goto(c, "artifacts") /\ UNCHANGED <<lock, reply>>
    <3>1. local[c].index => made \in Entries
      BY <2>2, AtHand DEF IInv, TypeOK, Entries, Request
    <3>2. ~local[c].index => local[c].kept # NoEntry /\ local[c].kept.source = request[c].text
      BY <1>1, AtHand DEF PutIndex, CallIsSound, Indexing
    <3>3. kept \in Entries /\ kept.source = request[c].text /\ kept # NoEntry
      BY <3>1, <3>2, NothingIsLocal, AtHand DEF Local
    <3> HIDE DEF kept
    <3>4. PICK l \in Local : l = [local[c] EXCEPT !.kept = kept]
      <4>1. [local[c] EXCEPT !.kept = kept] \in Local
        BY <3>3, AtHand DEF Local
      <4> QED BY <4>1
    <3>5. l.kept = kept /\ l.key = local[c].key /\ l.new = local[c].new
      BY <3>4, AtHand DEF Local
    <3> QED BY <1>1, <2>2, <3>3, <3>4, <3>5, WrittenStaysSound DEF PutIndex, Goto
  <2>3. \/ Finish(c, Told("error"))
        \/ /\ ~(local[c].index /\ local[c].contract # generation)
           /\ local' = [local EXCEPT ![c].kept = kept]
           /\ Goto(c, "artifacts") /\ UNCHANGED <<lock, reply>>
    BY <1>1, AtHand DEF PutIndex
  <2>4. [local EXCEPT ![c].kept = kept] = [local EXCEPT ![c] = [local[c] EXCEPT !.kept = kept]]
    BY AtHand
  <2> QED BY <2>1, <2>2, <2>3, <2>4
<1>2. CASE Reconcile(c)
  <2> DEFINE gone == artifact[local[c].key]
  <2>1. gone \in SUBSET (Call \cup {None})
    BY AtHand DEF IInv, TypeOK
  <2> HIDE DEF gone
  <2>2. PICK l \in Local : l = [local[c] EXCEPT !.gone = gone]
    <3>1. [local[c] EXCEPT !.gone = gone] \in Local
      BY <2>1, AtHand DEF Local
    <3> QED BY <3>1
  <2>3. l.gone = gone /\ l.kept = local[c].kept /\ l.key = local[c].key /\ l.new = local[c].new
    BY <2>2, AtHand DEF Local
  <2>4. /\ pc[c] = "artifacts" /\ pc' = [pc EXCEPT ![c] = "commit"] /\ local' = [local EXCEPT ![c] = l]
        /\ UNCHANGED <<tables, lock, seen, reply>>
    BY <1>2, <2>2, AtHand DEF Reconcile, Goto, gone
  <2>5. l.kept # NoEntry /\ l.kept.source = request[c].text /\ l.gone = artifact[l.key]
    BY <2>3, <2>4, AtHand DEF CallIsSound, Indexing, gone
  <2> QED BY <2>3, <2>4, <2>5, WrittenStaysSound
<1> QED BY <1>1, <1>2

\* What a commit puts in: the row, its entry and its artifacts, of a key that c holds.
LEMMA CommitKeepsInvariant ==
  ASSUME IInv, NEW c \in Call, Commit(c)
  PROVE  IInv'
<1>1. PICK l \in Local : l = local[c]
  BY AtHand
<1>2. PICK i \in Id : i = l.key
  BY <1>1, AtHand
<1>3. /\ CallIsSound(c) /\ pc[c] = "commit" /\ c # None
      /\ row' = [row EXCEPT ![i] = l.new] /\ entry' = [entry EXCEPT ![i] = l.kept]
      /\ artifact' = [artifact EXCEPT ![i] = (@ \ l.gone) \cup {c}]
      /\ UNCHANGED <<request, generation, seen>>
  BY <1>1, <1>2, AtHand DEF Commit
<1>4. /\ l.new \in Row /\ l.new.vec = request[c].text /\ l.new.fields.text = request[c].text
      /\ l.new.fields.audience = request[c].audience
      /\ Stored(i) => row[i].fields.audience = request[c].audience
      /\ lock[i] = c
  <2>1. /\ l.new \in Row /\ l.new.vec = request[c].text
        /\ Op(c) = "create" => ~Stored(i) /\ l.new.fields = NewFields(c, request[c], FirstStatus(request[c]))
        /\ Op(c) = "refresh" => /\ row[i].fields.audience = request[c].audience
                                /\ l.new.fields = NewFields(c, request[c], KeptStatus(c))
        /\ Op(c) \in Writes /\ lock[i] = c
    BY <1>1, <1>2, <1>3 DEF CallIsSound, Writing, Aiming, Holding
  <2>2. \A s : /\ NewFields(c, request[c], s).text = request[c].text
               /\ NewFields(c, request[c], s).audience = request[c].audience
    BY DEF NewFields
  <2> QED BY <2>1, <2>2 DEF Writes
<1>5. l.kept \in Entries /\ l.kept # NoEntry /\ l.kept.source = request[c].text
  BY <1>1, <1>3, NothingIsLocal DEF CallIsSound, Indexing, Local
<1>6. /\ row' \in [Id -> Row \cup {NoRow}] /\ entry' \in [Id -> Entries \cup {NoEntry}]
      /\ artifact' \in [Id -> SUBSET (Call \cup {None})]
  BY <1>3, <1>4, <1>5 DEF IInv, TypeOK
<1>7. /\ row'[i] = l.new /\ entry'[i] = l.kept
      /\ \A j \in Id \ {i} : row'[j] = row[j] /\ entry'[j] = entry[j] /\ artifact'[j] = artifact[j]
  BY <1>3 DEF IInv, TypeOK
<1>8. \A j \in Id : Stored(j) => Stored(j)' /\ row'[j].fields.audience = row[j].fields.audience
  BY <1>4, <1>7, NothingIsLocal DEF Stored
<1>9. VectorsFollowText'
  BY <1>4, <1>5, <1>7 DEF IInv, VectorsFollowText, Stored, CurrentEntry
<1>10. \A j \in Id : \/ row'[j] = row[j] /\ entry'[j] = entry[j] /\ artifact'[j] = artifact[j]
                     \/ lock[j] \in {None, c}
  BY <1>4, <1>7
<1>11. PICK r \in Replies \ {Unanswered} : Finish(c, r)
  BY AnswersAreReplies DEF Commit
<1> QED BY <1>3, <1>6, <1>8, <1>9, <1>10, <1>11, FinishKeepsInvariant

LEMMA StatusKeepsInvariant ==
  ASSUME IInv, NEW c \in Call, request[c].op = "status" => request[c].status \in Status, UpdateStatus(c)
  PROVE  IInv'
<1>1. CASE Finish(c, Told("not found")) /\ UNCHANGED row
  BY <1>1, AnswersAreReplies, AnswerKeepsInvariant DEF UpdateStatus, tables
<1>2. CASE /\ Sight(c, request[c].id) /\ lock[request[c].id] = None
           /\ row' = [row EXCEPT ![request[c].id].fields.status = request[c].status]
           /\ \E r \in {"done", "error"} : Finish(c, Told(r))
  <2>1. PICK i \in Id : i = request[c].id /\ Stored(i) /\ row[i] \in Row /\ lock[i] = None
    BY <1>2, AtHand DEF Sight
  <2>2. request[c].status \in Status
    BY DEF UpdateStatus, Op
  <2>3. PICK x \in Row : x = [row[i] EXCEPT !.fields = [row[i].fields EXCEPT !.status = request[c].status]]
    <3>1. row[i].fields \in Fields /\ row[i].vec \in Text
      BY <2>1 DEF Row
    <3>2. [row[i].fields EXCEPT !.status = request[c].status] \in Fields
      BY <2>2, <3>1 DEF Fields
    <3>3. [row[i] EXCEPT !.fields = [row[i].fields EXCEPT !.status = request[c].status]] \in Row
      BY <2>1, <3>2 DEF Row
    <3> QED BY <3>3
  <2>4. x.vec = row[i].vec /\ x.fields.text = row[i].fields.text /\ x.fields.audience = row[i].fields.audience
    BY <2>1, <2>3 DEF Row, Fields
  <2>5. row' = [row EXCEPT ![i] = x] /\ UNCHANGED <<request, artifact, entry, generation, seen>>
    BY <1>2, <2>1, <2>3 DEF UpdateStatus, IInv, TypeOK
  <2>6. row' \in [Id -> Row \cup {NoRow}] /\ row'[i] = x /\ \A j \in Id \ {i} : row'[j] = row[j]
    BY <2>5 DEF IInv, TypeOK
  <2>7. \A j \in Id : Stored(j) <=> Stored(j)'
    BY <2>1, <2>6, NothingIsLocal DEF Stored
  <2>8. VectorsFollowText'
    BY <2>4, <2>5, <2>6, <2>7 DEF IInv, VectorsFollowText, CurrentEntry
  <2>9. /\ \A j \in Id : \/ row'[j] = row[j] /\ entry'[j] = entry[j] /\ artifact'[j] = artifact[j]
                         \/ lock[j] \in {None, c}
        /\ \A j \in Id : Stored(j) => Stored(j)' /\ row'[j].fields.audience = row[j].fields.audience
        /\ artifact' \in [Id -> SUBSET (Call \cup {None})] /\ entry' \in [Id -> Entries \cup {NoEntry}]
    BY <2>1, <2>4, <2>5, <2>6, <2>7 DEF IInv, TypeOK
  <2>10. PICK r \in Replies \ {Unanswered} : Finish(c, r)
    BY <1>2, AnswersAreReplies
  <2> QED BY <2>5, <2>6, <2>8, <2>9, <2>10, FinishKeepsInvariant
<1> QED BY <1>1, <1>2 DEF UpdateStatus

\* A lookup reads the row of a session it may see.
LEMMA ReadKeepsInvariant ==
  ASSUME IInv, NEW c \in Call, NEW i \in Id, ReadRow(c, i), Stored(i),
         pc[c] \in {"start", "picked"}, Op(c) \in {"get", "branch"}
  PROVE  IInv'
<1>1. PICK s \in [id : Id, fields : Fields] : s = [id |-> i, fields |-> row[i].fields]
  BY AtHand DEF Row
<1>2. s.id = i /\ s # NoSession
  BY <1>1 DEF NoSession
<1>3. /\ seen' = [seen EXCEPT ![c] = s] /\ pc' = [pc EXCEPT ![c] = "read"] /\ local' = [local EXCEPT ![c] = local[c]]
      /\ UNCHANGED <<tables, lock, reply>>
  BY <1>1, AtHand DEF ReadRow, Goto
<1>4. /\ seen' \in [Call -> [id : Id, fields : Fields] \cup {NoSession}]
      /\ seen'[c] = s /\ \A d \in Call \ {c} : seen'[d] = seen[d]
  BY <1>3 DEF IInv, TypeOK
<1>5. pc'[c] = "read" /\ UNCHANGED <<request, row, artifact, entry, lock, reply>>
  BY <1>3, AtHand DEF tables
<1>6. CallIsSound(c)'
  <2>1. Holding(c)'
    BY <1>5, AtHand DEF CallIsSound, Holding
  <2>2. Aiming(c)' /\ Keeping(c)' /\ Writing(c)' /\ Indexing(c)'
    BY <1>5 DEF Aiming, Keeping, Writing, Indexing
  <2>3. Reading(c)'
    BY <1>2, <1>4, <1>5, AtHand DEF CallIsSound, Reading, Op, Stored
  <2> QED BY <2>1, <2>2, <2>3 DEF CallIsSound
<1> QED BY <1>3, <1>4, <1>5, <1>6, AtHand, StatementKeepsInvariant DEF Pcs

LEMMA LookupKeepsInvariant ==
  ASSUME IInv, NEW c \in Call, Get(c) \/ Pick(c) \/ GetPicked(c) \/ ReadArtifactRows(c)
  PROVE  IInv'
<1>1. CASE Get(c)
  <2>1. CASE Sight(c, request[c].id) /\ ReadRow(c, request[c].id)
    BY <1>1, <2>1, AtHand, ReadKeepsInvariant DEF Get, Sight
  <2>2. CASE Finish(c, Told("not found")) /\ UNCHANGED <<tables, seen>>
    BY <2>2, AnswersAreReplies, AnswerKeepsInvariant
  <2> QED BY <1>1, <2>1, <2>2 DEF Get
<1>2. CASE Pick(c)
  <2>1. CASE Finish(c, Told("not found"))
    BY <1>2, <2>1, AnswersAreReplies, AnswerKeepsInvariant DEF Pick
  <2>2. CASE (\E i \in OnBranch(c) : local' = [local EXCEPT ![c].key = i]) /\ Goto(c, "picked") /\ UNCHANGED <<lock, reply>>
    <3>1. PICK i \in Id : Sight(c, i) /\ local' = [local EXCEPT ![c] = [local[c] EXCEPT !.key = i]]
      BY <2>2, AtHand DEF OnBranch
    <3>2. PICK l \in Local : l = [local[c] EXCEPT !.key = i]
      <4>1. [local[c] EXCEPT !.key = i] \in Local
        BY AtHand DEF Local
      <4> QED BY <4>1
    <3>3. l.key = i
      BY <3>2, AtHand DEF Local
    <3>4. /\ pc' = [pc EXCEPT ![c] = "picked"] /\ local' = [local EXCEPT ![c] = l]
          /\ UNCHANGED <<tables, lock, seen, reply>> /\ pc[c] = "start" /\ Op(c) = "branch"
      BY <1>2, <2>2, <3>1, <3>2 DEF Pick, Goto
    <3>5. pc'[c] = "picked" /\ local'[c] = l /\ UNCHANGED <<request, row, artifact, entry, lock, seen, reply>>
      BY <3>4, AtHand DEF tables
    <3>6. CallIsSound(c)'
      <4>1. Holding(c)'
        BY <3>4, <3>5, AtHand DEF CallIsSound, Holding
      <4>2. Aiming(c)' /\ Keeping(c)' /\ Writing(c)' /\ Indexing(c)'
        BY <3>5 DEF Aiming, Keeping, Writing, Indexing
      <4>3. Reading(c)'
        BY <3>1, <3>3, <3>4, <3>5, AtHand DEF CallIsSound, Reading, Op, Sight, Stored
      <4> QED BY <4>1, <4>2, <4>3 DEF CallIsSound
    <3> QED BY <3>4, <3>6, MoveKeepsInvariant DEF Pcs
  <2> QED BY <1>2, <2>1, <2>2 DEF Pick
<1>3. CASE GetPicked(c)
  <2>1. pc[c] = "picked" /\ Op(c) = "branch" /\ Stored(local[c].key) /\ local[c].key \in Id
    BY <1>3, AtHand DEF GetPicked, CallIsSound, Reading, Sight
  <2> QED BY <1>3, <2>1, ReadKeepsInvariant DEF GetPicked
<1>4. CASE ReadArtifactRows(c)
  <2>1. seen[c] # NoSession /\ seen[c].id \in Id
    BY <1>4, AtHand DEF ReadArtifactRows, CallIsSound, Reading
  <2>2. seen[c].fields \in Fields /\ artifact[seen[c].id] \in SUBSET (Call \cup {None})
    BY <2>1 DEF IInv, TypeOK
  <2>3. Found(seen[c].fields, artifact[seen[c].id]) \in Replies \ {Unanswered}
    BY <2>2, AnswersAreReplies
  <2> QED BY <1>4, <2>3, AnswerKeepsInvariant DEF ReadArtifactRows
<1> QED BY <1>1, <1>2, <1>3, <1>4

\* The tools that move the generations.
LEMMA ToolKeepsInvariant ==
  ASSUME IInv, NEW k \in Contract, Activate(k) \/ \E i \in Id : Reembed(i, k)
  PROVE  IInv'
<1>1. /\ UNCHANGED <<request, row, artifact, lock, pc, local, seen, reply>>
      /\ generation' \in {generation, k}
      /\ entry' \in [Id -> Entries \cup {NoEntry}]
      /\ \A i \in Id : \/ entry'[i] = entry[i]
                       \/ lock[i] = None /\ entry'[i] # NoEntry /\ entry'[i].source = row[i].fields.text
  <2>1. CASE Activate(k)
    BY <2>1 DEF Activate, IInv, TypeOK
  <2>2. ASSUME NEW i \in Id, Reembed(i, k) PROVE <1>1
    <3> DEFINE e == [contract |-> k, source |-> row[i].fields.text]
    <3>1. row[i] \in Row /\ lock[i] = None /\ entry' = [entry EXCEPT ![i] = e]
          /\ UNCHANGED <<request, row, artifact, generation, lock, pc, local, seen, reply>>
      BY <2>2 DEF Reembed, IInv, TypeOK, Stored
    <3>2. e \in Entries /\ e # NoEntry /\ e.source = row[i].fields.text
      BY <3>1, NothingIsLocal DEF Entries, Row, Fields
    <3> HIDE DEF e
    <3>3. entry' \in [Id -> Entries \cup {NoEntry}] /\ entry'[i] = e /\ \A j \in Id \ {i} : entry'[j] = entry[j]
      BY <3>1, <3>2 DEF IInv, TypeOK
    <3> QED BY <3>1, <3>2, <3>3
  <2> QED BY <2>1, <2>2
<1>2. TypeOK'
  BY <1>1 DEF IInv, TypeOK
<1>3. VectorsFollowText'
  BY <1>1 DEF IInv, VectorsFollowText, Stored, CurrentEntry
<1>4. Frame(None)
  BY <1>1 DEF Frame, Stored
<1>5. \A d \in Call : CallIsSound(d)'
  BY <1>4, OthersStaySound, SessionAssumption
<1> QED BY <1>2, <1>3, <1>5 DEF IInv

-----------------------------------------------------------------------------
(* The invariant, and what follows from it. *)

\* Calls carry requests that the tools' schemas let through.
Allowed == request \in [Call -> Requests]

LEMMA InitIsSound ==
  Init => IInv /\ Allowed
<1> SUFFICES ASSUME Init PROVE IInv /\ Allowed
  OBVIOUS
<1>1. /\ \A c \in Call : pc[c] = "start" /\ seen[c] = NoSession /\ reply[c] = Unanswered
      /\ \A i \in Id : lock[i] = None
  BY DEF Init
<1>2. PICK s \in Stores :
        /\ row = s.row /\ generation = s.generation
        /\ artifact = [i \in Id |-> IF s.row[i] = NoRow THEN {} ELSE {None}]
        /\ entry = [i \in Id |-> IF s.row[i] = NoRow THEN NoEntry
                      ELSE [contract |-> s.generation, source |-> s.row[i].fields.text]]
  BY DEF Init
<1>3. /\ generation \in Contract /\ row \in [Id -> Row \cup {NoRow}]
      /\ \A i \in Id : row[i] # NoRow => row[i].vec = row[i].fields.text
  BY <1>2, SessionWorkloadAssumption
<1>4. \A i \in Id : row[i] # NoRow => [contract |-> generation, source |-> row[i].fields.text] \in Entries
  BY <1>3 DEF Entries, Row, Fields
<1>5. artifact \in [Id -> SUBSET (Call \cup {None})] /\ entry \in [Id -> Entries \cup {NoEntry}]
  BY <1>2, <1>4
<1>6. request \in [Call -> Request] /\ Allowed
  BY SessionWorkloadAssumption DEF Init, Allowed
<1>7. reply \in [Call -> Replies] /\ seen \in [Call -> [id : Id, fields : Fields] \cup {NoSession}]
      /\ local \in [Call -> Local] /\ pc \in [Call -> Pcs] /\ lock \in [Id -> Call \cup {None}]
  BY NothingIsLocal DEF Init, Replies, Unanswered, Told, Pcs
<1>8. TypeOK
  BY <1>3, <1>5, <1>6, <1>7 DEF TypeOK
<1>9. \A c \in Call : CallIsSound(c)
  BY <1>1, SessionAssumption DEF CallIsSound, Holding, Aiming, Keeping, Writing, Indexing, Reading
<1>10. VectorsFollowText
  BY <1>2, <1>3, <1>4, NothingIsLocal DEF VectorsFollowText, Stored, CurrentEntry
<1> QED BY <1>6, <1>8, <1>9, <1>10 DEF IInv

LEMMA StepKeepsInvariant ==
  IInv /\ Allowed /\ [Next]_vars => IInv' /\ Allowed'
<1> SUFFICES ASSUME IInv, Allowed, [Next]_vars PROVE IInv' /\ Allowed'
  OBVIOUS
<1>1. CASE UNCHANGED vars
  BY <1>1 DEF vars, IInv, Allowed, TypeOK, VectorsFollowText, Stored, CurrentEntry, CallIsSound, Holding, Aiming, Keeping,
     Writing, Indexing, Reading, Op, Sight, KeptStatus
<1>2. ASSUME NEW c \in Call, Step(c) PROVE IInv' /\ Allowed'
  <2>1. request[c].op = "status" => request[c].status \in Status
    BY SessionWorkloadAssumption DEF Allowed
  <2>2. IInv'
    BY <1>2, <2>1, ProbeKeepsInvariant, EmbedKeepsInvariant, RecheckKeepsInvariant, InsertKeepsInvariant, UpdateKeepsInvariant,
       IndexKeepsInvariant, CommitKeepsInvariant, StatusKeepsInvariant, LookupKeepsInvariant DEF Step
  <2>3. request' = request
    BY <1>2 DEF Step, Probe, Embed, Recheck, Insert, Update, PutIndex, Reconcile, Commit, UpdateStatus, Get, Pick, GetPicked,
       ReadRow, ReadArtifactRows, tables
  <2> QED BY <2>2, <2>3 DEF Allowed
<1>3. ASSUME NEW c \in Call, Fail(c) PROVE IInv' /\ Allowed'
  BY <1>3, AnswersAreReplies, AnswerKeepsInvariant DEF Fail, tables, Allowed
<1>4. ASSUME NEW k \in Contract, Activate(k) \/ \E i \in Id : Reembed(i, k) PROVE IInv' /\ Allowed'
  BY <1>4, ToolKeepsInvariant DEF Activate, Reembed, Allowed
<1> QED BY <1>1, <1>2, <1>3, <1>4 DEF Next, Quiescent

\* Every variable keeps its type, and every open transaction what it needs.
THEOREM InvariantHolds ==
  Spec => [](IInv /\ Allowed)
<1> QED BY InitIsSound, StepKeepsInvariant, PTL DEF Spec

\* Both vectors of a session are of its text, also after a refresh that kept
\* them beside other captures, status changes and a backfill.
THEOREM SessionsAreFound ==
  Spec => []VectorsFollowText
<1>1. IInv => VectorsFollowText
  BY DEF IInv
<1> QED BY <1>1, InvariantHolds, PTL

-----------------------------------------------------------------------------
(* SessionCapture implements SessionLedger. *)

\* The ledger's operators are the tools'.
LEMMA SameOperators ==
  /\ Ledger!NoSession = NoSession /\ Ledger!None = None /\ Ledger!Unanswered = Unanswered
  /\ \A k : Ledger!Told(k) = Told(k)
  /\ \A f, a : Ledger!Found(f, a) = Found(f, a)
  /\ \A c, q, s : Ledger!NewFields(c, q, s) = NewFields(c, q, s)
  /\ \A q : Ledger!FirstStatus(q) = FirstStatus(q)
BY DEF Ledger!NoSession, NoSession, Ledger!None, None, Ledger!Unanswered, Unanswered, Ledger!Told, Told,
   Ledger!Found, Found, Ledger!NewFields, NewFields, Ledger!FirstStatus, FirstStatus

\* What the ledger sees of the tables.
LEMMA RecordOfRow ==
  ASSUME NEW i \in Id
  PROVE  /\ Ledger!Exists(i) <=> Stored(i)
         /\ Stored(i) => /\ RecordOfTables[i] = [fields |-> row[i].fields, artifacts |-> artifact[i]]
                         /\ RecordOfTables[i].fields = row[i].fields /\ RecordOfTables[i].artifacts = artifact[i]
         /\ \A c : Ledger!Visible(c, i) <=> Sight(c, i)
<1>1. RecordOfTables[i] = IF Stored(i) THEN [fields |-> row[i].fields, artifacts |-> artifact[i]] ELSE NoSession
  BY DEF RecordOfTables
<1>2. [fields |-> row[i].fields, artifacts |-> artifact[i]] # NoSession
  BY DEF NoSession
<1> QED BY <1>1, <1>2, SameOperators DEF Ledger!Exists, Ledger!Visible, Sight

LEMMA RecordStays ==
  ASSUME UNCHANGED <<row, artifact>>
  PROVE  RecordOfTables' = RecordOfTables
BY DEF RecordOfTables, Stored

\* One key changes.
LEMMA RecordChanges ==
  ASSUME NEW i \in Id, Stored(i)',
         \A j \in Id \ {i} : row'[j] = row[j] /\ artifact'[j] = artifact[j]
  PROVE  RecordOfTables' = [RecordOfTables EXCEPT ![i] = [fields |-> row'[i].fields, artifacts |-> artifact'[i]]]
<1> DEFINE R == [j \in Id |-> IF Stored(j)' THEN [fields |-> row'[j].fields, artifacts |-> artifact'[j]] ELSE NoSession]
           S == [RecordOfTables EXCEPT ![i] = [fields |-> row'[i].fields, artifacts |-> artifact'[i]]]
<1>1. RecordOfTables' = R
  BY DEF RecordOfTables
<1>2. S = [j \in Id |-> IF j = i THEN [fields |-> row'[i].fields, artifacts |-> artifact'[i]] ELSE RecordOfTables[j]]
  BY DEF RecordOfTables
<1>3. \A j \in Id : j # i => R[j] = RecordOfTables[j]
  BY DEF RecordOfTables, Stored
<1>4. R[i] = [fields |-> row'[i].fields, artifacts |-> artifact'[i]]
  OBVIOUS
<1> HIDE DEF R
<1>5. \A j \in Id : R[j] = S[j]
  BY <1>2, <1>3, <1>4
<1>6. R = [j \in Id |-> R[j]] /\ S = [j \in Id |-> S[j]]
  BY <1>2 DEF R
<1> QED BY <1>1, <1>5, <1>6

\* An answer is given once.
LEMMA FinishAnswers ==
  ASSUME IInv, NEW c \in Call, NEW r, Finish(c, r), pc[c] # "done"
  PROVE  Ledger!Answer(c, r)
BY AtHand, SameOperators DEF Finish, Ledger!Answer, CallIsSound, Reading

Implements == [Ledger!LedgerNext]_(Ledger!ledger)

LEMMA StutterImplements ==
  ASSUME UNCHANGED <<request, row, artifact, seen, reply>>
  PROVE  Implements
BY RecordStays DEF Implements, Ledger!ledger

LEMMA FailureImplements ==
  ASSUME IInv, NEW c \in Call, Finish(c, Told("error")), pc[c] # "done", UNCHANGED <<request, row, artifact, seen>>
  PROVE  Implements
<1>1. Ledger!Answer(c, Told("error"))
  BY FinishAnswers
<1>2. Ledger!Failed(c)
  BY <1>1, RecordStays, SameOperators DEF Ledger!Failed
<1> QED BY <1>2 DEF Implements, Ledger!LedgerNext

\* A capture takes effect, all of it, when it commits.
LEMMA CommitImplements ==
  ASSUME IInv, NEW c \in Call, Commit(c)
  PROVE  Implements
<1>1. PICK l \in Local, i \in Id : l = local[c] /\ i = l.key
  BY AtHand
<1>2. /\ CallIsSound(c) /\ pc[c] = "commit" /\ pc[c] # "done"
      /\ row' = [row EXCEPT ![i] = l.new] /\ artifact' = [artifact EXCEPT ![i] = (@ \ l.gone) \cup {c}]
      /\ UNCHANGED <<request, seen>>
  BY <1>1, AtHand DEF Commit
<1>3. l.new \in Row /\ l.gone = artifact[i] /\ Op(c) \in Writes
  BY <1>1, <1>2 DEF CallIsSound, Writing, Indexing, Aiming
<1>4. /\ row'[i] = l.new /\ artifact'[i] = {c}
      /\ \A j \in Id \ {i} : row'[j] = row[j] /\ artifact'[j] = artifact[j]
  BY <1>2, <1>3 DEF IInv, TypeOK
<1>5. Stored(i)'
  BY <1>3, <1>4, NothingIsLocal DEF Stored
<1>6. RecordOfTables' = [RecordOfTables EXCEPT ![i] = [fields |-> l.new.fields, artifacts |-> {c}]]
  BY <1>4, <1>5, RecordChanges
<1>7. Ledger!Done(c)
  BY <1>2, FinishAnswers, SameOperators DEF Commit, Ledger!Done
<1>8. \A s : Ledger!Captured(c, s) = [fields |-> NewFields(c, request[c], s), artifacts |-> {c}]
  BY SameOperators DEF Ledger!Captured
<1>9. CASE Op(c) = "create"
  <2>1. ~Stored(i) /\ l.new.fields = NewFields(c, request[c], FirstStatus(request[c]))
    BY <1>1, <1>2, <1>9 DEF CallIsSound, Writing
  <2>2. Ledger!Create(c, i)
    BY <1>2, <1>6, <1>7, <1>8, <1>9, <2>1, RecordOfRow, SameOperators DEF Ledger!Create, Op
  <2> QED BY <2>2 DEF Implements, Ledger!LedgerNext
<1>10. CASE Op(c) = "refresh"
  <2>1. /\ i = request[c].id /\ Stored(i) /\ row[i].fields.audience = request[c].audience
        /\ l.new.fields = NewFields(c, request[c], KeptStatus(c))
    BY <1>1, <1>2, <1>10 DEF CallIsSound, Writing, Aiming
  <2>2. KeptStatus(c) = IF request[c].status = None THEN RecordOfTables[i].fields.status ELSE request[c].status
    BY <1>1, <2>1, RecordOfRow DEF KeptStatus
  <2>3. RecordOfTables' = [RecordOfTables EXCEPT ![i] =
          Ledger!Captured(c, IF request[c].status = None THEN @.fields.status ELSE request[c].status)]
    BY <1>6, <1>8, <2>1, <2>2
  <2>4. Ledger!Refresh(c)
    BY <1>2, <1>7, <1>10, <2>1, <2>3, RecordOfRow, SameOperators DEF Ledger!Refresh, Op
  <2> QED BY <2>4 DEF Implements, Ledger!LedgerNext
<1> QED BY <1>3, <1>9, <1>10 DEF Writes

LEMMA StatusImplements ==
  ASSUME IInv, NEW c \in Call, UpdateStatus(c)
  PROVE  Implements
<1>1. PICK i \in Id : i = request[c].id
  BY AtHand
<1>2. CASE Finish(c, Told("not found")) /\ UNCHANGED row /\ ~Sight(c, i)
  <2>1. Ledger!NotFound(c)
    BY <1>1, <1>2, FinishAnswers, RecordOfRow, RecordStays, SameOperators DEF UpdateStatus, Op, Ledger!NotFound
  <2> QED BY <2>1 DEF Implements, Ledger!LedgerNext
<1>3. CASE /\ Sight(c, i) /\ row' = [row EXCEPT ![i].fields.status = request[c].status]
           /\ \E r \in {"done", "error"} : Finish(c, Told(r))
  <2>1. Stored(i) /\ row[i] \in Row /\ row \in [Id -> Row \cup {NoRow}]
    BY <1>3, AtHand DEF Sight, IInv, TypeOK
  <2> DEFINE f == [row[i].fields EXCEPT !.status = request[c].status]
  <2>2. row' = [row EXCEPT ![i] = [row[i] EXCEPT !.fields = f]]
    BY <1>3, <2>1
  <2> HIDE DEF f
  <2>3. /\ row'[i] = [row[i] EXCEPT !.fields = f] /\ \A j \in Id \ {i} : row'[j] = row[j]
        /\ UNCHANGED <<request, artifact, seen>>
    BY <2>1, <2>2 DEF UpdateStatus
  <2>4. row'[i].fields = f /\ row'[i].vec = row[i].vec
    BY <2>1, <2>3 DEF Row
  <2>5. Stored(i)'
    BY <2>1, <2>3, <2>4, SessionWorkloadAssumption DEF Stored, NoRow, Row
  <2>6. RecordOfTables' = [RecordOfTables EXCEPT ![i] = [fields |-> f, artifacts |-> artifact[i]]]
    BY <2>3, <2>4, <2>5, RecordChanges
  <2>7. [RecordOfTables EXCEPT ![i].fields.status = request[c].status]
          = [RecordOfTables EXCEPT ![i] = [fields |-> f, artifacts |-> artifact[i]]]
    <3>1. RecordOfTables[i] = [fields |-> row[i].fields, artifacts |-> artifact[i]]
      BY <2>1, RecordOfRow
    <3>2. [RecordOfTables[i] EXCEPT !.fields = f] = [fields |-> f, artifacts |-> artifact[i]]
      BY <3>1
    <3>3. [RecordOfTables EXCEPT ![i].fields.status = request[c].status]
            = [RecordOfTables EXCEPT ![i] = [RecordOfTables[i] EXCEPT !.fields = [RecordOfTables[i].fields EXCEPT !.status = request[c].status]]]
      BY DEF RecordOfTables
    <3>4. RecordOfTables[i].fields = row[i].fields
      BY <3>1
    <3>5. f = [RecordOfTables[i].fields EXCEPT !.status = request[c].status]
      BY <3>4 DEF f
    <3>6. [RecordOfTables EXCEPT ![i].fields.status = request[c].status]
            = [RecordOfTables EXCEPT ![i] = [RecordOfTables[i] EXCEPT !.fields = f]]
      BY <3>3, <3>5, Zenon
    <3> QED BY <3>2, <3>6, Zenon
  <2>8. Ledger!Done(c)
    BY <1>3, FinishAnswers, SameOperators DEF UpdateStatus, Ledger!Done
  <2>9. Ledger!SetStatus(c)
    BY <1>1, <1>3, <2>3, <2>6, <2>7, <2>8, RecordOfRow DEF UpdateStatus, Op, Ledger!SetStatus
  <2> QED BY <2>9 DEF Implements, Ledger!LedgerNext
<1> QED BY <1>1, <1>2, <1>3 DEF UpdateStatus

\* What is refused is refused truthfully when it is answered.
LEMMA RefusalImplements ==
  ASSUME IInv, NEW c \in Call, Probe(c) \/ Recheck(c) \/ Update(c) \/ PutIndex(c)
  PROVE  Implements
<1>1. pc[c] # "done" /\ UNCHANGED <<request, row, artifact, seen>> /\ request[c].id \in Id /\ CallIsSound(c)
  BY AtHand DEF Probe, Recheck, Update, PutIndex, tables
<1>2. CASE UNCHANGED reply
  BY <1>1, <1>2, StutterImplements
<1>3. CASE Finish(c, Told("error"))
  BY <1>1, <1>3, FailureImplements
<1>4. CASE Probe(c) /\ Finish(c, Told("not found")) /\ Op(c) = "refresh" /\ ~Sight(c, request[c].id)
  <2>1. Ledger!NotFound(c)
    BY <1>1, <1>4, FinishAnswers, RecordOfRow, RecordStays, SameOperators DEF Op, Ledger!NotFound
  <2> QED BY <2>1 DEF Implements, Ledger!LedgerNext
<1>5. CASE Recheck(c) /\ Finish(c, Told("conflict"))
  <2>1. Op(c) = "refresh" /\ Stored(request[c].id)
    BY <1>1, <1>5 DEF Recheck, CallIsSound, Aiming
  <2>2. Ledger!Conflict(c)
    BY <1>1, <1>5, <2>1, FinishAnswers, RecordOfRow, RecordStays, SameOperators DEF Op, Ledger!Conflict
  <2> QED BY <2>2 DEF Implements, Ledger!LedgerNext
<1>6. Probe(c) => UNCHANGED reply \/ (Finish(c, Told("not found")) /\ Op(c) = "refresh" /\ ~Sight(c, request[c].id))
  BY DEF Probe
<1>7. Recheck(c) => UNCHANGED reply \/ Finish(c, Told("conflict"))
  BY DEF Recheck
<1>8. Update(c) \/ PutIndex(c) => UNCHANGED reply \/ Finish(c, Told("error"))
  BY DEF Update, PutIndex
<1> QED BY <1>2, <1>3, <1>4, <1>5, <1>6, <1>7, <1>8

\* A lookup reads a record, then the artifacts it has by then.
LEMMA ReadImplements ==
  ASSUME IInv, NEW c \in Call, NEW i \in Id, ReadRow(c, i), Sight(c, i),
         pc[c] \in {"start", "picked"}, Op(c) \in {"get", "branch"}, Op(c) = "get" => i = request[c].id
  PROVE  Implements
<1>1. seen' = [seen EXCEPT ![c] = [id |-> i, fields |-> row[i].fields]] /\ UNCHANGED <<request, row, artifact, reply>>
  BY DEF ReadRow, tables
<1>2. seen[c] = NoSession /\ reply[c] = Unanswered
  BY AtHand DEF CallIsSound, Reading
<1>3. RecordOfTables[i].fields = row[i].fields /\ Ledger!Visible(c, i)
  BY RecordOfRow DEF Sight
<1>4. Ledger!ReadFields(c, i)
  BY <1>1, <1>2, <1>3, RecordStays, SameOperators DEF Op, Ledger!ReadFields
<1> QED BY <1>4 DEF Implements, Ledger!LedgerNext

LEMMA LookupImplements ==
  ASSUME IInv, NEW c \in Call, Get(c) \/ Pick(c) \/ GetPicked(c) \/ ReadArtifactRows(c)
  PROVE  Implements
<1>0. CallIsSound(c) /\ request[c].id \in Id /\ local[c].key \in Id
  BY AtHand
<1>1. CASE Get(c)
  <2>1. CASE Sight(c, request[c].id) /\ ReadRow(c, request[c].id)
    BY <1>0, <1>1, <2>1, ReadImplements DEF Get
  <2>2. CASE ~Sight(c, request[c].id) /\ Finish(c, Told("not found")) /\ UNCHANGED <<tables, seen>>
    <3>1. UNCHANGED <<request, row, artifact, seen>> /\ pc[c] # "done" /\ Op(c) = "get"
      BY <1>1, <2>2 DEF Get, tables
    <3>2. Ledger!NotFound(c)
      BY <1>0, <2>2, <3>1, FinishAnswers, RecordOfRow, RecordStays, SameOperators DEF Op, Ledger!NotFound
    <3> QED BY <3>2 DEF Implements, Ledger!LedgerNext
  <2> QED BY <1>1, <2>1, <2>2 DEF Get
<1>2. CASE Pick(c)
  <2>0. UNCHANGED <<request, row, artifact, seen>> /\ pc[c] # "done" /\ Op(c) = "branch"
    BY <1>2 DEF Pick, tables
  <2>1. CASE OnBranch(c) = {} /\ Finish(c, Told("not found"))
    <3>1. ~\E i \in Id : Ledger!Visible(c, i) /\ RecordOfTables[i].fields.branch = request[c].branch
      <4> SUFFICES ASSUME NEW i \in Id, Ledger!Visible(c, i), RecordOfTables[i].fields.branch = request[c].branch
                   PROVE  FALSE
        OBVIOUS
      <4>1. Sight(c, i) /\ row[i].fields.branch = request[c].branch
        BY RecordOfRow DEF Sight
      <4> QED BY <2>1, <4>1 DEF OnBranch
    <3>2. Ledger!NotFound(c)
      BY <2>0, <2>1, <3>1, FinishAnswers, RecordStays, SameOperators DEF Op, Ledger!NotFound
    <3> QED BY <3>2 DEF Implements, Ledger!LedgerNext
  <2>2. CASE UNCHANGED reply
    BY <2>0, <2>2, StutterImplements
  <2> QED BY <1>2, <2>1, <2>2 DEF Pick
<1>3. CASE GetPicked(c)
  <2>1. pc[c] = "picked" /\ Op(c) = "branch" /\ Sight(c, local[c].key)
    BY <1>0, <1>3 DEF GetPicked, CallIsSound, Reading
  <2> QED BY <1>0, <1>3, <2>1, ReadImplements DEF GetPicked
<1>4. CASE ReadArtifactRows(c)
  <2>1. /\ seen[c] # NoSession /\ seen[c].id \in Id /\ Stored(seen[c].id) /\ pc[c] # "done"
        /\ UNCHANGED <<request, row, artifact, seen>>
    BY <1>0, <1>4 DEF ReadArtifactRows, CallIsSound, Reading, tables
  <2>2. RecordOfTables[seen[c].id].artifacts = artifact[seen[c].id]
    BY <2>1, RecordOfRow
  <2>3. Ledger!Answer(c, Found(seen[c].fields, artifact[seen[c].id]))
    BY <1>4, <2>1, FinishAnswers DEF ReadArtifactRows
  <2>4. Ledger!ReadArtifacts(c)
    BY <2>1, <2>2, <2>3, RecordStays, SameOperators DEF Ledger!ReadArtifacts
  <2> QED BY <2>4 DEF Implements, Ledger!LedgerNext
<1> QED BY <1>1, <1>2, <1>3, <1>4

LEMMA StepImplements ==
  IInv /\ [Next]_vars => Implements
<1> SUFFICES ASSUME IInv, [Next]_vars PROVE Implements
  OBVIOUS
<1>1. CASE UNCHANGED vars
  BY <1>1, StutterImplements DEF vars
<1>2. ASSUME NEW c \in Call, Step(c) PROVE Implements
  <2>1. CASE (\E k \in Contract : Embed(c, k)) \/ Insert(c) \/ Reconcile(c)
    BY <2>1, StutterImplements DEF Embed, Insert, Reconcile, tables
  <2> QED BY <1>2, <2>1, CommitImplements, StatusImplements, RefusalImplements, LookupImplements DEF Step
<1>3. ASSUME NEW c \in Call, Fail(c) PROVE Implements
  BY <1>3, FailureImplements DEF Fail, tables
<1>4. ASSUME NEW k \in Contract, Activate(k) \/ \E i \in Id : Reembed(i, k) PROVE Implements
  BY <1>4, StutterImplements DEF Activate, Reembed
<1> QED BY <1>1, <1>2, <1>3, <1>4 DEF Next, Quiescent

LEMMA InitImplements ==
  Init => Ledger!LedgerInit
<1> SUFFICES ASSUME Init PROVE Ledger!LedgerInit
  OBVIOUS
<1>1. IInv
  BY InitIsSound
<1>2. \A i \in Id : Stored(i) => [fields |-> row[i].fields, artifacts |-> artifact[i]] \in Record
  <2> SUFFICES ASSUME NEW i \in Id, Stored(i) PROVE [fields |-> row[i].fields, artifacts |-> artifact[i]] \in Record
    OBVIOUS
  <2>1. row[i].fields \in Fields /\ artifact[i] \in SUBSET (Call \cup {None})
    BY <1>1 DEF IInv, TypeOK, Stored, Row
  <2> QED BY <2>1 DEF Record
<1>3. RecordOfTables \in [Id -> Record \cup {NoSession}]
  BY <1>2 DEF RecordOfTables
<1>4. Ledger!Record = Record /\ Ledger!Request = Request
  BY SameOperators DEF Ledger!Record, Record, Ledger!Fields, Fields, Ledger!Request, Request, Ledger!None, None
<1> QED BY <1>1, <1>3, <1>4, SameOperators DEF Init, Ledger!LedgerInit, IInv, TypeOK

\* Although a capture writes in three statements, a lookup reads in two, and
\* probes and model calls come before them, every call takes effect or is
\* refused at one instant.
THEOREM SessionsImplementLedger ==
  Spec => CapturesAreAtomic
<1>1. IInv /\ Allowed /\ [Next]_vars => [Ledger!LedgerNext]_(Ledger!ledger)
  BY StepImplements DEF Implements
<1> QED BY <1>1, InitImplements, InvariantHolds, PTL DEF Spec, CapturesAreAtomic, Ledger!LedgerSpec
=============================================================================
