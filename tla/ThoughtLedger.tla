---------------------------- MODULE ThoughtLedger ----------------------------
(***************************************************************************)
(* What the thought store promises: every call takes effect at once, alone,*)
(* and is answered in that instant.  Each guard speaks of the state in     *)
(* which the change and its answer appear, so an implementation that reads,*)
(* calls a model, locks, probes and only then writes refines this module   *)
(* only if nothing that matters can change in between.                     *)
(***************************************************************************)
EXTENDS Thoughts

VARIABLES
  row,     \* the committed head of each thought
  revs,    \* the committed history of each thought
  index,   \* the text each thought's committed embedding index was built from
  call,    \* what each call asks for
  answer   \* what each call was told

ledgerVars == <<row, revs, index, call, answer>>

-----------------------------------------------------------------------------
Init ==
  /\ row \in InitialHeads
  /\ revs = [i \in Id |-> InitialHistory(row[i])]
  /\ index = [i \in Id |-> InitialIndex(row[i])]
  /\ call \in [Req -> Workload]
  /\ answer = [r \in Req |-> "pending"]

-----------------------------------------------------------------------------
Reply(r, a) ==
  /\ answer[r] = "pending"
  /\ answer' = [answer EXCEPT ![r] = a]
  /\ UNCHANGED call

\* A caller whose connection fails after COMMIT is told "error" of a change
\* that was made.
Done(r, a) == Reply(r, a) \/ Reply(r, "error")

\* One revision, numbered after the last, of the head before the change.
Change(r, id, kind, new) ==
  /\ row' = [row EXCEPT ![id] = new]
  /\ revs' = [revs EXCEPT ![id] =
                @ \cup {Snapshot(row[id], NextRevision(@), kind, r)}]

Visible(r, id) ==
  row[id] # NoRow /\ AudienceMatches(call[r].scope, row[id].audience)

\* The live row whose index entry a capture of this text would hit.
Arbiter(c) ==
  {t \in Id : SameKey(row[t], Captured(c.content, c.audience, None, Stub))}

CaptureNew(r, id, extraction) ==
  LET c == call[r] IN
  /\ c.op = "capture"
  /\ Done(r, "captured")
  /\ Arbiter(c) = {}
  /\ row[id] = NoRow
  /\ row' = [row EXCEPT ![id] =
               Captured(c.content, c.audience, c.scope.principal, extraction)]
  /\ index' = [index EXCEPT ![id] = c.content]
  /\ UNCHANGED revs

\* Capturing a text again refreshes its classification and is not history.
CaptureAgain(r, id, extraction) ==
  LET c == call[r] IN
  /\ c.op = "capture"
  /\ Done(r, "captured")
  /\ id \in Arbiter(c)
  /\ row' = [row EXCEPT ![id] = Merged(@, c.scope.principal, extraction)]
  /\ index' = [index EXCEPT ![id] = row[id].content]
  /\ UNCHANGED revs

Update(r, extraction) ==
  LET c == call[r] IN
  /\ c.op = "update"
  /\ Done(r, "updated")
  /\ Visible(r, c.id) /\ Live(row[c.id])
  /\ c.content # row[c.id].content
  /\ Twins(row, c.id, row[c.id].audience, FingerprintOf[c.content]) = {}
  /\ Change(r, c.id, "content", Edited(row[c.id], c.content, extraction))
  /\ index' = [index EXCEPT ![c.id] = c.content]

Move(r) ==
  LET c == call[r] IN
  /\ c.op = "move"
  /\ Done(r, "moved")
  /\ Visible(r, c.id) /\ Live(row[c.id])
  /\ c.audience # row[c.id].audience
  /\ Twins(row, c.id, c.audience, EffectiveFp(row[c.id])) = {}
  /\ Change(r, c.id, "scope", Moved(row[c.id], c.audience))
  /\ UNCHANGED index

Forget(r) ==
  LET c == call[r] IN
  /\ c.op = "forget"
  /\ Done(r, "forgotten")
  /\ Visible(r, c.id) /\ Live(row[c.id])
  /\ Change(r, c.id, "forget", Forgotten(row[c.id]))
  /\ UNCHANGED index

Restore(r) ==
  LET c == call[r] IN
  /\ c.op = "restore"
  /\ Done(r, "restored")
  /\ Visible(r, c.id) /\ ~Live(row[c.id])
  /\ Twins(row, c.id, row[c.id].audience, EffectiveFp(row[c.id])) = {}
  /\ Change(r, c.id, "restore", Restored(row[c.id]))
  /\ UNCHANGED index

Reclassify(r) ==
  LET c == call[r] IN
  /\ c.op = "reclassify"
  /\ Done(r, "reclassified")
  /\ Live(row[c.id])
  /\ row[c.id].meta.extraction = Stub
  /\ Change(r, c.id, "metadata", Reclassified(row[c.id], row[c.id].content))
  /\ UNCHANGED index

-----------------------------------------------------------------------------
\* Refusals change nothing, and each says something true of the store.

\* Where a call would put its thought, and under which fingerprint.
Destination(c) ==
  IF c.op = "move" THEN c.audience ELSE row[c.id].audience

NewFp(c) ==
  IF c.op = "update" THEN FingerprintOf[c.content] ELSE EffectiveFp(row[c.id])

Refuse(r, why) ==
  LET c == call[r] IN
  /\ Reply(r, why)
  /\ why = "invisible" =>
       \/ ~Visible(r, c.id)
       \/ c.op \in {"update", "move"} /\ ~Live(row[c.id])
  /\ why = "unchanged" =>
       /\ Visible(r, c.id)
       /\ \/ c.op = "update"  /\ row[c.id].content = c.content
          \/ c.op = "move"    /\ row[c.id].audience = c.audience
          \/ c.op = "forget"  /\ ~Live(row[c.id])
          \/ c.op = "restore" /\ Live(row[c.id])
  /\ why = "conflict" =>
       /\ Visible(r, c.id)
       /\ Twins(row, c.id, Destination(c), NewFp(c)) # {}
  /\ why = "stale" => c.op = "reclassify"
  /\ UNCHANGED <<row, revs, index>>

Next ==
  \E r \in Req :
    \/ \E why \in Refusal : Refuse(r, why)
    \/ Move(r) \/ Forget(r) \/ Restore(r) \/ Reclassify(r)
    \/ \E extraction \in {call[r].content, Stub} :
         \/ Update(r, extraction)
         \/ \E id \in Id : CaptureNew(r, id, extraction) \/ CaptureAgain(r, id, extraction)

Spec == Init /\ [][Next]_ledgerVars
=============================================================================
