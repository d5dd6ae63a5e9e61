---------------------------- MODULE ServerProofs ----------------------------
(***************************************************************************)
(* Proofs about McpServer, for any number of requests, credentials and     *)
(* connections: who is admitted was entitled to it, the audit accounts for *)
(* every decision, and no connection is lost or shared.                    *)
(***************************************************************************)
EXTENDS McpServer, FiniteSetTheorems, SequenceTheorems, TLAPS

-----------------------------------------------------------------------------
(* The pools. *)

\* The pool p borrows from.
AsksFor(p) == IF p \in {TaskOf[r] : r \in Req} THEN Audit ELSE Main

InHand == {"popped", "probe", "held"}

PoolTypeOK ==
  /\ up \in BOOLEAN
  /\ conn \in [Client -> Conns]
  /\ idle \in [Pool -> Seq(Client)]
  /\ queue \in [Pool -> Seq(Borrower)]
  /\ at \in [Borrower -> Ats]
  /\ hand \in [Borrower -> Client \cup {NoClient}]
  /\ tries \in [Borrower -> Nat]

\* No client is in two places.
NotShared ==
  /\ \A q \in Pool : \A i, j \in 1..Len(idle[q]) : idle[q][i] = idle[q][j] => i = j
  /\ \A p, b \in Borrower : hand[p] = hand[b] /\ hand[p] # NoClient => p = b
  /\ \A p \in Borrower, q \in Pool : \A i \in 1..Len(idle[q]) : idle[q][i] # hand[p]

\* Every client is in its stack or in the hand of somebody of its pool.
NotLost ==
  /\ \A q \in Pool : \A i \in 1..Len(idle[q]) : PoolOf[idle[q][i]] = q
  /\ \A p \in Borrower : hand[p] # NoClient => PoolOf[hand[p]] = AsksFor(p)
  /\ \A k \in Client : \/ \E p \in Borrower : hand[p] = k
                       \/ \E i \in 1..Len(idle[PoolOf[k]]) : idle[PoolOf[k]][i] = k

HandsFit == \A p \in Borrower : hand[p] # NoClient <=> at[p] \in InHand

\* Whoever waits stands once in the queue of its pool, and only while its stack is empty.
QueuesFit ==
  /\ \A q \in Pool : \A i \in 1..Len(queue[q]) : at[queue[q][i]] = "waiting" /\ AsksFor(queue[q][i]) = q
  /\ \A q \in Pool : \A i, j \in 1..Len(queue[q]) : queue[q][i] = queue[q][j] => i = j
  /\ \A p \in Borrower : at[p] = "waiting" =>
       \E i \in 1..Len(queue[AsksFor(p)]) : queue[AsksFor(p)][i] = p
  /\ \A q \in Pool : queue[q] # <<>> => idle[q] = <<>>

PoolInv == PoolTypeOK /\ NotShared /\ NotLost /\ HandsFit /\ QueuesFit

-----------------------------------------------------------------------------
(* Requests and their audit. *)

Verdicts == [answer : {"found", "unread", "unavailable"}, context : Contexts]

TypeOK ==
  /\ settings \in Settings /\ request \in [Req -> Request]
  /\ tokens \in TokenTable /\ subjects \in SubjectTable
  /\ phase \in Phases
  /\ stage \in [Req -> Stages] /\ reply \in [Req -> Replies]
  /\ context \in [Req -> Contexts] /\ verdict \in [Req -> Verdicts]
  /\ pending \in [Req -> Events] /\ event \in [Req -> Events]
  /\ inFlight \in Nat /\ dropped \in Nat /\ lost \in Nat
  /\ since \in [Req -> SUBSET Contexts]
  /\ changes \in Nat /\ failures \in Nat

\* A lookup is under way, or its answer is at hand.
Asking(r) == at[r] # "out" \/ verdict[r] # Unread

\* What is known of a request by where its handler is.
RequestShape(r) ==
  /\ at[r] # "out" => stage[r] \in {"key", "bearer", "service", "ready"} /\ verdict[r] = Unread
  /\ stage[r] \notin {"key", "bearer"} => verdict[r] = Unread
  /\ stage[r] = "key" /\ Asking(r) => settings.native /\ KeyOf(settings, request[r]) \in Token
  /\ stage[r] = "bearer" /\ Asking(r) => request[r].bearer \in Subject
  /\ stage[r] \in {"key", "bearer", "admitted", "service", "denied"} => request[r].path = "mcp"
  /\ stage[r] = "ready" => request[r].path = "ready"
  /\ context[r] # NoContext => /\ stage[r] \in {"admitted", "service", "answered"}
                              /\ request[r].path = "mcp" /\ SoundContext(context[r])
  /\ stage[r] \in {"admitted", "service"} => context[r] # NoContext
  /\ reply[r] # "none" <=> stage[r] = "answered"
  /\ reply[r] \in {"ok", "error"} /\ request[r].path = "mcp" => context[r] # NoContext

\* An identity a lookup found was live since the request arrived, and is the one asked for.
LookupIsTrue(r) ==
  verdict[r].context # NoContext =>
    /\ verdict[r].context \in since[r]
    /\ stage[r] = "key" => verdict[r].context = TokenContext(request[r].key)
    /\ stage[r] = "bearer" => /\ verdict[r].context.sub = request[r].bearer
                              /\ verdict[r].context.label = Nobody
                              /\ verdict[r].context.door \in {"funnel", "service"}

AdmissionIsEarned(r) ==
  context[r] # NoContext =>
    /\ \/ context[r] = StaticContext /\ settings.static /\ request[r].key = "static"
       \/ context[r] \in since[r] /\ context[r].label = request[r].key
       \/ context[r] \in since[r] /\ context[r].sub = request[r].bearer
    /\ (context[r].door = "tailnet" /\ settings.marker) => request[r].tailnet

\* What is live now was live at some moment since each request arrived.
SinceIsCurrent == \A r \in Req : stage[r] # "new" => LiveContexts(tokens, subjects) \subseteq since[r]

\* A row names the decision and nobody but whom it is about.
Tells(row, r) ==
  /\ Decided(r) /\ row \in Decision(r)
  /\ (row.reason = "subject_not_allowed") <=> (row.subject # Nobody /\ row.outcome = "denied")

\* The event of a decision is of one task, and written once.
AuditShape(r) ==
  /\ at[TaskOf[r]] = "out" <=> pending[r] = NoEvent
  /\ pending[r] # NoEvent => settings.audit /\ Tells(pending[r], r) /\ event[r] = NoEvent
  /\ event[r] # NoEvent => Tells(event[r], r)

Pending == {r \in Req : pending[r] # NoEvent}
DecidedReqs == {r \in Req : Decided(r)}
Recorded == {r \in Req : event[r] # NoEvent}

Counts ==
  /\ inFlight = Cardinality(Pending) /\ inFlight <= MaxInFlight
  /\ settings.audit => /\ inFlight + dropped + lost <= Cardinality(DecidedReqs)
                       /\ Cardinality(DecidedReqs) <= inFlight + dropped + lost + Cardinality(Recorded)

\* The process neither works before its gates nor exits under anybody.
PhaseFits ==
  /\ phase = "boot" => \A r \in Req : stage[r] = "new"
  /\ phase \in {"stopping", "exited"} => Drained
  /\ phase \in {"boot", "exited"} => at[Worker] = "out"

IInv ==
  /\ PoolInv /\ TypeOK /\ SinceIsCurrent /\ Counts /\ PhaseFits
  /\ \A r \in Req : RequestShape(r) /\ LookupIsTrue(r) /\ AdmissionIsEarned(r) /\ AuditShape(r)

-----------------------------------------------------------------------------
(* The pools keep every client in one place. *)

\* What is waiting may be served; nobody else is touched by a step of p.
OthersGoOn(p) ==
  \A b \in Borrower \ {p} : at'[b] = at[b] \/ (at[b] = "waiting" /\ at'[b] \in {"popped", "probe"})

LEMMA FrontAndLast ==
  ASSUME NEW S, NEW s \in Seq(S), s # <<>>
  PROVE  /\ Front(s) \in Seq(S) /\ Len(s) \in Nat \ {0} /\ Len(Front(s)) = Len(s) - 1
         /\ \A i \in 1..Len(Front(s)) : Front(s)[i] = s[i]
         /\ Last(s) = s[Len(s)] /\ Last(s) \in S
<1>1. Len(s) \in Nat /\ Len(s) >= 1
  BY EmptySeq
<1>2. Front(s) = SubSeq(s, 1, Len(s) - 1)
  BY DEF Front
<1>3. Last(s) = s[Len(s)] /\ Last(s) \in S
  BY <1>1 DEF Last
<1>4. \A i \in 1..Len(s) - 1 : s[i] \in S
  BY <1>1
<1>5. PICK n \in Int : n = Len(s) - 1 /\ n >= 0
  BY <1>1
<1>6. 1 \in Int /\ \A i \in 1..n : s[i] \in S
  BY <1>4, <1>5
<1>7. SubSeq(s, 1, n) \in Seq(S)
  BY <1>6, SubSeqProperties, Zenon
<1>8. Len(SubSeq(s, 1, n)) = n /\ \A i \in 1..n : SubSeq(s, 1, n)[i] = s[1 + i - 1] /\ 1 + i - 1 = i
  BY <1>5, <1>6, SubSeqProperties
<1>9. \A i \in 1..n : SubSeq(s, 1, n)[i] = s[i]
  BY <1>8
<1> QED BY <1>1, <1>2, <1>3, <1>5, <1>7, <1>8, <1>9

\* What a borrower has and where it is.
LEMMA HandIsAClient ==
  ASSUME PoolInv, NEW p \in Borrower, at[p] \in InHand
  PROVE  hand[p] \in Client /\ PoolOf[hand[p]] \in Pool /\ AsksFor(p) = PoolOf[hand[p]] /\ hand[p] # NoClient
BY PoolAssumption DEF PoolInv, PoolTypeOK, HandsFit, NotLost

LEMMA PushBackKeepsPool ==
  ASSUME PoolInv, NEW p \in Borrower, NEW next \in {"out", "connect", "failed"}, at[p] \in InHand,
         NEW q \in Pool, NEW k \in Client, k = hand[p], q = PoolOf[k], queue[q] = <<>>,
         idle' = [idle EXCEPT ![q] = Append(@, k)],
         hand' = [hand EXCEPT ![p] = NoClient], at' = [at EXCEPT ![p] = next], queue' = queue,
         up' \in BOOLEAN, conn' \in [Client -> Conns], tries' \in [Borrower -> Nat]
  PROVE  PoolInv' /\ OthersGoOn(p) /\ at'[p] = next
<1>1. k # NoClient /\ q = AsksFor(p)
  BY HandIsAClient
<1> DEFINE s == idle[q]
<1>2. s \in Seq(Client) /\ Append(s, k) \in Seq(Client) /\ Len(s) \in Nat /\ Len(Append(s, k)) = Len(s) + 1
  BY DEF PoolInv, PoolTypeOK
<1>3. /\ \A i \in 1..Len(s) : Append(s, k)[i] = s[i]
      /\ Append(s, k)[Len(s) + 1] = k
  BY <1>2
<1>4. idle'[q] = Append(s, k) /\ \A x \in Pool \ {q} : idle'[x] = idle[x]
  BY DEF PoolInv, PoolTypeOK
<1>5. /\ hand'[p] = NoClient /\ at'[p] = next
      /\ \A b \in Borrower \ {p} : hand'[b] = hand[b] /\ at'[b] = at[b]
  BY DEF PoolInv, PoolTypeOK
<1>6. PoolTypeOK'
  BY <1>2 DEF PoolInv, PoolTypeOK, Ats
<1>7. \A i \in 1..Len(s) : s[i] # k
  BY DEF PoolInv, NotShared
<1>8. /\ \A x \in Pool \ {q} : \A i \in 1..Len(idle'[x]) : i \in 1..Len(idle[x]) /\ idle'[x][i] = idle[x][i]
      /\ \A i \in 1..Len(idle'[q]) : (i \in 1..Len(s) /\ idle'[q][i] = s[i]) \/ (i = Len(s) + 1 /\ idle'[q][i] = k)
  BY <1>2, <1>3, <1>4
<1>9. NotShared'
  <2>1. \A x \in Pool : \A i, j \in 1..Len(idle'[x]) : idle'[x][i] = idle'[x][j] => i = j
    BY <1>7, <1>8 DEF PoolInv, NotShared
  <2>2. \A c, b \in Borrower : hand'[c] = hand'[b] /\ hand'[c] # NoClient => c = b
    BY <1>5 DEF PoolInv, NotShared
  <2>3. \A b \in Borrower, x \in Pool : \A i \in 1..Len(idle'[x]) : idle'[x][i] # hand'[b]
    <3> TAKE b \in Borrower, x \in Pool
    <3> TAKE i \in 1..Len(idle'[x])
    <3>1. CASE b = p
      BY <3>1, <1>5, <1>6, PoolAssumption DEF PoolTypeOK
    <3>2. CASE b # p
      BY <3>2, <1>1, <1>5, <1>8 DEF PoolInv, NotShared
    <3> QED BY <3>1, <3>2
  <2> QED BY <2>1, <2>2, <2>3 DEF NotShared
<1>10. NotLost'
  <2>1. \A x \in Pool : \A i \in 1..Len(idle'[x]) : PoolOf[idle'[x][i]] = x
    <3>1. \A i \in 1..Len(idle'[q]) : PoolOf[idle'[q][i]] = q
      BY <1>8 DEF PoolInv, NotLost
    <3>2. \A x \in Pool \ {q} : \A i \in 1..Len(idle'[x]) : PoolOf[idle'[x][i]] = x
      BY <1>8 DEF PoolInv, NotLost
    <3> QED BY <3>1, <3>2
  <2>2. \A b \in Borrower : hand'[b] # NoClient => PoolOf[hand'[b]] = AsksFor(b)
    BY <1>5 DEF PoolInv, NotLost
  <2>3. \A c \in Client : \/ \E b \in Borrower : hand'[b] = c
                           \/ \E i \in 1..Len(idle'[PoolOf[c]]) : idle'[PoolOf[c]][i] = c
    <3> TAKE c \in Client
    <3>1. CASE c = k
      BY <3>1, <1>2, <1>3, <1>4
    <3>2. CASE c # k /\ \E b \in Borrower : hand[b] = c
      BY <3>2, <1>5
    <3>3. CASE \E i \in 1..Len(idle[PoolOf[c]]) : idle[PoolOf[c]][i] = c
      BY <3>3, <1>2, <1>3, <1>4, PoolAssumption
    <3> QED BY <3>1, <3>2, <3>3 DEF PoolInv, NotLost
  <2> QED BY <2>1, <2>2, <2>3 DEF NotLost, AsksFor
<1>11. HandsFit'
  BY <1>5 DEF PoolInv, HandsFit, InHand
<1>12. QueuesFit'
  <2>1. \A x \in Pool : \A i \in 1..Len(queue[x]) : queue[x][i] \in Borrower \ {p}
    <3> TAKE x \in Pool
    <3>1. queue[x] \in Seq(Borrower)
      BY DEF PoolInv, PoolTypeOK
    <3>2. at[p] # "waiting"
      BY DEF InHand
    <3> QED BY <3>1, <3>2, ElementOfSeq DEF PoolInv, QueuesFit
  <2>2. \A x \in Pool : \A i \in 1..Len(queue[x]) : at'[queue[x][i]] = "waiting" /\ AsksFor(queue[x][i]) = x
    BY <2>1, <1>5 DEF PoolInv, QueuesFit
  <2>3. \A b \in Borrower : at'[b] = "waiting" => \E i \in 1..Len(queue[AsksFor(b)]) : queue[AsksFor(b)][i] = b
    BY <1>5 DEF PoolInv, QueuesFit
  <2>4. \A x \in Pool : queue[x] # <<>> => idle'[x] = <<>>
    BY <1>4 DEF PoolInv, QueuesFit
  <2>5. \A x \in Pool : \A i, j \in 1..Len(queue[x]) : queue[x][i] = queue[x][j] => i = j
    BY DEF PoolInv, QueuesFit
  <2> QED BY <2>2, <2>3, <2>4, <2>5 DEF QueuesFit, AsksFor
<1> QED BY <1>5, <1>6, <1>9, <1>10, <1>11, <1>12 DEF PoolInv, OthersGoOn

LEMMA HandOverKeepsPool ==
  ASSUME PoolInv, NEW p \in Borrower, NEW next \in {"out", "connect", "failed"}, at[p] \in InHand,
         NEW q \in Pool, NEW k \in Client, k = hand[p], q = PoolOf[k], queue[q] # <<>>,
         NEW x \in {"popped", "probe"},
         queue' = [queue EXCEPT ![q] = Tail(@)],
         hand' = [hand EXCEPT ![p] = NoClient, ![Head(queue[q])] = k],
         at' = [at EXCEPT ![p] = next, ![Head(queue[q])] = x], idle' = idle,
         up' \in BOOLEAN, conn' \in [Client -> Conns], tries' \in [Borrower -> Nat]
  PROVE  PoolInv' /\ OthersGoOn(p) /\ at'[p] = next
<1>1. k # NoClient /\ q = AsksFor(p)
  BY HandIsAClient
<1>2. /\ queue[q] \in Seq(Borrower) /\ Len(queue[q]) \in Nat \ {0} /\ Head(queue[q]) = queue[q][1]
      /\ Tail(queue[q]) \in Seq(Borrower) /\ Len(Tail(queue[q])) = Len(queue[q]) - 1
      /\ \A i \in 1..Len(Tail(queue[q])) : Tail(queue[q])[i] = queue[q][i + 1]
  BY EmptySeq, HeadTailProperties DEF PoolInv, PoolTypeOK
<1>3. PICK b \in Borrower : b = Head(queue[q])
  BY <1>2
<1>4. at[b] = "waiting" /\ AsksFor(b) = q /\ b # p /\ hand[b] = NoClient
  <2>1. 1 \in 1..Len(queue[q]) /\ queue[q][1] = b
    BY <1>2, <1>3
  <2>2. at[b] = "waiting" /\ AsksFor(b) = q
    BY <2>1 DEF PoolInv, QueuesFit
  <2> QED BY <2>2 DEF PoolInv, HandsFit, InHand
<1>5. /\ queue'[q] = Tail(queue[q]) /\ \A y \in Pool \ {q} : queue'[y] = queue[y]
      /\ hand'[p] = NoClient /\ hand'[b] = k /\ at'[p] = next /\ at'[b] = x
      /\ \A c \in Borrower \ {p, b} : hand'[c] = hand[c] /\ at'[c] = at[c]
  BY <1>3, <1>4 DEF PoolInv, PoolTypeOK
<1>6. PoolTypeOK'
  BY <1>2, <1>3 DEF PoolInv, PoolTypeOK, Ats
<1>7. NotShared'
  <2>1. \A c, d \in Borrower : hand'[c] = hand'[d] /\ hand'[c] # NoClient => c = d
    BY <1>1, <1>4, <1>5 DEF PoolInv, NotShared
  <2>2. \A c \in Borrower, y \in Pool : \A i \in 1..Len(idle[y]) : idle[y][i] # hand'[c]
    <3> TAKE c \in Borrower, y \in Pool
    <3> TAKE i \in 1..Len(idle[y])
    <3>1. idle[y][i] # NoClient /\ idle[y][i] # k
      <4>1. idle[y] \in Seq(Client)
        BY DEF PoolInv, PoolTypeOK
      <4> QED BY <4>1, ElementOfSeq, PoolAssumption DEF PoolInv, NotShared
    <3>2. hand'[c] = hand[c] \/ hand'[c] \in {NoClient, k}
      BY <1>5
    <3>3. idle[y][i] # hand[c]
      BY DEF PoolInv, NotShared
    <3> QED BY <3>1, <3>2, <3>3
  <2> QED BY <2>1, <2>2 DEF PoolInv, NotShared
<1>8. NotLost'
  <2>1. \A c \in Borrower : hand'[c] # NoClient => PoolOf[hand'[c]] = AsksFor(c)
    <3>1. \A c \in Borrower : hand[c] # NoClient => PoolOf[hand[c]] = AsksFor(c)
      BY DEF PoolInv, NotLost
    <3> HIDE DEF PoolInv
    <3> QED BY <3>1, <1>4, <1>5
  <2>2. \A c \in Client : \/ \E d \in Borrower : hand'[d] = c
                          \/ \E i \in 1..Len(idle[PoolOf[c]]) : idle[PoolOf[c]][i] = c
    <3> TAKE c \in Client
    <3>1. CASE c = k
      BY <3>1, <1>5
    <3>2. CASE c # k /\ \E d \in Borrower : hand[d] = c
      BY <3>2, <1>4, <1>5, PoolAssumption
    <3> QED BY <3>1, <3>2 DEF PoolInv, NotLost
  <2> QED BY <2>1, <2>2 DEF PoolInv, NotLost, AsksFor
<1>9. HandsFit'
  BY <1>1, <1>4, <1>5 DEF PoolInv, HandsFit, InHand
<1>10. QueuesFit'
  <2> PICK n \in Nat : n = Len(queue[q])
    BY <1>2
  <2>0. n >= 1 /\ Len(queue'[q]) = n - 1 /\ \A i \in 1..n - 1 : queue'[q][i] = queue[q][i + 1]
    <3>1. n >= 1 /\ Len(Tail(queue[q])) = n - 1
      BY <1>2
    <3>2. \A i \in 1..n - 1 : Tail(queue[q])[i] = queue[q][i + 1]
      BY <1>2, <3>1
    <3> QED BY <3>1, <3>2, <1>5
  <2>1. \A i \in 1..Len(queue'[q]) : i + 1 \in 1..Len(queue[q]) /\ 1 \in 1..Len(queue[q]) /\ queue'[q][i] = queue[q][i + 1]
    <3> TAKE i \in 1..Len(queue'[q])
    <3>1. i \in 1..n - 1 /\ i + 1 \in 1..n /\ 1 \in 1..n
      BY <2>0
    <3>2. queue'[q][i] = queue[q][i + 1]
      BY <3>1, <2>0
    <3> QED BY <3>1, <3>2
  <2>2. \A y \in Pool : \A i \in 1..Len(queue'[y]) : queue'[y][i] # b
    <3>1. \A i \in 1..Len(queue'[q]) : queue'[q][i] # b
      <4> TAKE i \in 1..Len(queue'[q])
      <4>1. i + 1 # 1 /\ queue[q][1] = b /\ i + 1 \in 1..Len(queue[q]) /\ 1 \in 1..Len(queue[q])
        BY <2>0, <2>1, <1>2, <1>3
      <4>2. queue[q][i + 1] # queue[q][1]
        BY <4>1 DEF PoolInv, QueuesFit
      <4> QED BY <4>1, <4>2, <2>1
    <3>2. \A y \in Pool \ {q} : \A i \in 1..Len(queue'[y]) : queue'[y][i] # b
      BY <1>4, <1>5 DEF PoolInv, QueuesFit
    <3> QED BY <3>1, <3>2
  <2>3. \A y \in Pool : \A i \in 1..Len(queue'[y]) :
          queue'[y][i] \in Borrower \ {p} /\ at[queue'[y][i]] = "waiting" /\ AsksFor(queue'[y][i]) = y
    <3>1. \A y \in Pool : \A i \in 1..Len(queue'[y]) : at[queue'[y][i]] = "waiting" /\ AsksFor(queue'[y][i]) = y
      BY <2>1, <1>5 DEF PoolInv, QueuesFit
    <3>2. \A y \in Pool : \A i \in 1..Len(queue'[y]) : queue'[y][i] \in Borrower
      BY <1>6, ElementOfSeq DEF PoolTypeOK
    <3> QED BY <3>1, <3>2 DEF InHand
  <2>4. \A y \in Pool : \A i \in 1..Len(queue'[y]) : at'[queue'[y][i]] = "waiting" /\ AsksFor(queue'[y][i]) = y
    <3> TAKE y \in Pool
    <3> TAKE i \in 1..Len(queue'[y])
    <3>1. queue'[y][i] \in Borrower \ {p, b}
      BY <2>2, <2>3
    <3>2. at'[queue'[y][i]] = at[queue'[y][i]]
      BY <3>1, <1>5
    <3> QED BY <3>2, <2>3
  <2>5. \A y \in Pool : \A i, j \in 1..Len(queue'[y]) : queue'[y][i] = queue'[y][j] => i = j
    <3>1. \A i, j \in 1..Len(queue'[q]) : queue'[q][i] = queue'[q][j] => i = j
      <4> TAKE i, j \in 1..Len(queue'[q])
      <4>1. queue[q][i + 1] = queue[q][j + 1] => i + 1 = j + 1
        BY <2>1 DEF PoolInv, QueuesFit
      <4> QED BY <4>1, <2>0, <2>1
    <3>2. \A y \in Pool \ {q} : \A i, j \in 1..Len(queue'[y]) : queue'[y][i] = queue'[y][j] => i = j
      BY <1>5 DEF PoolInv, QueuesFit
    <3> QED BY <3>1, <3>2
  <2>6. \A c \in Borrower : at'[c] = "waiting" => \E i \in 1..Len(queue'[AsksFor(c)]) : queue'[AsksFor(c)][i] = c
    <3> SUFFICES ASSUME NEW c \in Borrower, at'[c] = "waiting"
                 PROVE  \E i \in 1..Len(queue'[AsksFor(c)]) : queue'[AsksFor(c)][i] = c
      OBVIOUS
    <3>1. c # p /\ c # b /\ at[c] = "waiting" /\ AsksFor(c) \in Pool
      BY <1>5, ServerAssumption DEF AsksFor
    <3>2. PICK i \in 1..Len(queue[AsksFor(c)]) : queue[AsksFor(c)][i] = c
      BY <3>1 DEF PoolInv, QueuesFit
    <3>3. CASE AsksFor(c) # q
      BY <3>1, <3>2, <3>3, <1>5
    <3>4. CASE AsksFor(c) = q
      <4>1. i # 1 /\ i - 1 \in 1..n - 1 /\ i - 1 \in 1..Len(queue'[q])
        BY <3>1, <3>2, <3>4, <1>2, <1>3, <2>0
      <4>2. queue'[q][i - 1] = queue[q][i - 1 + 1] /\ i - 1 + 1 = i
        BY <4>1, <2>0
      <4> QED BY <4>1, <4>2, <3>2, <3>4
    <3> QED BY <3>3, <3>4
  <2>7. \A y \in Pool : queue'[y] # <<>> => idle[y] = <<>>
    BY <1>5 DEF PoolInv, QueuesFit
  <2> QED BY <2>4, <2>5, <2>6, <2>7 DEF QueuesFit, AsksFor
<1> QED BY <1>4, <1>5, <1>6, <1>7, <1>8, <1>9, <1>10 DEF PoolInv, OthersGoOn

LEMMA MoveKeepsPool ==
  ASSUME PoolInv, NEW p \in Borrower, NEW x \in Ats \ {"waiting"}, at[p] # "waiting", at[p] \in InHand <=> x \in InHand,
         at' = [at EXCEPT ![p] = x], UNCHANGED <<idle, queue, hand>>,
         up' \in BOOLEAN, conn' \in [Client -> Conns], tries' \in [Borrower -> Nat]
  PROVE  PoolInv' /\ OthersGoOn(p) /\ at'[p] = x
<1>1. at'[p] = x /\ \A b \in Borrower \ {p} : at'[b] = at[b]
  BY DEF PoolInv, PoolTypeOK
<1>2. PoolTypeOK'
  BY DEF PoolInv, PoolTypeOK
<1>3. NotShared' /\ NotLost'
  BY DEF PoolInv, NotShared, NotLost, AsksFor
<1>4. HandsFit'
  BY <1>1 DEF PoolInv, HandsFit, InHand
<1>5. QueuesFit'
  <2>1. \A y \in Pool : \A i \in 1..Len(queue[y]) : queue[y][i] \in Borrower \ {p}
    <3>1. \A y \in Pool : queue[y] \in Seq(Borrower)
      BY DEF PoolInv, PoolTypeOK
    <3> QED BY <3>1, ElementOfSeq DEF PoolInv, QueuesFit
  <2>2. \A y \in Pool : \A i \in 1..Len(queue[y]) : at'[queue[y][i]] = "waiting" /\ AsksFor(queue[y][i]) = y
    BY <2>1, <1>1 DEF PoolInv, QueuesFit
  <2>3. \A b \in Borrower : at'[b] = "waiting" => \E i \in 1..Len(queue[AsksFor(b)]) : queue[AsksFor(b)][i] = b
    BY <1>1 DEF PoolInv, QueuesFit
  <2>4. \A y \in Pool : queue[y] # <<>> => idle[y] = <<>>
    BY DEF PoolInv, QueuesFit
  <2>5. \A y \in Pool : \A i, j \in 1..Len(queue[y]) : queue[y][i] = queue[y][j] => i = j
    BY DEF PoolInv, QueuesFit
  <2> QED BY <2>2, <2>3, <2>4, <2>5 DEF QueuesFit, AsksFor
<1> QED BY <1>1, <1>2, <1>3, <1>4, <1>5 DEF PoolInv, OthersGoOn

LEMMA PopKeepsPool ==
  ASSUME PoolInv, NEW p \in Borrower, at[p] = "connect", NEW q \in Pool, q = AsksFor(p), idle[q] # <<>>,
         NEW x \in {"popped", "probe"},
         hand' = [hand EXCEPT ![p] = Last(idle[q])], idle' = [idle EXCEPT ![q] = Front(@)],
         at' = [at EXCEPT ![p] = x], queue' = queue,
         up' \in BOOLEAN, conn' \in [Client -> Conns], tries' \in [Borrower -> Nat]
  PROVE  PoolInv' /\ OthersGoOn(p) /\ at'[p] = x
<1>1. /\ idle[q] \in Seq(Client) /\ Front(idle[q]) \in Seq(Client)
      /\ Len(idle[q]) \in Nat \ {0} /\ Len(Front(idle[q])) = Len(idle[q]) - 1
      /\ \A i \in 1..Len(Front(idle[q])) : Front(idle[q])[i] = idle[q][i]
  <2>1. idle[q] \in Seq(Client)
    BY DEF PoolInv, PoolTypeOK
  <2> QED BY <2>1, FrontAndLast, Zenon
<1>2. PICK k \in Client : k = Last(idle[q]) /\ k = idle[q][Len(idle[q])]
  BY <1>1, FrontAndLast
<1>3. PICK n \in Nat \ {0} : n = Len(idle[q])
  BY <1>1
<1>4. /\ idle'[q] = Front(idle[q]) /\ \A y \in Pool \ {q} : idle'[y] = idle[y]
      /\ hand'[p] = k /\ at'[p] = x
      /\ \A c \in Borrower \ {p} : hand'[c] = hand[c] /\ at'[c] = at[c]
  BY <1>2 DEF PoolInv, PoolTypeOK
<1>5. /\ Len(idle'[q]) = n - 1 /\ idle[q][n] = k /\ n \in 1..n
      /\ \A i \in 1..n - 1 : i \in 1..n /\ i # n /\ idle'[q][i] = idle[q][i]
  <2>1. Len(Front(idle[q])) = n - 1 /\ \A i \in 1..n - 1 : Front(idle[q])[i] = idle[q][i]
    BY <1>1, <1>3
  <2> QED BY <2>1, <1>2, <1>3, <1>4
<1>6. \A y \in Pool : \A i \in 1..Len(idle'[y]) : i \in 1..Len(idle[y]) /\ idle'[y][i] = idle[y][i]
  <2>1. \A i \in 1..Len(idle'[q]) : i \in 1..Len(idle[q]) /\ idle'[q][i] = idle[q][i]
    BY <1>3, <1>5
  <2> QED BY <2>1, <1>4
<1>7. PoolOf[k] = q /\ k # NoClient /\ \A c \in Borrower : hand[c] # k
  <2>1. n \in 1..Len(idle[q]) /\ idle[q][n] = k
    BY <1>3, <1>5
  <2>2. PoolOf[k] = q
    BY <2>1 DEF PoolInv, NotLost
  <2>3. \A c \in Borrower : hand[c] # k
    BY <2>1 DEF PoolInv, NotShared
  <2> QED BY <2>2, <2>3, PoolAssumption
<1>8. \A y \in Pool : \A i \in 1..Len(idle'[y]) : idle'[y][i] # k
  <2>1. \A i \in 1..Len(idle'[q]) : idle'[q][i] # k
    <3> TAKE i \in 1..Len(idle'[q])
    <3>1. i \in 1..Len(idle[q]) /\ n \in 1..Len(idle[q]) /\ i # n
      BY <1>3, <1>5
    <3>2. idle[q][i] # idle[q][n]
      BY <3>1 DEF PoolInv, NotShared
    <3> QED BY <3>2, <1>5, <1>6
  <2>2. \A y \in Pool \ {q} : \A i \in 1..Len(idle'[y]) : idle'[y][i] # k
    BY <1>6, <1>7 DEF PoolInv, NotLost
  <2> QED BY <2>1, <2>2
<1>9. PoolTypeOK'
  BY <1>1, <1>2 DEF PoolInv, PoolTypeOK, Ats
<1>10. NotShared'
  <2>1. \A y \in Pool : \A i, j \in 1..Len(idle'[y]) : idle'[y][i] = idle'[y][j] => i = j
    BY <1>6 DEF PoolInv, NotShared
  <2>2. \A c, b \in Borrower : hand'[c] = hand'[b] /\ hand'[c] # NoClient => c = b
    BY <1>4, <1>7 DEF PoolInv, NotShared
  <2>3. \A c \in Borrower, y \in Pool : \A i \in 1..Len(idle'[y]) : idle'[y][i] # hand'[c]
    <3> TAKE c \in Borrower, y \in Pool
    <3> TAKE i \in 1..Len(idle'[y])
    <3>1. hand'[c] = hand[c] \/ hand'[c] = k
      BY <1>4
    <3>2. idle'[y][i] # hand[c]
      BY <1>6 DEF PoolInv, NotShared
    <3> QED BY <3>1, <3>2, <1>8
  <2> QED BY <2>1, <2>2, <2>3 DEF NotShared
<1>11. NotLost'
  <2>1. \A y \in Pool : \A i \in 1..Len(idle'[y]) : PoolOf[idle'[y][i]] = y
    BY <1>6 DEF PoolInv, NotLost
  <2>2. \A c \in Borrower : hand'[c] # NoClient => PoolOf[hand'[c]] = AsksFor(c)
    <3>1. \A c \in Borrower : hand[c] # NoClient => PoolOf[hand[c]] = AsksFor(c)
      BY DEF PoolInv, NotLost
    <3> HIDE DEF PoolInv
    <3> QED BY <3>1, <1>4, <1>7
  <2>3. \A c \in Client : \/ \E b \in Borrower : hand'[b] = c
                          \/ \E i \in 1..Len(idle'[PoolOf[c]]) : idle'[PoolOf[c]][i] = c
    <3> SUFFICES ASSUME NEW c \in Client, c # k
                 PROVE  \/ \E b \in Borrower : hand'[b] = c
                        \/ \E i \in 1..Len(idle'[PoolOf[c]]) : idle'[PoolOf[c]][i] = c
      BY <1>4
    <3>1. CASE \E b \in Borrower : hand[b] = c
      <4>1. PICK b \in Borrower : hand[b] = c
        BY <3>1
      <4>2. b # p
        BY <4>1, PoolAssumption DEF PoolInv, HandsFit, InHand
      <4> QED BY <4>1, <4>2, <1>4
    <3>2. CASE \E i \in 1..Len(idle[PoolOf[c]]) : idle[PoolOf[c]][i] = c
      <4>1. PICK i \in 1..Len(idle[PoolOf[c]]) : idle[PoolOf[c]][i] = c
        BY <3>2
      <4>2. CASE PoolOf[c] = q
        <5>1. i \in 1..n /\ i # n
          BY <4>1, <4>2, <1>3, <1>5
        <5>2. i \in 1..n - 1
          BY <5>1
        <5> QED BY <5>2, <4>1, <4>2, <1>5
      <4>3. CASE PoolOf[c] # q
        BY <4>1, <4>3, <1>4, PoolAssumption
      <4> QED BY <4>2, <4>3
    <3> QED BY <3>1, <3>2 DEF PoolInv, NotLost
  <2> QED BY <2>1, <2>2, <2>3 DEF NotLost, AsksFor
<1>12. HandsFit'
  BY <1>4, <1>7 DEF PoolInv, HandsFit, InHand
<1>13. QueuesFit'
  <2>1. \A y \in Pool : \A i \in 1..Len(queue[y]) : queue[y][i] \in Borrower \ {p}
    <3>1. \A y \in Pool : queue[y] \in Seq(Borrower)
      BY DEF PoolInv, PoolTypeOK
    <3> QED BY <3>1, ElementOfSeq DEF PoolInv, QueuesFit
  <2>2. \A y \in Pool : \A i \in 1..Len(queue[y]) : at'[queue[y][i]] = "waiting" /\ AsksFor(queue[y][i]) = y
    BY <2>1, <1>4 DEF PoolInv, QueuesFit
  <2>3. \A b \in Borrower : at'[b] = "waiting" => \E i \in 1..Len(queue[AsksFor(b)]) : queue[AsksFor(b)][i] = b
    BY <1>4 DEF PoolInv, QueuesFit
  <2>4. \A y \in Pool : queue[y] # <<>> => idle'[y] = <<>>
    BY <1>4 DEF PoolInv, QueuesFit
  <2>5. \A y \in Pool : \A i, j \in 1..Len(queue[y]) : queue[y][i] = queue[y][j] => i = j
    BY DEF PoolInv, QueuesFit
  <2> QED BY <2>2, <2>3, <2>4, <2>5 DEF QueuesFit, AsksFor
<1> QED BY <1>4, <1>9, <1>10, <1>11, <1>12, <1>13 DEF PoolInv, OthersGoOn

LEMMA WaitKeepsPool ==
  ASSUME PoolInv, NEW p \in Borrower, at[p] = "connect", NEW q \in Pool, q = AsksFor(p), idle[q] = <<>>,
         queue' = [queue EXCEPT ![q] = Append(@, p)], at' = [at EXCEPT ![p] = "waiting"],
         UNCHANGED <<idle, hand, up, conn, tries>>
  PROVE  PoolInv' /\ OthersGoOn(p) /\ at'[p] = "waiting"
<1> DEFINE s == queue[q]
<1>1. /\ s \in Seq(Borrower) /\ Append(s, p) \in Seq(Borrower)
      /\ Len(s) \in Nat /\ Len(Append(s, p)) = Len(s) + 1
  BY DEF PoolInv, PoolTypeOK
<1>2. (\A i \in 1..Len(s) : Append(s, p)[i] = s[i]) /\ Append(s, p)[Len(s) + 1] = p
  BY <1>1
<1>3. /\ queue'[q] = Append(s, p) /\ \A y \in Pool \ {q} : queue'[y] = queue[y]
      /\ at'[p] = "waiting" /\ \A b \in Borrower \ {p} : at'[b] = at[b]
  BY DEF PoolInv, PoolTypeOK
<1>4. PoolTypeOK'
  BY <1>1 DEF PoolInv, PoolTypeOK, Ats
<1>5. NotShared' /\ NotLost'
  BY DEF PoolInv, NotShared, NotLost, AsksFor
<1>6. HandsFit'
  BY <1>3 DEF PoolInv, HandsFit, InHand
<1>7. QueuesFit'
  <2>1. \A i \in 1..Len(queue'[q]) : (i \in 1..Len(s) /\ queue'[q][i] = s[i]) \/ (i = Len(s) + 1 /\ queue'[q][i] = p)
    BY <1>1, <1>2, <1>3
  <2>2. \A y \in Pool : \A i \in 1..Len(queue[y]) : queue[y][i] \in Borrower \ {p}
    <3>1. \A y \in Pool : queue[y] \in Seq(Borrower)
      BY DEF PoolInv, PoolTypeOK
    <3> QED BY <3>1, ElementOfSeq DEF PoolInv, QueuesFit
  <2>3. \A y \in Pool : \A i \in 1..Len(queue'[y]) : at'[queue'[y][i]] = "waiting" /\ AsksFor(queue'[y][i]) = y
    <3>1. \A y \in Pool : \A i \in 1..Len(queue[y]) : at'[queue[y][i]] = "waiting" /\ AsksFor(queue[y][i]) = y
      BY <2>2, <1>3 DEF PoolInv, QueuesFit
    <3>2. \A i \in 1..Len(queue'[q]) : at'[queue'[q][i]] = "waiting" /\ AsksFor(queue'[q][i]) = q
      BY <3>1, <2>1, <1>3
    <3> QED BY <3>1, <3>2, <1>3
  <2>4. \A y \in Pool : \A i, j \in 1..Len(queue'[y]) : queue'[y][i] = queue'[y][j] => i = j
    <3>1. \A i, j \in 1..Len(queue'[q]) : queue'[q][i] = queue'[q][j] => i = j
      BY <2>1, <2>2 DEF PoolInv, QueuesFit
    <3>2. \A y \in Pool \ {q} : \A i, j \in 1..Len(queue'[y]) : queue'[y][i] = queue'[y][j] => i = j
      BY <1>3 DEF PoolInv, QueuesFit
    <3> QED BY <3>1, <3>2
  <2>5. \A b \in Borrower : at'[b] = "waiting" => \E i \in 1..Len(queue'[AsksFor(b)]) : queue'[AsksFor(b)][i] = b
    <3> SUFFICES ASSUME NEW b \in Borrower, at'[b] = "waiting"
                 PROVE  \E i \in 1..Len(queue'[AsksFor(b)]) : queue'[AsksFor(b)][i] = b
      OBVIOUS
    <3>1. CASE b = p
      BY <3>1, <1>1, <1>2, <1>3
    <3>2. CASE b # p
      <4>1. AsksFor(b) \in Pool
        BY ServerAssumption DEF AsksFor
      <4>2. PICK i \in 1..Len(queue[AsksFor(b)]) : queue[AsksFor(b)][i] = b
        BY <3>2, <1>3 DEF PoolInv, QueuesFit
      <4>3. CASE AsksFor(b) = q
        BY <4>2, <4>3, <1>1, <1>2, <1>3
      <4>4. CASE AsksFor(b) # q
        BY <4>1, <4>2, <4>4, <1>3
      <4> QED BY <4>3, <4>4
    <3> QED BY <3>1, <3>2
  <2>6. \A y \in Pool : queue'[y] # <<>> => idle[y] = <<>>
    BY <1>3 DEF PoolInv, QueuesFit
  <2> QED BY <2>3, <2>4, <2>5, <2>6 DEF QueuesFit, AsksFor
<1> QED BY <1>3, <1>4, <1>5, <1>6, <1>7 DEF PoolInv, OthersGoOn

LEMMA StillPool ==
  ASSUME PoolInv, UNCHANGED <<idle, queue, at, hand>>,
         up' \in BOOLEAN, conn' \in [Client -> Conns], tries' \in [Borrower -> Nat]
  PROVE  PoolInv'
BY DEF PoolInv, PoolTypeOK, NotShared, NotLost, HandsFit, QueuesFit, AsksFor

LEMMA PushKeepsPool ==
  ASSUME PoolInv, NEW p \in Borrower, NEW next \in {"out", "connect", "failed"}, at[p] \in InHand, Push(p, next),
         up' \in BOOLEAN, conn' \in [Client -> Conns], tries' \in [Borrower -> Nat]
  PROVE  PoolInv' /\ OthersGoOn(p) /\ at'[p] = next
<1>1. PICK k \in Client : k = hand[p] /\ PoolOf[k] \in Pool
  BY HandIsAClient
<1>2. PICK q \in Pool : q = PoolOf[k]
  BY <1>1
<1>3. CASE queue[q] = <<>>
  <2>1. /\ idle' = [idle EXCEPT ![q] = Append(@, k)] /\ hand' = [hand EXCEPT ![p] = NoClient]
        /\ at' = [at EXCEPT ![p] = next] /\ queue' = queue
    BY <1>1, <1>2, <1>3 DEF Push
  <2> QED BY <2>1, <1>1, <1>2, <1>3, PushBackKeepsPool
<1>4. CASE queue[q] # <<>>
  <2>1. PICK x \in {"popped", "probe"} : x = Taken(k)
    BY DEF Taken
  <2>2. /\ queue' = [queue EXCEPT ![q] = Tail(@)] /\ idle' = idle
        /\ hand' = [hand EXCEPT ![p] = NoClient, ![Head(queue[q])] = k]
        /\ at' = [at EXCEPT ![p] = next, ![Head(queue[q])] = x]
    BY <1>1, <1>2, <1>4, <2>1 DEF Push
  <2> QED BY <2>2, <1>1, <1>2, <1>4, HandOverKeepsPool
<1> QED BY <1>3, <1>4

\* A borrower on its way to a connection stays on it, whatever fails.
LEMMA GettingKeepsPool ==
  ASSUME PoolInv, NEW p \in Borrower, Getting(p, AsksFor(p))
  PROVE  PoolInv' /\ OthersGoOn(p) /\ at[p] # "out" /\ at'[p] # "out"
<1> DEFINE q == AsksFor(p)
<1>1. q \in Pool
  BY ServerAssumption DEF AsksFor
<1>2. up \in BOOLEAN /\ conn \in [Client -> Conns] /\ tries \in [Borrower -> Nat]
  BY DEF PoolInv, PoolTypeOK
<1>3. AfterFailure(p) \in {"connect", "failed"}
  BY DEF AfterFailure
<1>4. CASE Pop(p, q)
  <2>1. at[p] = "connect" /\ UNCHANGED <<up, conn, tries>>
    BY <1>4 DEF Pop
  <2>2. CASE idle[q] # <<>>
    <3>1. PICK x \in {"popped", "probe"} : x = Taken(Last(idle[q]))
      BY DEF Taken
    <3>2. /\ hand' = [hand EXCEPT ![p] = Last(idle[q])] /\ idle' = [idle EXCEPT ![q] = Front(@)]
          /\ at' = [at EXCEPT ![p] = x] /\ queue' = queue
      BY <1>4, <2>2, <3>1 DEF Pop
    <3>3. PoolInv' /\ OthersGoOn(p) /\ at'[p] = x
      BY <3>2, <2>1, <2>2, <1>1, <1>2, PopKeepsPool
    <3> QED BY <3>3, <2>1
  <2>3. CASE idle[q] = <<>>
    <3>1. /\ queue' = [queue EXCEPT ![q] = Append(@, p)] /\ at' = [at EXCEPT ![p] = "waiting"]
          /\ UNCHANGED <<idle, hand>>
      BY <1>4, <2>3 DEF Pop
    <3>2. PoolInv' /\ OthersGoOn(p) /\ at'[p] = "waiting"
      BY <3>1, <2>1, <2>3, <1>1, WaitKeepsPool
    <3> QED BY <3>2, <2>1
  <2> QED BY <2>2, <2>3
<1>5. CASE Initialize(p)
  <2>1. at[p] = "popped" /\ at[p] \in InHand /\ up' = up
    BY <1>5 DEF Initialize, InHand
  <2>2. CASE conn' = [conn EXCEPT ![hand[p]] = Fresh] /\ at' = [at EXCEPT ![p] = "probe"] /\ UNCHANGED <<idle, queue, hand, tries>>
    <3>1. conn' \in [Client -> Conns]
      BY <2>2, <1>2 DEF Fresh, Conns
    <3>2. "probe" \in Ats \ {"waiting"} /\ "probe" \in InHand
      BY DEF Ats, InHand
    <3>3. PoolInv' /\ OthersGoOn(p) /\ at'[p] = "probe"
      BY <3>1, <3>2, <2>1, <2>2, <1>2, MoveKeepsPool
    <3> QED BY <3>3, <2>1
  <2>3. CASE conn' = conn /\ Push(p, AfterFailure(p)) /\ Count(p)
    <3>1. tries' \in [Borrower -> Nat]
      BY <2>3, <1>2 DEF Count
    <3>2. PoolInv' /\ OthersGoOn(p) /\ at'[p] = AfterFailure(p)
      BY <3>1, <2>1, <2>3, <1>2, <1>3, PushKeepsPool
    <3> QED BY <3>2, <2>1, <1>3
  <2> QED BY <2>2, <2>3, <1>5 DEF Initialize
<1>6. CASE Probe(p)
  <2>1. at[p] = "probe" /\ at[p] \in InHand /\ up' = up
    BY <1>6 DEF Probe, InHand
  <2>2. CASE at' = [at EXCEPT ![p] = "held"] /\ UNCHANGED <<conn, idle, queue, hand, tries>>
    <3>1. "held" \in Ats \ {"waiting"} /\ "held" \in InHand
      BY DEF Ats, InHand
    <3>2. PoolInv' /\ OthersGoOn(p) /\ at'[p] = "held"
      BY <3>1, <2>1, <2>2, <1>2, MoveKeepsPool
    <3> QED BY <3>2, <2>1
  <2>3. CASE UNCHANGED <<conn, tries>> /\ Push(p, "failed")
    <3>1. PoolInv' /\ OthersGoOn(p) /\ at'[p] = "failed"
      BY <2>1, <2>3, <1>2, PushKeepsPool
    <3> QED BY <3>1, <2>1
  <2>4. CASE conn' = [conn EXCEPT ![hand[p]] = Ended] /\ Push(p, AfterFailure(p)) /\ Count(p)
    <3>1. tries' \in [Borrower -> Nat] /\ conn' \in [Client -> Conns]
      <4>1. Ended \in Conns
        BY DEF Ended, Conns
      <4>2. conn' \in [Client -> Conns]
        BY <4>1, <2>4, <1>2
      <4> QED BY <4>2, <2>4, <1>2 DEF Count
    <3>2. PoolInv' /\ OthersGoOn(p) /\ at'[p] = AfterFailure(p)
      BY <3>1, <2>1, <2>4, <1>2, <1>3, PushKeepsPool
    <3> QED BY <3>2, <2>1, <1>3
  <2> QED BY <2>2, <2>3, <2>4, <1>6 DEF Probe
<1> QED BY <1>4, <1>5, <1>6 DEF Getting

\* A query gives its connection back, answered or not.
LEMMA AnswerKeepsPool ==
  ASSUME PoolInv, NEW p \in Borrower, Ask(p) \/ Unserved(p)
  PROVE  PoolInv' /\ OthersGoOn(p) /\ at[p] \in {"held", "failed"} /\ at'[p] = "out"
<1>1. up \in BOOLEAN /\ conn \in [Client -> Conns] /\ tries \in [Borrower -> Nat]
  BY DEF PoolInv, PoolTypeOK
<1>2. CASE Ask(p) \/ AskInVain(p)
  <2>1. at[p] = "held" /\ at[p] \in InHand /\ up' = up /\ tries' = tries /\ Push(p, "out")
    BY <1>2 DEF Ask, AskInVain, InHand
  <2>2. conn' \in [Client -> Conns]
    <3>1. \A c \in BOOLEAN : [connected |-> c, terminated |-> TRUE, live |-> FALSE] \in Conns
      BY DEF Conns
    <3>2. ASSUME AskInVain(p) PROVE conn' \in [Client -> Conns]
      BY <3>1, <3>2, <1>1 DEF AskInVain, Broken
    <3> QED BY <3>2, <1>1, <1>2 DEF Ask
  <2> QED BY <2>1, <2>2, <1>1, PushKeepsPool
<1>3. CASE GiveUp(p)
  <2>1. at[p] = "failed" /\ at' = [at EXCEPT ![p] = "out"] /\ UNCHANGED <<up, conn, idle, queue, hand, tries>>
    BY <1>3 DEF GiveUp
  <2>2. "out" \in Ats \ {"waiting"} /\ "out" \notin InHand /\ "failed" \notin InHand
    BY DEF Ats, InHand
  <2> QED BY <2>1, <2>2, <1>1, MoveKeepsPool
<1> QED BY <1>2, <1>3 DEF Unserved

LEMMA BorrowKeepsPool ==
  ASSUME PoolInv, NEW p \in Borrower, at[p] = "out", Borrowing(p), IdlePool
  PROVE  PoolInv' /\ OthersGoOn(p) /\ at'[p] = "connect"
<1>1. /\ up \in BOOLEAN /\ conn \in [Client -> Conns] /\ tries \in [Borrower -> Nat]
      /\ "connect" \in Ats \ {"waiting"} /\ "connect" \notin InHand /\ "out" \notin InHand
  BY DEF PoolInv, PoolTypeOK, Ats, InHand
<1>2. at' = [at EXCEPT ![p] = "connect"] /\ UNCHANGED <<up, conn, idle, queue, hand>> /\ tries' \in [Borrower -> Nat]
  BY <1>1 DEF Borrowing, IdlePool
<1> QED BY <1>1, <1>2, MoveKeepsPool

\* At first every client is in the stack of its pool.
LEMMA StackOfASet ==
  ASSUME NEW S, IsFiniteSet(S)
  PROVE  /\ SetToSeq(S) \in Seq(S)
         /\ \A i, j \in 1..Len(SetToSeq(S)) : SetToSeq(S)[i] = SetToSeq(S)[j] => i = j
         /\ \A x \in S : \E i \in 1..Len(SetToSeq(S)) : SetToSeq(S)[i] = x
<1>1. PICK n \in Nat : n = Cardinality(S)
  BY FS_CardinalityType
<1>2. ExistsBijection(1..n, S)
  BY <1>1, FS_CardinalityType
<1>3. PICK f \in Bijection(1..n, S) : TRUE
  BY <1>2 DEF ExistsBijection
<1>4. f \in [1..n -> S] /\ IsInjective(f)
  BY <1>3 DEF Bijection, Injection, Surjection, IsInjective
<1>5. SetToSeq(S) \in [1..n -> S] /\ IsInjective(SetToSeq(S))
  BY <1>1, <1>4 DEF SetToSeq
<1>6. PICK g \in [1..n -> S] : g = SetToSeq(S) /\ IsInjective(g)
  BY <1>5
<1>7. g \in Seq(S) /\ Len(g) = n
  BY <1>6
<1>8. \A i, j \in 1..n : g[i] = g[j] => i = j
  BY <1>6 DEF IsInjective
<1>9. g \in Injection(1..n, S)
  BY <1>6, <1>8 DEF Injection, IsInjective
<1>10. g \in Surjection(1..n, S)
  <2>1. Cardinality(1..n) = IF 1 > n THEN 0 ELSE n - 1 + 1
    BY FS_Interval
  <2>2. Cardinality(1..n) = Cardinality(S)
    BY <2>1, <1>1
  <2>3. Cardinality(1..n) = Cardinality(S) <=> g \in Surjection(1..n, S)
    BY <1>9, FS_Injection
  <2> QED BY <2>2, <2>3
<1> QED BY <1>6, <1>7, <1>8, <1>10 DEF Surjection

LEMMA InitPoolInv ==
  ASSUME InitPool
  PROVE  PoolInv
<1> DEFINE S(q) == {k \in Client : PoolOf[k] = q}
<1>1. \A q \in Pool : /\ idle[q] \in Seq(S(q))
                      /\ \A i, j \in 1..Len(idle[q]) : idle[q][i] = idle[q][j] => i = j
                      /\ \A k \in S(q) : \E i \in 1..Len(idle[q]) : idle[q][i] = k
  <2> TAKE q \in Pool
  <2>1. IsFiniteSet(S(q))
    BY PoolAssumption, FS_Subset
  <2>2. idle[q] = SetToSeq(S(q))
    BY DEF InitPool
  <2>3. /\ SetToSeq(S(q)) \in Seq(S(q))
        /\ \A i, j \in 1..Len(SetToSeq(S(q))) : SetToSeq(S(q))[i] = SetToSeq(S(q))[j] => i = j
        /\ \A x \in S(q) : \E i \in 1..Len(SetToSeq(S(q))) : SetToSeq(S(q))[i] = x
    <3> HIDE DEF S
    <3> QED BY <2>1, StackOfASet
  <2> HIDE DEF S
  <2> QED BY <2>2, <2>3
<1>2. \A q \in Pool : idle[q] \in Seq(Client) /\ \A i \in 1..Len(idle[q]) : PoolOf[idle[q][i]] = q
  <2> TAKE q \in Pool
  <2>1. idle[q] \in Seq(S(q))
    BY <1>1
  <2>2. \A i \in 1..Len(idle[q]) : idle[q][i] \in S(q)
    BY <2>1, ElementOfSeq
  <2>3. idle[q] \in Seq(Client)
    BY <2>1
  <2> QED BY <2>2, <2>3
<1>3. PoolTypeOK
  BY <1>2 DEF InitPool, PoolTypeOK, Conns, Unconnected, Ats
<1>4. NotShared
  <2>1. \A p \in Borrower, q \in Pool : \A i \in 1..Len(idle[q]) : idle[q][i] # hand[p]
    BY <1>2, ElementOfSeq, PoolAssumption DEF InitPool
  <2>2. \A p \in Borrower : hand[p] = NoClient
    BY DEF InitPool
  <2> QED BY <2>1, <2>2, <1>1 DEF NotShared
<1>5. NotLost
  <2>1. \A k \in Client : \E i \in 1..Len(idle[PoolOf[k]]) : idle[PoolOf[k]][i] = k
    BY <1>1, PoolAssumption
  <2>2. \A p \in Borrower : hand[p] = NoClient
    BY DEF InitPool
  <2> QED BY <2>1, <2>2, <1>2 DEF NotLost
<1>6. HandsFit /\ QueuesFit
  BY DEF InitPool, HandsFit, QueuesFit, InHand
<1> QED BY <1>3, <1>4, <1>5, <1>6 DEF PoolInv

-----------------------------------------------------------------------------
(* A step of one request leaves the others as they are. *)

Shapes(r) == RequestShape(r) /\ LookupIsTrue(r) /\ AdmissionIsEarned(r) /\ AuditShape(r)

Undisturbed(s) ==
  /\ settings' = settings /\ request' = request
  /\ stage'[s] = stage[s] /\ context'[s] = context[s] /\ reply'[s] = reply[s] /\ verdict'[s] = verdict[s]
  /\ pending'[s] = pending[s] /\ event'[s] = event[s]
  /\ stage[s] = "new" \/ since[s] \subseteq since'[s]
  /\ at'[s] = "out" <=> at[s] = "out"
  /\ at'[TaskOf[s]] = "out" <=> at[TaskOf[s]] = "out"

LEMMA UndisturbedKeepsShapes ==
  ASSUME NEW s \in Req, Shapes(s), Undisturbed(s)
  PROVE  Shapes(s)'
<1>1. RequestShape(s)'
  BY DEF Shapes, Undisturbed, RequestShape, Asking, KeyOf, SoundContext
<1>2. stage[s] = "new" => verdict[s].context = NoContext /\ context[s] = NoContext
  BY DEF Shapes, RequestShape, Unread
<1>3. LookupIsTrue(s)'
  BY <1>2 DEF Shapes, Undisturbed, LookupIsTrue, TokenContext
<1>4. AdmissionIsEarned(s)'
  BY <1>2 DEF Shapes, Undisturbed, AdmissionIsEarned, StaticContext
<1>5. Decided(s)' = Decided(s) /\ Decision(s)' = Decision(s)
  BY DEF Undisturbed, Decided, Decision
<1>6. AuditShape(s)'
  BY <1>5 DEF Shapes, Undisturbed, AuditShape, Tells
<1> QED BY <1>1, <1>3, <1>4, <1>6 DEF Shapes

\* What r and its audit task borrow is nobody else's.
LEMMA OthersUndisturbed ==
  ASSUME NEW r \in Req, NEW p \in {r, TaskOf[r], Worker}, OthersGoOn(p),
         settings' = settings, request' = request,
         \A s \in Req \ {r} : /\ stage'[s] = stage[s] /\ context'[s] = context[s] /\ reply'[s] = reply[s]
                              /\ verdict'[s] = verdict[s] /\ since'[s] = since[s]
                              /\ pending'[s] = pending[s] /\ event'[s] = event[s]
  PROVE  \A s \in Req \ {r} : Undisturbed(s)
<1> TAKE s \in Req \ {r}
<1>1. s \in Borrower \ {p} /\ TaskOf[s] \in Borrower \ {p}
  BY ServerAssumption
<1>2. \A b \in Borrower \ {p} : at'[b] = "out" <=> at[b] = "out"
  BY DEF OthersGoOn
<1> QED BY <1>1, <1>2 DEF Undisturbed

LEMMA SetsAreFinite ==
  /\ IsFiniteSet(Pending) /\ IsFiniteSet(DecidedReqs) /\ IsFiniteSet(Recorded)
  /\ Cardinality(Pending) \in Nat /\ Cardinality(DecidedReqs) \in Nat /\ Cardinality(Recorded) \in Nat
<1>1. IsFiniteSet(Pending) /\ IsFiniteSet(DecidedReqs) /\ IsFiniteSet(Recorded)
  BY ServerAssumption, FS_Subset DEF Pending, DecidedReqs, Recorded
<1> QED BY <1>1, FS_CardinalityType

\* A step that decides nothing and writes nothing.
LEMMA SameCounts ==
  ASSUME Counts, settings' = settings, UNCHANGED auditVars, \A s \in Req : Decided(s)' = Decided(s)
  PROVE  Counts'
<1>1. Pending' = Pending /\ Recorded' = Recorded /\ DecidedReqs' = DecidedReqs
  BY DEF auditVars, Pending, Recorded, DecidedReqs
<1> QED BY <1>1 DEF Counts, auditVars

\* A decision is queued, dropped, or not asked for.
LEMMA EnqueueKeeps ==
  ASSUME IInv, NEW r \in Req, NEW row \in Events, row # NoEvent, at[r] = "out", ~Decided(r), Decided(r)',
         settings' = settings, \A s \in Req \ {r} : Decided(s)' = Decided(s),
         Enqueue(r, row), IdlePool, Tells(row, r)'
  PROVE  /\ PoolInv' /\ (OthersGoOn(TaskOf[r]) \/ at' = at) /\ at'[r] = "out"
         /\ pending' \in [Req -> Events] /\ inFlight' \in Nat /\ dropped' \in Nat
         /\ event' = event /\ lost' = lost /\ \A s \in Req \ {r} : pending'[s] = pending[s]
         /\ Counts' /\ AuditShape(r)'
<1> DEFINE p == TaskOf[r]
<1>1. /\ PoolInv /\ TypeOK /\ Counts /\ AuditShape(r) /\ p \in Borrower /\ r \in Borrower /\ r # p
  BY ServerAssumption DEF IInv
<1>2. pending[r] = NoEvent /\ event[r] = NoEvent /\ at[p] = "out"
  BY <1>1 DEF AuditShape, Tells
<1>3. DecidedReqs' = DecidedReqs \cup {r} /\ r \notin DecidedReqs
  BY DEF DecidedReqs
<1>4. Cardinality(DecidedReqs') = Cardinality(DecidedReqs) + 1
  BY <1>3, SetsAreFinite, FS_AddElement
<1>5. /\ Cardinality(DecidedReqs) \in Nat /\ Cardinality(Recorded) \in Nat /\ Cardinality(Pending) \in Nat
      /\ inFlight \in Nat /\ dropped \in Nat /\ lost \in Nat /\ MaxInFlight \in Nat
  BY <1>1, SetsAreFinite, ServerAssumption DEF TypeOK
<1>6. CASE ~settings.audit
  <2>1. UNCHANGED <<pending, event, inFlight, dropped, lost, at, tries>>
    BY <1>6 DEF Enqueue, auditVars
  <2>2. PoolInv'
    BY <2>1, <1>1, StillPool DEF IdlePool, PoolInv, PoolTypeOK
  <2>3. Pending' = Pending /\ Recorded' = Recorded
    BY <2>1 DEF Pending, Recorded
  <2>4. Counts'
    BY <2>1, <2>3, <1>1, <1>6 DEF Counts
  <2>5. AuditShape(r)'
    BY <2>1, <1>2 DEF AuditShape
  <2> QED BY <2>1, <2>2, <2>4, <2>5, <1>1 DEF TypeOK
<1>7. CASE settings.audit /\ inFlight >= MaxInFlight
  <2>1. UNCHANGED <<pending, event, inFlight, lost, at, tries>> /\ dropped' = dropped + 1
    BY <1>7 DEF Enqueue
  <2>2. PoolInv'
    BY <2>1, <1>1, StillPool DEF IdlePool, PoolInv, PoolTypeOK
  <2>3. Pending' = Pending /\ Recorded' = Recorded
    BY <2>1 DEF Pending, Recorded
  <2>4. Counts'
    BY <2>1, <2>3, <1>1, <1>4, <1>5 DEF Counts
  <2>5. AuditShape(r)'
    BY <2>1, <1>2 DEF AuditShape
  <2> QED BY <2>1, <2>2, <2>4, <2>5, <1>1 DEF TypeOK
<1>8. CASE settings.audit /\ ~(inFlight >= MaxInFlight)
  <2>1. /\ inFlight' = inFlight + 1 /\ pending' = [pending EXCEPT ![r] = row] /\ Borrowing(p)
        /\ UNCHANGED <<event, dropped, lost>>
    BY <1>8 DEF Enqueue
  <2>2. PoolInv' /\ OthersGoOn(p) /\ at'[p] = "connect"
    BY <2>1, <1>1, <1>2, BorrowKeepsPool
  <2>3. pending' \in [Req -> Events] /\ pending'[r] = row /\ \A s \in Req \ {r} : pending'[s] = pending[s]
    BY <2>1, <1>1 DEF TypeOK
  <2>4. Pending' = Pending \cup {r} /\ r \notin Pending /\ Recorded' = Recorded
    BY <2>1, <2>3, <1>2 DEF Pending, Recorded
  <2>5. Cardinality(Pending') = Cardinality(Pending) + 1
    BY <2>4, SetsAreFinite, FS_AddElement
  <2>6. Counts'
    BY <2>1, <2>4, <2>5, <1>1, <1>4, <1>5, <1>8 DEF Counts
  <2>7. AuditShape(r)'
    BY <2>1, <2>2, <2>3, <1>2, <1>8 DEF AuditShape
  <2>8. at'[r] = "out"
    BY <2>2, <1>1 DEF OthersGoOn
  <2> QED BY <2>1, <2>2, <2>3, <2>6, <2>7, <2>8, <1>5
<1> QED BY <1>6, <1>7, <1>8

\* The audit task has done its one attempt.
LEMMA WrittenKeepsCounts ==
  ASSUME IInv, NEW r \in Req, pending[r] # NoEvent, inFlight' = inFlight - 1,
         pending' = [pending EXCEPT ![r] = NoEvent], dropped' = dropped, settings' = settings,
         \A s \in Req : Decided(s)' = Decided(s),
         \/ event' = [event EXCEPT ![r] = pending[r]] /\ lost' \in {lost, lost + 1}
         \/ event' = event /\ lost' = lost + 1
  PROVE  Counts' /\ inFlight' \in Nat /\ lost' \in Nat
<1>1. TypeOK /\ Counts /\ AuditShape(r)
  BY DEF IInv
<1>2. event[r] = NoEvent
  BY <1>1 DEF AuditShape
<1>3. /\ Cardinality(DecidedReqs) \in Nat /\ Cardinality(Recorded) \in Nat /\ Cardinality(Pending) \in Nat
      /\ inFlight \in Nat /\ dropped \in Nat /\ lost \in Nat /\ MaxInFlight \in Nat
  BY <1>1, SetsAreFinite, ServerAssumption DEF TypeOK
<1>4. Pending' = Pending \ {r} /\ r \in Pending
  BY <1>1 DEF TypeOK, Pending
<1>5. Cardinality(Pending') = Cardinality(Pending) - 1
  BY <1>4, SetsAreFinite, FS_RemoveElement
<1>6. DecidedReqs' = DecidedReqs
  BY DEF DecidedReqs
<1>7. inFlight >= 1 /\ Cardinality(Pending) = inFlight
  <2>1. Cardinality(Pending) # 0
    BY <1>4, SetsAreFinite, FS_EmptySet
  <2> QED BY <2>1, <1>1, <1>3 DEF Counts
<1>8. CASE event' = [event EXCEPT ![r] = pending[r]] /\ lost' \in {lost, lost + 1}
  <2>1. Recorded' = Recorded \cup {r} /\ r \notin Recorded
    BY <1>1, <1>2, <1>8 DEF TypeOK, Recorded
  <2>2. Cardinality(Recorded') = Cardinality(Recorded) + 1
    BY <2>1, SetsAreFinite, FS_AddElement
  <2> QED BY <2>2, <1>1, <1>3, <1>5, <1>6, <1>7, <1>8 DEF Counts
<1>9. CASE event' = event /\ lost' = lost + 1
  <2>1. Recorded' = Recorded
    BY <1>9 DEF Recorded
  <2> QED BY <2>1, <1>1, <1>3, <1>5, <1>6, <1>7, <1>9 DEF Counts
<1> QED BY <1>8, <1>9

-----------------------------------------------------------------------------
(* The steps of one request. *)

LEMMA RequestMoves ==
  ASSUME IInv, NEW r \in Req, stage[r] \notin {"new", "answered"}, Unchanged(r),
         stage' \in [Req -> Stages], context' \in [Req -> Contexts], reply' \in [Req -> Replies],
         verdict' \in [Req -> Verdicts], pending' \in [Req -> Events], event' = event,
         inFlight' \in Nat, dropped' \in Nat, lost' = lost,
         \A s \in Req \ {r} : Undisturbed(s), PoolInv', Shapes(r)', Counts'
  PROVE  IInv'
<1>1. TypeOK' /\ settings' = settings /\ request' = request /\ phase' = phase /\ since' = since
  BY DEF IInv, TypeOK, Unchanged, tables
<1>2. SinceIsCurrent'
  <2>1. \A s \in Req : stage'[s] # "new" => stage[s] # "new"
    BY DEF Undisturbed
  <2>2. LiveContexts(tokens, subjects)' = LiveContexts(tokens, subjects)
    BY DEF Unchanged, tables, LiveContexts, TokenContext, SubjectContext, Context
  <2> QED BY <2>1, <2>2, <1>1 DEF IInv, SinceIsCurrent
<1>3. PhaseFits'
  <2>1. phase \notin {"boot", "stopping", "exited"}
    BY DEF IInv, PhaseFits, Drained
  <2> QED BY <2>1, <1>1 DEF PhaseFits
<1>4. \A s \in Req : Shapes(s)'
  <2>1. \A s \in Req : Shapes(s)
    BY DEF IInv, Shapes
  <2> QED BY <2>1, UndisturbedKeepsShapes
<1> QED BY <1>1, <1>2, <1>3, <1>4 DEF IInv, Shapes

\* What the shape of a request in one of the lookups says of it.
LEMMA Unadmitted ==
  ASSUME IInv, NEW r \in Req, stage[r] \in {"key", "bearer"}
  PROVE  /\ context[r] = NoContext /\ request[r].path = "mcp" /\ reply[r] = "none" /\ ~Decided(r)
         /\ pending[r] = NoEvent /\ event[r] = NoEvent
         /\ request[r] \in Request /\ settings \in Settings /\ verdict[r] \in Verdicts
BY DEF IInv, RequestShape, AuditShape, Tells, Decided, TypeOK

LEMMA AdmitKeeps ==
  ASSUME IInv, NEW r \in Req, stage[r] \in {"key", "bearer"}, at[r] = "out",
         NEW x \in Contexts, x # NoContext, SoundContext(x),
         \/ x = StaticContext /\ settings.static /\ request[r].key = "static"
         \/ x \in since[r] /\ x.label = request[r].key
         \/ x \in since[r] /\ x.sub = request[r].bearer,
         (x.door = "tailnet" /\ settings.marker) => request[r].tailnet,
         Admit(r, x), IdlePool, Unchanged(r),
         verdict' \in [Req -> Verdicts], verdict'[r] = Unread, \A s \in Req \ {r} : verdict'[s] = verdict[s]
  PROVE  IInv'
<1>1. /\ TypeOK /\ ~Decided(r) /\ request[r].path = "mcp" /\ reply[r] = "none"
      /\ settings' = settings /\ request' = request /\ since' = since
  BY Unadmitted DEF IInv, Unchanged
<1>2. /\ stage' \in [Req -> Stages] /\ context' \in [Req -> Contexts] /\ reply' = reply
      /\ stage'[r] = "admitted" /\ context'[r] = x
      /\ \A s \in Req \ {r} : stage'[s] = stage[s] /\ context'[s] = context[s]
  BY <1>1 DEF Admit, TypeOK, Stages
<1>3. Decided(r)' /\ \A s \in Req \ {r} : Decided(s)' = Decided(s)
  BY <1>1, <1>2 DEF Decided
<1>4. PICK row \in Events : row = Allowed(x)
  <2>1. Allowed(x) \in Events
    <3>1. x.sub \in Principal \cup Subject \cup {Nobody} /\ x.label \in Token \cup {Nobody} /\ x.door # "none"
          /\ x.door \in {"none", "tailnet", "funnel", "service"}
      BY DEF Contexts, SoundContext
    <3>2. x.door # "tailnet" => x.sub \in Subject
      BY <3>1 DEF SoundContext
    <3> QED BY <3>1, <3>2 DEF Allowed, Events
  <2> QED BY <2>1
<1>5. row # NoEvent /\ Tells(row, r)'
  <2>1. row.outcome = "allowed" /\ row.reason = "none"
    BY <1>4 DEF Allowed
  <2>2. Decision(r)' = {row}
    BY <1>2, <1>4 DEF Decision, NoContext, Context, Allowed
  <2> QED BY <2>1, <2>2, <1>3 DEF Tells, NoEvent
<1>6. /\ PoolInv' /\ (OthersGoOn(TaskOf[r]) \/ at' = at) /\ at'[r] = "out"
      /\ pending' \in [Req -> Events] /\ inFlight' \in Nat /\ dropped' \in Nat
      /\ event' = event /\ lost' = lost /\ \A s \in Req \ {r} : pending'[s] = pending[s]
      /\ Counts' /\ AuditShape(r)'
  <2>1. Enqueue(r, row)
    BY <1>4 DEF Admit
  <2> QED BY <2>1, <1>1, <1>3, <1>5, EnqueueKeeps
<1>7. \A s \in Req \ {r} : Undisturbed(s)
  <2>1. OthersGoOn(TaskOf[r])
    BY <1>6 DEF OthersGoOn
  <2> QED BY <2>1, <1>1, <1>2, <1>6, OthersUndisturbed
<1>8. RequestShape(r)' /\ LookupIsTrue(r)' /\ AdmissionIsEarned(r)'
  <2>1. RequestShape(r)'
    BY <1>1, <1>2, <1>6 DEF RequestShape, Asking, SoundContext
  <2>2. LookupIsTrue(r)'
    BY DEF LookupIsTrue, Unread
  <2>3. AdmissionIsEarned(r)'
    BY <1>1, <1>2 DEF AdmissionIsEarned, StaticContext, Context
  <2> QED BY <2>1, <2>2, <2>3
<1>9. reply' \in [Req -> Replies]
  BY <1>1, <1>2 DEF TypeOK
<1> QED BY <1>2, <1>6, <1>7, <1>8, <1>9, RequestMoves DEF Shapes

LEMMA RefuseKeeps ==
  ASSUME IInv, NEW r \in Req, stage[r] \in {"key", "bearer"}, at[r] = "out",
         NEW reason \in Reasons, NEW subject \in Subject \cup {Nobody}, subject \in {Nobody, request[r].bearer},
         reason = "subject_not_allowed" <=> subject # Nobody,
         Refuse(r, reason, subject), IdlePool, Unchanged(r),
         verdict' \in [Req -> Verdicts], verdict'[r] = Unread, \A s \in Req \ {r} : verdict'[s] = verdict[s]
  PROVE  IInv'
<1>1. /\ TypeOK /\ ~Decided(r) /\ request[r].path = "mcp" /\ reply[r] = "none" /\ context[r] = NoContext
      /\ settings' = settings /\ request' = request /\ since' = since
  BY Unadmitted DEF IInv, Unchanged
<1>2. /\ stage' \in [Req -> Stages] /\ context' = context /\ reply' = reply
      /\ stage'[r] = "denied" /\ \A s \in Req \ {r} : stage'[s] = stage[s]
  BY <1>1 DEF Refuse, TypeOK, Stages
<1>3. Decided(r)' /\ \A s \in Req \ {r} : Decided(s)' = Decided(s)
  BY <1>1, <1>2 DEF Decided
<1>4. PICK row \in Events : row = Denied(reason, subject)
  <2>1. Denied(reason, subject) \in Events
    BY DEF Denied, Events
  <2> QED BY <2>1
<1>5. row # NoEvent /\ Tells(row, r)'
  <2>1. row.outcome = "denied" /\ row.reason = reason /\ row.subject = subject
    BY <1>4 DEF Denied
  <2>2. row \in Decision(r)'
    BY <1>1, <1>2, <1>4 DEF Decision, Denied
  <2> QED BY <2>1, <2>2, <1>3 DEF Tells, NoEvent
<1>6. /\ PoolInv' /\ (OthersGoOn(TaskOf[r]) \/ at' = at) /\ at'[r] = "out"
      /\ pending' \in [Req -> Events] /\ inFlight' \in Nat /\ dropped' \in Nat
      /\ event' = event /\ lost' = lost /\ \A s \in Req \ {r} : pending'[s] = pending[s]
      /\ Counts' /\ AuditShape(r)'
  <2>1. Enqueue(r, row)
    BY <1>4 DEF Refuse
  <2> QED BY <2>1, <1>1, <1>3, <1>5, EnqueueKeeps
<1>7. \A s \in Req \ {r} : Undisturbed(s)
  <2>1. OthersGoOn(TaskOf[r])
    BY <1>6 DEF OthersGoOn
  <2> QED BY <2>1, <1>1, <1>2, <1>6, OthersUndisturbed
<1>8. RequestShape(r)' /\ LookupIsTrue(r)' /\ AdmissionIsEarned(r)'
  BY <1>1, <1>2, <1>6 DEF RequestShape, Asking, LookupIsTrue, Unread, AdmissionIsEarned
<1>9. reply' \in [Req -> Replies] /\ context' \in [Req -> Contexts]
  BY <1>1, <1>2 DEF TypeOK
<1> QED BY <1>2, <1>6, <1>7, <1>8, <1>9, RequestMoves DEF Shapes

LEMMA PoolsApart ==
  ASSUME NEW r \in Req
  PROVE  AsksFor(r) = Main /\ AsksFor(Worker) = Main /\ AsksFor(TaskOf[r]) = Audit
         /\ r \in Borrower /\ TaskOf[r] \in Borrower /\ Worker \in Borrower /\ r # TaskOf[r] /\ r # Worker
         /\ TaskOf[r] # Worker
BY ServerAssumption DEF AsksFor

\* Steps that neither decide nor touch the audit.
LEMMA QuietMoves ==
  ASSUME IInv, NEW r \in Req, stage[r] \notin {"new", "answered"}, Unchanged(r), UNCHANGED <<context, auditVars>>,
         stage' \in [Req -> Stages], \A s \in Req \ {r} : stage'[s] = stage[s],
         reply' \in [Req -> Replies], \A s \in Req \ {r} : reply'[s] = reply[s],
         verdict' \in [Req -> Verdicts], \A s \in Req \ {r} : verdict'[s] = verdict[s],
         Decided(r)' = Decided(r), PoolInv', OthersGoOn(r), RequestShape(r)', LookupIsTrue(r)'
  PROVE  IInv'
<1>1. TypeOK /\ settings' = settings /\ request' = request /\ since' = since /\ context' = context
  BY DEF IInv, Unchanged
<1>2. pending' = pending /\ event' = event /\ inFlight' = inFlight /\ dropped' = dropped /\ lost' = lost
  BY DEF auditVars
<1>3. \A s \in Req \ {r} : Undisturbed(s)
  BY <1>1, <1>2, OthersUndisturbed
<1>4. \A s \in Req : Decided(s)' = Decided(s)
  BY <1>1 DEF Decided
<1>5. Counts'
  BY <1>1, <1>4, SameCounts DEF IInv
<1>6. AdmissionIsEarned(r)'
  BY <1>1 DEF IInv, AdmissionIsEarned, StaticContext, Context
<1>7. AuditShape(r)'
  <2>1. at'[TaskOf[r]] = "out" <=> at[TaskOf[r]] = "out"
    BY PoolsApart DEF OthersGoOn
  <2>2. Decision(r)' = Decision(r) /\ Decided(r)' = Decided(r)
    BY <1>1 DEF Decision
  <2> QED BY <2>1, <2>2, <1>1, <1>2 DEF IInv, AuditShape, Tells
<1> QED BY <1>1, <1>2, <1>3, <1>5, <1>6, <1>7, RequestMoves DEF Shapes, TypeOK

LEMMA GetKeeps ==
  ASSUME IInv, NEW r \in Req, Get(r)
  PROVE  IInv'
<1>1. PoolInv' /\ OthersGoOn(r) /\ at[r] # "out" /\ at'[r] # "out"
  <2>1. Getting(r, AsksFor(r))
    BY PoolsApart DEF Get
  <2> QED BY <2>1, PoolsApart, GettingKeepsPool DEF IInv
<1>2. /\ TypeOK /\ RequestShape(r) /\ LookupIsTrue(r) /\ settings' = settings /\ request' = request /\ since' = since
      /\ Unchanged(r) /\ UNCHANGED requestVars /\ UNCHANGED auditVars
  BY DEF IInv, Get, Unchanged
<1>3. UNCHANGED <<stage, context, reply, verdict>>
  BY <1>2 DEF requestVars
<1>4. stage[r] \notin {"new", "answered"}
  BY <1>1, <1>2 DEF RequestShape
<1>5. RequestShape(r)' /\ LookupIsTrue(r)' /\ Decided(r)' = Decided(r)
  BY <1>1, <1>2, <1>3 DEF RequestShape, Asking, KeyOf, SoundContext, LookupIsTrue, TokenContext, Decided
<1> QED BY <1>1, <1>2, <1>3, <1>4, <1>5, QuietMoves DEF TypeOK

\* A request goes from its key to its bearer token.
LEMMA PassOnKeeps ==
  ASSUME IInv, NEW r \in Req, stage[r] = "key", at[r] = "out", IdlePool, Unchanged(r),
         stage' = [stage EXCEPT ![r] = "bearer"], UNCHANGED <<at, tries, context, reply, auditVars>>,
         verdict' \in [Req -> Verdicts], verdict'[r] = Unread, \A s \in Req \ {r} : verdict'[s] = verdict[s]
  PROVE  IInv'
<1>1. /\ PoolInv /\ TypeOK /\ RequestShape(r) /\ settings' = settings /\ request' = request /\ reply' = reply
      /\ context' = context /\ at' = at
  BY DEF IInv, Unchanged
<1>2. PoolInv' /\ OthersGoOn(r)
  BY <1>1, StillPool DEF IdlePool, PoolInv, PoolTypeOK, OthersGoOn
<1>3. stage' \in [Req -> Stages] /\ stage'[r] = "bearer" /\ \A s \in Req \ {r} : stage'[s] = stage[s]
  BY <1>1 DEF TypeOK, Stages
<1>4. RequestShape(r)' /\ LookupIsTrue(r)' /\ Decided(r)' = Decided(r)
  BY <1>1, <1>3 DEF RequestShape, Asking, LookupIsTrue, Unread, Decided
<1>5. reply' \in [Req -> Replies] /\ \A s \in Req \ {r} : reply'[s] = reply[s]
  BY <1>1 DEF TypeOK
<1>6. stage[r] \notin {"new", "answered"} /\ UNCHANGED <<context, auditVars>>
  BY DEF IInv
<1> QED BY <1>2, <1>3, <1>4, <1>5, <1>6, QuietMoves

\* A lookup begins.
LEMMA AskingKeeps ==
  ASSUME IInv, NEW r \in Req, at[r] = "out", verdict[r] = Unread, Borrowing(r), IdlePool, Unchanged(r),
         \/ stage[r] = "key" /\ settings.native /\ KeyOf(settings, request[r]) \in Token
         \/ stage[r] = "bearer" /\ request[r].bearer \in Subject,
         UNCHANGED <<stage, context, reply, verdict, auditVars>>
  PROVE  IInv'
<1>1. /\ PoolInv /\ TypeOK /\ RequestShape(r) /\ settings' = settings /\ request' = request /\ r \in Borrower
      /\ UNCHANGED <<stage, context, reply, verdict>>
  BY PoolsApart DEF IInv, Unchanged
<1>2. PoolInv' /\ OthersGoOn(r) /\ at'[r] = "connect"
  BY <1>1, BorrowKeepsPool
<1>3. RequestShape(r)' /\ LookupIsTrue(r)' /\ Decided(r)' = Decided(r)
  BY <1>1, <1>2 DEF RequestShape, Asking, KeyOf, SoundContext, LookupIsTrue, Unread, Decided
<1>4. stage[r] \notin {"new", "answered"} /\ UNCHANGED <<context, auditVars>>
  BY DEF IInv
<1> QED BY <1>1, <1>2, <1>3, <1>4, QuietMoves DEF TypeOK

LEMMA CheckKeyKeeps ==
  ASSUME IInv, NEW r \in Req, CheckKey(r)
  PROVE  IInv'
<1> DEFINE key == KeyOf(settings, request[r])
<1>1. /\ stage[r] = "key" /\ at[r] = "out" /\ verdict[r] = Unread /\ IdlePool /\ Unchanged(r) /\ verdict' = verdict
      /\ verdict' \in [Req -> Verdicts] /\ verdict'[r] = Unread
  BY DEF CheckKey, IInv, TypeOK
<1>2. CASE settings.static /\ key = "static" /\ Admit(r, StaticContext)
  <2>1. request[r].key = "static" /\ (settings.marker => request[r].tailnet)
    BY <1>2 DEF KeyOf
  <2>2. StaticContext \in Contexts /\ StaticContext # NoContext /\ SoundContext(StaticContext)
    BY DEF StaticContext, NoContext, Context, Contexts, SoundContext
  <2> QED BY <2>1, <2>2, <1>1, <1>2, AdmitKeeps
<1>3. CASE settings.native /\ key \in Token /\ Borrowing(r) /\ UNCHANGED <<stage, context, reply, auditVars>>
  BY <1>1, <1>3, AskingKeeps
<1>4. CASE stage' = [stage EXCEPT ![r] = "bearer"] /\ UNCHANGED <<at, tries, context, reply, auditVars>>
  BY <1>1, <1>4, PassOnKeeps
<1> QED BY <1>2, <1>3, <1>4 DEF CheckKey

\* The answer of a lookup.
LEMMA ReadKeeps ==
  ASSUME IInv, NEW r \in Req, stage[r] \in {"key", "bearer"}, NEW x \in Contexts, Read(r, Found(x)),
         x # NoContext =>
           /\ x \in since[r]
           /\ stage[r] = "key" => x = TokenContext(request[r].key)
           /\ stage[r] = "bearer" => x.sub = request[r].bearer /\ x.label = Nobody /\ x.door \in {"funnel", "service"}
  PROVE  IInv'
<1>1. /\ PoolInv /\ TypeOK /\ RequestShape(r) /\ settings' = settings /\ request' = request /\ since' = since
      /\ Unchanged(r) /\ UNCHANGED <<stage, context, reply, auditVars>> /\ r \in Borrower
  BY PoolsApart DEF IInv, Read, Unchanged
<1>2. Ask(r) \/ Unserved(r)
  BY DEF Read
<1>3. PoolInv' /\ OthersGoOn(r) /\ at[r] # "out" /\ at'[r] = "out"
  BY <1>1, <1>2, AnswerKeepsPool
<1>4. PICK v \in Verdicts : /\ verdict' = [verdict EXCEPT ![r] = v]
                            /\ v.context = x \/ v.context = NoContext
  <2>1. Found(x) \in Verdicts /\ Found(x).context = x
    BY DEF Found, Verdicts
  <2>2. Unavailable \in Verdicts /\ Unavailable.context = NoContext
    BY DEF Unavailable, Verdicts, Contexts, NoContext, Context
  <2> QED BY <2>1, <2>2 DEF Read
<1>5. verdict' \in [Req -> Verdicts] /\ verdict'[r] = v /\ \A s \in Req \ {r} : verdict'[s] = verdict[s]
  BY <1>1, <1>4 DEF TypeOK
<1>6. RequestShape(r)'
  BY <1>1, <1>3, <1>5 DEF RequestShape, Asking, KeyOf
<1>7. LookupIsTrue(r)'
  BY <1>1, <1>4, <1>5 DEF LookupIsTrue, TokenContext
<1>8. Decided(r)' = Decided(r) /\ stage[r] \notin {"new", "answered"}
  BY <1>1 DEF Decided
<1> QED BY <1>1, <1>3, <1>5, <1>6, <1>7, <1>8, QuietMoves DEF TypeOK

LEMMA LiveContextsType ==
  ASSUME NEW t \in TokenTable, NEW s \in SubjectTable
  PROVE  LiveContexts(t, s) \subseteq Contexts
<1>1. \A u \in Token : TokenContext(u) \in Contexts
  BY CredentialAssumption DEF TokenContext, Context, Contexts
<1>2. \A u \in Subject, kind \in Kinds, m \in BOOLEAN : SubjectContext(u, kind, m) \in Contexts
  BY DEF SubjectContext, Context, Contexts
<1>3. \A u \in Subject : s[u].kind \in Kinds
  BY DEF SubjectTable
<1> QED BY <1>1, <1>2, <1>3 DEF LiveContexts

LEMMA ReadTokenKeeps ==
  ASSUME IInv, NEW r \in Req, ReadToken(r)
  PROVE  IInv'
<1> DEFINE t == request[r].key
<1>1. stage[r] = "key" /\ TypeOK /\ RequestShape(r) /\ SinceIsCurrent /\ r \in Borrower /\ PoolInv
  BY PoolsApart DEF ReadToken, IInv
<1>2. Ask(r) \/ Unserved(r)
  BY DEF ReadToken, Read
<1>3. at[r] # "out"
  BY <1>1, <1>2, AnswerKeepsPool
<1>4. t \in Token
  BY <1>1, <1>3, CredentialAssumption DEF RequestShape, Asking, KeyOf
<1>5. TokenContext(t) \in Contexts /\ NoContext \in Contexts
  BY <1>4, CredentialAssumption DEF TokenContext, Context, Contexts, NoContext
<1>6. TokenAdmitted(tokens, t) => TokenContext(t) \in since[r]
  <2>1. TokenAdmitted(tokens, t) => TokenContext(t) \in LiveContexts(tokens, subjects)
    BY <1>4 DEF TokenAdmitted, LiveContexts
  <2> QED BY <2>1, <1>1 DEF SinceIsCurrent
<1>7. CASE TokenAdmitted(tokens, t)
  <2>1. Read(r, Found(TokenContext(t)))
    BY <1>7 DEF ReadToken
  <2> QED BY <2>1, <1>1, <1>5, <1>6, <1>7, ReadKeeps
<1>8. CASE ~TokenAdmitted(tokens, t)
  <2>1. Read(r, Found(NoContext))
    BY <1>8 DEF ReadToken
  <2> QED BY <2>1, <1>1, <1>5, ReadKeeps
<1> QED BY <1>7, <1>8

LEMMA ReadSubjectKeeps ==
  ASSUME IInv, NEW r \in Req, ReadSubject(r)
  PROVE  IInv'
<1> DEFINE s == request[r].bearer
           x == SubjectContext(s, subjects[s].kind, request[r].machine)
<1>1. stage[r] = "bearer" /\ TypeOK /\ RequestShape(r) /\ SinceIsCurrent /\ r \in Borrower /\ PoolInv
  BY PoolsApart DEF ReadSubject, IInv
<1>2. Ask(r) \/ Unserved(r)
  BY DEF ReadSubject, Read
<1>3. at[r] # "out"
  BY <1>1, <1>2, AnswerKeepsPool
<1>4. s \in Subject /\ request[r].machine \in BOOLEAN
  BY <1>1, <1>3 DEF RequestShape, Asking, TypeOK, Request
<1>5. x \in Contexts /\ NoContext \in Contexts
      /\ x.sub = s /\ x.label = Nobody /\ x.door \in {"funnel", "service"}
  BY <1>4 DEF SubjectContext, Context, Contexts, NoContext
<1>6. SubjectAdmitted(subjects, s) => x \in since[r]
  <2>1. SubjectAdmitted(subjects, s) => x \in LiveContexts(tokens, subjects)
    BY <1>4 DEF SubjectAdmitted, LiveContexts
  <2> QED BY <2>1, <1>1 DEF SinceIsCurrent
<1>7. CASE SubjectAdmitted(subjects, s)
  <2>1. Read(r, Found(x))
    BY <1>7 DEF ReadSubject
  <2> HIDE DEF x
  <2> QED BY <2>1, <1>1, <1>5, <1>6, <1>7, ReadKeeps
<1>8. CASE ~SubjectAdmitted(subjects, s)
  <2>1. Read(r, Found(NoContext))
    BY <1>8 DEF ReadSubject
  <2> QED BY <2>1, <1>1, <1>5, ReadKeeps
<1> QED BY <1>7, <1>8

LEMMA DecideKeyKeeps ==
  ASSUME IInv, NEW r \in Req, DecideKey(r)
  PROVE  IInv'
<1>1. /\ stage[r] = "key" /\ verdict[r] # Unread /\ IdlePool /\ Unchanged(r)
      /\ TypeOK /\ RequestShape(r) /\ LookupIsTrue(r) /\ at[r] = "out"
  BY DEF DecideKey, IInv, RequestShape
<1>2. verdict' \in [Req -> Verdicts] /\ verdict'[r] = Unread /\ \A s \in Req \ {r} : verdict'[s] = verdict[s]
  <2>1. Unread \in Verdicts
    BY DEF Unread, Verdicts, Contexts, NoContext, Context
  <2> QED BY <2>1, <1>1 DEF DecideKey, TypeOK
<1>3. CASE verdict[r].context # NoContext /\ Admit(r, verdict[r].context)
  <2>1. PICK x \in Contexts : x = verdict[r].context
    BY <1>1 DEF TypeOK, Verdicts
  <2>2. KeyOf(settings, request[r]) \in Token
    BY <1>1 DEF RequestShape, Asking
  <2>3. request[r].key \in Token /\ (settings.marker => request[r].tailnet)
    BY <2>2, CredentialAssumption DEF KeyOf
  <2>4. x \in since[r] /\ x = TokenContext(request[r].key)
    BY <1>1, <1>3, <2>1 DEF LookupIsTrue
  <2>5. SoundContext(x) /\ x.label = request[r].key
    BY <2>3, <2>4, CredentialAssumption DEF SoundContext, TokenContext, Context
  <2> QED BY <2>1, <2>3, <2>4, <2>5, <1>1, <1>2, <1>3, AdmitKeeps
<1>4. CASE stage' = [stage EXCEPT ![r] = "bearer"] /\ UNCHANGED <<at, tries, context, reply, auditVars>>
  BY <1>1, <1>2, <1>4, PassOnKeeps
<1> QED BY <1>3, <1>4 DEF DecideKey

LEMMA VerifyBearerKeeps ==
  ASSUME IInv, NEW r \in Req, VerifyBearer(r)
  PROVE  IInv'
<1>1. /\ stage[r] = "bearer" /\ at[r] = "out" /\ verdict[r] = Unread /\ IdlePool /\ Unchanged(r) /\ verdict' = verdict
      /\ verdict' \in [Req -> Verdicts]
  BY DEF VerifyBearer, IInv, TypeOK
<1>2. CASE request[r].bearer \in Subject /\ Borrowing(r) /\ UNCHANGED <<stage, context, reply, auditVars>>
  BY <1>1, <1>2, AskingKeeps
<1>3. CASE Refuse(r, Reason(KeyTried(r), BearerTried(r), FALSE, FALSE), Nobody)
  <2>1. PICK reason \in Reasons : reason = Reason(KeyTried(r), BearerTried(r), FALSE, FALSE) /\ reason # "subject_not_allowed"
    BY DEF Reason, Reasons
  <2> QED BY <2>1, <1>1, <1>3, RefuseKeeps
<1> QED BY <1>2, <1>3 DEF VerifyBearer

LEMMA DecideBearerKeeps ==
  ASSUME IInv, NEW r \in Req, DecideBearer(r)
  PROVE  IInv'
<1>1. /\ stage[r] = "bearer" /\ verdict[r] # Unread /\ IdlePool /\ Unchanged(r)
      /\ TypeOK /\ RequestShape(r) /\ LookupIsTrue(r) /\ at[r] = "out"
  BY DEF DecideBearer, IInv, RequestShape
<1>2. verdict' \in [Req -> Verdicts] /\ verdict'[r] = Unread /\ \A s \in Req \ {r} : verdict'[s] = verdict[s]
  <2>1. Unread \in Verdicts
    BY DEF Unread, Verdicts, Contexts, NoContext, Context
  <2> QED BY <2>1, <1>1 DEF DecideBearer, TypeOK
<1>3. request[r].bearer \in Subject /\ request[r].bearer # Nobody
  BY <1>1, CredentialAssumption DEF RequestShape, Asking
<1>4. CASE Refuse(r, Reason(KeyTried(r), TRUE, FALSE, TRUE), Nobody)
  <2>1. Reason(KeyTried(r), TRUE, FALSE, TRUE) \in Reasons \ {"subject_not_allowed"}
    BY DEF Reason, Reasons
  <2> QED BY <2>1, <1>1, <1>2, <1>4, RefuseKeeps
<1>5. CASE Refuse(r, Reason(KeyTried(r), TRUE, TRUE, FALSE), request[r].bearer)
  <2>1. Reason(KeyTried(r), TRUE, TRUE, FALSE) = "subject_not_allowed" /\ "subject_not_allowed" \in Reasons
    BY DEF Reason, Reasons
  <2> QED BY <2>1, <1>1, <1>2, <1>3, <1>5, RefuseKeeps
<1>6. CASE verdict[r].context # NoContext /\ Admit(r, verdict[r].context)
  <2>1. PICK x \in Contexts : x = verdict[r].context
    BY <1>1 DEF TypeOK, Verdicts
  <2>2. x \in since[r] /\ x.sub = request[r].bearer /\ x.label = Nobody /\ x.door \in {"funnel", "service"}
    BY <1>1, <1>6, <2>1 DEF LookupIsTrue
  <2>3. SoundContext(x) /\ x.door # "tailnet"
    BY <2>2, <1>3 DEF SoundContext
  <2> QED BY <2>1, <2>2, <2>3, <1>1, <1>2, <1>6, AdmitKeeps
<1> QED BY <1>4, <1>5, <1>6 DEF DecideBearer

LEMMA UnauthorizedKeeps ==
  ASSUME IInv, NEW r \in Req, Unauthorized(r)
  PROVE  IInv'
<1>1. /\ stage[r] = "denied" /\ IdlePool /\ Unchanged(r) /\ UNCHANGED <<at, tries, context, verdict, auditVars>>
      /\ PoolInv /\ TypeOK /\ RequestShape(r) /\ settings' = settings /\ request' = request
  BY DEF Unauthorized, IInv, Unchanged
<1>2. /\ stage' \in [Req -> Stages] /\ reply' \in [Req -> Replies] /\ verdict' \in [Req -> Verdicts]
      /\ stage'[r] = "answered" /\ reply'[r] = "unauthorized"
      /\ \A s \in Req \ {r} : stage'[s] = stage[s] /\ reply'[s] = reply[s] /\ verdict'[s] = verdict[s]
  BY <1>1 DEF Unauthorized, Reply, TypeOK, Stages, Replies
<1>3. PoolInv' /\ OthersGoOn(r)
  BY <1>1, StillPool DEF IdlePool, PoolInv, PoolTypeOK, OthersGoOn
<1>4. RequestShape(r)' /\ LookupIsTrue(r)'
  BY <1>1, <1>2 DEF RequestShape, Asking, LookupIsTrue, Unread
<1>5. Decided(r)' = Decided(r) /\ stage[r] \notin {"new", "answered"}
  BY <1>1, <1>2 DEF Decided, RequestShape
<1> QED BY <1>1, <1>2, <1>3, <1>4, <1>5, QuietMoves

LEMMA HandleKeeps ==
  ASSUME IInv, NEW r \in Req, Handle(r)
  PROVE  IInv'
<1>1. /\ stage[r] = "admitted" /\ IdlePool /\ Unchanged(r) /\ UNCHANGED <<context, verdict, auditVars>>
      /\ PoolInv /\ TypeOK /\ RequestShape(r) /\ settings' = settings /\ request' = request
      /\ at[r] = "out" /\ verdict[r] = Unread /\ verdict' \in [Req -> Verdicts] /\ r \in Borrower
  BY PoolsApart DEF Handle, IInv, Unchanged, RequestShape, TypeOK
<1>2. CASE Reply(r, "refused") /\ UNCHANGED <<at, tries>>
  <2>1. /\ stage' \in [Req -> Stages] /\ reply' \in [Req -> Replies]
        /\ stage'[r] = "answered" /\ reply'[r] = "refused"
        /\ \A s \in Req \ {r} : stage'[s] = stage[s] /\ reply'[s] = reply[s]
    BY <1>1, <1>2 DEF Reply, TypeOK, Stages, Replies
  <2>2. PoolInv' /\ OthersGoOn(r)
    BY <1>1, <1>2, StillPool DEF IdlePool, PoolInv, PoolTypeOK, OthersGoOn
  <2>3. RequestShape(r)' /\ LookupIsTrue(r)'
    BY <1>1, <1>2, <2>1 DEF RequestShape, Asking, LookupIsTrue, Unread, SoundContext
  <2>4. Decided(r)' = Decided(r) /\ stage[r] \notin {"new", "answered"}
    BY <1>1, <2>1 DEF Decided, RequestShape
  <2> QED BY <1>1, <2>1, <2>2, <2>3, <2>4, QuietMoves
<1>3. CASE SoundContext(context[r]) /\ stage' = [stage EXCEPT ![r] = "service"] /\ Borrowing(r) /\ reply' = reply
  <2>1. /\ stage' \in [Req -> Stages] /\ reply' \in [Req -> Replies]
        /\ stage'[r] = "service" /\ \A s \in Req \ {r} : stage'[s] = stage[s] /\ reply'[s] = reply[s]
    BY <1>1, <1>3 DEF TypeOK, Stages
  <2>2. PoolInv' /\ OthersGoOn(r)
    BY <1>1, <1>3, BorrowKeepsPool
  <2>3. RequestShape(r)' /\ LookupIsTrue(r)'
    BY <1>1, <1>3, <2>1 DEF RequestShape, Asking, LookupIsTrue, Unread, SoundContext
  <2>4. Decided(r)' = Decided(r) /\ stage[r] \notin {"new", "answered"}
    BY <1>1, <2>1 DEF Decided
  <2> QED BY <1>1, <2>1, <2>2, <2>3, <2>4, QuietMoves
<1> QED BY <1>2, <1>3 DEF Handle

LEMMA ServeKeeps ==
  ASSUME IInv, NEW r \in Req, Serve(r)
  PROVE  IInv'
<1>1. /\ stage[r] \in {"service", "ready"} /\ Unchanged(r) /\ UNCHANGED <<context, verdict, auditVars>>
      /\ PoolInv /\ TypeOK /\ RequestShape(r) /\ settings' = settings /\ request' = request
      /\ verdict[r] = Unread /\ verdict' \in [Req -> Verdicts] /\ r \in Borrower
  BY PoolsApart DEF Serve, IInv, Unchanged, RequestShape, TypeOK
<1>2. Ask(r) \/ Unserved(r)
  BY DEF Serve
<1>3. PoolInv' /\ OthersGoOn(r) /\ at'[r] = "out"
  BY <1>1, <1>2, AnswerKeepsPool
<1>4. PICK a \in {"ok", "unavailable", "error"} : Reply(r, a) /\ (a = "unavailable" <=> a # "ok" /\ stage[r] = "ready")
  BY <1>1 DEF Serve
<1>5. /\ stage' \in [Req -> Stages] /\ reply' \in [Req -> Replies]
      /\ stage'[r] = "answered" /\ reply'[r] = a
      /\ \A s \in Req \ {r} : stage'[s] = stage[s] /\ reply'[s] = reply[s]
  BY <1>1, <1>4 DEF Reply, TypeOK, Stages, Replies
<1>6. request[r].path = (IF stage[r] = "ready" THEN "ready" ELSE "mcp") /\ (stage[r] = "service" => context[r] # NoContext)
  BY <1>1 DEF RequestShape
<1>7. RequestShape(r)' /\ LookupIsTrue(r)'
  BY <1>1, <1>3, <1>5, <1>6 DEF RequestShape, Asking, LookupIsTrue, Unread, SoundContext
<1>8. Decided(r)' = Decided(r) /\ stage[r] \notin {"new", "answered"}
  BY <1>1, <1>5, <1>6 DEF Decided
<1> QED BY <1>1, <1>3, <1>5, <1>7, <1>8, QuietMoves

LEMMA RequestStepKeeps ==
  ASSUME IInv, NEW r \in Req, RequestStep(r)
  PROVE  IInv'
BY GetKeeps, CheckKeyKeeps, ReadTokenKeeps, DecideKeyKeeps, VerifyBearerKeeps, ReadSubjectKeeps, DecideBearerKeeps,
   UnauthorizedKeeps, HandleKeeps, ServeKeeps DEF RequestStep

LEMMA ArriveKeeps ==
  ASSUME IInv, NEW r \in Req, Arrive(r)
  PROVE  IInv'
<1>1. /\ phase = "serving" /\ phase' = phase /\ stage[r] = "new" /\ request[r] \in Request
      /\ UNCHANGED <<settings, request, tokens, subjects, changes, failures, context, reply, verdict>>
      /\ UNCHANGED auditVars /\ IdlePool
      /\ PoolInv /\ TypeOK /\ RequestShape(r) /\ AuditShape(r) /\ r \in Borrower
  BY PoolsApart DEF Arrive, tables, IInv, TypeOK, IdlePool
<1>2. UNCHANGED <<pending, event, inFlight, dropped, lost>>
  BY <1>1 DEF auditVars
<1>3. /\ at[r] = "out" /\ verdict[r] = Unread /\ context[r] = NoContext /\ reply[r] = "none"
      /\ ~Decided(r) /\ pending[r] = NoEvent /\ event[r] = NoEvent /\ at[TaskOf[r]] = "out"
  BY <1>1 DEF RequestShape, Decided, AuditShape, Tells
<1>4. /\ stage' \in [Req -> Stages] /\ \A s \in Req \ {r} : stage'[s] = stage[s]
      /\ stage'[r] = (IF request[r].path = "ready" THEN "ready" ELSE "key")
  BY <1>1 DEF Arrive, TypeOK, Stages
<1>5. /\ since' \in [Req -> SUBSET Contexts] /\ since'[r] = LiveContexts(tokens, subjects)
      /\ \A s \in Req \ {r} : since'[s] = since[s]
  BY <1>1, LiveContextsType DEF Arrive, TypeOK
<1>6. PoolInv' /\ OthersGoOn(r)
  <2>1. CASE request[r].path = "ready"
    <3>1. Borrowing(r)
      BY <2>1 DEF Arrive
    <3> QED BY <3>1, <1>1, <1>3, BorrowKeepsPool
  <2>2. CASE request[r].path # "ready"
    <3>1. UNCHANGED <<at, tries>>
      BY <2>2 DEF Arrive
    <3> QED BY <3>1, <1>1, StillPool DEF IdlePool, PoolInv, PoolTypeOK, OthersGoOn
  <2> QED BY <2>1, <2>2
<1>7. request[r].path # "ready" => at'[r] = "out" /\ request[r].path = "mcp"
  BY <1>1, <1>3 DEF Arrive, Request
<1>8. TypeOK'
  BY <1>1, <1>2, <1>4, <1>5 DEF TypeOK
<1>9. SinceIsCurrent'
  <2>1. LiveContexts(tokens, subjects)' = LiveContexts(tokens, subjects)
    BY <1>1 DEF LiveContexts, TokenContext, SubjectContext, Context
  <2> QED BY <2>1, <1>4, <1>5 DEF IInv, SinceIsCurrent
<1>10. \A s \in Req : Decided(s)' = Decided(s)
  <2>1. Decided(r)' = Decided(r)
    BY <1>1, <1>4 DEF Decided, Request
  <2>2. \A s \in Req \ {r} : Decided(s)' = Decided(s)
    BY <1>1, <1>4 DEF Decided
  <2> QED BY <2>1, <2>2
<1>11. Counts'
  <2>1. Counts /\ settings' = settings /\ UNCHANGED auditVars
    BY <1>1 DEF IInv
  <2> QED BY <2>1, <1>10, SameCounts
<1>12. PhaseFits'
  BY <1>1 DEF PhaseFits
<1>13. Shapes(r)'
  <2>1. RequestShape(r)'
    BY <1>1, <1>3, <1>4, <1>7 DEF RequestShape, Asking
  <2>2. LookupIsTrue(r)' /\ AdmissionIsEarned(r)'
    BY <1>1, <1>3 DEF LookupIsTrue, Unread, AdmissionIsEarned
  <2>3. at'[TaskOf[r]] = "out" <=> at[TaskOf[r]] = "out"
    BY <1>6, PoolsApart DEF OthersGoOn
  <2>4. AuditShape(r)'
    BY <1>2, <1>3, <2>3 DEF AuditShape
  <2> QED BY <2>1, <2>2, <2>4 DEF Shapes
<1>14. \A s \in Req \ {r} : Undisturbed(s)
  BY <1>1, <1>2, <1>4, <1>5, <1>6, OthersUndisturbed
<1>15. \A s \in Req \ {r} : Shapes(s)'
  BY <1>14, UndisturbedKeepsShapes DEF IInv, Shapes
<1> QED BY <1>6, <1>8, <1>9, <1>11, <1>12, <1>13, <1>15 DEF IInv, Shapes

-----------------------------------------------------------------------------
(* The audit tasks, the worker, and the world around. *)

LEMMA AuditStepKeeps ==
  ASSUME IInv, NEW r \in Req, AuditStep(r)
  PROVE  IInv'
<1> DEFINE p == TaskOf[r]
<1>1. /\ UNCHANGED <<settings, request, phase, tokens, subjects, changes, failures, stage, context, reply, verdict, since>>
      /\ PoolInv /\ TypeOK /\ AuditShape(r) /\ p \in Borrower /\ AsksFor(p) = Audit /\ r # p
  BY PoolsApart DEF AuditStep, tables, requestVars, IInv
<1>2. \A s \in Req : Decided(s)' = Decided(s) /\ Decision(s)' = Decision(s)
  BY <1>1 DEF Decided, Decision
<1>3. LiveContexts(tokens, subjects)' = LiveContexts(tokens, subjects)
  BY <1>1 DEF LiveContexts, TokenContext, SubjectContext, Context
<1>4. SinceIsCurrent'
  BY <1>1, <1>3 DEF IInv, SinceIsCurrent
<1>5. PhaseFits'
  <2>1. phase \notin {"boot", "exited"}
    BY DEF AuditStep, Running
  <2> QED BY <2>1, <1>1 DEF IInv, PhaseFits, Drained
<1>6. ASSUME OthersGoOn(p), AuditShape(r)',
             \A s \in Req \ {r} : pending'[s] = pending[s] /\ event'[s] = event[s]
      PROVE  \A s \in Req : Shapes(s)'
  <2>1. \A s \in Req \ {r} : Undisturbed(s)
    BY <1>1, <1>6, OthersUndisturbed
  <2>2. \A s \in Req \ {r} : Shapes(s)'
    BY <2>1, UndisturbedKeepsShapes DEF IInv, Shapes
  <2>3. RequestShape(r)'
    <3>1. at'[r] = "out" <=> at[r] = "out"
      BY <1>1, <1>6, PoolsApart DEF OthersGoOn
    <3> QED BY <3>1, <1>1 DEF IInv, RequestShape, Asking, KeyOf, SoundContext
  <2>4. LookupIsTrue(r)' /\ AdmissionIsEarned(r)'
    BY <1>1 DEF IInv, LookupIsTrue, AdmissionIsEarned, TokenContext, StaticContext, Context
  <2> QED BY <2>2, <2>3, <2>4, <1>6 DEF Shapes
<1>7. CASE Getting(p, Audit) /\ UNCHANGED auditVars
  <2>1. PoolInv' /\ OthersGoOn(p) /\ at[p] # "out" /\ at'[p] # "out"
    BY <1>1, <1>7, GettingKeepsPool
  <2>2. UNCHANGED <<pending, event, inFlight, dropped, lost>>
    BY <1>7 DEF auditVars
  <2>3. AuditShape(r)'
    BY <1>1, <1>2, <2>1, <2>2 DEF AuditShape, Tells
  <2>4. Counts'
    <3>1. Counts /\ settings' = settings
      BY <1>1 DEF IInv
    <3> QED BY <3>1, <1>2, <1>7, SameCounts
  <2>5. TypeOK'
    BY <1>1, <2>2 DEF TypeOK
  <2> QED BY <1>4, <1>5, <1>6, <2>1, <2>2, <2>3, <2>4, <2>5 DEF IInv, Shapes
<1>8. CASE /\ Ask(p) \/ Unserved(p)
           /\ inFlight' = inFlight - 1 /\ pending' = [pending EXCEPT ![r] = NoEvent] /\ dropped' = dropped
           /\ \/ Written(r) /\ lost' \in {lost, lost + 1}
              \/ event' = event /\ lost' = lost + 1
  <2>1. PoolInv' /\ OthersGoOn(p) /\ at[p] # "out" /\ at'[p] = "out"
    BY <1>1, <1>8, AnswerKeepsPool
  <2>2. pending[r] # NoEvent /\ event[r] = NoEvent /\ Tells(pending[r], r)
    BY <1>1, <2>1 DEF AuditShape
  <2>3. Counts' /\ inFlight' \in Nat /\ lost' \in Nat
    BY <1>1, <1>2, <1>8, <2>2, WrittenKeepsCounts DEF Written
  <2>4. NoEvent \in Events
    BY DEF NoEvent, Events
  <2>5. pending' \in [Req -> Events] /\ pending'[r] = NoEvent /\ \A s \in Req \ {r} : pending'[s] = pending[s]
    BY <1>1, <1>8, <2>4 DEF TypeOK
  <2>6. /\ event' \in [Req -> Events] /\ event'[r] \in {NoEvent, pending[r]}
        /\ \A s \in Req \ {r} : event'[s] = event[s]
    BY <1>1, <1>8, <2>2 DEF TypeOK, Written
  <2>7. AuditShape(r)'
    BY <1>1, <1>2, <2>1, <2>2, <2>5, <2>6 DEF AuditShape, Tells
  <2>8. TypeOK'
    BY <1>1, <1>8, <2>3, <2>5, <2>6 DEF TypeOK
  <2> QED BY <1>4, <1>5, <1>6, <2>1, <2>3, <2>5, <2>6, <2>7, <2>8 DEF IInv, Shapes
<1> QED BY <1>7, <1>8 DEF AuditStep, LeaveQueue

\* A step that moves no request, no audit task and no credential.
LEMMA NobodyMoves ==
  ASSUME IInv, UNCHANGED <<settings, request, tables, requestVars, auditVars>>, phase' \in Phases,
         failures' \in Nat, PoolInv', PhaseFits',
         \A r \in Req : /\ at'[r] = "out" <=> at[r] = "out"
                        /\ at'[TaskOf[r]] = "out" <=> at[TaskOf[r]] = "out"
  PROVE  IInv'
<1>1. /\ UNCHANGED <<settings, request, tokens, subjects, changes, stage, context, reply, verdict, since,
                     pending, event, inFlight, dropped, lost>>
      /\ UNCHANGED auditVars /\ TypeOK /\ Counts
  BY DEF tables, requestVars, auditVars, IInv
<1>2. TypeOK'
  BY <1>1 DEF TypeOK
<1>3. LiveContexts(tokens, subjects)' = LiveContexts(tokens, subjects)
  BY <1>1 DEF LiveContexts, TokenContext, SubjectContext, Context
<1>4. SinceIsCurrent'
  BY <1>1, <1>3 DEF IInv, SinceIsCurrent
<1>5. \A s \in Req : Decided(s)' = Decided(s)
  BY <1>1 DEF Decided
<1>6. Counts'
  BY <1>1, <1>5, SameCounts
<1>7. \A s \in Req : Undisturbed(s)
  BY <1>1 DEF Undisturbed
<1>8. \A s \in Req : Shapes(s)'
  BY <1>7, UndisturbedKeepsShapes DEF IInv, Shapes
<1> QED BY <1>2, <1>4, <1>6, <1>8 DEF IInv, Shapes

LEMMA PhasesKeep ==
  ASSUME IInv, Boot \/ Signal \/ StopWorker \/ Exit
  PROVE  IInv'
<1>1. /\ UNCHANGED <<settings, request, tables, requestVars, auditVars, failures>> /\ TypeOK /\ PhaseFits /\ PoolInv
      /\ UNCHANGED <<idle, queue, at, hand, up, tries, stage>>
  BY DEF Boot, Signal, StopWorker, Exit, poolVars, requestVars, IInv
<1>2. conn' \in [Client -> Conns]
  <2>1. Fresh \in Conns /\ conn \in [Client -> Conns]
    BY <1>1 DEF Fresh, Conns, PoolInv, PoolTypeOK
  <2>2. conn' = conn \/ conn' = [k \in Client |-> IF PoolOf[k] = Main THEN Fresh ELSE conn[k]]
    BY DEF Boot, Signal, StopWorker, Exit, poolVars
  <2> QED BY <2>1, <2>2
<1>3. PoolInv'
  BY <1>1, <1>2, StillPool DEF PoolInv, PoolTypeOK
<1>4. PhaseFits' /\ phase' \in Phases
  BY <1>1 DEF PhaseFits, Drained, Phases, Boot, Signal, StopWorker, Exit
<1> QED BY <1>1, <1>3, <1>4, NobodyMoves DEF TypeOK

LEMMA WorkerKeeps ==
  ASSUME IInv, StartCycle \/ Cycle
  PROVE  IInv'
<1>1. /\ UNCHANGED <<settings, request, phase, tables, requestVars, auditVars, failures>>
      /\ TypeOK /\ PhaseFits /\ PoolInv /\ Worker \in Borrower /\ AsksFor(Worker) = Main /\ UNCHANGED stage
  BY ServerAssumption DEF StartCycle, Cycle, requestVars, IInv, AsksFor
<1>2. PoolInv' /\ OthersGoOn(Worker)
  <2>1. CASE StartCycle
    BY <2>1, <1>1, BorrowKeepsPool DEF StartCycle, IdlePool
  <2>2. CASE Cycle
    BY <2>2, <1>1, GettingKeepsPool, AnswerKeepsPool DEF Cycle
  <2> QED BY <2>1, <2>2
<1>3. PhaseFits'
  <2>1. phase \notin {"boot", "exited"}
    BY DEF StartCycle, Cycle, Running
  <2> QED BY <2>1, <1>1 DEF PhaseFits, Drained
<1>4. \A r \in Req : /\ at'[r] = "out" <=> at[r] = "out"
                     /\ at'[TaskOf[r]] = "out" <=> at[TaskOf[r]] = "out"
  BY <1>2, PoolsApart DEF OthersGoOn
<1> QED BY <1>1, <1>2, <1>3, <1>4, NobodyMoves DEF TypeOK

LEMMA OutageKeeps ==
  ASSUME IInv, Outage
  PROVE  IInv'
<1>1. /\ UNCHANGED <<settings, request, phase, tables, requestVars, auditVars>> /\ TypeOK /\ PhaseFits /\ PoolInv
      /\ UNCHANGED <<idle, queue, at, hand, tries, stage>> /\ failures' \in Nat
  BY DEF Outage, DatabaseFails, DatabaseReturns, requestVars, IInv, TypeOK
<1>2. conn' \in [Client -> Conns] /\ up' \in BOOLEAN
  <2>1. \A c \in Conns : [c EXCEPT !.live = FALSE] \in Conns
    BY DEF Conns
  <2>2. conn \in [Client -> Conns]
    BY <1>1 DEF PoolInv, PoolTypeOK
  <2>3. conn' = conn \/ conn' = [k \in Client |-> [conn[k] EXCEPT !.live = FALSE]]
    BY DEF Outage, DatabaseFails, DatabaseReturns
  <2> QED BY <2>1, <2>2, <2>3 DEF Outage, DatabaseFails, DatabaseReturns
<1>3. PoolInv'
  BY <1>1, <1>2, StillPool DEF PoolInv, PoolTypeOK
<1>4. PhaseFits'
  BY <1>1 DEF PhaseFits, Drained
<1> QED BY <1>1, <1>3, <1>4, NobodyMoves DEF TypeOK

\* Whatever the operator does to the tables, it is on record for whoever is there.
LEMMA ChangeKeeps ==
  ASSUME IInv, NEW t \in TokenTable, NEW u \in SubjectTable, Change(t, u)
  PROVE  IInv'
<1>1. /\ UNCHANGED poolVars /\ UNCHANGED auditVars /\ changes' = changes + 1
      /\ UNCHANGED <<settings, request, phase, stage, context, reply, verdict, failures>>
      /\ tokens' = t /\ subjects' = u
      /\ since' = [r \in Req |-> IF stage[r] = "new" THEN {} ELSE since[r] \cup LiveContexts(t, u)]
      /\ TypeOK /\ PoolInv /\ PhaseFits /\ Counts
  BY DEF Change, IInv
<1>2. UNCHANGED <<up, conn, idle, queue, at, hand, tries, pending, event, inFlight, dropped, lost>>
  BY <1>1 DEF poolVars, auditVars
<1>3. PoolInv'
  BY <1>1, <1>2, StillPool DEF PoolInv, PoolTypeOK
<1>4. since' \in [Req -> SUBSET Contexts]
  <2>1. LiveContexts(t, u) \subseteq Contexts
    BY LiveContextsType
  <2> QED BY <2>1, <1>1 DEF TypeOK
<1>5. TypeOK'
  BY <1>1, <1>2, <1>4 DEF TypeOK
<1>6. SinceIsCurrent'
  <2>1. LiveContexts(tokens, subjects)' = LiveContexts(t, u)
    BY <1>1 DEF LiveContexts, TokenContext, SubjectContext, Context
  <2> QED BY <2>1, <1>1 DEF SinceIsCurrent
<1>7. \A s \in Req : Decided(s)' = Decided(s)
  BY <1>1 DEF Decided
<1>8. Counts'
  BY <1>1, <1>7, SameCounts
<1>9. PhaseFits'
  BY <1>1, <1>2 DEF PhaseFits, Drained
<1>10. \A s \in Req : Undisturbed(s)
  BY <1>1, <1>2 DEF Undisturbed
<1>11. \A s \in Req : Shapes(s)'
  BY <1>10, UndisturbedKeepsShapes DEF IInv, Shapes
<1> QED BY <1>3, <1>5, <1>6, <1>8, <1>9, <1>11 DEF IInv, Shapes

LEMMA AdminKeeps ==
  ASSUME IInv, TokenAdmin \/ SubjectAdmin
  PROVE  IInv'
<1>1. tokens \in TokenTable /\ subjects \in SubjectTable
  BY DEF IInv, TypeOK
<1>2. \A k \in Token : CreateToken(tokens, k) \in TokenTable /\ RevokeToken(tokens, k) \in TokenTable
  BY <1>1 DEF TokenTable, CreateToken, RevokeToken, States
<1>3. \A s \in Subject, kind \in Kinds : AllowSubject(subjects, s, kind) \in SubjectTable
  <2>1. \A kind \in Kinds : [state |-> "active", kind |-> kind] \in [state : States, kind : Kinds]
    BY DEF States
  <2> QED BY <2>1, <1>1 DEF SubjectTable, AllowSubject
<1>4. \A s \in Subject : RevokeSubject(subjects, s) \in SubjectTable
  <2> TAKE s \in Subject
  <2> DEFINE row == [subjects[s] EXCEPT !.state = IF @ = "active" THEN "revoked" ELSE @]
  <2>1. row \in [state : States, kind : Kinds]
    BY <1>1 DEF SubjectTable, States
  <2>2. RevokeSubject(subjects, s) = [subjects EXCEPT ![s] = row]
    BY DEF RevokeSubject
  <2> HIDE DEF row
  <2> QED BY <2>1, <2>2, <1>1 DEF SubjectTable
<1>5. \A services \in SUBSET Subject : ImportSubjects(subjects, Subject, services) \in SubjectTable
  <2>1. \A services \in SUBSET Subject, s \in Subject :
          [state |-> "active", kind |-> IF s \in services THEN "service" ELSE "user"] \in [state : States, kind : Kinds]
    BY DEF States, Kinds
  <2> QED BY <2>1, <1>1 DEF SubjectTable, ImportSubjects
<1>6. ASSUME TokenAdmin PROVE IInv'
  BY <1>1, <1>2, <1>6, ChangeKeeps DEF TokenAdmin
<1>7. ASSUME SubjectAdmin PROVE IInv'
  BY <1>1, <1>3, <1>4, <1>5, <1>7, ChangeKeeps DEF SubjectAdmin
<1> QED BY <1>6, <1>7

-----------------------------------------------------------------------------
(* The theorems. *)

LEMMA InitIInv ==
  ASSUME Init
  PROVE  IInv
<1>1. PICK s \in Scenarios : settings = s.settings /\ request = s.request /\ tokens = s.tokens /\ subjects = s.subjects
  BY DEF Init
<1>2. settings \in Settings /\ request \in [Req -> Request] /\ tokens \in TokenTable /\ subjects \in SubjectTable
  BY <1>1, ServerAssumption
<1>3. /\ phase = "boot" /\ inFlight = 0 /\ dropped = 0 /\ lost = 0 /\ changes = 0 /\ failures = 0
      /\ stage = [r \in Req |-> "new"] /\ context = [r \in Req |-> NoContext] /\ reply = [r \in Req |-> "none"]
      /\ pending = [r \in Req |-> NoEvent] /\ event = [r \in Req |-> NoEvent] /\ verdict = [r \in Req |-> Unread]
      /\ since = [r \in Req |-> {}] /\ at = [p \in Borrower |-> "out"]
  BY DEF Init, InitPool
<1>4. TypeOK
  <2>1. NoContext \in Contexts /\ NoEvent \in Events
    BY DEF NoContext, Context, Contexts, NoEvent, Events
  <2>2. Unread \in Verdicts
    BY <2>1 DEF Unread, Verdicts
  <2> QED BY <2>1, <2>2, <1>2, <1>3 DEF TypeOK, Phases, Stages, Replies
<1>5. PoolInv /\ SinceIsCurrent
  BY <1>3, InitPoolInv DEF Init, SinceIsCurrent
<1>6. \A r \in Req : ~Decided(r)
  BY <1>3 DEF Decided
<1>7. Counts
  <2>1. Pending = {} /\ DecidedReqs = {}
    BY <1>3, <1>6 DEF Pending, DecidedReqs
  <2>2. Cardinality(Pending) = 0 /\ Cardinality(DecidedReqs) = 0 /\ Cardinality(Recorded) \in Nat
    BY <2>1, FS_EmptySet, SetsAreFinite
  <2> QED BY <2>2, <1>3, ServerAssumption DEF Counts
<1>8. PhaseFits
  BY <1>3, PoolsApart, ServerAssumption DEF PhaseFits
<1>9. \A r \in Req : RequestShape(r) /\ LookupIsTrue(r) /\ AdmissionIsEarned(r) /\ AuditShape(r)
  <2> TAKE r \in Req
  <2>1. at[r] = "out" /\ at[TaskOf[r]] = "out"
    BY <1>3, PoolsApart
  <2> QED BY <2>1, <1>3 DEF RequestShape, Asking, LookupIsTrue, Unread, AdmissionIsEarned, AuditShape
<1> QED BY <1>4, <1>5, <1>7, <1>8, <1>9 DEF IInv

LEMMA NextKeeps ==
  ASSUME IInv, [Next]_vars
  PROVE  IInv'
<1>1. CASE UNCHANGED vars
  <2>1. /\ UNCHANGED <<settings, request, phase, tables, requestVars, auditVars, failures>> /\ UNCHANGED poolVars
        /\ TypeOK /\ PhaseFits /\ PoolInv
    BY <1>1 DEF vars, IInv
  <2>2. UNCHANGED <<up, conn, idle, queue, at, hand, tries, stage>>
    BY <2>1 DEF poolVars, requestVars
  <2>3. PoolInv'
    BY <2>1, <2>2, StillPool DEF PoolInv, PoolTypeOK
  <2>4. PhaseFits'
    BY <2>1, <2>2 DEF PhaseFits, Drained
  <2> QED BY <2>1, <2>2, <2>3, <2>4, NobodyMoves DEF TypeOK
<1>2. CASE Next
  BY <1>2, PhasesKeep, WorkerKeeps, ArriveKeeps, RequestStepKeeps, AuditStepKeeps, AdminKeeps, OutageKeeps DEF Next
<1> QED BY <1>1, <1>2

(* The inductive invariant holds: it joins the pools, the requests, their  *)
(* lookups and their audit, none of which holds without the others.        *)
THEOREM InvariantHolds == Spec => []IInv
<1>1. Init => IInv
  BY InitIInv
<1>2. IInv /\ [Next]_vars => IInv'
  BY NextKeeps
<1> QED BY <1>1, <1>2, PTL DEF Spec

(* Whoever is let in was entitled to it at some moment since the request   *)
(* arrived, as exactly the identity it carries, and by its key's route     *)
(* (createRequireAuth, authenticateAccessToken, lookupOAuthSubject).       *)
THEOREM AdmissionsEarned == Spec => []AdmissionsAreEarned
<1>1. IInv => AdmissionsAreEarned
  BY DEF IInv, AdmissionIsEarned, AdmissionsAreEarned
<1> QED BY <1>1, InvariantHolds, PTL

(* Every audit row tells the decision about its request and names nobody   *)
(* but its verified identity; every decision is written, under way,        *)
(* dropped or lost, none twice, within the cap (enqueue, doInsert).        *)
THEOREM AuditIsTrue == Spec => []AuditTellsTheDecision
<1>1. IInv => AuditTellsTheDecision
  <2> SUFFICES ASSUME IInv PROVE AuditTellsTheDecision
    OBVIOUS
  <2>1. \A r \in Req : event[r] # NoEvent => Tells(event[r], r)
    BY DEF IInv, AuditShape
  <2>2. /\ inFlight = Cardinality(Pending) /\ inFlight <= MaxInFlight
        /\ settings.audit => /\ inFlight + dropped + lost <= Cardinality(DecidedReqs)
                             /\ Cardinality(DecidedReqs) <= inFlight + dropped + lost + Cardinality(Recorded)
    BY DEF IInv, Counts
  <2> QED BY <2>1, <2>2 DEF AuditTellsTheDecision, Tells, Pending, DecidedReqs, Recorded
<1> QED BY <1>1, InvariantHolds, PTL

(* No slot of a pool is lost, whatever the database and the callers do:    *)
(* every connection is in its stack, once, or in the hand of one borrower  *)
(* who is using it and is of its pool; the audit never takes the           *)
(* connections of requests; and whoever waits is queued once, and only     *)
(* while the stack is empty (DeferredAccessStack.pop and push, getClient). *)
SlotsAreKept ==
  /\ NotShared /\ QueuesFit
  /\ \A k \in Client :
       \/ \E i \in 1..Len(idle[PoolOf[k]]) : idle[PoolOf[k]][i] = k
       \/ \E p \in Borrower : hand[p] = k /\ AsksFor(p) = PoolOf[k] /\ at[p] \in InHand

THEOREM ConnectionsAreKept == Spec => []SlotsAreKept
<1>1. IInv => SlotsAreKept
  <2> SUFFICES ASSUME IInv PROVE SlotsAreKept
    OBVIOUS
  <2>1. NotShared /\ QueuesFit /\ NotLost /\ HandsFit
    BY DEF IInv, PoolInv
  <2>2. ASSUME NEW k \in Client, NEW p \in Borrower, hand[p] = k
        PROVE  AsksFor(p) = PoolOf[k] /\ at[p] \in InHand
    BY <2>1, <2>2, PoolAssumption DEF NotLost, HandsFit
  <2>3. \A k \in Client : \/ \E i \in 1..Len(idle[PoolOf[k]]) : idle[PoolOf[k]][i] = k
                          \/ \E p \in Borrower : hand[p] = k
    BY <2>1 DEF NotLost
  <2> QED BY <2>1, <2>2, <2>3 DEF SlotsAreKept
<1> QED BY <1>1, InvariantHolds, PTL

(* A request reaches a service only as somebody sound that the middleware  *)
(* let in, nothing is worked on before the gates, and the process never    *)
(* exits under a request or a cycle of the worker (createRequireAuth,      *)
(* authContextFromValues, shutdown).                                       *)
ServesOnlyTheAdmitted ==
  /\ \A r \in Req : request[r].path = "mcp" /\ (stage[r] = "service" \/ reply[r] \in {"ok", "error"}) =>
       context[r] # NoContext /\ SoundContext(context[r])
  /\ phase = "boot" => \A r \in Req : stage[r] = "new"
  /\ phase = "exited" => Drained /\ at[Worker] = "out" /\ \A r \in Req : at[r] = "out"

THEOREM NobodyIsCutOff == Spec => []ServesOnlyTheAdmitted
<1>1. IInv => ServesOnlyTheAdmitted
  <2> SUFFICES ASSUME IInv PROVE ServesOnlyTheAdmitted
    OBVIOUS
  <2>1. \A r \in Req : RequestShape(r)
    BY DEF IInv
  <2>2. \A r \in Req : request[r].path = "mcp" /\ (stage[r] = "service" \/ reply[r] \in {"ok", "error"}) =>
          context[r] # NoContext /\ SoundContext(context[r])
    BY <2>1 DEF RequestShape
  <2>3. PhaseFits
    BY DEF IInv
  <2>4. Drained => \A r \in Req : at[r] = "out"
    BY <2>1 DEF Drained, RequestShape
  <2> QED BY <2>2, <2>3, <2>4 DEF PhaseFits, ServesOnlyTheAdmitted
<1> QED BY <1>1, InvariantHolds, PTL

(* What was decided stays decided: who a request is, its audit row and its *)
(* answer are set at most once, however its lookups, its audit task and    *)
(* the operator interleave (createRequireAuth, doInsert).                  *)
DecisionStands(r) ==
  /\ context[r] # NoContext => context'[r] = context[r]
  /\ event[r] # NoEvent => event'[r] = event[r]
  /\ reply[r] # "none" => reply'[r] = reply[r]
  /\ Decided(r) => Decided(r)'

LEMMA DecisionsStand ==
  ASSUME IInv, [Next]_vars, NEW r \in Req
  PROVE  DecisionStands(r)
<1>1. TypeOK /\ \A s \in Req : RequestShape(s) /\ AuditShape(s)
  BY DEF IInv
<1>2. CASE UNCHANGED <<stage, context, reply, event, request>>
  BY <1>2 DEF DecisionStands, Decided
<1>3. ASSUME NEW s \in Req, Arrive(s) PROVE DecisionStands(r)
  <2>1. UNCHANGED <<context, reply, event, request>> /\ stage'[r] \in {stage[r], "key", "ready"}
        /\ (stage'[r] = stage[r] \/ stage[r] = "new")
    BY <1>1, <1>3 DEF Arrive, auditVars, TypeOK
  <2> QED BY <2>1 DEF DecisionStands, Decided
<1>4. ASSUME NEW s \in Req, RequestStep(s) PROVE DecisionStands(r)
  <2>1. request' = request
    BY <1>4 DEF RequestStep, Get, CheckKey, ReadToken, DecideKey, VerifyBearer, ReadSubject, DecideBearer, Unauthorized,
                Handle, Serve, Read, Unchanged
  <2>2. event' = event
    BY <1>4 DEF RequestStep, Get, CheckKey, ReadToken, DecideKey, VerifyBearer, ReadSubject, DecideBearer, Unauthorized,
                Handle, Serve, Read, auditVars, Admit, Refuse, Enqueue
  <2>3. CASE UNCHANGED <<stage, context, reply>>
    BY <2>1, <2>2, <2>3 DEF DecisionStands, Decided
  <2>4. CASE /\ stage[s] \in {"key", "bearer"} /\ reply' = reply
             /\ \E x \in {"bearer", "admitted", "denied"} : stage' = [stage EXCEPT ![s] = x]
             /\ context' = context \/ \E x \in {StaticContext, verdict[s].context} : context' = [context EXCEPT ![s] = x]
    <3>1. context[s] = NoContext
      BY <2>4, Unadmitted
    <3> QED BY <3>1, <2>1, <2>2, <2>4, <1>1 DEF DecisionStands, Decided, TypeOK, RequestShape
  <2>5. CASE /\ stage[s] \in {"denied", "admitted", "service", "ready"} /\ context' = context
             /\ \/ stage' = [stage EXCEPT ![s] = "service"] /\ reply' = reply /\ stage[s] = "admitted"
                \/ \E a \in Replies : Reply(s, a)
    <3>1. reply[s] = "none"
      BY <2>5, <1>1 DEF RequestShape
    <3> QED BY <3>1, <2>1, <2>2, <2>5, <1>1 DEF DecisionStands, Decided, TypeOK, RequestShape, Reply
  <2>6. CASE Get(s) \/ ReadToken(s) \/ ReadSubject(s)
    BY <2>6, <2>3 DEF Get, ReadToken, ReadSubject, Read, requestVars
  <2>7. CASE CheckKey(s) \/ DecideKey(s)
    BY <2>7, <2>3, <2>4 DEF CheckKey, DecideKey, Admit
  <2>8. CASE VerifyBearer(s) \/ DecideBearer(s)
    BY <2>8, <2>3, <2>4 DEF VerifyBearer, DecideBearer, Admit, Refuse
  <2>9. CASE Unauthorized(s) \/ Handle(s) \/ Serve(s)
    BY <2>9, <2>5 DEF Unauthorized, Handle, Serve, Replies
  <2> QED BY <1>4, <2>6, <2>7, <2>8, <2>9 DEF RequestStep
<1>5. ASSUME NEW s \in Req, AuditStep(s) PROVE DecisionStands(r)
  <2>1. UNCHANGED <<stage, context, reply, request>>
    BY <1>5 DEF AuditStep, requestVars
  <2>2. event' = event \/ (event' = [event EXCEPT ![s] = pending[s]] /\ at[TaskOf[s]] # "out")
    <3>1. CASE event' = event
      BY <3>1
    <3>2. CASE event' # event
      <4>1. Written(s) /\ (Ask(TaskOf[s]) \/ Unserved(TaskOf[s]))
        BY <1>5, <3>2 DEF AuditStep, auditVars
      <4>2. at[TaskOf[s]] # "out"
        BY <4>1, PoolsApart, AnswerKeepsPool DEF IInv
      <4> QED BY <4>1, <4>2 DEF Written
    <3> QED BY <3>1, <3>2
  <2>3. event' = event \/ (event' = [event EXCEPT ![s] = pending[s]] /\ event[s] = NoEvent)
    BY <2>2, <1>1 DEF AuditShape
  <2> QED BY <2>1, <2>3, <1>1 DEF DecisionStands, Decided, TypeOK
<1>6. CASE Boot \/ Signal \/ StopWorker \/ Exit \/ StartCycle \/ Cycle \/ Outage
  <2>1. UNCHANGED <<requestVars, auditVars, request>>
    BY <1>6 DEF Boot, Signal, StopWorker, Exit, StartCycle, Cycle, Outage
  <2> QED BY <2>1, <1>2 DEF requestVars, auditVars
<1>7. CASE TokenAdmin \/ SubjectAdmin
  BY <1>7, <1>2 DEF TokenAdmin, SubjectAdmin, Change, auditVars
<1>8. CASE UNCHANGED vars
  BY <1>8, <1>2 DEF vars, requestVars, auditVars
<1> QED BY <1>3, <1>4, <1>5, <1>6, <1>7, <1>8 DEF Next

THEOREM DecisionsAreFinal == Spec => [][\A r \in Req : DecisionStands(r)]_vars
<1>1. IInv /\ [Next]_vars => [\A r \in Req : DecisionStands(r)]_vars
  BY DecisionsStand
<1> QED BY <1>1, InvariantHolds, PTL DEF Spec
=============================================================================
