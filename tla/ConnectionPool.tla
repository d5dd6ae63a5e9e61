--------------------------- MODULE ConnectionPool ---------------------------
(***************************************************************************)
(* The connection pools and getClient (db_pool.ts, the patched access      *)
(* stack of postgres_deferred_patched.ts).  A pool is a stack of clients   *)
(* and a queue of borrowers; a client that is pushed while somebody waits  *)
(* is handed over.  Clients do not notice that the database went away: the *)
(* driver finds out at the next query and then refuses every later one,    *)
(* until the client is ended and connected again.                          *)
(***************************************************************************)
EXTENDS Naturals, Sequences, FiniteSets, SequencesExt

CONSTANTS
    Pool,
    Client, PoolOf,      \* PoolOf[k]: the pool of client k
    Borrower, Attempts,  \* Attempts[p]: how often getClient tries for p
    NoClient

ASSUME PoolAssumption ==
    /\ PoolOf \in [Client -> Pool] /\ NoClient \notin Client /\ IsFiniteSet(Client)
    /\ Attempts \in [Borrower -> Nat \ {0}]

VARIABLES
    up,     \* the database answers
    conn,   \* per client, what the driver thinks of it and whether it is so
    idle,   \* per pool, the stack
    queue,  \* per pool, who waits
    at,     \* per borrower, where it is in getClient
    hand,   \* per borrower, the client it has
    tries   \* per borrower, the attempts it has made

poolVars == <<up, conn, idle, queue, at, hand, tries>>

\* connected: the driver's flag; terminated: it refuses queries; live: the
\* other end of the socket still exists.
Conns == [connected : BOOLEAN, terminated : BOOLEAN, live : BOOLEAN]
Unconnected == [connected |-> FALSE, terminated |-> FALSE, live |-> FALSE]
Fresh == [connected |-> TRUE, terminated |-> FALSE, live |-> TRUE]
Ended == [connected |-> FALSE, terminated |-> TRUE, live |-> FALSE]

Ats == {"out", "connect", "waiting", "popped", "probe", "held", "failed"}

\* A lazy pool connects a client when it is borrowed, an eager one at once.
InitPool ==
    /\ up = TRUE
    /\ conn = [k \in Client |-> Unconnected]
    /\ idle = [q \in Pool |-> SetToSeq({k \in Client : PoolOf[k] = q})]
    /\ queue = [q \in Pool |-> <<>>]
    /\ at = [p \in Borrower |-> "out"]
    /\ hand = [p \in Borrower |-> NoClient]
    /\ tries = [p \in Borrower |-> 0]

-----------------------------------------------------------------------------
Borrowing(p) == at' = [at EXCEPT ![p] = "connect"] /\ tries' = [tries EXCEPT ![p] = 0]

\* Whoever takes a client connects it first when the driver says it is not.
Taken(k) == IF conn'[k].connected THEN "probe" ELSE "popped"

\* push: p gives its client to the first who waits, or back to the stack.
Push(p, next) ==
    LET q == PoolOf[hand[p]] IN
    IF queue[q] = <<>>
    THEN /\ idle' = [idle EXCEPT ![q] = Append(@, hand[p])]
         /\ hand' = [hand EXCEPT ![p] = NoClient]
         /\ at' = [at EXCEPT ![p] = next]
         /\ UNCHANGED queue
    ELSE /\ queue' = [queue EXCEPT ![q] = Tail(@)]
         /\ hand' = [hand EXCEPT ![p] = NoClient, ![Head(queue[q])] = hand[p]]
         /\ at' = [at EXCEPT ![p] = next, ![Head(queue[q])] = Taken(hand[p])]
         /\ UNCHANGED idle

\* The first half of pop.
Pop(p, q) ==
    /\ at[p] = "connect"
    /\ UNCHANGED <<up, conn, tries>>
    /\ IF idle[q] # <<>>
       THEN /\ hand' = [hand EXCEPT ![p] = Last(idle[q])]
            /\ idle' = [idle EXCEPT ![q] = Front(@)]
            /\ at' = [at EXCEPT ![p] = Taken(Last(idle[q]))]
            /\ UNCHANGED queue
       ELSE /\ queue' = [queue EXCEPT ![q] = Append(@, p)]
            /\ at' = [at EXCEPT ![p] = "waiting"]
            /\ UNCHANGED <<idle, hand>>

\* A failed attempt: once more, or give up.
AfterFailure(p) == IF tries[p] + 1 < Attempts[p] THEN "connect" ELSE "failed"
Count(p) == tries' = [tries EXCEPT ![p] = @ + 1]

\* The second half of pop: a client that is not connected is connected
\* now, and goes back to the stack when that fails.
Initialize(p) ==
    LET k == hand[p] IN
    /\ at[p] = "popped"
    /\ \/ /\ up
          /\ conn' = [conn EXCEPT ![k] = Fresh]
          /\ at' = [at EXCEPT ![p] = "probe"]
          /\ UNCHANGED <<idle, queue, hand, tries>>
       \/ /\ ~up
          /\ UNCHANGED conn
          /\ Push(p, AfterFailure(p)) /\ Count(p)
    /\ UNCHANGED up

Answers(k) == up /\ conn[k].live /\ ~conn[k].terminated

\* A query on a dead socket: from now on the driver refuses the client, and
\* may or may not know that it is not connected.
Broken(k) == \E c \in BOOLEAN :
    conn' = [conn EXCEPT ![k] = [connected |-> c, terminated |-> TRUE, live |-> FALSE]]

\* SELECT 1, and what getClient does when it fails: a client that is dead is
\* ended and released, to be connected anew by whoever borrows it next; an
\* error of the query itself goes to the caller at once.
Probe(p) ==
    LET k == hand[p] IN
    /\ at[p] = "probe"
    /\ \/ /\ Answers(k)
          /\ at' = [at EXCEPT ![p] = "held"]
          /\ UNCHANGED <<conn, idle, queue, hand, tries>>
       \/ /\ Answers(k)
          /\ UNCHANGED <<conn, tries>> /\ Push(p, "failed")
       \/ /\ ~Answers(k)
          /\ conn' = [conn EXCEPT ![k] = Ended]
          /\ Push(p, AfterFailure(p)) /\ Count(p)
    /\ UNCHANGED up

Getting(p, q) == Pop(p, q) \/ Initialize(p) \/ Probe(p)

\* The caller's query and its release: answered, or failed.
Ask(p) ==
    /\ at[p] = "held" /\ Answers(hand[p])
    /\ UNCHANGED <<up, conn, tries>> /\ Push(p, "out")
AskInVain(p) ==
    /\ at[p] = "held" /\ ~Answers(hand[p])
    /\ Broken(hand[p])
    /\ Push(p, "out") /\ UNCHANGED <<up, tries>>
GiveUp(p) ==
    /\ at[p] = "failed"
    /\ at' = [at EXCEPT ![p] = "out"]
    /\ UNCHANGED <<up, conn, idle, queue, hand, tries>>

\* Nobody has the database: a query fails, or no client could be had.
Unserved(p) == AskInVain(p) \/ GiveUp(p)

DatabaseFails ==
    /\ up
    /\ up' = FALSE
    /\ conn' = [k \in Client |-> [conn[k] EXCEPT !.live = FALSE]]
    /\ UNCHANGED <<idle, queue, at, hand, tries>>

DatabaseReturns == ~up /\ up' = TRUE /\ UNCHANGED <<conn, idle, queue, at, hand, tries>>
=============================================================================
