------------------------------- MODULE Search -------------------------------
(***************************************************************************)
(* Reading thoughts and sessions back: two ranked legs fused by reciprocal *)
(* rank, the approximate session search with its exact retry, and the      *)
(* lists.  A row is a record and rows a function from ids to them; eligible*)
(* stands for what the row policy and the filters of a request decide.     *)
(* Distances and scores are small integers that keep their order.          *)
(***************************************************************************)
EXTENDS Integers, Sequences, SequencesExt, Orders

CONSTANTS
  RrfK,        \* DEFAULT_RRF_K
  LeastDepth,  \* MIN_HYBRID_CANDIDATES_PER_LEG
  MostDepth,   \* the clamp of candidate_limit
  ListDefault, \* of a list of sessions that names no limit
  ListMost     \* its clamp

ASSUME DepthAssumption ==
  /\ {RrfK, LeastDepth, MostDepth, ListDefault, ListMost} \subseteq Nat \ {0}
  /\ LeastDepth <= MostDepth

Clamp(n, low, high) == IF n < low THEN low ELSE IF n > high THEN high ELSE n
Take(s, n) == SubSeq(s, 1, Clamp(n, 0, Len(s)))

\* An ORDER BY whose keys are the sequence of numbers keys[id], the largest first.
Precedes(a, b) == \E i \in DOMAIN a : a[i] > b[i] /\ \A j \in 1..(i - 1) : a[j] = b[j]
Ordered(ids, keys) == InOrder(ids, {p \in ids \X ids : Precedes(keys[p[1]], keys[p[2]])})

-----------------------------------------------------------------------------
(* Hybrid search.  match is "text", "literal" or "none"; claims are the    *)
(* caller's assertions in a thought's provenance.                          *)

ClaimsMatch(claims, filter) == \A f \in DOMAIN filter : f \in DOMAIN claims /\ claims[f] = filter[f]

\* All of include, and none of exclude: each excluded field is a filter of its own.
FilterAdmits(claims, filter) ==
  /\ ClaimsMatch(claims, filter.include)
  /\ ~\E f \in DOMAIN filter.exclude : f \in DOMAIN claims /\ claims[f] = filter.exclude[f]

Eligible(rows, filter) ==
  {id \in DOMAIN rows : rows[id].visible /\ ~rows[id].forgotten /\ FilterAdmits(rows[id].claims, filter)}

\* The depth the server asks for, and the function's own clamp of it.
Depth(limit) == Clamp(IF limit < LeastDepth THEN LeastDepth ELSE limit, 1, MostDepth)

VectorLeg(rows, filter, threshold, limit) ==
  LET near == {id \in Eligible(rows, filter) : rows[id].similarity >= threshold}
  IN  Take(Ordered(near, [id \in near |-> <<rows[id].similarity, -id>>]), Depth(limit))

LexicalLeg(rows, filter, limit) ==
  LET hits == {id \in Eligible(rows, filter) : rows[id].match # "none"}
      priority(id) == IF rows[id].match = "text" THEN 0 ELSE 1
  IN  Take(Ordered(hits, [id \in hits |-> <<-priority(id), rows[id].score, rows[id].created, -id>>]), Depth(limit))

\* Position in a leg, 0 where it is not in it.
RankIn(leg, id) == IF \E i \in DOMAIN leg : leg[i] = id THEN CHOOSE i \in DOMAIN leg : leg[i] = id ELSE 0

\* 1/(k + rank) over both legs, as numerator and denominator.
Rrf(vector, lexical) ==
  CASE vector = 0  -> [num |-> 1, den |-> RrfK + lexical]
    [] lexical = 0 -> [num |-> 1, den |-> RrfK + vector]
    [] OTHER       -> [num |-> 2 * RrfK + vector + lexical, den |-> (RrfK + vector) * (RrfK + lexical)]

Fuse(vectorLeg, lexicalLeg, rows, limit) ==
  LET found == ToSet(vectorLeg) \cup ToSet(lexicalLeg)
      score(id) == Rrf(RankIn(vectorLeg, id), RankIn(lexicalLeg, id))
      fullText(id) == RankIn(lexicalLeg, id) > 0 /\ rows[id].match = "text"
      before(x, y) ==
        LET a == score(x).num * score(y).den
            b == score(y).num * score(x).den
        IN  a > b \/ (a = b /\ ((fullText(x) /\ ~fullText(y)) \/ (fullText(x) = fullText(y) /\ x < y)))
  IN  Take(InOrder(found, {p \in found \X found : before(p[1], p[2])}), limit)

\* The ids are joined once more with the table under its row policy before anything leaves the database.
SearchThoughts(rows, q) ==
  Keeping(Fuse(VectorLeg(rows, q.filter, q.threshold, q.limit), LexicalLeg(rows, q.filter, q.limit), rows, q.limit),
          {id \in DOMAIN rows : rows[id].visible /\ ~rows[id].forgotten})

-----------------------------------------------------------------------------
(* Session search.  Under an embedding contract every passage is scored;   *)
(* without one the scan of the graph is bounded, scanned is the set of     *)
(* rows it reaches, and a short page is retried without the graph.         *)

Nearest(rows, ids, limit) == Take(Ordered(ids, [id \in ids |-> <<rows[id].similarity, -id>>]), limit)

EligibleSessions(rows) == {id \in DOMAIN rows : rows[id].visible}
NearEnough(rows, threshold) == {id \in DOMAIN rows : rows[id].similarity >= threshold}

\* Seeded fault: the page of the approximate scan is the answer, however short.
ScannedSessions(rows, scanned, q) ==
  Keeping(Nearest(rows, IF q.contract THEN EligibleSessions(rows) ELSE EligibleSessions(rows) \cap scanned, q.limit),
          NearEnough(rows, q.threshold))

SearchSessions(rows, scanned, q) ==
  LET approximate == Nearest(rows, EligibleSessions(rows) \cap scanned, q.limit)
      answer == IF q.contract \/ Len(approximate) < q.limit THEN Nearest(rows, EligibleSessions(rows), q.limit) ELSE approximate
  IN  Keeping(answer, NearEnough(rows, q.threshold))

-----------------------------------------------------------------------------
(* Lists.  A time is 0 where a session's document gives none: its authored *)
(* last_update and its start.  A NULL sorts last; any column name that is  *)
(* not of the white list means the default.                                *)

Freshness(row) == IF row.authored # 0 THEN row.authored ELSE row.updated

OrderKeys(rows, orderBy, id) ==
  <<CASE orderBy = "started_at" -> rows[id].started
      [] orderBy = "created_at" -> rows[id].created
      [] orderBy = "title"      -> rows[id].title
      [] OTHER                  -> Freshness(rows[id]),
    rows[id].updated, id>>

\* since and until compare the authored time, which a row may not have; 0 is an absent bound.
WithinBounds(row, q) ==
  /\ q.since # 0 => row.authored # 0 /\ row.authored >= q.since
  /\ q.until # 0 => row.authored # 0 /\ row.authored <= q.until

ListSessions(rows, q) ==
  LET ids == {id \in DOMAIN rows : rows[id].visible /\ (q.branch # 0 => rows[id].branch = q.branch)
                                   /\ WithinBounds(rows[id], q)}
  IN  Take(Ordered(ids, [id \in ids |-> OrderKeys(rows, q.orderBy, id)]),
           Clamp(IF q.limit = 0 THEN ListDefault ELSE q.limit, 1, ListMost))

\* resumeSession: an id decides alone, and only without one the branch; 0 is no session.
Resume(rows, id, branch) ==
  IF id # 0 THEN IF id \in DOMAIN rows /\ rows[id].visible THEN id ELSE 0
  ELSE LET ids == {i \in DOMAIN rows : rows[i].visible /\ rows[i].branch = branch}
           chosen == Take(Ordered(ids, [i \in ids |-> OrderKeys(rows, "last_update", i)]), 1)
       IN  IF branch = 0 \/ chosen = <<>> THEN 0 ELSE chosen[1]

ListThoughts(rows, filter, limit) ==
  Take(Ordered(Eligible(rows, filter), [id \in Eligible(rows, filter) |-> <<rows[id].created, -id>>]), limit)

-----------------------------------------------------------------------------
(* What may be expected of the answers. *)

Position(s, id) == IF RankIn(s, id) = 0 THEN Len(s) + 1 ELSE RankIn(s, id)

\* Whoever is no worse on both legs and better on one comes first, or is the only one of the two in the
\* answer; and a smaller page is the beginning of a larger one as long as the legs are as deep.
RanksAreRespected(rows, q) ==
  LET answer == SearchThoughts(rows, q)
      vector == VectorLeg(rows, q.filter, q.threshold, q.limit)
      lexical == LexicalLeg(rows, q.filter, q.limit)
  IN  /\ \A x, y \in ToSet(vector) \cup ToSet(lexical) :
           (/\ Position(vector, x) <= Position(vector, y)
            /\ Position(lexical, x) <= Position(lexical, y)
            /\ x # y) => Position(answer, x) < Position(answer, y) \/ Position(answer, y) > Len(answer)
      /\ \A less \in 1..q.limit :
           Depth(less) = Depth(q.limit) => SearchThoughts(rows, [q EXCEPT !.limit = less]) = Take(answer, less)

\* A word-for-word hit is not lost among neighbours: of two rows found at the same rank, each by one leg
\* alone, the full-text one comes first.
TextWinsTies(rows, q) ==
  LET answer == SearchThoughts(rows, q)
      vector == VectorLeg(rows, q.filter, q.threshold, q.limit)
      lexical == LexicalLeg(rows, q.filter, q.limit)
  IN  \A i \in DOMAIN vector \cap DOMAIN lexical :
        (/\ rows[lexical[i]].match = "text"
         /\ RankIn(vector, lexical[i]) = 0 /\ RankIn(lexical, vector[i]) = 0)
        => Position(answer, lexical[i]) <= Position(answer, vector[i])

\* Nothing is found that the list of the same audience and filter does not show, and nothing near enough
\* is left out of an answer that is not full.
SearchAgreesWithList(rows, q) ==
  LET answer == ToSet(SearchThoughts(rows, q))
      listed == ToSet(ListThoughts(rows, q.filter, Cardinality(DOMAIN rows)))
  IN  /\ answer \subseteq listed
      /\ (Cardinality(answer) < q.limit /\ Cardinality(DOMAIN rows) <= LeastDepth) =>
           answer = {id \in listed : rows[id].similarity >= q.threshold \/ rows[id].match # "none"}

\* Each excluded field alone keeps out exactly the thoughts that including it alone would keep in, and a
\* filter admits what all its fields admit.
FiltersCompose(rows, filter) ==
  LET none == [f \in {} |-> 0]
      only(f, v) == [g \in {f} |-> v]
      all == Eligible(rows, [include |-> none, exclude |-> none])
      with(f) == Eligible(rows, [include |-> only(f, filter.include[f]), exclude |-> none])
      without(f) == Eligible(rows, [include |-> none, exclude |-> only(f, filter.exclude[f])])
  IN  /\ Eligible(rows, filter) =
           {id \in all : (\A f \in DOMAIN filter.include : id \in with(f))
                         /\ (\A f \in DOMAIN filter.exclude : id \in without(f))}
      /\ \A f \in DOMAIN filter.exclude :
           without(f) = all \ Eligible(rows, [include |-> only(f, filter.exclude[f]), exclude |-> none])

\* However little of the graph the scan reached: an answer is missing an eligible session only if the
\* scan itself brought back a full page.
NeverSilentlyShort(rows, scanned, q) ==
  LET answer == SearchSessions(rows, scanned, q)
      wanted == EligibleSessions(rows) \cap NearEnough(rows, q.threshold)
  IN  /\ ToSet(answer) \subseteq wanted
      /\ \/ ToSet(answer) = wanted
         \/ Len(answer) = q.limit /\ \A id \in ToSet(answer), other \in wanted \ ToSet(answer) :
                                       rows[other].similarity <= rows[id].similarity
         \/ ~q.contract /\ Cardinality(EligibleSessions(rows) \cap scanned) >= q.limit

\* The session that a branch resumes is the one the default list of that branch shows first; and bounds,
\* a branch or a limit leave rows out of a list that can be shown whole without moving the others.
ListsAgree(rows, q) ==
  LET whole == ListSessions(rows, [branch |-> 0, orderBy |-> q.orderBy, since |-> 0, until |-> 0, limit |-> ListMost])
      kept == {id \in DOMAIN rows : (q.branch # 0 => rows[id].branch = q.branch) /\ WithinBounds(rows[id], q)}
      page == IF q.limit = 0 THEN ListDefault ELSE IF q.limit > ListMost THEN ListMost ELSE q.limit
      newest == ListSessions(rows, [q EXCEPT !.orderBy = "last_update", !.since = 0, !.until = 0])
  IN  /\ Cardinality(DOMAIN rows) <= ListMost => ListSessions(rows, q) = Take(Keeping(whole, kept), page)
      /\ Resume(rows, 0, q.branch) = IF q.branch = 0 \/ newest = <<>> THEN 0 ELSE newest[1]
=============================================================================
