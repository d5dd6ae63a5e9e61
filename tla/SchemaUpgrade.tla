---------------------------- MODULE SchemaUpgrade ----------------------------
(***************************************************************************)
(* The corpus catalogue under its numbered migrations, and the gates a     *)
(* starting server puts it through.  A server that finds the catalogue     *)
(* behind exits with the migrations to apply, its supervisor starts it     *)
(* again, and an operator follows the advice or runs the documented        *)
(* upgrade, which replays every migration in numeric order.                *)
(*                                                                         *)
(* The catalogue keeps what the gates and the server's statements tell     *)
(* apart: a set of facts, the shape of the fingerprint index, the change   *)
(* kinds the history admits, and which row-security-bypassing helpers      *)
(* filter out forgotten thoughts.  Each file is one transaction, except    *)
(* 02, which commits statement by statement.                               *)
(***************************************************************************)
EXTENDS Naturals, Sequences, SequencesExt

CONSTANTS
  MaxReplays,     \* migrations replayed with no refusal asking for them
  MaxTrouble      \* outages, abandoned windows and drifted grants

VARIABLES
  catalogue,      \* the database's schema and grants
  stored,         \* what the rows hold that an older shape would not admit
  activated,      \* an embedding generation is complete and active
  server,         \* the server process
  query,          \* how many of the probe's queries have been answered
  late,           \* what the catalogue query found missing that is reported after the next one
  keys,           \* the JWKS endpoint has answered its own probe
  advice,         \* what the last refusal told the operator to apply
  todo,           \* what the operator has yet to apply
  outage,         \* which of its dependencies the server cannot use
  replays, trouble

vars == <<catalogue, stored, activated, server, query, late, keys, advice, todo, outage, replays, trouble>>

Facts == {"lexical", "spaces", "own workspace", "workspace", "ledger", "tokens", "old register",
          "principals", "principal readable", "audit shape", "rollup role", "audit grants",
          "revisions", "narrow sessions", "forget", "oauth", "oauth readable", "passages"}

Helpers == {"search", "passage search", "move"}

Has(c, some) == some \subseteq c.facts
With(c, some) == [c EXCEPT !.facts = @ \cup some]
Lacking(c, some) == [c EXCEPT !.facts = @ \ some]
Unfiltered(c, h) == [c EXCEPT !.helper[h] = "plain"]

-----------------------------------------------------------------------------
(* The migrations: what each needs, and what it makes of the catalogue. *)

(* The role must exist before 02 grants to it; the converged table, which is committed first, stays. *)
After02(c) == With(c, {"audit shape"} \cup (IF Has(c, {"rollup role"}) THEN {"audit grants"} ELSE {}))

After04(c) == With(c, {"narrow sessions"})

After05(c) == With(c, {"lexical"})

(* A plausible slip in 06: no guard, the index is rebuilt on every replay. *)
AlwaysRebuilt(c) ==
  [Unfiltered(With(c, {"spaces", "workspace"}), "search") EXCEPT !.index = "audience"]

(* The guard keeps 17's index on a replay.  A configured workspace of the operator's own is not seeded. *)
After06(c) ==
  LET seeded == IF Has(c, {"own workspace"}) THEN {"spaces"} ELSE {"spaces", "workspace"} IN
  [Unfiltered(With(c, seeded), "search") EXCEPT !.index = IF @ = "live" THEN @ ELSE "audience"]

After07(c) == With(c, {"ledger"})

(* The table-wide REVOKE takes the column grants of 14 with it, and the function 14 retired returns. *)
After08(c) == Lacking(With(c, {"tokens", "old register"}), {"principal readable"})

After10(c) ==
  [Unfiltered(With(c, {"revisions"}), "move") EXCEPT !.kinds = IF @ = "none" THEN "two" ELSE @]

After11(c) == With(c, {"narrow sessions"})

After12(c) == With(c, {"audit grants"})

After13(c) == With(c, {"oauth", "oauth readable"})

After14(c) == Lacking(With(c, {"principals", "principal readable"}), {"old register"})

After15(c) == Unfiltered(With(c, {"passages"}), "passage search")

After16(c) == [c EXCEPT !.kinds = IF @ = "five" THEN @ ELSE "three"]

After17(c) ==
  [With(c, {"forget"}) EXCEPT !.index = "live", !.kinds = "five", !.helper = [h \in Helpers |-> "filtered"]]

Migrations == {"02", "04", "05", "06", "07", "08", "10", "11", "12", "13", "14", "15", "16", "17"}

(* What a file refers to that only an earlier one creates; a file that misses it stops. *)
Needs(m) ==
  CASE m \in {"02", "12"}       -> {"rollup role"}
    [] m \in {"10", "15"}       -> {"spaces"}
    [] m \in {"13", "14"}       -> {"tokens"}
    [] m = "16"                 -> {"revisions"}
    [] m = "17"                 -> {"spaces", "revisions"}
    [] OTHER                    -> {}

After(m, c) ==
  CASE m = "02" -> After02(c)  [] m = "04" -> After04(c)  [] m = "05" -> After05(c)
    [] m = "06" -> After06(c)  [] m = "07" -> After07(c)  [] m = "08" -> After08(c)
    [] m = "10" -> After10(c)  [] m = "11" -> After11(c)  [] m = "12" -> After12(c)
    [] m = "13" -> After13(c)  [] m = "14" -> After14(c)  [] m = "15" -> After15(c)
    [] m = "16" -> After16(c)  [] m = "17" -> After17(c)

(* The rows satisfy the unique index and the CHECK of a catalogue. *)
Fits(c) ==
  /\ "recaptured text" \in stored => c.index = "live"
  /\ "forget revision" \in stored => c.kinds = "five"
  /\ "metadata revision" \in stored => c.kinds \in {"three", "five"}

-----------------------------------------------------------------------------
(* The probe: the checks made on its first answer, in the order they are reported, and its later queries. *)

Check(name, apply) == [name |-> name, apply |-> apply]

(* A plausible slip: the advice of the release before 14, which brings the old register back. *)
AdviceOfOldRelease == << Check("lexical indexes", <<"05">>), Check("spaces", <<"06">>), Check("passages", <<"15">>),
                         Check("ledger", <<"07">>), Check("tokens", <<"08">>) >>

(* Read by the catalogue query and reported before the token columns are read. *)
EarlyChecks == << Check("lexical indexes", <<"05">>), Check("spaces", <<"06">>), Check("passages", <<"15">>),
                  Check("ledger", <<"07">>), Check("tokens", <<"08", "14">>) >>

(* Read by the catalogue query too, but reported after. *)
LateChecks == << Check("audit shape", <<"02">>), Check("audit grants", <<"role", "12">>),
                 Check("mutations", <<"10">>), Check("session grants", <<"11">>) >>

LaterQueries == << Check("token columns", <<"14">>), Check("forgetting", <<"17">>), Check("admission", <<"13">>),
                   Check("admission columns", <<"13">>), Check("ledger", <<"07">>),
                   Check("workspace", <<"workspace">>) >>

LexicalIndexes(c) == Has(c, {"lexical"})
SpacesSchema(c) == Has(c, {"spaces"}) /\ c.index # "text"
PassageSearchSchema(c) == Has(c, {"passages"}) /\ c.helper["passage search"] # "absent"
MetadataDegradationSchema(c) == Has(c, {"ledger"})
NativeAccessTokenSchema(c) == Has(c, {"tokens", "principals"}) /\ ~Has(c, {"old register"})
AuthAuditSchema(c) == Has(c, {"audit shape"})
AuthAuditGrants(c) == Has(c, {"rollup role", "audit grants"})
ThoughtMutationSchema(c) == Has(c, {"revisions"}) /\ c.helper["move"] # "absent"
SessionUpdateGrants(c) == Has(c, {"narrow sessions"})

(* A plausible slip: the overload the older releases call is looked at, the one in use is not. *)
OldOverloadOnly(c) ==
  /\ Has(c, {"forget"}) /\ c.index = "live" /\ c.kinds = "five"
  /\ c.helper["search"] = "filtered" /\ c.helper["move"] = "filtered"

ForgetSchema(c) ==
  /\ Has(c, {"forget"}) /\ c.index = "live" /\ c.kinds = "five"
  /\ \A h \in Helpers : c.helper[h] = "filtered"

Passes(name, c) ==
  CASE name = "lexical indexes"   -> LexicalIndexes(c)
    [] name = "spaces"            -> SpacesSchema(c)
    [] name = "passages"          -> PassageSearchSchema(c)
    [] name = "ledger"            -> MetadataDegradationSchema(c)
    [] name = "tokens"            -> NativeAccessTokenSchema(c)
    [] name = "token columns"     -> Has(c, {"principal readable"})
    [] name = "audit shape"       -> AuthAuditSchema(c)
    [] name = "audit grants"      -> AuthAuditGrants(c)
    [] name = "mutations"         -> ThoughtMutationSchema(c)
    [] name = "session grants"    -> SessionUpdateGrants(c)
    [] name = "forgetting"        -> ForgetSchema(c)
    [] name = "admission"         -> Has(c, {"oauth"})
    [] name = "admission columns" -> Has(c, {"oauth readable"})
    [] name = "workspace"         -> Has(c, {"workspace"})

(* What the first of some checks to fail tells the operator to apply; nothing when all pass. *)
Advice(checks, c) ==
  LET failed == {i \in DOMAIN checks : ~Passes(checks[i].name, c)}
  IN  IF failed = {} THEN <<>>
      ELSE checks[CHOOSE i \in failed : \A j \in failed : i <= j].apply

-----------------------------------------------------------------------------
(* The starting server. *)

Refuse(apply) ==
  /\ server' = "exited" /\ advice' = apply /\ query' = 0 /\ late' = <<>> /\ keys' = FALSE
  /\ UNCHANGED <<catalogue, stored, activated, todo, outage, replays, trouble>>

Continue(s, q, pending) ==
  /\ server' = s /\ query' = q /\ late' = pending
  /\ UNCHANGED <<catalogue, stored, activated, keys, advice, todo, outage, replays, trouble>>

(* The supervisor restarts a server that exited; a stopped one waits for its operator. *)
Start ==
  /\ server = "exited" \/ (server = "stopped" /\ todo = <<>>)
  /\ Continue("probing", 0, <<>>)

Reachable == outage \cap {"database down", "database hung"} = {}

(* The registry's rows are named in the catalogue query, which fails to parse before 06. *)
CatalogueQuery ==
  /\ server = "probing" /\ query = 0 /\ Reachable
  /\ IF ~Has(catalogue, {"spaces"}) THEN Refuse(<<>>)
     ELSE IF Advice(EarlyChecks, catalogue) # <<>> THEN Refuse(Advice(EarlyChecks, catalogue))
     ELSE Continue("probing", 1, Advice(LateChecks, catalogue))

LaterQuery ==
  /\ server = "probing" /\ query \in DOMAIN LaterQueries /\ Reachable
  /\ LET found == Advice(<<LaterQueries[query]>>, catalogue)
     IN  IF found # <<>> THEN Refuse(found)
         ELSE IF late # <<>> THEN Refuse(late)
         ELSE Continue("probing", query + 1, <<>>)

Rejected == server = "probing" /\ "database down" \in outage /\ Refuse(<<>>)

(* A handshake that is never completed stays so when the path recovers: only the deadline ends it. *)
Hang == server = "probing" /\ "database hung" \in outage /\ Continue("hung", query, late)

Deadline == server = "hung" /\ Refuse(<<>>)

(* Awaited beside the probe. *)
JwksProbe ==
  /\ server \in {"probing", "hung"} /\ ~keys
  /\ \/ "jwks" \in outage /\ Refuse(<<>>)
     \/ /\ "jwks" \notin outage /\ keys' = TRUE
        /\ UNCHANGED <<catalogue, stored, activated, server, query, late, advice, todo, outage, replays, trouble>>

Probed == server = "probing" /\ query > Len(LaterQueries) /\ keys /\ Continue("embedding", 0, <<>>)

(* Whatever stopped it, the refusal names migration 15 and the offline backfill. *)
EmbeddingGate ==
  /\ server = "embedding"
  /\ IF outage \cap {"runtime", "database down"} # {} \/ ~activated THEN Refuse(<<"15", "backfill">>)
     ELSE /\ server' = "serving" /\ advice' = <<>> /\ keys' = FALSE
          /\ UNCHANGED <<catalogue, stored, activated, query, late, todo, outage, replays, trouble>>

(* What a serving server's callers, or the maintenance tool beside it, add to the history. *)
Record(what) ==
  /\ server = "serving" /\ what \notin stored
  /\ what = "recaptured text" => "forget revision" \in stored
  /\ stored' = stored \cup {what}
  /\ UNCHANGED <<catalogue, activated, server, query, late, keys, advice, todo, outage, replays, trouble>>

-----------------------------------------------------------------------------
(* The operator. *)

Window(steps) ==
  /\ server' = "stopped" /\ todo' = steps /\ advice' = <<>> /\ query' = 0 /\ late' = <<>> /\ keys' = FALSE
  /\ UNCHANGED <<catalogue, stored, activated, outage, trouble>>

(* Followed beside the restarting server, or with it stopped; the backfill is offline. *)
Follow ==
  /\ advice # <<>> /\ todo = <<>>
  /\ \/ Window(advice) /\ UNCHANGED replays
     \/ /\ server # "stopped" /\ Last(advice) # "backfill" /\ todo' = advice /\ advice' = <<>>
        /\ UNCHANGED <<catalogue, stored, activated, server, query, late, keys, outage, replays, trouble>>

(* The documented upgrade replays every file in numeric order with the server stopped. *)
Procedure == <<"role", "02", "04", "05", "06", "07", "08", "10", "11", "12", "13", "14", "15", "16", "17", "backfill">>

(* A refusal that names nothing while everything is reachable sends the operator to the documents. *)
Upgrade == server = "exited" /\ advice = <<>> /\ todo = <<>> /\ outage = {} /\ Window(Procedure) /\ UNCHANGED replays

Replay(steps) ==
  /\ todo = <<>> /\ replays < MaxReplays /\ replays' = replays + 1
  /\ Window(steps)

Runs(m, c) == Has(c, Needs(m)) /\ Fits(After(m, c))

(* One step of the window; a step that fails ends it, and its end sends the operator to the next refusal. *)
Apply ==
  /\ todo # <<>> /\ Reachable
  /\ LET step == Head(todo)
         rest == Tail(todo)
     IN  \/ /\ step = "role" /\ catalogue' = With(catalogue, {"rollup role"}) /\ todo' = rest
            /\ UNCHANGED activated
         \/ /\ step = "workspace" /\ catalogue' = With(catalogue, {"workspace"}) /\ todo' = rest
            /\ UNCHANGED activated
         \/ /\ step = "backfill"
            /\ IF Has(catalogue, {"passages"}) /\ "runtime" \notin outage
               THEN activated' = TRUE /\ todo' = rest
               ELSE UNCHANGED activated /\ todo' = <<>>
            /\ UNCHANGED catalogue
         \/ /\ step \in Migrations /\ UNCHANGED activated
            /\ IF Runs(step, catalogue) THEN catalogue' = After(step, catalogue) /\ todo' = rest
               ELSE /\ todo' = <<>>
                    /\ catalogue' = IF step = "02" THEN After02(catalogue) ELSE catalogue
  /\ advice' = IF todo' = <<>> THEN <<>> ELSE advice
  /\ UNCHANGED <<stored, server, query, late, keys, outage, replays, trouble>>

-----------------------------------------------------------------------------
(* Trouble. *)

Outages == {"database down", "database hung", "jwks", "runtime"}

Fail(o) ==
  /\ trouble < MaxTrouble /\ outage = {} /\ outage' = {o} /\ trouble' = trouble + 1
  /\ UNCHANGED <<catalogue, stored, activated, server, query, late, keys, advice, todo, replays>>

Recover ==
  /\ outage # {} /\ outage' = {}
  /\ UNCHANGED <<catalogue, stored, activated, server, query, late, keys, advice, todo, replays, trouble>>

(* The window ends early: a lost session, or an operator who thinks the work done. *)
Abandon ==
  /\ trouble < MaxTrouble /\ todo # <<>> /\ todo' = <<>> /\ trouble' = trouble + 1
  /\ UNCHANGED <<catalogue, stored, activated, server, query, late, keys, advice, outage, replays>>

(* A grant drifts while no server is running. *)
Drift(g) ==
  /\ trouble < MaxTrouble /\ server = "stopped" /\ Has(catalogue, {g})
  /\ catalogue' = Lacking(catalogue, {g}) /\ trouble' = trouble + 1
  /\ UNCHANGED <<stored, activated, server, query, late, keys, advice, todo, outage, replays>>

-----------------------------------------------------------------------------
(* The catalogues of the releases, which shipped the migrations in this order. *)
First(own) ==
  [facts |-> IF own THEN {"own workspace"} ELSE {}, index |-> "text", kinds |-> "none",
   helper |-> [h \in Helpers |-> "absent"]]

Releases(own) ==
  LET c05 == After05(First(own))  c06 == After06(c05)  c07 == After07(c06)  c08 == After08(c07)
      c02 == After02(c08)         c10 == After10(c02)  c11 == After11(c10)
      c12 == After12(With(c11, {"rollup role"}))
      c13 == After13(c12)         c14 == After14(c13)  c15 == After15(c14)
      c16 == After16(c15)         c17 == After17(c16)
  IN  <<First(own), c05, c06, c07, c08, c02, c10, c11, c12, c13, c14, c15, c16, c17>>

Holdings(n) ==
  SUBSET ((IF n >= 13 THEN {"metadata revision"} ELSE {})
          \cup (IF n >= 14 THEN {"forget revision", "recaptured text"} ELSE {}))

Init ==
  /\ \E own \in BOOLEAN : \E n \in DOMAIN Releases(own) :
       /\ catalogue = Releases(own)[n]
       /\ stored \in {s \in Holdings(n) : "recaptured text" \in s => "forget revision" \in s}
       /\ activated \in {FALSE, n >= 12}
  /\ server = "stopped" /\ query = 0 /\ late = <<>> /\ keys = FALSE
  /\ advice = <<>> /\ todo = <<>> /\ outage = {} /\ replays = 0 /\ trouble = 0

Boot == CatalogueQuery \/ LaterQuery \/ Rejected \/ Hang \/ Deadline \/ JwksProbe \/ Probed \/ EmbeddingGate

Next ==
  \/ Start \/ Boot
  \/ \E what \in {"metadata revision", "forget revision", "recaptured text"} : Record(what)
  \/ Follow \/ Upgrade \/ Apply
  \/ \E m \in Migrations : Replay(<<m>>)
  \/ Replay(Procedure)
  \/ \E o \in Outages : Fail(o)
  \/ Recover \/ Abandon
  \/ \E g \in {"principal readable", "oauth readable", "audit grants", "narrow sessions"} : Drift(g)

(* The supervisor always restarts, a boot proceeds, outages end, and the operator acts on what a refusal says. *)
Fairness ==
  /\ WF_vars(Start) /\ WF_vars(Boot) /\ WF_vars(Recover)
  /\ WF_vars(Follow) /\ WF_vars(Apply) /\ SF_vars(Upgrade)

Spec == Init /\ [][Next]_vars /\ Fairness

-----------------------------------------------------------------------------
(* A serving server never meets a catalogue its statements cannot use: a helper that leaks or  *)
(* counts forgotten thoughts, a history that refuses a revision, a capture whose conflict      *)
(* target is gone, a credential column it cannot read.  The checks are made over several       *)
(* queries while an operator may be applying migrations to the same database.                  *)
ServingCatalogueIsWhole ==
  server = "serving" =>
    /\ Has(catalogue, Facts \ {"own workspace", "old register"}) /\ ~Has(catalogue, {"old register"})
    /\ catalogue.index = "live" /\ catalogue.kinds = "five" /\ activated
    /\ \A h \in Helpers : catalogue.helper[h] = "filtered"

(* Every migration can be replayed on whatever the server has stored: no file fails, and stops *)
(* the documented upgrade halfway, because the rows no longer fit the shape it restores.       *)
ReplaysFitTheData == \A m \in Migrations : Has(catalogue, Needs(m)) => Fits(After(m, catalogue))

(* Whatever release the database is from, and whatever is replayed, lost or drifts, doing what *)
(* each refusal says ends with the server serving for good.                                    *)
AdviceConverges == <>[](server = "serving")

(* A refusal that names no migration to apply is due to something the server cannot reach.     *)
RefusalsNameTheirCause == [][server' = "exited" /\ server # "exited" /\ advice' = <<>> => outage # {} \/ server = "hung"]_vars
=============================================================================
