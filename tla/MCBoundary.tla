----------------------------- MODULE MCBoundary -----------------------------
(***************************************************************************)
(* The edges of the server over bounded inputs: a document is read symbol  *)
(* by symbol, or one call is made of an operator of the boundary modules   *)
(* with one of the inputs of its action, and there the behaviour ends.     *)
(***************************************************************************)
EXTENDS SessionDocument, ToolResults, Search, Settings, Outbound, Surfaces

CONSTANTS w1, w2, p1, p2, alice, bob

Defaults == (w1 :> "workspace") @@ (w2 :> "personal")
Projects == (w1 :> {p1, p2}) @@ (w2 :> {p1})

VARIABLE call   \* the operator asked and its arguments

vars == <<documentVars, call>>

UpTo(S, n) == UNION {[1..k -> S] : k \in 0..n}
\* Functions from some of the keys.
Partial(keys, S) == UNION {[some -> S] : some \in SUBSET keys}
NoFields == [key \in {} |-> 0]
One(key, v) == [k \in {key} |-> v]

Init == ScanInit /\ call = [fn |-> "none"]

Idle == call.fn = "none" /\ UNCHANGED documentVars

-----------------------------------------------------------------------------
(* Session documents. *)

Begin == Idle /\ call' = [fn |-> "document"]
ReadOn == call.fn = "document" /\ ScanDocument /\ UNCHANGED call

Written == {Value(type, n) : type \in {"string", "padded", "digits", "integer", "strings", "mixed"},
                             n \in {0, 1, 2, 4, 6, MaxSafe, MaxSafe + 1, MaxSafe + 2}}
AskFields ==
  Idle /\ \E key \in SessionKey \cup {"misspelt"}, v \in Written, titled \in BOOLEAN :
    call' = [fn |-> "fields", doc |-> Joined(One(key, v), IF titled THEN One("title", Value("string", 1)) ELSE NoFields)]

Entry == Partial(ArtifactKey \cup {"misspelt"}, {Value("string", 0), Value("string", 1), Value("integer", 1)})
Sound == [kind |-> Value("string", 1), title |-> Value("string", 2)]
AskArtifacts ==
  Idle /\ \E entry \in Entry, entries \in {<<>>, <<Sound>>} :
    \E list \in {<<entry>> \o entries, entries \o <<entry>>} : call' = [fn |-> "artifacts", entries |-> list]

Instant == [date : [year : {1, 1900, 2000, 2023, 2024, 9999, 10000}, month : {0, 1, 2, 4, 12, 13},
                    day : {0, 1, 28, 29, 30, 31, 32}],
            minute : {0, 720, 1439, 1440}, offset : {-960, -959, 0, 120, 959}]
AskInstant == Idle /\ \E t \in Instant : call' = [fn |-> "instant", t |-> t]

AskSources ==
  Idle /\ \E a, b \in [1..4 -> UpTo({1, 2}, 1)] : call' = [fn |-> "sources", a |-> a, b |-> b]

\* NothingAuthoredIsLost, ArtifactsAreKept, DaysAreKept, SourcesDiffer: what session_capture stores is what
\* the document says or the document is refused (session_toml.ts), and a date is one of the calendar.
DocumentsAreReadAsWritten ==
  /\ call.fn = "document"  => CalendarDatesOnly
  /\ call.fn = "fields"    => NothingAuthoredIsLost(call.doc)
  /\ call.fn = "artifacts" => ArtifactsAreKept(call.entries)
  /\ call.fn = "instant"   => DaysAreKept(call.t)
  /\ call.fn = "sources"   => SourcesDiffer(call.a, call.b)

-----------------------------------------------------------------------------
(* Tool results and searches. *)

AskText == Idle /\ \E text \in UpTo(Unit, 6) : call' = [fn |-> "text", text |-> text]

AskRecords ==
  Idle /\ \E records \in UpTo([body : {1, 5, 9}, id : {1, 8}], 4) : call' = [fn |-> "records", records |-> records]

AskRecord ==
  Idle /\ \E record \in [1..3 -> {1, 3, 6, 12}], given \in UpTo([field : 1..4, to : {0, 2}], 2), identity \in {{}, {1}} :
    call' = [fn |-> "record", record |-> record, given |-> given, identity |-> identity]

Claimed == [none |-> NoFields, good |-> [author |-> 1, branch |-> 1], other |-> [author |-> 2],
            excluded |-> [author |-> 1, repo |-> 1]]
ThoughtFilter == [include |-> [author |-> 1], exclude |-> [repo |-> 1, agent |-> 1]]
Thought(id, visible, forgotten, claims, hit) ==
  [visible |-> visible, forgotten |-> forgotten, claims |-> Claimed[claims],
   similarity |-> hit[1], match |-> hit[2], score |-> hit[3], created |-> id]
Hit == {<<s, m, k>> : s \in {1, 2, 3}, m \in {"text", "literal"}, k \in {1, 2}} \cup {<<s, "none", 0>> : s \in 1..3}
AskSearch ==
  Idle /\ \E hit \in [1..3 -> Hit], limit \in 1..3 :
    call' = [fn |-> "search", rows |-> [id \in 1..3 |-> Thought(id, TRUE, FALSE, "good", hit[id])],
         q |-> [filter |-> ThoughtFilter, threshold |-> 2, limit |-> limit]]
AskFilteredSearch ==
  Idle /\ \E seen \in [1..3 -> {<<FALSE, FALSE, "good">>, <<TRUE, TRUE, "good">>, <<TRUE, FALSE, "none">>,
                        <<TRUE, FALSE, "good">>, <<TRUE, FALSE, "other">>, <<TRUE, FALSE, "excluded">>}],
     hit \in {<<3, "none", 0>>, <<1, "text", 1>>}, limit \in 1..3 :
    call' = [fn |-> "search", rows |-> [id \in 1..3 |-> Thought(id, seen[id][1], seen[id][2], seen[id][3], hit)],
         q |-> [filter |-> ThoughtFilter, threshold |-> 2, limit |-> limit]]

AskSessionSearch ==
  Idle /\ \E rows \in [1..3 -> [visible : BOOLEAN, similarity : 1..3]], scanned \in SUBSET (1..3), limit \in 1..3,
     contract \in BOOLEAN :
    call' = [fn |-> "session search", rows |-> rows, scanned |-> scanned,
         q |-> [limit |-> limit, threshold |-> 2, contract |-> contract]]

SessionRow == [visible : {TRUE}, branch : {1, 2}, authored : {0, 2, 4}, updated : {1, 3},
               started : {0}, created : {1}, title : {1}]
\* Columns of other orders, with a start that may be missing.
OtherRow == [visible : BOOLEAN, branch : {1}, authored : {2}, updated : {1}, started : {0, 2}, created : {1, 2},
             title : {1, 2}]
AskList ==
  Idle /\ \E rows \in [1..3 -> SessionRow], bounds \in {<<0, 0>>, <<2, 0>>, <<0, 2>>}, branch \in {0, 1} :
    call' = [fn |-> "list", rows |-> rows, q |-> [branch |-> branch, orderBy |-> "last_update", since |-> bounds[1],
                                              until |-> bounds[2], limit |-> 0]]
AskOrder ==
  Idle /\ \E rows \in [1..2 -> OtherRow], orderBy \in {"started_at", "created_at", "title", "anything"}, limit \in 0..4 :
    call' = [fn |-> "list", rows |-> rows, q |-> [branch |-> 1, orderBy |-> orderBy, since |-> 0, until |-> 0,
                                              limit |-> limit]]

\* An answer is cut where it must be and nowhere else, and says what it left out (mcp_result.ts); a search
\* finds what the lists of the same audience show, in the order of both legs (queries.ts), and is not
\* silently short (session_queries.ts).
AnswersAreFaithful ==
  /\ call.fn = "text"           => TextIsLongestThatFits(call.text)
  /\ call.fn = "records"        => EveryRecordIsAccountedFor(call.records)
  /\ call.fn = "record"         => NoFieldIsOmittedInVain(call.record, call.given, call.identity)
  /\ call.fn = "search"         => /\ RanksAreRespected(call.rows, call.q)
                                   /\ TextWinsTies(call.rows, call.q)
                                   /\ SearchAgreesWithList(call.rows, call.q)
                                   /\ FiltersCompose(call.rows, call.q.filter)
  /\ call.fn = "session search" => NeverSilentlyShort(call.rows, call.scanned, call.q)
  /\ call.fn = "list"           => ListsAgree(call.rows, call.q)
-----------------------------------------------------------------------------
(* The two transports. *)

\* The values around each bound, and others that a schema must refuse.
Probe ==
  {Value("integer", n) : n \in {-1, 0, 1, 50, 51, 100, 101, 200, 201, 3650, 3651, MaxSafe, MaxSafe + 1}}
  \cup {Value("text", n) : n \in {0, 1, MaxScopeId, MaxScopeId + 1, MaxQuery, MaxQuery + 1, MaxContent, MaxContent + 1}}
  \cup {Value("word", n) : n \in 1..6} \cup {Value("hundredths", n) : n \in {-1, 0, 100, 101}}
  \cup {Value("claims", n) : n \in {0, 1, 4}} \cup {Value("filter", n) : n \in 0..2}
  \cup {Value("timestamp", n) : n \in 0..1}
  \cup {Value(type, 1) : type \in {"uuid", "blank", "null", "fraction", "misspelt"}}

\* What a caller may send for a field: values of its type, or some that are of none.
Sent(rule) ==
  {v \in Probe : v.type \in rule.types \cup {"misspelt", "null"} \cup (IF "integer" \in rule.types THEN {"fraction"} ELSE {})}

Good(rule) == Value(CHOOSE type \in rule.types : type \notin {"null", "blank"}, IF rule.least > 0 THEN rule.least ELSE 1)
Least(tool) == [f \in {f \in DOMAIN McpShapes[tool] : McpShapes[tool][f].required} |-> Good(McpShapes[tool][f])]

\* The required fields, with a sound or an unsound value for some field.
Single(tool) ==
  {Least(tool)} \cup {Joined(One("misspelt", Value("text", 1)), Least(tool))}
  \cup {Joined(One(f, v), Least(tool)) : f \in DOMAIN McpShapes[tool], v \in Probe}
Suited(tool, args) ==
  \A f \in DOMAIN args : f = "misspelt" \/ args[f] \in Sent(McpShapes[tool][f])

Outcome == Exception \cup {"rows", "empty", "missing", "done", "created"}
\* A list is never missing, and only a lookup finds no record.
Rows == {"search", "search_thoughts", "list_thoughts", "thought_stats", "session_search", "session_list"}
OutcomeOf(tool) == Outcome \ (IF tool \in Rows THEN {"missing", "done", "created"} ELSE {"rows", "empty"})
AskBoth ==
  Idle /\ \E tool \in Tool : \E args \in {a \in Single(tool) : Suited(tool, a)} :
    \E outcome \in OutcomeOf(tool) \cap (IF args = Least(tool) THEN Outcome ELSE {"done", "missing", "rows"}) :
      call' = [fn |-> "both", tool |-> tool, args |-> args, outcome |-> outcome]

\* Two fields that a schema reads together.
Together ==
  {<<"move_thought", "target_project_id", "target_visibility">>, <<"session_lookup", "id", "branch">>}
AskTogether ==
  Idle /\ \E pair \in Together : \E x \in Sent(McpShapes[pair[1]][pair[2]]), y \in Sent(McpShapes[pair[1]][pair[3]]) :
    call' = [fn |-> "both", tool |-> pair[1], outcome |-> "done",
         args |-> Joined(One(pair[2], x), Joined(One(pair[3], y), Least(pair[1])))]

AskRest ==
  Idle /\ \E route \in DOMAIN Routes \cup {"no such"}, large, json \in BOOLEAN, outcome \in Outcome :
    call' = [fn |-> "rest", outcome |-> outcome,
         request |-> [route |-> route, authenticated |-> TRUE, large |-> large, json |-> json, id |-> Absent,
                      fields |-> NoFields]]

Stored == UNION {WriteAudiences(p) : p \in Principal}
AskRecovery ==
  Idle /\ \E input \in RequestSet, p \in Principal \cup {None}, a \in Stored :
    call' = [fn |-> "recovery", input |-> input, principal |-> p, a |-> a]
AskMove ==
  Idle /\ \E input \in RequestSet, p \in Principal \cup {None} : call' = [fn |-> "move", input |-> input, principal |-> p]

\* The tools and the routes take the same calls, mean the same by them and tell the same outcomes (schemas.ts,
\* api.ts, mcp-server.ts); the path of an abridged record leads to it, and a move ends where it was sent.
SurfacesAgree ==
  /\ call.fn = "both"     => TransportsAgree(call.tool, call.args, call.outcome)
  /\ call.fn = "rest"     => StrangersLearnNothing(call.request, call.outcome)
  /\ call.fn = "recovery" => RecoveryFindsTheRecord(call.input, call.principal, call.a)
  /\ call.fn = "move"     => MoveLandsWhereNamed(call.input, call.principal)

-----------------------------------------------------------------------------
(* Settings and requests to the model servers. *)

Subjects == {<<>>, <<"a">>, <<"a", "a">>, <<"a", "blank">>, <<"a", "b">>, <<"a", "b", "c">>, <<"control">>, <<"c1">>}
AskDoors ==
  Idle /\ \E env \in [key : {"blank", "short", "long"}, principal : {"blank", "set", "long"},
               native : {"blank", "true", "false", "yes"}, auth0 : [TrustRoot -> {"blank", "https", "other"}],
               allowed : Subjects, services : {<<>>, <<"a">>, <<"blank">>}] :
    call' = [fn |-> "doors", env |-> env]

Ntfy == {[topic |-> TRUE, url |-> "blank", token |-> "bearer"], [topic |-> FALSE, url |-> "plain", token |-> "blank"],
         [topic |-> TRUE, url |-> "other", token |-> "blank"], [topic |-> TRUE, url |-> "plain", token |-> "other"]}
AskMetadata ==
  Idle /\ \E env \in [primary : {"blank", "true", "false", "yes"}, chat : [base : {TRUE}, model : BOOLEAN],
               fallback : [base : BOOLEAN, model : {TRUE}], policy : {"blank", "off", "alert", "allow", "Allow"},
               channels : {<<>>, <<"pushover">>, <<"ntfy">>, <<"blank", "ntfy", "pushover">>, <<"ntfy", "ntfy">>,
                           <<"sms">>, <<"blank">>},
               pushover : [app : BOOLEAN, user : {TRUE}], ntfy : Ntfy] :
    call' = [fn |-> "metadata", env |-> env]

AskNumber ==
  Idle /\ \E raw \in [class : {"blank", "digits", "text"}, n : 0..4], fallback \in {1, 3} :
    call' = [fn |-> "number", raw |-> raw, fallback |-> fallback]

Exchange == [fires : 0..2, fails : 0..2, ok : BOOLEAN, body : Body, content : Content]
Fallbacks == {x \in Exchange : x.fails = 0 /\ x.body \in {"text", "json"}}
AskClassifier ==
  Idle /\ \E setup \in [primary : BOOLEAN, fallback : BOOLEAN], x \in Exchange, y \in Fallbacks :
    call' = [fn |-> "classifier", setup |-> setup, primary |-> x, fallback |-> y]

Vector == {[length |-> Dimension, finite |-> TRUE, zero |-> FALSE], [length |-> Dimension - 1, finite |-> TRUE, zero |-> FALSE],
           [length |-> Dimension, finite |-> FALSE, zero |-> FALSE], [length |-> Dimension, finite |-> TRUE, zero |-> TRUE]}
AskEmbedder ==
  Idle /\ \E x \in [left : {0, 1}, status : {200, 400, 500}, vectors : UpTo(Vector, 2), fires : 0..2, fails : 0..2, body : Body],
     inFlight \in {0, InFlightMost} :
    call' = [fn |-> "embedder", x |-> x, inFlight |-> inFlight]

\* The settings of an operator decide which doors are open and which model server may see a text (config.ts,
\* metadata.ts); nothing late, cut or malformed from such a server is used (bounded_fetch.ts, embeddings.ts).
OperatorsChoicesHold ==
  /\ call.fn = "doors"      => DoorsMeanWhatTheySay(call.env)
  /\ call.fn = "metadata"   => FallbackIsAsked(call.env)
  /\ call.fn = "number"     => NumberIsAsWritten(call.raw, call.fallback, 3)
  /\ call.fn = "classifier" => /\ LateAnswersAreNotUsed(call.primary)
                               /\ DegradationIsTold(call.setup, call.primary, call.fallback)
  /\ call.fn = "embedder"   => OnlySoundVectors(call.x, call.inFlight)

-----------------------------------------------------------------------------

Next ==
  \/ Begin \/ ReadOn \/ AskFields \/ AskArtifacts \/ AskInstant \/ AskSources
  \/ AskText \/ AskRecords \/ AskRecord \/ AskSearch \/ AskFilteredSearch \/ AskSessionSearch \/ AskList \/ AskOrder
  \/ AskBoth \/ AskTogether \/ AskRest \/ AskRecovery \/ AskMove
  \/ AskDoors \/ AskMetadata \/ AskNumber \/ AskClassifier \/ AskEmbedder

Spec == Init /\ [][Next]_vars
=============================================================================
