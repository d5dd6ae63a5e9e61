------------------------------ MODULE Surfaces ------------------------------
(***************************************************************************)
(* The two ways in: the MCP tools and the REST routes over the same        *)
(* services.  Each has its own table of what it accepts, one of JSON       *)
(* arguments and one of bodies, query strings and paths, and its own way   *)
(* to tell an outcome.  Arguments are a function from the fields given to  *)
(* values; scope and target are flattened into their fields.               *)
(***************************************************************************)
EXTENDS Audience, SessionFields

CONSTANTS
  MaxContent,   \* MAX_CONTENT_BYTES
  MaxQuery,     \* MAX_SEARCH_QUERY_BYTES
  MaxScopeId    \* MAX_SCOPE_ID_CHARS

ASSUME LimitsAssumption == {MaxContent, MaxQuery, MaxScopeId} \subseteq Nat \ {0}

-----------------------------------------------------------------------------
(* What a field takes.  A value is one of the SessionFields: a text by its *)
(* bytes ("blank" if it is only space), a word by its place in the         *)
(* enumeration, a threshold in hundredths, claims and filters by how many  *)
(* fields they give.                                                       *)

NoBound == -1
Field(types, least, most) ==
  [types |-> types, least |-> least, most |-> most, required |-> FALSE, default |-> Absent]
\* The fields of a shape and those of another that it lacks.
Joined(shape, other) ==
  [f \in DOMAIN shape \cup DOMAIN other |-> IF f \in DOMAIN shape THEN shape[f] ELSE other[f]]
Required(rule) == [rule EXCEPT !.required = TRUE]
Default(rule, type, n) == [rule EXCEPT !.default = Value(type, n)]

AnyText == Field({"text", "blank"}, 0, NoBound)
StoredText == Field({"text", "blank"}, 1, MaxContent)
SearchQuery == Field({"text"}, 1, MaxQuery)
Threshold == Default(Field({"hundredths"}, 0, 100), "hundredths", 50)
Claims == Field({"claims"}, 1, 4)
Filter == Field({"filter"}, 1, 2)
Word(count) == Field({"word"}, 1, count)
Timestamp == Field({"timestamp"}, 1, 1)
Uuid == Field({"uuid"}, 0, NoBound)
Number(least, most) == Field({"integer"}, least, most)
Digits(least, most) == Field({"digits"}, least, most)
ScopeId == Field({"text"}, 1, MaxScopeId)
NullableId == [ScopeId EXCEPT !.types = @ \cup {"null"}]

\* Numbers have been through JSON.parse or z.coerce.
Received(v) == IF v.type \in {"integer", "digits"} THEN Value("integer", JsNumber(v.n)) ELSE v

Fits(rule, v) ==
  /\ v.type \in rule.types
  /\ Received(v).n >= rule.least /\ (rule.most # NoBound => Received(v).n <= rule.most)

\* Every schema is strict: an unknown field is refused, never dropped.
Accepts(shape, args) ==
  /\ DOMAIN args \subseteq DOMAIN shape
  /\ \A f \in DOMAIN shape : IF f \in DOMAIN args THEN Fits(shape[f], args[f]) ELSE ~shape[f].required

Parsed(shape, args) == [f \in DOMAIN shape |-> IF f \in DOMAIN args THEN Received(args[f]) ELSE shape[f].default]

-----------------------------------------------------------------------------
(* The MCP tools. *)

MemoryScope == [workspace_id |-> ScopeId, project_id |-> NullableId, visibility |-> Word(3)]

ThoughtReadShapes ==
  [search          |-> Joined([query |-> Required(SearchQuery)], MemoryScope),
   search_thoughts |-> Joined([query |-> Required(SearchQuery), limit |-> Default(Number(1, 100), "integer", 10),
                               threshold |-> Threshold, filter |-> Filter], MemoryScope),
   list_thoughts   |-> Joined([limit |-> Default(Number(1, 100), "integer", 10), type |-> AnyText, topic |-> AnyText,
                               person |-> AnyText, days |-> Number(1, 3650)], MemoryScope),
   fetch           |-> Joined([id |-> Required(Uuid)], MemoryScope),
   thought_stats   |-> MemoryScope]

MoveTarget ==
  [target_workspace_id |-> Required(ScopeId), target_project_id |-> NullableId,
   target_visibility |-> Required(Word(3))]

\* A project is named exactly for the second visibility.
MoveTargetFits(args) ==
  LET named == "target_project_id" \in DOMAIN args /\ args["target_project_id"].type # "null"
  IN  named <=> args["target_visibility"].n = 2

ThoughtWriteShapes ==
  [capture_thought |-> Joined([content |-> Required(StoredText), provenance |-> Claims], MemoryScope),
   update_thought  |-> Joined([id |-> Required(Uuid), content |-> Required(StoredText)], MemoryScope),
   move_thought    |-> Joined([id |-> Required(Uuid)], Joined(MoveTarget, MemoryScope)),
   forget_thought  |-> Joined([id |-> Required(Uuid)], MemoryScope),
   restore_thought |-> Joined([id |-> Required(Uuid)], MemoryScope)]

SessionShapes ==
  [session_capture |-> [toml_text |-> Required(StoredText)],
   session_lookup  |-> Joined([id |-> Number(1, MaxSafe), branch |-> AnyText], MemoryScope),
   session_search  |-> Joined([query |-> Required(SearchQuery), limit |-> Default(Number(1, 50), "integer", 5),
                               threshold |-> Threshold, status |-> Word(5), repo_url |-> AnyText,
                               tag |-> AnyText], MemoryScope),
   session_list    |-> Joined([status |-> Word(5), repo_url |-> AnyText, branch |-> AnyText, agent |-> AnyText,
                               tag |-> AnyText, linked_issue |-> AnyText, since |-> Timestamp, until |-> Timestamp,
                               order_by |-> Default(Word(4), "word", 1),
                               limit |-> Default(Number(1, 200), "integer", 50)], MemoryScope),
   session_update_status |-> Joined([id |-> Required(Number(1, MaxSafe)), status |-> Required(Word(5))], MemoryScope)]

McpShapes == Joined(ThoughtReadShapes, Joined(ThoughtWriteShapes, SessionShapes))
Tool == DOMAIN McpShapes

\* session_lookup itself refuses a call without a key.
McpAccepts(tool, args) ==
  /\ Accepts(McpShapes[tool], args)
  /\ tool = "move_thought" => MoveTargetFits(args)
  /\ tool = "session_lookup" => "id" \in DOMAIN args \/ ("branch" \in DOMAIN args /\ args["branch"].n > 0)

\* What a service makes of a call: rows or none of them, a record or no such record, or an exception.
Exception == {"validation", "not_found", "conflict", "upstream", "internal"}

FindAnswer(tool, outcome) ==
  IF outcome \in Exception \cup {"missing"} THEN "error"
  ELSE IF tool = "search" THEN "collection"
  ELSE IF tool = "fetch" THEN "record"
  ELSE IF outcome = "empty" THEN "text" ELSE "records"

OverviewAnswer(tool, outcome) ==
  IF outcome \in Exception THEN "error"
  ELSE IF tool = "list_thoughts" /\ outcome # "empty" THEN "records"
  ELSE "text"

ThoughtWriteAnswer(outcome) == IF outcome \in Exception \cup {"missing"} THEN "error" ELSE "text"

SessionAnswer(tool, outcome) ==
  IF outcome \in Exception THEN "error"
  ELSE IF outcome = "missing" THEN IF tool = "session_lookup" THEN "null" ELSE "error"
  ELSE IF tool = "session_lookup" THEN "record"
  ELSE IF tool \in {"session_search", "session_list"} THEN "collection"
  ELSE "text"

McpAnswer(tool, args, outcome) ==
  IF ~McpAccepts(tool, args) THEN "error"
  ELSE IF tool \in {"search", "search_thoughts", "fetch"} THEN FindAnswer(tool, outcome)
  ELSE IF tool \in {"list_thoughts", "thought_stats"} THEN OverviewAnswer(tool, outcome)
  ELSE IF tool \in DOMAIN ThoughtWriteShapes THEN ThoughtWriteAnswer(outcome)
  ELSE SessionAnswer(tool, outcome)

\* The scope in the path that an abridged record names for what it left out.
ScopedRestPath(a) == [workspace |-> a.workspace, project |-> a.project, visibility |-> a.visibility]

-----------------------------------------------------------------------------
(* The REST routes, each named for its tool.  A request has the id of its  *)
(* path and the fields of its body or, as texts, of its query string.      *)

ScopeBody == MemoryScope
ScopeQuery == [workspace_id |-> ScopeId, project_id |-> ScopeId, visibility |-> Word(3)]

\* Seeded fault: the bound of one table was raised and not that of the other.
ListThoughtsQueryOfOneYear ==
  Joined([limit |-> Default(Digits(1, 100), "integer", 10), type |-> AnyText, topic |-> AnyText,
          person |-> AnyText, days |-> Digits(1, 365)], ScopeQuery)

ListThoughtsQuery ==
  Joined([limit |-> Default(Digits(1, 100), "integer", 10), type |-> AnyText, topic |-> AnyText,
          person |-> AnyText, days |-> Digits(1, 3650)], ScopeQuery)

ListSessionsQuery ==
  Joined([status |-> Word(5), repo_url |-> AnyText, branch |-> AnyText, agent |-> AnyText, tag |-> AnyText,
          linked_issue |-> AnyText, since |-> Timestamp, until |-> Timestamp,
          order_by |-> Default(Word(4), "word", 1), limit |-> Default(Digits(1, 200), "integer", 50)], ScopeQuery)

SessionLookupQuery ==
  Joined([id |-> Digits(1, MaxSafe), branch |-> [AnyText EXCEPT !.least = 1]], ScopeQuery)

PathFits(path, id) ==
  CASE path = "none"    -> TRUE
    [] path = "thought" -> Fits(Uuid, id)
    [] path = "session" -> Fits(Digits(1, MaxSafe), id)

Route(path, place, shape) == [path |-> path, place |-> place, shape |-> shape]

ThoughtRoutes ==
  [capture_thought |-> Route("none", "body", ThoughtWriteShapes.capture_thought),
   search_thoughts |-> Route("none", "body", ThoughtReadShapes.search_thoughts),
   thought_stats   |-> Route("none", "query", ScopeQuery),
   list_thoughts   |-> Route("none", "query", ListThoughtsQuery),
   fetch           |-> Route("thought", "query", ScopeQuery),
   update_thought  |-> Route("thought", "body", Joined([content |-> Required(StoredText)], ScopeBody)),
   move_thought    |-> Route("thought", "body", Joined(MoveTarget, ScopeBody)),
   forget_thought  |-> Route("thought", "body", ScopeBody),
   restore_thought |-> Route("thought", "body", ScopeBody)]

SessionRoutes ==
  [session_capture |-> Route("none", "body", SessionShapes.session_capture),
   session_search  |-> Route("none", "body", SessionShapes.session_search),
   session_lookup  |-> Route("none", "query", SessionLookupQuery),
   session_list    |-> Route("none", "query", ListSessionsQuery),
   session_record  |-> Route("session", "query", ScopeQuery),
   session_update_status |-> Route("session", "body", Joined([status |-> Required(Word(5))], ScopeBody))]

Routes == Joined(ThoughtRoutes, SessionRoutes)

RestAccepts(request) ==
  LET route == Routes[request.route]
  IN  /\ PathFits(route.path, request.id)
      /\ request.json \/ route.place = "query"
      /\ Accepts(route.shape, request.fields)
      /\ request.route = "move_thought" => MoveTargetFits(request.fields)
      /\ request.route = "session_lookup" => DOMAIN request.fields \cap {"id", "branch"} # {}

\* onError, and the status a handler chooses.
RestStatus(route, outcome) ==
  IF outcome = "validation" THEN 400
  ELSE IF outcome \in {"missing", "not_found"} THEN 404
  ELSE IF outcome = "conflict" THEN 409
  ELSE IF outcome = "upstream" THEN 502
  ELSE IF outcome = "internal" THEN 500
  ELSE IF route = "capture_thought" \/ outcome = "created" THEN 201
  ELSE 200

\* The middleware in its order: the doors, the cap of a body, then the routes.
RestAnswer(request, outcome) ==
  IF ~request.authenticated THEN 401
  ELSE IF request.large THEN 413
  ELSE IF request.route \notin DOMAIN Routes THEN 404
  ELSE IF ~RestAccepts(request) THEN 400
  ELSE RestStatus(request.route, outcome)

-----------------------------------------------------------------------------
(* What may be expected of the two. *)

\* The request a client sends for the arguments of a tool.
AsText(v) == IF v.type = "integer" THEN Value("digits", v.n) ELSE v

\* The reduced search of restricted clients is a search with every default.
RouteOf(tool) == IF tool = "search" THEN "search_thoughts" ELSE tool

Encoded(route, args) ==
  LET inPath == IF Routes[route].path = "none" THEN {} ELSE {"id"}
      text(v) == IF Routes[route].place = "query" THEN AsText(v) ELSE v
  IN  [route |-> route, authenticated |-> TRUE, large |-> FALSE, json |-> TRUE,
       id |-> IF inPath \cap DOMAIN args = {} THEN Absent ELSE AsText(args["id"]),
       fields |-> [f \in DOMAIN args \ inPath |-> text(args[f])]]

\* A query string has no null, and takes no empty branch.
Expressible(tool, args) ==
  /\ Routes[RouteOf(tool)].place = "query" => \A f \in DOMAIN args : args[f].type # "null"
  /\ tool = "session_lookup" /\ "branch" \in DOMAIN args => args["branch"].n > 0

\* Both ways take the same arguments, hand the same values and defaults to the service, and call the same
\* outcomes failures, save that a lookup that finds nothing is no error of the tool.
TransportsAgree(tool, args, outcome) ==
  LET request == Encoded(RouteOf(tool), args)
      accepted == McpAccepts(tool, args)
      byRest == Parsed(Routes[request.route].shape, request.fields)
      byMcp == Parsed(McpShapes[tool], args)
  IN  Expressible(tool, args) =>
        /\ accepted <=> RestAccepts(request)
        /\ accepted => \A f \in DOMAIN byMcp : byMcp[f] = IF f \in DOMAIN byRest THEN byRest[f] ELSE Received(request.id)
        /\ McpAnswer(tool, args, outcome) = "error" <=> /\ RestAnswer(request, outcome) >= 400
                                                        /\ ~(accepted /\ tool = "session_lookup" /\ outcome = "missing")

\* Without credentials every request, whatever it asks for, gets the same answer.
StrangersLearnNothing(request, outcome) == RestAnswer([request EXCEPT !.authenticated = FALSE], outcome) = 401

\* The path an abridged answer names finds the same row again for the same caller (scopedRestPath).
RecoveryFindsTheRecord(input, principal, a) ==
  LET path == ScopedRestPath(a)
  IN  (~ReadScopeRefused(input, principal) /\ AudienceMatches(ResolveReadScope(input, principal), a)) =>
        ~ReadScopeRefused(path, principal) /\ AudienceMatches(ResolveReadScope(path, principal), a)

\* A move whose target both the schema and the scope accept lands in the audience it names, the caller's
\* own if that is personal.
MoveLandsWhereNamed(target, principal) ==
  LET a == WriteAudience(target, principal)
  IN  (/\ target.visibility # None /\ (target.project # None <=> target.visibility = "project")
       /\ ~WriteScopeRefused(target, principal)) =>
        /\ WellShaped(a) /\ a.workspace = target.workspace /\ a.project = target.project
        /\ a.visibility = target.visibility
        /\ a.owner = IF target.visibility = "personal" THEN principal ELSE None
=============================================================================
