------------------------------ MODULE Audience ------------------------------
(***************************************************************************)
(* Who may see and write what.  A stored thought or session lives in one   *)
(* exact audience; a request carries a scope resolved by the server from   *)
(* the caller's verified principal and the requested workspace, project    *)
(* and visibility.  Pure definitions: server/scope.ts resolves scopes,     *)
(* db/06-spaces.sql compares them with rows.                               *)
(***************************************************************************)
CONSTANTS
  Workspace,          \* registered workspace ids
  PersonalOnly,       \* workspaces that accept personal rows only
  DefaultVisibility,  \* of each workspace, for writes that name none
  Project,            \* project ids
  ProjectsOf,         \* the projects registered in each workspace
  Principal,          \* verified subjects
  None                \* SQL NULL: no project, no owner, no principal

Visibility == {"personal", "project", "workspace"}

\* The registry's constraints: workspace_personal_default and the foreign key
\* of memory_scope.project.
ASSUME RegistryAssumption ==
  /\ PersonalOnly \subseteq Workspace
  /\ DefaultVisibility \in [Workspace -> Visibility]
  /\ \A w \in PersonalOnly : DefaultVisibility[w] = "personal"
  /\ ProjectsOf \in [Workspace -> SUBSET Project]
  /\ None \notin Project \cup Principal \cup Visibility

\* The CHECK constraint thoughts_audience_shape: a personal row has an owner
\* and no project, a project row a project and no owner, a workspace row
\* neither.
WellShaped(a) ==
  \/ a.visibility = "personal"  /\ a.project = None  /\ a.owner # None
  \/ a.visibility = "project"   /\ a.project # None  /\ a.owner = None
  \/ a.visibility = "workspace" /\ a.project = None  /\ a.owner = None

AnyAudience == [workspace : Workspace, project : Project \cup {None},
                visibility : Visibility, owner : Principal \cup {None}]

AudienceSet == {a \in AnyAudience : WellShaped(a)}

ScopeSet == [workspace : Workspace, project : Project \cup {None},
             visibilities : SUBSET Visibility, principal : Principal \cup {None}]

\* memory_scope.audience_matches: the predicate of every RLS policy and of
\* every SECURITY DEFINER function, over the transaction-local settings.
AudienceMatches(scope, a) ==
  /\ a.workspace = scope.workspace
  /\ a.visibility \in scope.visibilities
  /\ \/ a.visibility = "personal" /\ scope.principal # None /\ a.owner = scope.principal
     \/ a.visibility = "project"  /\ scope.project # None   /\ a.project = scope.project
     \/ a.visibility = "workspace"

\* What a caller submits: [workspace, project, visibility], the last two
\* possibly None.
RequestSet == [workspace : Workspace, project : Project \cup {None},
               visibility : Visibility \cup {None}]

\* lookupWorkspace refuses a project the workspace does not register.
UnknownProject(input) ==
  input.project \notin ProjectsOf[input.workspace] \cup {None}

\* The refusals resolveReadScope raises as a ValidationError.
ReadScopeRefused(input, principal) ==
  \/ UnknownProject(input)
  \/ input.visibility = "personal" /\ principal = None
  \/ input.visibility = "project" /\ input.project = None
  \/ /\ input.workspace \in PersonalOnly
     /\ input.visibility \notin {None, "personal"}
  \/ /\ input.workspace \in PersonalOnly
     /\ input.visibility = None
     /\ principal = None

ReadVisibilities(input, principal) ==
  IF input.visibility # None THEN {input.visibility}
  ELSE IF input.workspace \in PersonalOnly THEN {"personal"}
  ELSE {"workspace"}
       \cup (IF principal # None THEN {"personal"} ELSE {})
       \cup (IF input.project # None THEN {"project"} ELSE {})

ResolveReadScope(input, principal) ==
  [workspace |-> input.workspace, project |-> input.project,
   visibilities |-> ReadVisibilities(input, principal), principal |-> principal]

\* resolveWriteScope resolves an omitted visibility to "project" when a
\* project is named and to the workspace's default otherwise.
WriteVisibility(input) ==
  IF input.visibility # None THEN input.visibility
  ELSE IF input.project # None THEN "project"
  ELSE DefaultVisibility[input.workspace]

WriteScopeRefused(input, principal) ==
  \/ UnknownProject(input)
  \/ input.workspace \in PersonalOnly /\ WriteVisibility(input) # "personal"
  \/ WriteVisibility(input) = "project" /\ input.project = None
  \/ WriteVisibility(input) = "personal" /\ principal = None

\* The one audience a write lands in; its project is kept only for project
\* visibility and its owner is the verified principal.
WriteAudience(input, principal) ==
  [workspace  |-> input.workspace,
   project    |-> IF WriteVisibility(input) = "project" THEN input.project ELSE None,
   visibility |-> WriteVisibility(input),
   owner      |-> IF WriteVisibility(input) = "personal" THEN principal ELSE None]

\* The scope installed while writing into an audience sees that audience and
\* no other visibility.
WriteScope(input, principal) ==
  LET a == WriteAudience(input, principal)
  IN  [workspace |-> a.workspace, project |-> a.project,
       visibilities |-> {a.visibility}, principal |-> principal]

ReadScopes(principal) ==
  {ResolveReadScope(input, principal) :
     input \in {i \in RequestSet : ~ReadScopeRefused(i, principal)}}

WriteAudiences(principal) ==
  {WriteAudience(input, principal) :
     input \in {i \in RequestSet : ~WriteScopeRefused(i, principal)}}
=============================================================================
