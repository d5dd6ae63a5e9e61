----------------------------- MODULE Credentials -----------------------------
(***************************************************************************)
(* Who a request says it is, and whom the credential tables let in         *)
(* (auth.ts, access_tokens.ts, oauth_subjects.ts, auth_context.ts).        *)
(***************************************************************************)
EXTENDS Naturals, FiniteSets

CONSTANTS
    Token,      \* native tokens, by their digest
    Principal,  \* PrincipalOf a token: a native principal, or Nobody
    PrincipalOf,
    Subject,    \* subjects of OAuth bearer tokens
    Nobody      \* null

ASSUME CredentialAssumption ==
    /\ PrincipalOf \in [Token -> Principal \cup {Nobody}]
    /\ Nobody \notin Token \cup Principal \cup Subject
    /\ Principal \cap Subject = {}
    /\ Token \cap {"none", "static", "junk"} = {} /\ Subject \cap {"none", "bad"} = {}

\* A row of native_auth.access_token or oauth_auth.allowed_subject; a token
\* needs no kind.
States == {"absent", "active", "revoked"}
Kinds == {"user", "service"}
TokenTable == [Token -> States]
SubjectTable == [Subject -> [state : States, kind : Kinds]]

\* key, bearer: what the two headers carry; tailnet: the trusted marker of the
\* private proxy route; machine: the claim gty = client-credentials.
Request == [path : {"mcp", "ready"}, key : {"none", "static", "junk"} \cup Token,
            bearer : {"none", "bad"} \cup Subject, tailnet : BOOLEAN, machine : BOOLEAN]

\* The settings of one deployment; config.ts refuses one without any door.
Settings == [static : BOOLEAN, native : BOOLEAN, oauth : BOOLEAN,
             marker : BOOLEAN, audit : BOOLEAN, notify : BOOLEAN]
HasDoor(s) == s.static \/ s.native \/ s.oauth

\* The verified identity of an admitted request.
Context(door, sub, label) == [door |-> door, sub |-> sub, label |-> label]
NoContext == Context("none", Nobody, Nobody)
Contexts ==
    [door : {"none", "tailnet", "funnel", "service"},
     sub : Principal \cup Subject \cup {Nobody}, label : Token \cup {Nobody}]

StaticContext == Context("tailnet", Nobody, Nobody)
TokenContext(t) == Context("tailnet", PrincipalOf[t], t)

\* oauthDoorFor: the token's own claim or the table's kind make a machine.
SubjectContext(s, kind, machine) ==
    Context(IF machine \/ kind = "service" THEN "service" ELSE "funnel", s, Nobody)

\* authContextFromValues, the second check of what the middleware set.
SoundContext(x) ==
    \/ x.door = "tailnet" /\ (IF x.label = Nobody THEN x.sub = Nobody ELSE x.sub \in Principal \cup {Nobody})
    \/ x.door \in {"funnel", "service"} /\ x.label = Nobody /\ x.sub \in Subject

\* A key counts only on the route it may come by.
KeyOf(settings, request) ==
    IF settings.marker /\ ~request.tailnet THEN "none" ELSE request.key

\* Seeded fault: a lookup that forgets revoked_at.
KnownToken(table, t) == table[t] # "absent"

\* authenticateAccessToken: the digest matches a row that is not revoked.
TokenAdmitted(table, t) == table[t] = "active"
\* lookupOAuthSubject
SubjectAdmitted(table, s) == table[s].state = "active"

\* The reason of a refusal, for the audit alone: the most specific one wins.
Reason(keyTried, bearerTried, disallowed, unavailable) ==
    CASE disallowed -> "subject_not_allowed"
      [] ~disallowed /\ unavailable -> "admission_unavailable"
      [] OTHER -> IF keyTried /\ bearerTried THEN "invalid_credentials"
                  ELSE IF keyTried THEN "invalid_brain_key"
                  ELSE IF bearerTried THEN "token_validation_failed"
                  ELSE "missing_credentials"
Reasons == {"subject_not_allowed", "admission_unavailable", "invalid_credentials",
            "invalid_brain_key", "token_validation_failed", "missing_credentials"}

\* A row of mcp_auth_events: an admission with its identity, or a refusal with
\* its reason, and with a subject only if that was verified and refused.
Allowed(x) == [outcome |-> "allowed", reason |-> "none", door |-> x.door,
               subject |-> IF x.door = "tailnet" THEN Nobody ELSE x.sub, label |-> x.label]
Denied(reason, subject) == [outcome |-> "denied", reason |-> reason, door |-> "none",
                            subject |-> subject, label |-> Nobody]
NoEvent == [outcome |-> "none", reason |-> "none", door |-> "none", subject |-> Nobody, label |-> Nobody]
Events == [outcome : {"none", "allowed", "denied"}, reason : Reasons \cup {"none"},
           door : {"none", "tailnet", "funnel", "service"},
           subject : Subject \cup {Nobody}, label : Token \cup {Nobody}]

-----------------------------------------------------------------------------
\* What the operator's tools do to the tables: token-admin create and revoke,
\* subject-admin allow, revoke and import-env; import seeds an empty table only.
CreateToken(table, t) == [table EXCEPT ![t] = IF @ = "absent" THEN "active" ELSE @]
RevokeToken(table, t) == [table EXCEPT ![t] = IF @ = "active" THEN "revoked" ELSE @]
AllowSubject(table, s, kind) == [table EXCEPT ![s] = [state |-> "active", kind |-> kind]]
RevokeSubject(table, s) == [table EXCEPT ![s].state = IF @ = "active" THEN "revoked" ELSE @]
ImportSubjects(table, allowed, services) ==
    IF \E s \in Subject : table[s].state # "absent" THEN table
    ELSE [s \in Subject |->
            IF s \in allowed THEN [state |-> "active", kind |-> IF s \in services THEN "service" ELSE "user"]
            ELSE table[s]]

\* The identities the rows stand for at the moment.
LiveContexts(tokens, subjects) ==
    {TokenContext(t) : t \in {u \in Token : tokens[u] = "active"}}
      \cup {SubjectContext(s, subjects[s].kind, m) :
              s \in {u \in Subject : subjects[u].state = "active"}, m \in BOOLEAN}
=============================================================================
