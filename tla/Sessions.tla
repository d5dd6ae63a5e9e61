------------------------------ MODULE Sessions ------------------------------
(* What a session is, and what calls ask of the session tools.             *)
EXTENDS Naturals

CONSTANTS
    Id,        \* session keys
    Call,      \* calls, one request each
    Audience,  \* workspaces, projects and owners a session may belong to
    Sees,      \* Sees[a]: the audiences of sessions that a call for a can see
    Text,      \* what is embedded: title, goal, summary and resume context
    Branch,
    Status

None == "none"
ASSUME SessionAssumption ==
    /\ Sees \in [Audience -> SUBSET Audience]
    /\ \A a \in Audience : a \in Sees[a]
    /\ None \notin Status /\ "active" \in Status
    /\ Id # {} /\ Id \subseteq Nat /\ None \notin Call

\* by: the call whose fields these are; all that is not embedded or looked at.
Fields == [text : Text, by : Call \cup {None}, branch : Branch, status : Status, audience : Audience]
NoSession == [by |-> "no session"]
Record == [fields : Fields, artifacts : SUBSET (Call \cup {None})]

Request == [op : {"create", "refresh", "status", "get", "branch"}, id : Id,
            text : Text, branch : Branch, status : Status \cup {None}, audience : Audience]

Told(kind) == [kind |-> kind]
Unanswered == Told(None)
Found(fields, artifacts) == [kind |-> "found", fields |-> fields, artifacts |-> artifacts]
Replies == [kind : {None, "done", "error", "not found", "conflict"}]
           \cup [kind : {"found"}, fields : Fields, artifacts : SUBSET (Call \cup {None})]

NewFields(c, request, status) ==
    [text |-> request.text, by |-> c, branch |-> request.branch,
     status |-> status, audience |-> request.audience]

\* A capture without a status makes an active session.
FirstStatus(request) == IF request.status = None THEN "active" ELSE request.status
=============================================================================
