----------------------------- MODULE MCMcpServer -----------------------------
(* One native token, one OAuth subject and two requests.  With every door:  *)
(* a request with both credentials beside the readiness probe, and two by   *)
(* key that fill the audit queue; an OAuth-only server with a machine; a    *)
(* key-only one without audit, whose notification worker wants the          *)
(* connection too.                                                          *)
EXTENDS McpServer

CONSTANTS r1, r2, a1, a2, t1, s1, n1, m1, k1

MCPoolOf == [k \in Client |-> IF k = k1 THEN Audit ELSE Main]
MCTaskOf == [r \in Req |-> IF r = r1 THEN a1 ELSE a2]
MCAttempts == [p \in Borrower |-> IF p \in {a1, a2} THEN 1 ELSE 2]
MCPrincipalOf == [t \in Token |-> n1]

AllDoors == [static |-> TRUE, native |-> TRUE, oauth |-> TRUE, marker |-> TRUE, audit |-> TRUE, notify |-> FALSE]
OAuthOnly == [AllDoors EXCEPT !.static = FALSE, !.native = FALSE, !.marker = FALSE]
KeyOnly == [AllDoors EXCEPT !.oauth = FALSE, !.marker = FALSE, !.audit = FALSE, !.notify = TRUE]

Carrying(key, bearer, tailnet, machine) ==
    [path |-> "mcp", key |-> key, bearer |-> bearer, tailnet |-> tailnet, machine |-> machine]
Ready == [Carrying("none", "none", FALSE, FALSE) EXCEPT !.path = "ready"]

Scenario(s, first, second, token, subject) ==
    [settings |-> s, request |-> [r \in Req |-> IF r = r1 THEN first ELSE second],
     tokens |-> [t \in Token |-> token],
     subjects |-> [u \in Subject |-> [state |-> subject, kind |-> "user"]]]

MCScenarios ==
    {Scenario(AllDoors, Carrying(t1, s1, TRUE, FALSE), Ready, "active", "active"),
     Scenario(AllDoors, Carrying("static", "none", TRUE, FALSE), Carrying(t1, "bad", FALSE, FALSE), "active", "absent"),
     Scenario(OAuthOnly, Carrying("junk", s1, FALSE, TRUE), Carrying("none", s1, FALSE, FALSE), "absent", "absent"),
     Scenario(KeyOnly, Carrying(t1, "none", FALSE, FALSE), Carrying("junk", "none", FALSE, FALSE), "revoked", "absent")}
=============================================================================
