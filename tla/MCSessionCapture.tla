-------------------------- MODULE MCSessionCapture --------------------------
(* A store with one session of a project, and calls about it, about a key  *)
(* that does not exist, and for the whole workspace.                       *)
EXTENDS SessionCapture, TLC

Symmetric == Permutations(Call)

MCSees == [a \in {"project", "workspace"} |-> IF a = "project" THEN {"project", "workspace"} ELSE {"workspace"}]

MCStores ==
    {[generation |-> 1,
      row |-> [i \in Id |-> IF i # 1 THEN NoRow ELSE
                [fields |-> [text |-> "t1", by |-> None, branch |-> "main",
                             status |-> "blocked", audience |-> a], vec |-> "t1"]]] :
       a \in {"project", "workspace"}}

Ask(op, i, text, status) ==
    [op |-> op, id |-> i, text |-> text, branch |-> "main", status |-> status, audience |-> "project"]

MCRequests ==
    {Ask("create", 1, "t1", None),
     Ask("refresh", 1, "t1", None), Ask("refresh", 1, "t2", "active"),
     Ask("refresh", 2, "t1", None),
     Ask("status", 1, "t1", "active"), Ask("get", 1, "t1", None), Ask("branch", 1, "t1", None)}
=============================================================================
