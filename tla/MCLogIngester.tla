--------------------------- MODULE MCLogIngester ---------------------------
(* A small log server for TLC. *)
EXTENDS LogIngester

CONSTANTS funnel, tailnet

OneLog == <<funnel>>

TwoLogs == <<funnel, tailnet>>
=============================================================================
