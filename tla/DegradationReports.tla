------------------------- MODULE DegradationReports -------------------------
(***************************************************************************)
(* What operators are promised about degraded classifications: every alert *)
(* event that was recorded is told to them before the store forgets that   *)
(* it owes the alert.  At least once: telling twice is allowed, dropping an*)
(* event that nobody was told of is not.                                   *)
(***************************************************************************)
CONSTANT Event

VARIABLES
  happened,  \* recorded alert events
  told,      \* those some notification channel has received
  retired    \* those no longer owed

reportVars == <<happened, told, retired>>

Init == happened = {} /\ told = {} /\ retired = {}

Happen(events) ==
  /\ happened' = happened \cup events
  /\ UNCHANGED <<told, retired>>

Tell(events) ==
  /\ events \subseteq happened
  /\ told' = told \cup events
  /\ UNCHANGED <<happened, retired>>

Retire(events) ==
  /\ events \subseteq told
  /\ retired' = retired \cup events
  /\ UNCHANGED <<happened, told>>

Next ==
  \E events \in SUBSET Event : Happen(events) \/ Tell(events) \/ Retire(events)

Spec == Init /\ [][Next]_reportVars
=============================================================================
