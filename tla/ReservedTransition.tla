------------------------- MODULE ReservedTransition -------------------------
(***************************************************************************)
(* What the effect journal promises about one run and its issue, without   *)
(* saying how: the tracker never shows a status that was not reserved, a   *)
(* status is stored only under its reservation or as a pause, and a        *)
(* reservation is acknowledged only when both sides have it.  After a      *)
(* person abandons a reservation the two sides are theirs to repair.       *)
(***************************************************************************)
CONSTANTS
  Statuses,    \* the statuses of a run
  Label(_),    \* the issue label that shows a status
  NoIntent     \* nothing is reserved

VARIABLES
  stored,      \* the status in the operational store
  shown,       \* the factory-owned label of the issue
  intent,      \* the reserved status, or NoIntent
  abandoned    \* a person abandoned a reservation

vars == <<stored, shown, intent, abandoned>>

Init ==
  /\ stored = "active" /\ shown = "agent-ready"
  /\ intent = NoIntent /\ abandoned = FALSE

\* A reservation is made, or refreshed before anything was acknowledged.
Reserve ==
  /\ intent' \in Statuses
  /\ UNCHANGED <<stored, shown, abandoned>>

Show ==
  /\ intent # NoIntent
  /\ shown' = Label(intent)
  /\ UNCHANGED <<stored, intent, abandoned>>

Store ==
  /\ intent # NoIntent
  /\ stored' = intent
  /\ UNCHANGED <<shown, intent, abandoned>>

Acknowledge ==
  /\ intent # NoIntent
  /\ stored = intent /\ shown = Label(intent)
  /\ intent' = NoIntent
  /\ UNCHANGED <<stored, shown, abandoned>>

\* A discrepancy that cannot be published is recorded as a pause.
PauseInStore ==
  /\ intent = NoIntent
  /\ stored' = "waiting_for_human"
  /\ UNCHANGED <<shown, intent, abandoned>>

Abandon == abandoned' = TRUE

Next == Reserve \/ Show \/ Store \/ Acknowledge \/ PauseInStore \/ Abandon

Spec == Init /\ [][Next]_vars
=============================================================================
