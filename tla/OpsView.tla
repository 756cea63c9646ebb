------------------------------ MODULE OpsView ------------------------------
(***************************************************************************)
(* What the operations team may rely on when it looks at the bookings: what*)
(* is shown has happened, it comes into view once, one event at a time and *)
(* each after the one it builds on, and never leaves the view again.       *)
(***************************************************************************)
CONSTANTS
  Event,
  Old,        \* those that happened before the rest
  BuildsOn    \* what must be in view before each event is

VARIABLES happened, shown

ViewInit ==
  /\ happened = Old
  /\ shown = {}

Happen(e) ==
  /\ happened' = happened \cup {e}
  /\ UNCHANGED shown

Show(e) ==
  /\ e \in happened \ shown
  /\ BuildsOn[e] \subseteq shown
  /\ shown' = shown \cup {e}
  /\ UNCHANGED happened

ViewNext ==
  \E e \in Event : Happen(e) \/ Show(e)

ViewSpec == ViewInit /\ [][ViewNext]_<<happened, shown>>
=============================================================================
