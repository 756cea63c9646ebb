--------------------------- MODULE MCPoisonQueue ---------------------------
(* Which orders there are, and what may go wrong. *)
EXTENDS PoisonQueue

CONSTANTS m1, m2, m3, none

Anything == {"crash", "service", "publish", "timeout"}
=============================================================================
