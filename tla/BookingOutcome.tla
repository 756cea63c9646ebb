--------------------------- MODULE BookingOutcome ---------------------------
(***************************************************************************)
(* What the ticket service promises about the booking of a VIP bundle,     *)
(* whatever is retried, redelivered or crashes underneath: the booking is  *)
(* open until exactly one verdict is given, and the verdict is final.      *)
(*                                                                         *)
(* Bookings implements it (the database transaction and the command        *)
(* handler around it); VipBundle is built on top of it.                    *)
(***************************************************************************)
CONSTANT Booking

VARIABLE outcome

Verdicts == {"made", "refused"}

OutcomeInit == outcome = [b \in Booking |-> "open"]

(* BookingMade_v1 is in the outbox. *)
Make(b) ==
  /\ outcome[b] = "open"
  /\ outcome' = [outcome EXCEPT ![b] = "made"]

(* BookingFailed_v1 has been published. *)
Refuse(b) ==
  /\ outcome[b] = "open"
  /\ outcome' = [outcome EXCEPT ![b] = "refused"]

OutcomeNext == \E b \in Booking : Make(b) \/ Refuse(b)

OutcomeSpec == OutcomeInit /\ [][OutcomeNext]_outcome
=============================================================================
