---------------------------- MODULE MCVipBundle ----------------------------
(* Which handlers may fail half-way, and how large the bookings are. *)
EXTENDS VipBundle

CONSTANTS b1, b2, p1

(* A second run of these handlers is harmless: the commands are idempotent *)
(* (booking id, idempotency key), and the events lead to no new command.   *)
RepeatableHandlers ==
  {"VipBundleInitialized", "BookingFailed", "TaxiBooked",
   "BookShowTickets", "CancelFlightTickets", "RefundTicket"}

(* A second run of these orders or refunds again, under new keys, or counts*)
(* a ticket twice; and the HTTP handler that loses a confirmation.         *)
RepeatingHandlers ==
  (Handlers \ RepeatableHandlers) \cup {"PostTicketsConfirmation"}

OneTicket == [k \in Booking |-> 1]
TwoTickets == [k \in Booking |-> 2]
=============================================================================
