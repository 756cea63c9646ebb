--------------------------- MODULE MCOpsReadModel ---------------------------
(* A new booking with ticket t1, whose refund may be asked for before it is*)
(* confirmed, and an old one with t2, of which the event store has v0      *)
(* events and whose file is printed while they are replayed.               *)
EXTENDS OpsReadModel

CONSTANTS t1, t2, new, old

MCBookingOf == [t \in Ticket |-> IF t = t1 THEN new ELSE old]

Made(b) == [type |-> "BookingMade", of |-> b]
On(t, type) == [type |-> type, of |-> t]

OldHistory == <<Made(old), On(t2, "TicketBookingConfirmed")>>

AnyLive ==
  {Made(new), On(t1, "TicketBookingConfirmed"), On(t1, "TicketReceiptIssued"),
   On(t1, "TicketRefunded"), On(t2, "TicketPrinted")}

(* One group that looks for a booking, and one of the three that look for a*)
(* ticket and run the same code.                                           *)
OneOfEach == {"OnTicketBookingConfirmed_v1", "OnTicketReceiptIssued_v1"}
=============================================================================
