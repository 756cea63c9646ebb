----------------------------- MODULE MCTickets -----------------------------
(* A ticket that is confirmed and cancelled in one request, which ends with*)
(* an entry of no known status, and whose refund is asked for at any time. *)
EXTENDS Tickets, TLC

CONSTANTS t1, p1, k1

Entry(t, s) == [ticket |-> t, status |-> s]

Posted ==
  p1 :> <<Entry(t1, "confirmed"), Entry(t1, "canceled"), Entry(t1, "invalid")>>

OneRefund == {<<t1, k1>>}

(* Where something goes wrong: a request of Dead Nation, a publication of  *)
(* its handler, and the three groups that call an API before their last    *)
(* step.                                                                   *)
Anything == {"Post", "Publish", "IssueReceipt", "CancelTicket", "RefundTicket"}
=============================================================================
