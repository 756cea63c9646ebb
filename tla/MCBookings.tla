----------------------------- MODULE MCBookings -----------------------------
(* Two HTTP requests that use the same booking id, a third one, and a      *)
(* command delivered twice, all for one show in which not all of them fit; *)
(* a run takes some of them.                                               *)
EXTENDS Bookings, TLC

CONSTANTS s1, b1, b2, b3, h1, h2, h3, c1, c2

MCReq ==
  LET Call(b, n, v) ==
        [row |-> [booking |-> b, show |-> s1, tickets |-> n], via |-> v]
      calls ==
        (h1 :> Call(b1, 1, "http")) @@ (h2 :> Call(b1, 2, "http")) @@
        (h3 :> Call(b3, 2, "http")) @@
        (c1 :> Call(b2, 2, "command")) @@ (c2 :> Call(b2, 2, "command"))
  IN [r \in Request |-> calls[r]]

MCCapacity == [s \in Show |-> 4]
=============================================================================
