--------------------------- MODULE MCEventDelivery ---------------------------
(* Two bookings, whose events come through the outbox and have two         *)
(* handlers, and a confirmation, which is published directly.              *)
EXTENDS EventDelivery

CONSTANTS e1, e2, e3, ops, pm, store

MCType == [e \in Event |-> IF e \in InOutbox THEN "BookingMade_v1"
                                            ELSE "TicketBookingConfirmed_v1"]
MCSubscribes == [c \in Consumer |-> IF c = store THEN "TicketBookingConfirmed_v1"
                                                ELSE "BookingMade_v1"]
=============================================================================
