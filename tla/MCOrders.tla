------------------------------ MODULE MCOrders ------------------------------
(* Two orders for the same products, one of them posted twice. *)
EXTENDS Orders, TLC

CONSTANTS a, b, o1, o2, r1, r2, r3

Demands == (o1 :> (a :> 1 @@ b :> 2)) @@ (o2 :> (a :> 2 @@ b :> 1))
OrdersOf == (r1 :> o1) @@ (r2 :> o1) @@ (r3 :> o2)
=============================================================================
