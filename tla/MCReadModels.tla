---------------------------- MODULE MCReadModels ----------------------------
EXTENDS ReadModels

(* One alert that is triggered and resolved in turn, one that is triggered *)
(* twice.                                                                  *)
TwoAlerts == {"a1", "a2"}
InTurn ==
  [a \in TwoAlerts |->
     IF a = "a1" THEN <<"triggered", "resolved", "triggered">>
     ELSE <<"triggered", "triggered">>]

Issued(i) == [type |-> "InvoiceIssued", invoice |-> i]
Paid(i, payment, amount, at, full) ==
  [type |-> "InvoicePaymentReceived", invoice |-> i, payment |-> payment,
   paidAmount |-> amount, at |-> at, fullyPaid |-> full]
Voided(i, at) == [type |-> "InvoiceVoided", invoice |-> i, at |-> at]

(* The events of i1 come repeated, late and from two publishers; those of  *)
(* i2 in their order, its payments and voidings from one.                  *)
Published ==
  [p1 |-> <<Issued("i1"), Paid("i1", "a", 4, 2, FALSE), Paid("i1", "b", 5, 3, TRUE)>>,
   p2 |-> <<Paid("i1", "c", 1, 1, FALSE), Issued("i1"), Paid("i1", "a", 4, 2, FALSE)>>,
   p3 |-> <<Issued("i2"), Paid("i2", "d", 2, 1, FALSE), Voided("i2", 3), Voided("i2", 2)>>]
=============================================================================
