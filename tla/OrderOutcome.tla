---------------------------- MODULE OrderOutcome ----------------------------
(***************************************************************************)
(* What POST /orders promises (02-removing-sagas): an order is shipped as a*)
(* whole, from a stock that covers all of it, or cancelled as a whole,     *)
(* because some look at the stock found it short; it is decided once.      *)
(***************************************************************************)
EXTENDS Integers

CONSTANTS Product, Order, Demand

VARIABLES
  stock,
  verdict,
  short     \* orders an attempt at which has found the stock short

Covers(quantity, o) == \A p \in DOMAIN Demand[o] : Demand[o][p] <= quantity[p]

Without(quantity, o) ==
  [p \in Product |-> IF p \in DOMAIN Demand[o] THEN quantity[p] - Demand[o][p]
                                               ELSE quantity[p]]

OutcomeInit ==
  /\ stock = [p \in Product |-> 0]
  /\ verdict = [o \in Order |-> "none"]
  /\ short = {}

Arrive(p) ==
  /\ stock'[p] > stock[p]
  /\ stock' = [stock EXCEPT ![p] = stock'[p]]
  /\ UNCHANGED <<verdict, short>>

Ship(o) ==
  /\ verdict[o] = "none"
  /\ Covers(stock, o)
  /\ verdict' = [verdict EXCEPT ![o] = "shipped"]
  /\ stock' = Without(stock, o)
  /\ UNCHANGED short

FindShort(o) ==
  /\ ~Covers(stock, o)
  /\ short' = short \cup {o}
  /\ UNCHANGED <<stock, verdict>>

Cancel(o) ==
  /\ verdict[o] = "none"
  /\ o \in short
  /\ verdict' = [verdict EXCEPT ![o] = "cancelled"]
  /\ short' \in SUBSET short
  /\ UNCHANGED stock

(* Attempts that failed. *)
Forget ==
  /\ short' \in SUBSET short
  /\ UNCHANGED <<stock, verdict>>

OutcomeNext ==
  \/ \E p \in Product : Arrive(p)
  \/ \E o \in Order : Ship(o) \/ FindShort(o) \/ Cancel(o)
  \/ Forget

OutcomeSpec == OutcomeInit /\ [][OutcomeNext]_<<stock, verdict, short>>
=============================================================================
