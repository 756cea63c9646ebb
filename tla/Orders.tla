------------------------------- MODULE Orders -------------------------------
(***************************************************************************)
(* The orders service that took the place of a saga (02-removing-sagas):   *)
(* POST /orders takes the products of an order from the stock and stores   *)
(* the order, shipped or cancelled, in one SERIALIZABLE transaction;       *)
(* POST /products-stock adds to the stock.                                 *)
(*                                                                         *)
(* PostgreSQL (external): a transaction reads the snapshot its first       *)
(* statement found. An UPDATE or INSERT waits for the transaction that     *)
(* holds the row or the key; an UPDATE of a row that was changed since the *)
(* snapshot fails, and of transactions that wait for each other one is     *)
(* rolled back. Nothing is tried again: the caller is answered 500.        *)
(*                                                                         *)
(* The loops over the map of products go in any order.                     *)
(***************************************************************************)
EXTENDS Integers, FiniteSets

CONSTANTS
  Product, Order,
  Demand,     \* Order.Products, of each order
  Request,    \* calls of POST /orders; a client repeats one under its order id
  OrderOf,
  MaxStock,   \* bound on the deliveries of a product
  MaxFaults   \* bound on lost connections and the like

ASSUME DemandAssumption ==
  \A o \in Order :
    DOMAIN Demand[o] \subseteq Product /\ \A p \in DOMAIN Demand[o] : Demand[o][p] \in Int
ASSUME OrderOfAssumption == OrderOf \in [Request -> Order]

VARIABLES
  stock,      \* table stock, as committed: 0 where there is no row
  listed,     \* products that have a row
  orders,     \* table orders, as committed
  delivered,  \* what POST /products-stock has added in all
  phase,      \* of each request: new, in a transaction, or its HTTP status
  short,      \* requests that found products missing from their snapshot
  updated,    \* rows of stock the transaction of a request has updated
  stale,      \* rows of stock changed since its snapshot
  faults

transactions == <<short, updated, stale>>
vars == <<stock, listed, orders, delivered, phase, transactions, faults>>

Promise == INSTANCE OrderOutcome
  WITH verdict <- orders, short <- {OrderOf[r] : r \in short}
-----------------------------------------------------------------------------
Wants(r) == DOMAIN Demand[OrderOf[r]]

(* In a transaction. *)
Busy(r) == phase[r] \in {"open", "inserted"}

Init ==
  /\ stock = [p \in Product |-> 0]
  /\ listed = {}
  /\ orders = [o \in Order |-> "none"]
  /\ delivered = [p \in Product |-> 0]
  /\ phase = [r \in Request |-> "new"]
  /\ short = {}
  /\ updated = [r \in Request |-> {}]
  /\ stale = [r \in Request |-> {}]
  /\ faults = 0

Locked(p) == \E r \in Request : p \in updated[r]

(* Rows that were committed, by whomever, as the transactions see them. *)
Outdate(rows) ==
  stale' = [r \in Request |-> IF Busy(r) THEN stale[r] \cup rows ELSE stale[r]]

(* POST /products-stock: one statement, INSERT ... ON CONFLICT DO UPDATE.  *)
Deliver(p, quantity) ==
  /\ ~Locked(p)
  /\ delivered[p] + quantity <= MaxStock
  /\ stock' = [stock EXCEPT ![p] = @ + quantity]
  /\ listed' = listed \cup {p}
  /\ delivered' = [delivered EXCEPT ![p] = @ + quantity]
  /\ Outdate({p})
  /\ UNCHANGED <<orders, phase, short, updated, faults>>
-----------------------------------------------------------------------------
(* Mutant: the error is returned without a rollback. *)
RollbackForgotten(r) ==
  /\ phase' = [phase EXCEPT ![r] = "500"]
  /\ UNCHANGED <<stock, listed, orders, delivered, transactions>>

Rollback(r) ==
  /\ phase' = [phase EXCEPT ![r] = "500"]
  /\ short' = short \ {r}
  /\ updated' = [updated EXCEPT ![r] = {}]
  /\ stale' = [stale EXCEPT ![r] = {}]
  /\ UNCHANGED <<stock, listed, orders, delivered>>

(* A product without a row: sql.ErrNoRows. *)
ReadUnknown(r) ==
  /\ phase[r] = "new"
  /\ ~(Wants(r) \subseteq listed)
  /\ Rollback(r)
  /\ UNCHANGED faults

(* All products are read, the first of them fixing the snapshot. *)
ReadStock(r) ==
  /\ phase[r] = "new"
  /\ Wants(r) \subseteq listed
  /\ short' = IF Promise!Covers(stock, OrderOf[r]) THEN short ELSE short \cup {r}
  /\ phase' = [phase EXCEPT ![r] = "open"]
  /\ UNCHANGED <<stock, listed, orders, delivered, updated, stale, faults>>

LockedByOther(r, p) == \E q \in Request \ {r} : p \in updated[q]

ToUpdate(r) ==
  IF phase[r] = "open" /\ r \notin short THEN Wants(r) \ updated[r] ELSE {}

UpdateStock(r, p) ==
  /\ p \in ToUpdate(r)
  /\ ~LockedByOther(r, p)
  /\ p \notin stale[r]
  /\ updated' = [updated EXCEPT ![r] = @ \cup {p}]
  /\ UNCHANGED <<stock, listed, orders, delivered, phase, short, stale, faults>>

(* "could not serialize access due to concurrent update" *)
ConcurrentUpdate(r) ==
  /\ \E p \in ToUpdate(r) : ~LockedByOther(r, p) /\ p \in stale[r]
  /\ Rollback(r)
  /\ UNCHANGED faults

(* Mutant: the order is stored before its products are taken. *)
InsertOrderFirst(r) ==
  /\ phase[r] = "open"
  /\ \A q \in Request : phase[q] = "inserted" => OrderOf[q] # OrderOf[r]
  /\ orders[OrderOf[r]] = "none"
  /\ phase' = [phase EXCEPT ![r] = "inserted"]
  /\ UNCHANGED <<stock, listed, orders, delivered, transactions, faults>>

(* Mutant: ON CONFLICT DO NOTHING. *)
InsertOrderOnce(r) ==
  /\ phase[r] = "open"
  /\ ToUpdate(r) = {}
  /\ \A q \in Request : phase[q] = "inserted" => OrderOf[q] # OrderOf[r]
  /\ phase' = [phase EXCEPT ![r] = "inserted"]
  /\ UNCHANGED <<stock, listed, orders, delivered, transactions, faults>>

(* INSERT INTO orders, and into order_products. *)
InsertOrder(r) ==
  /\ phase[r] = "open"
  /\ ToUpdate(r) = {}
  /\ \A q \in Request : phase[q] = "inserted" => OrderOf[q] # OrderOf[r]
  /\ orders[OrderOf[r]] = "none"
  /\ phase' = [phase EXCEPT ![r] = "inserted"]
  /\ UNCHANGED <<stock, listed, orders, delivered, transactions, faults>>

(* The order is there already: the primary key refuses it. *)
InsertDuplicate(r) ==
  /\ phase[r] = "open"
  /\ ToUpdate(r) = {}
  /\ orders[OrderOf[r]] # "none"
  /\ Rollback(r)
  /\ UNCHANGED faults

Commit(r) ==
  /\ phase[r] = "inserted"
  /\ LET o == OrderOf[r] IN
       /\ orders' = [orders EXCEPT ![o] = IF r \in short THEN "cancelled" ELSE "shipped"]
       /\ stock' = [p \in Product |->
                      IF p \in updated[r] THEN stock[p] - Demand[o][p] ELSE stock[p]]
  /\ phase' = [phase EXCEPT ![r] = "201"]
  /\ short' = short \ {r}
  /\ updated' = [updated EXCEPT ![r] = {}]
  /\ stale' = [q \in Request |->
                 IF q = r THEN {}
                 ELSE IF Busy(q) THEN stale[q] \cup updated[r] ELSE stale[q]]
  /\ UNCHANGED <<listed, delivered, faults>>

(* r may be waiting for a row that q has updated. *)
Awaits(r, q) == q # r /\ ToUpdate(r) \cap updated[q] # {}

DeadlockDetected(r) ==
  /\ \E waiting \in SUBSET Request :
       r \in waiting /\ \A q \in waiting : \E w \in waiting : Awaits(q, w)
  /\ Rollback(r)
  /\ UNCHANGED faults

(* The connection breaks, the service stops, or PostgreSQL sees a danger to*)
(* serializability where there is none. The client may not know whether    *)
(* its order was stored, and send it again.                                *)
Fail(r) ==
  /\ Busy(r)
  /\ faults < MaxFaults
  /\ faults' = faults + 1
  /\ Rollback(r)
-----------------------------------------------------------------------------
AddOrder(r) ==
  \/ ReadUnknown(r) \/ ReadStock(r)
  \/ (\E p \in Product : UpdateStock(r, p)) \/ ConcurrentUpdate(r)
  \/ InsertOrder(r) \/ InsertDuplicate(r) \/ Commit(r)
  \/ DeadlockDetected(r)

Next ==
  \/ \E p \in Product, quantity \in 1 .. MaxStock : Deliver(p, quantity)
  \/ \E r \in Request : AddOrder(r) \/ Fail(r)

Spec == Init /\ [][Next]_vars

(* Each request has a goroutine, and the database serves all connections.  *)
FairSpec == Spec /\ \A r \in Request : WF_vars(Busy(r) /\ AddOrder(r))
-----------------------------------------------------------------------------
(* The variables keep their types; rows are held by transactions only. *)
TypeOK ==
  /\ stock \in [Product -> Int]
  /\ listed \subseteq Product
  /\ orders \in [Order -> {"none", "shipped", "cancelled"}]
  /\ delivered \in [Product -> Int]
  /\ phase \in [Request -> {"new", "open", "inserted", "201", "500"}]
  /\ short \subseteq Request
  /\ updated \in [Request -> SUBSET Product]
  /\ \A r \in Request : updated[r] # {} => Busy(r)
  /\ stale \in [Request -> SUBSET Product]
  /\ faults \in Nat

(* removeProductsFromStock: no more is taken than there is, though the     *)
(* quantities are read first and updated later, for one product after the  *)
(* other, beside other orders.                                             *)
NeverNegative == \A p \in Product : stock[p] >= 0

(* The units of p the shipped orders took; for sign -1, those they brought *)
(* by asking for a negative quantity, which nothing forbids.               *)
Units(p, sign) ==
  UNION {{o} \X (1 .. sign * Demand[o][p]) :
           o \in {x \in Order : orders[x] = "shipped" /\ p \in DOMAIN Demand[x]}}

Taken(p) == Cardinality(Units(p, 1)) - Cardinality(Units(p, -1))

(* addOrder, updateProductStock: what was delivered is in stock or in a    *)
(* shipped order. A repeated or failed request takes nothing.              *)
StockConserved == \A p \in Product : delivered[p] = stock[p] + Taken(p)

(* addOrder: each order is decided once; it is shipped as a whole from a   *)
(* stock that covers it at that moment, or cancelled after a look at one   *)
(* that did not.                                                           *)
ImplementsOrderOutcome == Promise!OutcomeSpec

(* Orders that update the same products in different orders wait for each  *)
(* other: every request is answered all the same.                          *)
Answered == \A r \in Request : Busy(r) ~> phase[r] \in {"201", "500"}
=============================================================================
