---------------------------- MODULE OrdersProofs ----------------------------
(***************************************************************************)
(* Proofs about Orders, for any products, orders, requests and failures.   *)
(*                                                                         *)
(* The inductive invariant: a row held by a transaction has not changed    *)
(* since its snapshot (RowsInv), what the snapshot said of rows that are   *)
(* not stale still holds (SnapshotInv), and of the transactions of one     *)
(* order at most one has inserted it, having updated all its rows (KeyInv).*)
(*                                                                         *)
(* The second part counts the units of a product one by one (Units): what  *)
(* a commit takes from the row is what its order adds to the shipped ones, *)
(* since the order, by KeyInv, was not among them (StockInv).              *)
(***************************************************************************)
EXTENDS Orders, FiniteSetTheorems, TLAPS

RowsInv ==
  /\ \A r \in Request : updated[r] \subseteq Wants(r) \ stale[r]
  /\ \A r \in Request : updated[r] # {} => r \notin short
  /\ \A r, q \in Request : r # q => updated[r] \cap updated[q] = {}

SnapshotInv ==
  /\ \A r \in short : Busy(r)
  /\ \A r \in Request : Busy(r) /\ r \notin short =>
       \A p \in Wants(r) \ stale[r] : Demand[OrderOf[r]][p] <= stock[p]

KeyInv ==
  \A r \in Request : phase[r] = "inserted" =>
    /\ orders[OrderOf[r]] = "none"
    /\ r \notin short => updated[r] = Wants(r)
    /\ \A q \in Request : phase[q] = "inserted" /\ OrderOf[q] = OrderOf[r] => q = r

IInv == TypeOK /\ NeverNegative /\ RowsInv /\ SnapshotInv /\ KeyInv
-----------------------------------------------------------------------------
(* The products an order asks for are products, in whole numbers. *)
LEMMA WantsFacts ==
  ASSUME NEW r \in Request
  PROVE  /\ OrderOf[r] \in Order
         /\ Wants(r) \subseteq Product
         /\ \A p \in Wants(r) : Demand[OrderOf[r]][p] \in Int
<1>1. OrderOf[r] \in Order
  BY OrderOfAssumption
<1>. QED  BY <1>1, DemandAssumption DEF Wants

(* A rollback leaves an invariant state. *)
LEMMA RollbackKeepsInvariant ==
  ASSUME IInv, NEW r \in Request, Rollback(r), faults' \in Nat
  PROVE  IInv'
<1>0. TypeOK /\ NeverNegative /\ RowsInv /\ SnapshotInv /\ KeyInv
  BY DEF IInv
<1>1. /\ phase' = [phase EXCEPT ![r] = "500"]
      /\ short' = short \ {r}
      /\ updated' = [updated EXCEPT ![r] = {}]
      /\ stale' = [stale EXCEPT ![r] = {}]
      /\ UNCHANGED <<stock, listed, orders, delivered>>
  BY DEF Rollback
<1>2. \A q \in Request \ {r} :
        /\ phase'[q] = phase[q] /\ updated'[q] = updated[q] /\ stale'[q] = stale[q]
        /\ q \in short' <=> q \in short
  BY <1>0, <1>1 DEF TypeOK
<1>3. phase'[r] = "500" /\ updated'[r] = {} /\ stale'[r] = {} /\ r \notin short'
  BY <1>0, <1>1 DEF TypeOK
<1>4. TypeOK'
  BY <1>0, <1>1, <1>2, <1>3 DEF TypeOK, Busy
<1>5. NeverNegative'
  BY <1>0, <1>1 DEF NeverNegative
<1>6. RowsInv'
  BY <1>0, <1>2, <1>3 DEF RowsInv, Wants
<1>7. SnapshotInv'
  <2>1. \A q \in short' : q # r /\ q \in Request
    BY <1>0, <1>1 DEF TypeOK
  <2>. QED  BY <1>0, <1>1, <1>2, <1>3, <2>1 DEF SnapshotInv, Wants, Busy
<1>8. KeyInv'
  BY <1>0, <1>1, <1>2, <1>3 DEF KeyInv, Wants
<1>. QED  BY <1>4, <1>5, <1>6, <1>7, <1>8 DEF IInv

(* A delivery changes a row nobody holds, and tells the others. *)
LEMMA DeliverKeepsInvariant ==
  ASSUME IInv, NEW p \in Product, NEW n \in 1 .. MaxStock, Deliver(p, n)
  PROVE  IInv'
<1>0. TypeOK /\ NeverNegative /\ RowsInv /\ SnapshotInv /\ KeyInv
  BY DEF IInv
<1>1. /\ \A r \in Request : p \notin updated[r]
      /\ stock' = [stock EXCEPT ![p] = @ + n]
      /\ stale' = [r \in Request |-> IF Busy(r) THEN stale[r] \cup {p} ELSE stale[r]]
      /\ listed' = listed \cup {p}
      /\ delivered' = [delivered EXCEPT ![p] = @ + n]
      /\ UNCHANGED <<orders, phase, short, updated, faults>>
  BY DEF Deliver, Locked, Outdate
<1>2. n \in Int /\ n > 0
  OBVIOUS
<1>3. \A s \in Product : stock'[s] >= stock[s]
  BY <1>0, <1>1, <1>2 DEF TypeOK
<1>4. TypeOK'
  BY <1>0, <1>1, <1>2 DEF TypeOK, Busy
<1>5. NeverNegative'
  BY <1>0, <1>3, <1>4 DEF NeverNegative, TypeOK
<1>6. RowsInv'
  BY <1>0, <1>1 DEF RowsInv, Wants
<1>7. SnapshotInv'
  <2>1. \A r \in Request : stale[r] \subseteq stale'[r]
    BY <1>1
  <2>2. ASSUME NEW r \in Request, (Busy(r) /\ r \notin short)',
               NEW s \in (Wants(r) \ stale[r])'
        PROVE  Demand[OrderOf[r]][s] <= stock'[s]
    <3>1. s \in Wants(r) \ stale[r] /\ Busy(r) /\ r \notin short
      BY <2>1, <2>2, <1>1 DEF Busy, Wants
    <3>2. Demand[OrderOf[r]][s] <= stock[s] /\ s \in Product
      BY <3>1, <1>0, WantsFacts DEF SnapshotInv
    <3>. QED  BY <3>1, <3>2, <1>3, <1>0, <1>4, WantsFacts DEF TypeOK
  <2>. QED  BY <2>2, <1>0, <1>1 DEF SnapshotInv, Wants, Busy
<1>8. KeyInv'
  BY <1>0, <1>1 DEF KeyInv, Wants
<1>. QED  BY <1>4, <1>5, <1>6, <1>7, <1>8 DEF IInv

(* The rows of the transaction that commits are as they were when it began,*)
(* and so they cover the order.                                            *)
LEMMA CommittedRows ==
  ASSUME IInv, NEW r \in Request, phase[r] = "inserted", r \notin short
  PROVE  \A p \in updated[r] : p \in Product /\ Demand[OrderOf[r]][p] <= stock[p]
BY WantsFacts DEF IInv, RowsInv, SnapshotInv, Busy

LEMMA CommitKeepsInvariant ==
  ASSUME IInv, NEW r \in Request, Commit(r)
  PROVE  IInv'
<1>0. TypeOK /\ NeverNegative /\ RowsInv /\ SnapshotInv /\ KeyInv
  BY DEF IInv
<1>1. /\ phase[r] = "inserted"
      /\ orders' = [orders EXCEPT ![OrderOf[r]] =
                      IF r \in short THEN "cancelled" ELSE "shipped"]
      /\ stock' = [p \in Product |-> IF p \in updated[r]
                     THEN stock[p] - Demand[OrderOf[r]][p] ELSE stock[p]]
      /\ phase' = [phase EXCEPT ![r] = "201"]
      /\ short' = short \ {r}
      /\ updated' = [updated EXCEPT ![r] = {}]
      /\ stale' = [q \in Request |->
                     IF q = r THEN {}
                     ELSE IF Busy(q) THEN stale[q] \cup updated[r] ELSE stale[q]]
      /\ UNCHANGED <<listed, delivered, faults>>
  BY DEF Commit
<1>2. \A q \in Request \ {r} :
        /\ phase'[q] = phase[q] /\ updated'[q] = updated[q]
        /\ stale'[q] \in {stale[q], stale[q] \cup updated[r]}
        /\ Busy(q) => stale'[q] = stale[q] \cup updated[r]
        /\ q \in short' <=> q \in short
  BY <1>0, <1>1 DEF TypeOK
<1>3. phase'[r] = "201" /\ updated'[r] = {} /\ stale'[r] = {} /\ r \notin short'
  BY <1>0, <1>1 DEF TypeOK
<1>4. /\ updated[r] \subseteq Wants(r)
      /\ \A p \in updated[r] : r \notin short /\ p \in Product
           /\ Demand[OrderOf[r]][p] \in Int /\ Demand[OrderOf[r]][p] <= stock[p]
  <2>1. updated[r] \subseteq Wants(r) /\ (updated[r] # {} => r \notin short)
    BY <1>0 DEF RowsInv
  <2>. QED  BY <2>1, <1>1, CommittedRows, WantsFacts
<1>5. TypeOK'
  <2>1. stock' \in [Product -> Int]
    BY <1>0, <1>1, <1>4 DEF TypeOK
  <2>2. orders' \in [Order -> {"none", "shipped", "cancelled"}]
    BY <1>0, <1>1 DEF TypeOK
  <2>3. stale' \in [Request -> SUBSET Product]
    BY <1>0, <1>1 DEF TypeOK
  <2>4. \A q \in Request : updated'[q] # {} => Busy(q)'
    BY <1>0, <1>2, <1>3 DEF TypeOK, Busy
  <2>. QED  BY <1>0, <1>1, <2>1, <2>2, <2>3, <2>4 DEF TypeOK
<1>6. NeverNegative'
  <2> SUFFICES ASSUME NEW p \in Product  PROVE stock'[p] >= 0
    BY DEF NeverNegative
  <2>1. stock[p] \in Int /\ stock[p] >= 0
    BY <1>0 DEF TypeOK, NeverNegative
  <2>2. CASE p \in updated[r]
    <3>1. stock'[p] = stock[p] - Demand[OrderOf[r]][p]
      BY <1>1, <2>2
    <3>. QED  BY <3>1, <2>1, <2>2, <1>4
  <2>3. CASE p \notin updated[r]
    BY <1>1, <2>1, <2>3
  <2>. QED  BY <2>2, <2>3
<1>7. RowsInv'
  <2>1. \A q \in Request : updated'[q] \subseteq Wants(q) \ stale'[q]
    <3> SUFFICES ASSUME NEW q \in Request, q # r
                 PROVE  updated'[q] \subseteq Wants(q) \ stale'[q]
      BY <1>3
    <3>. QED  BY <1>0, <1>2 DEF RowsInv
  <2>. QED  BY <1>0, <1>2, <1>3, <2>1 DEF RowsInv, Wants
<1>8. SnapshotInv'
  <2>1. \A q \in short' : q # r /\ q \in Request /\ q \in short
    BY <1>0, <1>1 DEF TypeOK
  <2>2. \A q \in short' : Busy(q)'
    BY <2>1, <1>0, <1>2 DEF SnapshotInv, Busy
  <2>3. ASSUME NEW q \in Request, Busy(q)', q \notin short',
               NEW p \in Wants(q) \ stale'[q]
        PROVE  Demand[OrderOf[q]][p] <= stock'[p]
    <3>1. q # r /\ Busy(q) /\ q \notin short
      BY <2>3, <1>2, <1>3 DEF Busy
    <3>2. p \notin stale[q] /\ p \notin updated[r] /\ p \in Product
      BY <3>1, <2>3, <1>2, WantsFacts
    <3>. QED  BY <3>1, <3>2, <2>3, <1>0, <1>1 DEF SnapshotInv
  <2>. QED  BY <2>2, <2>3 DEF SnapshotInv, Wants
<1>9. KeyInv'
  <2> SUFFICES ASSUME NEW q \in Request, phase'[q] = "inserted"
               PROVE  /\ orders'[OrderOf[q]] = "none"
                      /\ q \notin short' => updated'[q] = Wants(q)
                      /\ \A w \in Request :
                           phase'[w] = "inserted" /\ OrderOf[w] = OrderOf[q] => w = q
    BY DEF KeyInv, Wants
  <2>1. q # r /\ phase[q] = "inserted"
    BY <1>2, <1>3
  <2>2. OrderOf[q] # OrderOf[r]
    BY <2>1, <1>0, <1>1 DEF KeyInv
  <2>3. orders'[OrderOf[q]] = orders[OrderOf[q]]
    BY <2>2, <1>0, <1>1, WantsFacts DEF TypeOK
  <2>4. \A w \in Request : phase'[w] = "inserted" => phase[w] = "inserted"
    BY <1>2, <1>3
  <2>. QED  BY <2>1, <2>3, <2>4, <1>0, <1>2 DEF KeyInv
<1>. QED  BY <1>5, <1>6, <1>7, <1>8, <1>9 DEF IInv
-----------------------------------------------------------------------------
LEMMA ReadStockKeepsInvariant ==
  ASSUME IInv, NEW r \in Request, ReadStock(r)
  PROVE  IInv'
<1>0. TypeOK /\ NeverNegative /\ RowsInv /\ SnapshotInv /\ KeyInv
  BY DEF IInv
<1>1. /\ phase[r] = "new"
      /\ phase' = [phase EXCEPT ![r] = "open"]
      /\ UNCHANGED <<stock, listed, orders, delivered, updated, stale, faults>>
      /\ short' = IF Promise!Covers(stock, OrderOf[r]) THEN short ELSE short \cup {r}
  BY DEF ReadStock
<1>2. phase'[r] = "open" /\ \A q \in Request \ {r} : phase'[q] = phase[q]
  BY <1>0, <1>1 DEF TypeOK
<1>3. /\ short \subseteq short' /\ short' \subseteq short \cup {r}
      /\ r \notin short' => \A p \in Wants(r) : Demand[OrderOf[r]][p] <= stock[p]
  BY <1>1 DEF Promise!Covers, Wants
<1>4. updated[r] = {}
  BY <1>0, <1>1 DEF TypeOK, Busy
<1>5. TypeOK'
  BY <1>0, <1>1, <1>2, <1>3 DEF TypeOK, Busy
<1>6. NeverNegative'
  BY <1>0, <1>1 DEF NeverNegative
<1>7. RowsInv'
  BY <1>0, <1>1, <1>3, <1>4 DEF RowsInv, Wants
<1>8. SnapshotInv'
  BY <1>0, <1>1, <1>2, <1>3 DEF SnapshotInv, Busy, Wants, TypeOK
<1>9. KeyInv'
  BY <1>0, <1>1, <1>2, <1>3 DEF KeyInv, Wants
<1>. QED  BY <1>5, <1>6, <1>7, <1>8, <1>9 DEF IInv

LEMMA UpdateStockKeepsInvariant ==
  ASSUME IInv, NEW r \in Request, NEW p \in Product, UpdateStock(r, p)
  PROVE  IInv'
<1>0. TypeOK /\ NeverNegative /\ RowsInv /\ SnapshotInv /\ KeyInv
  BY DEF IInv
<1>1. /\ phase[r] = "open" /\ r \notin short /\ p \in Wants(r)
      /\ p \notin stale[r]
      /\ \A q \in Request \ {r} : p \notin updated[q]
      /\ updated' = [updated EXCEPT ![r] = @ \cup {p}]
      /\ UNCHANGED <<stock, listed, orders, delivered, phase, short, stale, faults>>
  BY DEF UpdateStock, ToUpdate, LockedByOther
<1>2. updated'[r] = updated[r] \cup {p} /\ \A q \in Request \ {r} : updated'[q] = updated[q]
  BY <1>0, <1>1 DEF TypeOK
<1>3. TypeOK'
  BY <1>0, <1>1, <1>2 DEF TypeOK, Busy
<1>4. RowsInv'
  BY <1>0, <1>1, <1>2 DEF RowsInv, Wants
<1>5. NeverNegative' /\ SnapshotInv'
  BY <1>0, <1>1 DEF NeverNegative, SnapshotInv, Wants, Busy
<1>6. KeyInv'
  BY <1>0, <1>1, <1>2 DEF KeyInv, Wants
<1>. QED  BY <1>3, <1>4, <1>5, <1>6 DEF IInv

LEMMA InsertOrderKeepsInvariant ==
  ASSUME IInv, NEW r \in Request, InsertOrder(r)
  PROVE  IInv'
<1>0. TypeOK /\ NeverNegative /\ RowsInv /\ SnapshotInv /\ KeyInv
  BY DEF IInv
<1>1. /\ phase[r] = "open"
      /\ r \notin short => Wants(r) \subseteq updated[r]
      /\ \A q \in Request : phase[q] = "inserted" => OrderOf[q] # OrderOf[r]
      /\ orders[OrderOf[r]] = "none"
      /\ phase' = [phase EXCEPT ![r] = "inserted"]
      /\ UNCHANGED <<stock, listed, orders, delivered, transactions, faults>>
  BY DEF InsertOrder, ToUpdate
<1>2. phase'[r] = "inserted" /\ \A q \in Request \ {r} : phase'[q] = phase[q]
  BY <1>0, <1>1 DEF TypeOK
<1>3. \A q \in Request : Busy(q)' <=> Busy(q)
  BY <1>1, <1>2 DEF Busy
<1>4. UNCHANGED <<short, updated, stale>>
  BY <1>1 DEF transactions
<1>5. TypeOK'
  BY <1>0, <1>1, <1>3, <1>4 DEF TypeOK
<1>6. NeverNegative' /\ RowsInv'
  BY <1>0, <1>1, <1>4 DEF NeverNegative, RowsInv, Wants
<1>7. SnapshotInv'
  BY <1>0, <1>1, <1>3, <1>4 DEF SnapshotInv, Wants, TypeOK
<1>8. KeyInv'
  <2>1. r \notin short => updated[r] = Wants(r)
    BY <1>0, <1>1 DEF RowsInv
  <2>2. \A q \in Request : Wants(q)' = Wants(q)
    BY DEF Wants
  <2>. QED  BY <1>0, <1>1, <1>2, <1>4, <2>1, <2>2 DEF KeyInv
<1>. QED  BY <1>5, <1>6, <1>7, <1>8 DEF IInv

THEOREM InvariantHolds == Spec => []IInv
<1>1. Init => IInv
  BY DEF Init, IInv, TypeOK, NeverNegative, RowsInv, SnapshotInv, KeyInv, Busy
<1>2. IInv /\ [Next]_vars => IInv'
  <2> SUFFICES ASSUME IInv, [Next]_vars  PROVE IInv'
    OBVIOUS
  <2>0. faults \in Nat
    BY DEF IInv, TypeOK
  <2>1. ASSUME NEW p \in Product, NEW n \in 1 .. MaxStock, Deliver(p, n)
        PROVE  IInv'
    BY <2>1, DeliverKeepsInvariant
  <2>2. ASSUME NEW r \in Request, ReadStock(r)  PROVE IInv'
    BY <2>2, ReadStockKeepsInvariant
  <2>3. ASSUME NEW r \in Request, NEW p \in Product, UpdateStock(r, p)  PROVE IInv'
    BY <2>3, UpdateStockKeepsInvariant
  <2>4. ASSUME NEW r \in Request, InsertOrder(r)  PROVE IInv'
    BY <2>4, InsertOrderKeepsInvariant
  <2>5. ASSUME NEW r \in Request, Commit(r)  PROVE IInv'
    BY <2>5, CommitKeepsInvariant
  <2>6. ASSUME NEW r \in Request,
               ReadUnknown(r) \/ ConcurrentUpdate(r) \/ InsertDuplicate(r)
                 \/ DeadlockDetected(r) \/ Fail(r)
        PROVE  IInv'
    <3>1. Rollback(r)
      BY <2>6 DEF ReadUnknown, ConcurrentUpdate, InsertDuplicate, DeadlockDetected, Fail
    <3>2. faults' \in {faults, faults + 1}
      BY <2>6 DEF ReadUnknown, ConcurrentUpdate, InsertDuplicate, DeadlockDetected, Fail
    <3>. QED  BY <3>1, <3>2, <2>0, RollbackKeepsInvariant
  <2>7. CASE UNCHANGED vars
    BY <2>7 DEF vars, transactions, IInv, TypeOK, NeverNegative, RowsInv, SnapshotInv, KeyInv,
                Wants, Busy
  <2>. QED  BY <2>1, <2>2, <2>3, <2>4, <2>5, <2>6, <2>7 DEF Next, AddOrder
<1>. QED  BY <1>1, <1>2, PTL DEF Spec

(* The variables of Orders keep their types, and rows are held by          *)
(* transactions only.                                                      *)
THEOREM TypeCorrect == Spec => []TypeOK
<1>1. IInv => TypeOK
  BY DEF IInv
<1>. QED  BY <1>1, InvariantHolds, PTL

(* removeProductsFromStock never takes more than there is, for any number  *)
(* of products, orders and requests and whatever fails.                    *)
THEOREM StockNeverNegative == Spec => []NeverNegative
<1>1. IInv => NeverNegative
  BY DEF IInv
<1>. QED  BY <1>1, InvariantHolds, PTL
-----------------------------------------------------------------------------
(* Orders found short, by the transactions that are under way. *)
ShortOrders == {OrderOf[r] : r \in short}

(* A commit is the one step that decides an order. *)
LEMMA CommitDecides ==
  ASSUME IInv, NEW r \in Request, Commit(r)
  PROVE  Promise!Ship(OrderOf[r]) \/ Promise!Cancel(OrderOf[r])
<1> DEFINE o == OrderOf[r]
<1>0. TypeOK /\ NeverNegative /\ RowsInv /\ SnapshotInv /\ KeyInv
  BY DEF IInv
<1>1. /\ phase[r] = "inserted"
      /\ orders' = [orders EXCEPT ![o] =
                      IF r \in short THEN "cancelled" ELSE "shipped"]
      /\ stock' = [p \in Product |-> IF p \in updated[r]
                     THEN stock[p] - Demand[o][p] ELSE stock[p]]
      /\ short' = short \ {r}
  BY DEF Commit
<1>2. orders[o] = "none"
  BY <1>0, <1>1 DEF KeyInv
<1>3. CASE r \in short
  <2>1. updated[r] = {}
    BY <1>0, <1>3 DEF RowsInv
  <2>2. stock' = stock
    BY <1>0, <1>1, <2>1 DEF TypeOK
  <2>3. o \in ShortOrders /\ ShortOrders' \in SUBSET ShortOrders
    BY <1>1, <1>3 DEF ShortOrders
  <2>4. orders' = [orders EXCEPT ![o] = "cancelled"]
    BY <1>1, <1>3
  <2>. QED  BY <1>2, <2>2, <2>3, <2>4 DEF Promise!Cancel, ShortOrders
<1>4. CASE r \notin short
  <2>1. updated[r] = DOMAIN Demand[o]
    BY <1>0, <1>1, <1>4 DEF KeyInv, Wants
  <2>2. Promise!Covers(stock, o)
    BY <1>1, <1>4, <2>1, CommittedRows DEF Promise!Covers
  <2>3. stock' = Promise!Without(stock, o)
    BY <1>1, <2>1 DEF Promise!Without
  <2>4. short' = short
    BY <1>1, <1>4
  <2>5. orders' = [orders EXCEPT ![o] = "shipped"]
    BY <1>1, <1>4
  <2>. QED  BY <1>2, <2>2, <2>3, <2>4, <2>5 DEF Promise!Ship
<1>. QED  BY <1>3, <1>4

(* POST /orders keeps the promise of OrderOutcome: each order is decided   *)
(* once and as a whole.                                                    *)
THEOREM OrdersImplementOutcome == Spec => ImplementsOrderOutcome
<1> DEFINE seen == <<stock, orders, ShortOrders>>
<1>1. Init => Promise!OutcomeInit
  BY DEF Init, Promise!OutcomeInit
<1>2. IInv /\ [Next]_vars => [Promise!OutcomeNext]_seen
  <2> SUFFICES ASSUME IInv, [Next]_vars  PROVE [Promise!OutcomeNext]_seen
    OBVIOUS
  <2>0. TypeOK
    BY DEF IInv
  <2>1. ASSUME NEW p \in Product, NEW n \in 1 .. MaxStock, Deliver(p, n)
        PROVE  Promise!Arrive(p)
    <3>1. /\ stock' = [stock EXCEPT ![p] = @ + n] /\ UNCHANGED <<orders, short>>
      BY <2>1 DEF Deliver
    <3>2. stock'[p] = stock[p] + n /\ stock[p] \in Int
      BY <3>1, <2>0 DEF TypeOK
    <3>3. stock'[p] > stock[p]
      BY <3>2
    <3>4. stock' = [stock EXCEPT ![p] = stock'[p]]
      BY <3>1, <3>2
    <3>. QED  BY <3>1, <3>3, <3>4 DEF Promise!Arrive
  <2>2. ASSUME NEW r \in Request, ReadStock(r)
        PROVE  Promise!FindShort(OrderOf[r]) \/ UNCHANGED seen
    <3>1. UNCHANGED <<stock, orders>>
      BY <2>2 DEF ReadStock
    <3>2. CASE Promise!Covers(stock, OrderOf[r])
      BY <2>2, <3>1, <3>2 DEF ReadStock, ShortOrders
    <3>3. CASE ~Promise!Covers(stock, OrderOf[r])
      <4>1. short' = short \cup {r}
        BY <2>2, <3>3 DEF ReadStock
      <4>2. ShortOrders' = ShortOrders \cup {OrderOf[r]}
        BY <4>1 DEF ShortOrders
      <4>. QED  BY <3>1, <3>3, <4>2 DEF Promise!FindShort, ShortOrders
    <3>. QED  BY <3>2, <3>3
  <2>3. ASSUME NEW r \in Request, Rollback(r)
        PROVE  Promise!Forget
    <3>1. short' \subseteq short /\ UNCHANGED <<stock, orders>>
      BY <2>3 DEF Rollback
    <3>. QED  BY <3>1 DEF Promise!Forget
  <2>4. ASSUME NEW r \in Request,
               ReadUnknown(r) \/ ConcurrentUpdate(r) \/ InsertDuplicate(r)
                 \/ DeadlockDetected(r) \/ Fail(r)
        PROVE  Promise!Forget
    BY <2>3, <2>4 DEF ReadUnknown, ConcurrentUpdate, InsertDuplicate, DeadlockDetected, Fail
  <2>5. ASSUME NEW r \in Request,
               (\E p \in Product : UpdateStock(r, p)) \/ InsertOrder(r)
        PROVE  UNCHANGED seen
    BY <2>5 DEF UpdateStock, InsertOrder, transactions, ShortOrders
  <2>6. CASE UNCHANGED vars
    BY <2>6 DEF vars, transactions, ShortOrders
  <2>. QED  BY <2>1, <2>2, <2>4, <2>5, <2>6, CommitDecides, WantsFacts
            DEF Next, AddOrder, Promise!OutcomeNext
<1>. QED  BY <1>1, <1>2, InvariantHolds, PTL
          DEF Spec, ImplementsOrderOutcome, Promise!OutcomeSpec, ShortOrders
-----------------------------------------------------------------------------
(* Every unit delivered is in stock or went with a shipped order.          *)
StockInv ==
  \A p \in Product :
    /\ IsFiniteSet(Units(p, 1)) /\ IsFiniteSet(Units(p, -1))
    /\ delivered[p] = stock[p] + Taken(p)

(* As many units as the quantity says, and none if it is negative.         *)
LEMMA UnitsOfOrder ==
  ASSUME NEW o, NEW n \in Int
  PROVE  /\ IsFiniteSet({o} \X (1 .. n))
         /\ Cardinality({o} \X (1 .. n)) = IF n > 0 THEN n ELSE 0
<1> DEFINE id == {o}
           numbers == 1 .. n
<1>1. IsFiniteSet(id) /\ Cardinality(id) = 1
  BY FS_Singleton
<1>2. IsFiniteSet(numbers) /\ Cardinality(numbers) = IF n > 0 THEN n ELSE 0
  <2>1. 1 \in Int /\ n \in Int
    OBVIOUS
  <2>2. IsFiniteSet(numbers) /\ Cardinality(numbers) = IF 1 > n THEN 0 ELSE n - 1 + 1
    BY ONLY <2>1, FS_Interval
  <2>. QED  BY <2>2
<1>. HIDE DEF id, numbers
<1>3. /\ IsFiniteSet(id \X numbers)
      /\ Cardinality(id \X numbers) = Cardinality(id) * Cardinality(numbers)
  BY ONLY <1>1, <1>2, FS_Product
<1>4. \A k \in Int : 1 * k = k
  OBVIOUS
<1>5. Cardinality(numbers) \in Int
  BY <1>2
<1>6. Cardinality(id \X numbers) = Cardinality(numbers)
  BY <1>1, <1>3, <1>4, <1>5
<1>. QED  BY <1>2, <1>3, <1>6 DEF id, numbers

(* What is shipped is counted once. *)
LEMMA ShippedUnits ==
  ASSUME TypeOK, NEW o \in Order, orders[o] = "none",
         orders' = [orders EXCEPT ![o] = "shipped"],
         NEW p \in DOMAIN Demand[o], NEW sign, IsFiniteSet(Units(p, sign)),
         NEW n \in Int, n = sign * Demand[o][p]
  PROVE  /\ IsFiniteSet(Units(p, sign)')
         /\ Cardinality(Units(p, sign)) \in Nat
         /\ Cardinality(Units(p, sign)')
              = Cardinality(Units(p, sign)) + (IF n > 0 THEN n ELSE 0)
<1> DEFINE old == Units(p, sign)
           new == {o} \X (1 .. n)
<1>1. n \in Int
  OBVIOUS
<1>2. Units(p, sign)' = old \cup new
  <2>1. \A x \in Order :
          orders'[x] = "shipped" <=> orders[x] = "shipped" \/ x = o
    BY DEF TypeOK
  <2>. QED  BY <2>1 DEF Units
<1>3. old \cap new = {}
  <2>1. \A u \in old : u[1] # o
    BY DEF Units
  <2>2. \A u \in new : u[1] = o
    OBVIOUS
  <2>. QED  BY <2>1, <2>2
<1>4. IsFiniteSet(new) /\ Cardinality(new) = IF n > 0 THEN n ELSE 0
  BY UnitsOfOrder
<1>. HIDE DEF old, new
<1>5. /\ IsFiniteSet(old \cup new)
      /\ Cardinality(old \cup new) = Cardinality(old) + Cardinality(new) - Cardinality({})
  <2>1. IsFiniteSet(old)
    BY DEF old
  <2>2. /\ IsFiniteSet(old \cup new)
        /\ Cardinality(old \cup new)
             = Cardinality(old) + Cardinality(new) - Cardinality(old \cap new)
    BY <1>4, <2>1, FS_Union
  <2>. QED  BY <1>3, <2>2
<1>6. Cardinality({}) = 0 /\ Cardinality(old) \in Nat
  BY FS_EmptySet, FS_CardinalityType DEF old
<1>7. Cardinality(old \cup new) = Cardinality(old) + (IF n > 0 THEN n ELSE 0)
  BY <1>1, <1>4, <1>5, <1>6
<1>. QED  BY <1>2, <1>5, <1>6, <1>7 DEF old

(* An order that is cancelled, or does not ask for p, leaves its units.    *)
LEMMA SameUnits ==
  ASSUME NEW p, NEW sign,
         \A x \in Order : p \in DOMAIN Demand[x] =>
           (orders'[x] = "shipped" <=> orders[x] = "shipped")
  PROVE  Units(p, sign)' = Units(p, sign)
BY DEF Units

LEMMA CommitKeepsStock ==
  ASSUME IInv, StockInv, NEW r \in Request, Commit(r)
  PROVE  StockInv'
<1>0. TypeOK /\ KeyInv /\ RowsInv
  BY DEF IInv
<1>1. PICK o \in Order : o = OrderOf[r]
  BY WantsFacts
<1>2. /\ phase[r] = "inserted" /\ orders[o] = "none" /\ delivered' = delivered
      /\ orders' = [orders EXCEPT ![o] = IF r \in short THEN "cancelled" ELSE "shipped"]
      /\ stock' = [p \in Product |-> IF p \in updated[r]
                     THEN stock[p] - Demand[o][p] ELSE stock[p]]
      /\ r \in short => updated[r] = {}
      /\ r \notin short => updated[r] = DOMAIN Demand[o]
  BY <1>0, <1>1 DEF Commit, KeyInv, RowsInv, Wants
<1> SUFFICES ASSUME NEW p \in Product
             PROVE  /\ IsFiniteSet(Units(p, 1)') /\ IsFiniteSet(Units(p, -1)')
                    /\ delivered'[p] = stock'[p] + Taken(p)'
  BY DEF StockInv
<1>3. /\ IsFiniteSet(Units(p, 1)) /\ IsFiniteSet(Units(p, -1))
      /\ delivered[p] = stock[p] + Taken(p) /\ stock[p] \in Int
  BY <1>0 DEF StockInv, TypeOK
<1>4. CASE p \in updated[r]
  <2>1. /\ p \in DOMAIN Demand[o] /\ orders' = [orders EXCEPT ![o] = "shipped"]
        /\ stock'[p] = stock[p] - Demand[o][p]
    BY <1>2, <1>4
  <2>2. PICK n \in Int : n = Demand[o][p]
    BY <2>1, DemandAssumption
  <2>3. 1 * n = n /\ (-1) * n = -n
    BY <2>2
  <2>8. TypeOK /\ orders[o] = "none" /\ o \in Order /\ p \in DOMAIN Demand[o]
        /\ orders' = [orders EXCEPT ![o] = "shipped"] /\ n \in Int
    BY <1>0, <1>2, <2>1, <2>2
  <2>4. /\ IsFiniteSet(Units(p, 1)') /\ Cardinality(Units(p, 1)) \in Nat
        /\ Cardinality(Units(p, 1)')
             = Cardinality(Units(p, 1)) + (IF n > 0 THEN n ELSE 0)
    <3>1. PICK sign : sign = 1
      OBVIOUS
    <3>2. n = sign * Demand[o][p] /\ IsFiniteSet(Units(p, sign))
      BY <1>3, <2>2, <2>3, <3>1
    <3>3. /\ IsFiniteSet(Units(p, sign)') /\ Cardinality(Units(p, sign)) \in Nat
          /\ Cardinality(Units(p, sign)')
               = Cardinality(Units(p, sign)) + (IF n > 0 THEN n ELSE 0)
      BY ONLY <2>8, <3>2, ShippedUnits
    <3>. QED  BY <3>1, <3>3
  <2>5. /\ IsFiniteSet(Units(p, -1)') /\ Cardinality(Units(p, -1)) \in Nat
        /\ Cardinality(Units(p, -1)')
             = Cardinality(Units(p, -1)) + (IF -n > 0 THEN -n ELSE 0)
    <3>1. -n = (-1) * Demand[o][p] /\ -n \in Int
      BY <2>2, <2>3
    <3>. QED  BY ONLY <1>3, <2>8, <3>1, ShippedUnits
  <2>6. Taken(p)' = Taken(p) + n
    BY <2>2, <2>4, <2>5 DEF Taken
  <2>7. Taken(p) \in Int
    BY <2>4, <2>5 DEF Taken
  <2>. QED  BY <1>2, <1>3, <2>1, <2>2, <2>4, <2>5, <2>6, <2>7
<1>5. CASE p \notin updated[r]
  <2>1. stock'[p] = stock[p]
    BY <1>2, <1>5
  <2>2. \A x \in Order : p \in DOMAIN Demand[x] =>
          (orders'[x] = "shipped" <=> orders[x] = "shipped")
    BY <1>0, <1>2, <1>5 DEF TypeOK
  <2>3. Units(p, 1)' = Units(p, 1) /\ Units(p, -1)' = Units(p, -1)
    BY <2>2, SameUnits
  <2>. QED  BY <1>2, <1>3, <2>1, <2>3 DEF Taken
<1>. QED  BY <1>4, <1>5

(* Every other step leaves the orders, and the delivery adds on both sides.*)
LEMMA StepKeepsStock ==
  ASSUME IInv, StockInv, [Next]_vars
  PROVE  StockInv'
<1>0. TypeOK
  BY DEF IInv
<1>1. ASSUME orders' = orders PROVE \A p : Taken(p)' = Taken(p) /\
               Units(p, 1)' = Units(p, 1) /\ Units(p, -1)' = Units(p, -1)
  BY <1>1 DEF Taken, Units
<1>2. ASSUME UNCHANGED <<orders, stock, delivered>> PROVE StockInv'
  BY <1>1, <1>2 DEF StockInv
<1>3. ASSUME NEW q \in Product, NEW n \in 1 .. MaxStock, Deliver(q, n) PROVE StockInv'
  <2>1. /\ stock' = [stock EXCEPT ![q] = @ + n]
        /\ delivered' = [delivered EXCEPT ![q] = @ + n] /\ orders' = orders
    BY <1>3 DEF Deliver
  <2> SUFFICES ASSUME NEW p \in Product
               PROVE  /\ IsFiniteSet(Units(p, 1)') /\ IsFiniteSet(Units(p, -1)')
                      /\ delivered'[p] = stock'[p] + Taken(p)'
    BY DEF StockInv
  <2>2. /\ IsFiniteSet(Units(p, 1)) /\ IsFiniteSet(Units(p, -1))
        /\ delivered[p] = stock[p] + Taken(p) /\ stock[p] \in Int
    BY <1>0 DEF StockInv, TypeOK
  <2>3. Taken(p) \in Int
    BY <2>2, FS_CardinalityType DEF Taken
  <2>4. \/ p # q /\ delivered'[p] = delivered[p] /\ stock'[p] = stock[p]
        \/ p = q /\ delivered'[p] = delivered[p] + n /\ stock'[p] = stock[p] + n
    BY <1>0, <2>1 DEF TypeOK
  <2>5. n \in Int
    OBVIOUS
  <2>6. Taken(p)' = Taken(p) /\ Units(p, 1)' = Units(p, 1) /\ Units(p, -1)' = Units(p, -1)
    BY <1>1, <2>1
  <2>7. delivered'[p] = stock'[p] + Taken(p)
    BY <2>2, <2>3, <2>4, <2>5
  <2>. QED  BY <2>2, <2>6, <2>7
<1>4. ASSUME NEW r \in Request,
             ReadUnknown(r) \/ ConcurrentUpdate(r) \/ InsertDuplicate(r)
               \/ DeadlockDetected(r) \/ Fail(r)
      PROVE  StockInv'
  BY <1>2, <1>4
  DEF ReadUnknown, ConcurrentUpdate, InsertDuplicate, DeadlockDetected, Fail, Rollback
<1>5. ASSUME NEW r \in Request,
             ReadStock(r) \/ (\E p \in Product : UpdateStock(r, p)) \/ InsertOrder(r)
      PROVE  StockInv'
  BY <1>2, <1>5 DEF ReadStock, UpdateStock, InsertOrder
<1>6. CASE UNCHANGED vars
  BY <1>2, <1>6 DEF vars
<1>. QED  BY <1>3, <1>4, <1>5, <1>6, CommitKeepsStock DEF Next, AddOrder

(* addOrder and updateProductStock: for any orders and deliveries, however *)
(* many run at once, are repeated or fail, what was delivered is in stock  *)
(* or in a shipped order.                                                  *)
THEOREM NothingVanishes == Spec => []StockConserved
<1>1. Init => StockInv
  <2> SUFFICES ASSUME Init, NEW p \in Product
               PROVE  /\ IsFiniteSet(Units(p, 1)) /\ IsFiniteSet(Units(p, -1))
                      /\ delivered[p] = stock[p] + Taken(p)
    BY DEF StockInv
  <2>1. Units(p, 1) = {} /\ Units(p, -1) = {} /\ delivered[p] = 0 /\ stock[p] = 0
    BY DEF Init, Units
  <2>2. IsFiniteSet({}) /\ Cardinality({}) = 0
    BY FS_EmptySet
  <2>. QED  BY <2>1, <2>2 DEF Taken
<1>2. IInv /\ StockInv /\ [Next]_vars => StockInv'
  BY StepKeepsStock
<1>3. StockInv => StockConserved
  BY DEF StockInv, StockConserved
<1>. QED  BY <1>1, <1>2, <1>3, InvariantHolds, PTL DEF Spec
=============================================================================
