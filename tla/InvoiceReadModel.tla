-------------------------- MODULE InvoiceReadModel --------------------------
(***************************************************************************)
(* The read model of 13-read-models: two maps in memory, fed by three event*)
(* handlers. The bus (external, a gochannel) hands each handler one message*)
(* at a time, again until it returns nil, and Publish returns after that.  *)
(* The router runs the three handlers at once and nothing locks the maps:  *)
(* accesses that overlap, one of them a write, may end the process ("fatal *)
(* error: concurrent map writes"); if they do not, each takes effect.      *)
(***************************************************************************)
EXTENDS Naturals, Sequences, FiniteSets

CONSTANTS
  Invoice, Payment,
  Publishers,
  Events       \* what each publisher publishes, one after the other

Handlers == {"InvoiceIssued", "InvoicePaymentReceived", "InvoiceVoided"}

InvoiceIssued == [type : {"InvoiceIssued"}, invoice : Invoice]
InvoicePaymentReceived ==
  [type : {"InvoicePaymentReceived"}, invoice : Invoice, payment : Payment,
   paidAmount : Nat, at : Nat, fullyPaid : BOOLEAN]
InvoiceVoided == [type : {"InvoiceVoided"}, invoice : Invoice, at : Nat]

InvoiceEvent == InvoiceIssued \cup InvoicePaymentReceived \cup InvoiceVoided

(* A payment that is published more than once is the same each time. *)
SamePayments ==
  \A p, q \in Publishers : \A m \in DOMAIN Events[p], n \in DOMAIN Events[q] :
    LET e == Events[p][m]
        f == Events[q][n] IN
    e \in InvoicePaymentReceived /\ f \in InvoicePaymentReceived /\ e.payment = f.payment
      => e = f

VARIABLES
  invoices,           \* the map invoices
  processedPayments,
  acked,              \* how many of its events each publisher got through
  hand,               \* the publisher whose event a handler has, or None
  copy,               \* the invoice as the handlers that have read it hold it
  fatal               \* the process has ended

vars == <<invoices, processedPayments, acked, hand, copy, fatal>>

None == "none"
Row == [paidAmount : Nat, fullyPaid : BOOLEAN, lastPaymentAt : Nat,
        voided : BOOLEAN, voidedAt : Nat]
New == [paidAmount |-> 0, fullyPaid |-> FALSE, lastPaymentAt |-> 0,
        voided |-> FALSE, voidedAt |-> 0]

Init ==
  /\ invoices = [i \in {} |-> New]
  /\ processedPayments = {}
  /\ acked = [p \in Publishers |-> 0]
  /\ hand = [h \in Handlers |-> None]
  /\ copy = [h \in {} |-> New]
  /\ fatal = FALSE

Publishing(p) == acked[p] < Len(Events[p])
Event(p) == Events[p][acked[p] + 1]
InHand(h) == Event(hand[h])
Later(t, u) == IF t > u THEN t ELSE u
Put(f, x, v) == [y \in DOMAIN f \cup {x} |-> IF y = x THEN v ELSE f[y]]

(* The bus gives handler h an event that is being published. *)
Receive(h) ==
  /\ ~fatal
  /\ hand[h] = None
  /\ \E p \in Publishers :
       /\ Publishing(p)
       /\ Event(p).type = h
       /\ hand' = [hand EXCEPT ![h] = p]
  /\ UNCHANGED <<invoices, processedPayments, acked, copy, fatal>>

(* OnInvoicePaymentReceived and OnInvoiceVoided fail on an invoice they do *)
(* not find, and get the event again.                                      *)
Found(h) == h = "InvoiceIssued" \/ InHand(h).invoice \in DOMAIN invoices

InvoiceByID(h) ==
  /\ ~fatal
  /\ hand[h] # None
  /\ h \notin DOMAIN copy
  /\ Found(h)
  /\ LET i == InHand(h).invoice
     IN copy' = Put(copy, h, IF i \in DOMAIN invoices THEN invoices[i] ELSE New)
  /\ UNCHANGED <<invoices, processedPayments, acked, hand, fatal>>

Ack(h) ==
  /\ acked' = [acked EXCEPT ![hand[h]] = @ + 1]
  /\ hand' = [hand EXCEPT ![h] = None]
  /\ copy' = [g \in DOMAIN copy \ {h} |-> copy[g]]
  /\ UNCHANGED fatal

HasRead(h) == ~fatal /\ h \in DOMAIN copy
Store(i, invoice) == Put(invoices, i, invoice)

(* Only this handler adds invoices: one it did not find is still missing.  *)
OnInvoiceIssued ==
  LET h == "InvoiceIssued" IN
  /\ HasRead(h)
  /\ IF InHand(h).invoice \in DOMAIN invoices
     THEN UNCHANGED invoices
     ELSE invoices' = Store(InHand(h).invoice, New)
  /\ UNCHANGED processedPayments
  /\ Ack(h)

(* Mutant: a payment is recognised by the invoice it was for. *)
ProcessedInvoice(e) == e.invoice \in processedPayments

Processed(e) == e.payment \in processedPayments

OnInvoicePaymentReceived ==
  LET h == "InvoicePaymentReceived"
      e == InHand(h)
      paid == [copy[h] EXCEPT
                 !.paidAmount = @ + e.paidAmount,
                 !.lastPaymentAt = Later(e.at, @),
                 !.fullyPaid = @ \/ e.fullyPaid] IN
  /\ HasRead(h)
  /\ IF Processed(e)
     THEN UNCHANGED <<invoices, processedPayments>>
     ELSE /\ invoices' = Store(e.invoice, paid)
          /\ processedPayments' = processedPayments \cup {e.payment}
  /\ Ack(h)

OnInvoiceVoided ==
  LET h == "InvoiceVoided"
      e == InHand(h)
      voided == [copy[h] EXCEPT !.voided = TRUE, !.voidedAt = Later(e.at, @)] IN
  /\ HasRead(h)
  /\ invoices' = Store(e.invoice, voided)
  /\ UNCHANGED processedPayments
  /\ Ack(h)

(* The Go runtime finds a write to the map that overlaps another access. *)
ConcurrentMapWrites ==
  /\ ~fatal
  /\ \E h, g \in Handlers : h # g /\ h \in DOMAIN copy /\ hand[g] # None
  /\ fatal' = TRUE
  /\ UNCHANGED <<invoices, processedPayments, acked, hand, copy>>

Handle == OnInvoiceIssued \/ OnInvoicePaymentReceived \/ OnInvoiceVoided

Next ==
  \/ \E h \in Handlers : Receive(h) \/ InvoiceByID(h)
  \/ Handle
  \/ ConcurrentMapWrites

Spec == Init /\ [][Next]_vars

-----------------------------------------------------------------------------
(* The events whose publication has returned. *)
Acked == UNION {{Events[p][n] : n \in 1 .. acked[p]} : p \in Publishers}

AckedOf(i, type) == {e \in Acked : e.invoice = i /\ e.type = type}

(* The maps hold what they should: an invoice that was issued, a payment   *)
(* that was received.                                                      *)
TypeOK ==
  /\ \A i \in DOMAIN invoices : AckedOf(i, "InvoiceIssued") # {}
  /\ processedPayments = {e.payment : e \in {f \in Acked : f.type = "InvoicePaymentReceived"}}
  /\ \A h \in DOMAIN copy : hand[h] # None
  /\ \A h \in Handlers : hand[h] # None => Publishing(hand[h]) /\ InHand(h).type = h
  /\ fatal \in BOOLEAN

(* No payment of i is handled while a voiding of it is: the publisher of   *)
(* both waits for the one before it publishes the other.                   *)
InTurn(i) ==
  \A p, q \in Publishers : \A m \in DOMAIN Events[p], n \in DOMAIN Events[q] :
    /\ Events[p][m].type = "InvoicePaymentReceived" /\ Events[p][m].invoice = i
    /\ Events[q][n].type = "InvoiceVoided" /\ Events[q][n].invoice = i
    => p = q

(* One element for each unit of money paid. *)
Units(payments) == UNION {{e} \X (1 .. e.paidAmount) : e \in payments}

IsLatest(t, events) ==
  /\ t = 0 \/ \E e \in events : t = e.at
  /\ \A e \in events : e.at <= t

Reflects(row, payments, voids) ==
  /\ row.paidAmount = Cardinality(Units(payments))
  /\ row.fullyPaid <=> \E e \in payments : e.fullyPaid
  /\ IsLatest(row.lastPaymentAt, payments)
  /\ row.voided <=> voids # {}
  /\ IsLatest(row.voidedAt, voids)

(* OnInvoiceIssued and the others: what Publish has returned for is in the *)
(* read model, each payment once, whatever the order and the repetitions,  *)
(* unless the payments and the voidings of an invoice meet.                *)
ReadModelUpdated ==
  ~fatal =>
    \A i \in DOMAIN invoices :
      InTurn(i) =>
        Reflects(invoices[i], AckedOf(i, "InvoicePaymentReceived"), AckedOf(i, "InvoiceVoided"))
=============================================================================
