------------------------------ MODULE Tickets ------------------------------
(***************************************************************************)
(* The life of a ticket. Dead Nation is told of a booking, then confirms   *)
(* and cancels its tickets with POST /tickets-status; customers ask for    *)
(* refunds with PUT /ticket-refund. Four groups handle a confirmation, two *)
(* a cancellation, a command handler and one more group a refund. They     *)
(* share table tickets, in no order, and call the receipts, files,         *)
(* spreadsheets and payments APIs.                                         *)
(*                                                                         *)
(* External code: the receipts and the payments API act once per           *)
(* idempotency key, the files API keeps one file per name, the spreadsheet *)
(* has a row more per call. Dead Nation and the customers repeat a request *)
(* under the key of the first one.                                         *)
(***************************************************************************)
EXTENDS Naturals, Sequences, FiniteSets

CONSTANTS
  Ticket,
  Request,        \* Idempotency-Keys of the POSTs of Dead Nation
  Body,           \* what each of them says: a sequence of tickets and statuses
  RefundRequest,  \* the PUTs of the customers: pairs of a ticket and a key
  MaxRows,        \* bound: from here on a sheet has "many" rows of a ticket
  Faulty, MaxFaults

Statuses == {"confirmed", "canceled", "invalid"}

ASSUME BodyAssumption ==
  Body \in [Request -> Seq([ticket : Ticket, status : Statuses])]
ASSUME RefundAssumption == \A r \in RefundRequest : r[1] \in Ticket
ASSUME BoundAssumption == MaxRows \in Nat \ {0} /\ MaxFaults \in Nat

Groups == {"IssueReceipt", "AppendToTracker", "StoreTicket", "StoreTicketFile",
           "CancelTicket", "RemoveCancledTicket", "UpdateRefundedTicket",
           "RefundTicket", "BookingMade"}

Subscribed(g) ==
  CASE g \in {"CancelTicket", "RemoveCancledTicket"} -> "TicketBookingCanceled"
    [] g = "UpdateRefundedTicket" -> "TicketRefunded"
    [] g \in {"RefundTicket", "BookingMade"} -> g
    [] OTHER -> "TicketBookingConfirmed"

VARIABLES
  booking,    \* of the booking all the tickets belong to: no, made or told
  left,       \* entries of each POST that are still to be published
  reply,      \* of each POST: unsent, running, or the HTTP status
  published,  \* confirmations and cancellations that reached the bus
  asked,      \* refunds asked for; listed: the ticket was stored by then
  tickets,    \* table tickets
  receipts, rows, files, voided, refunds,
  queue, lost, at, todo, faults

requests == <<booking, left, reply, published, asked>>
apis == <<receipts, rows, files, voided, refunds>>
bus == <<queue, lost, at, todo, faults>>
vars == <<requests, tickets, apis, bus>>

INSTANCE ConsumerGroups
  WITH Group <- Groups, Topic <- [g \in Groups |-> Subscribed(g)]
-----------------------------------------------------------------------------
Sheets == {"tickets-to-print", "tickets-to-refund"}

Msg(type, ticket, key) == [type |-> type, ticket |-> ticket, key |-> key]

(* Of messages whose ticket and key nobody reads. *)
Nobody == "none"

Init ==
  /\ booking = "no"
  /\ left = [p \in Request |-> <<>>]
  /\ reply = [p \in Request |-> "unsent"]
  /\ published = {}
  /\ asked = {}
  /\ tickets = [t \in Ticket |-> [stored |-> FALSE, refunded |-> FALSE, deleted |-> FALSE]]
  /\ receipts = {}
  /\ rows = [s \in Sheets |-> [t \in Ticket |-> 0]]
  /\ files = {}
  /\ voided = {}
  /\ refunds = {}
  /\ BusInit

MayGoWrong(what) == what \in Faulty /\ faults < MaxFaults

(* POST /book-tickets: BookingMade_v1, by way of the outbox. *)
BookTickets ==
  /\ booking = "no"
  /\ booking' = "made"
  /\ queue' = Post(queue, Msg("BookingMade", Nobody, Nobody))
  /\ UNCHANGED <<left, reply, published, asked, tickets, apis, lost, at, todo, faults>>

(* POST /tickets-status. Dead Nation knows the tickets of a booking once   *)
(* it was told of it.                                                      *)
PostTicketsConfirmation(p) ==
  /\ booking = "told"
  /\ reply[p] = "unsent"
  /\ reply' = [reply EXCEPT ![p] = "running"]
  /\ left' = [left EXCEPT ![p] = Body[p]]
  /\ UNCHANGED <<booking, published, asked, tickets, apis, bus>>

EventOf(entry, p) ==
  Msg(IF entry.status = "confirmed" THEN "TicketBookingConfirmed"
                                    ELSE "TicketBookingCanceled",
      entry.ticket, <<p, entry.ticket>>)

(* One turn of the loop. The error of Publish is ignored: the next entry   *)
(* follows all the same.                                                   *)
PublishStatus(p) ==
  /\ reply[p] = "running"
  /\ left[p] # <<>>
  /\ Head(left[p]).status # "invalid"
  /\ left' = [left EXCEPT ![p] = Tail(@)]
  /\ LET m == EventOf(Head(left[p]), p) IN
       \/ /\ queue' = Post(queue, m)
          /\ published' = published \cup {<<m.type, m.ticket>>}
          /\ UNCHANGED faults
       \/ /\ MayGoWrong("Publish")
          /\ faults' = faults + 1
          /\ UNCHANGED <<queue, published>>
  /\ UNCHANGED <<booking, reply, asked, tickets, apis, lost, at, todo>>

(* 400 at the first invalid status, the entries before it being published. *)
AnswerStatus(p) ==
  /\ reply[p] = "running"
  /\ \/ left[p] = <<>> /\ reply' = [reply EXCEPT ![p] = "200"]
     \/ /\ left[p] # <<>>
        /\ Head(left[p]).status = "invalid"
        /\ reply' = [reply EXCEPT ![p] = "400"]
  /\ left' = [left EXCEPT ![p] = <<>>]
  /\ UNCHANGED <<booking, published, asked, tickets, apis, bus>>

(* The service stops in the middle of the request, or the answer is lost:  *)
(* Dead Nation will post the same again.                                   *)
PostAgain(p) ==
  /\ MayGoWrong("Post")
  /\ reply[p] # "unsent"
  /\ faults' = faults + 1
  /\ reply' = [reply EXCEPT ![p] = "unsent"]
  /\ left' = [left EXCEPT ![p] = <<>>]
  /\ UNCHANGED <<booking, published, asked, tickets, apis, queue, lost, at, todo>>

(* Mutant: the command gets a key of its own, as NewRefundTicket draws it. *)
PutTicketRefundNewKey(t, k) ==
  /\ LET again == \E a \in asked : a.ticket = t /\ a.key = k IN
       /\ again => MayGoWrong("Put")
       /\ faults' = IF again THEN faults + 1 ELSE faults
  /\ asked' = asked \cup {[ticket |-> t, key |-> k, listed |-> tickets[t].stored]}
  /\ queue' = Post(queue, Msg("RefundTicket", t, <<k, faults>>))
  /\ UNCHANGED <<booking, left, reply, published, tickets, apis, lost, at, todo>>

(* PUT /ticket-refund, for any ticket id; a customer who had no answer     *)
(* repeats it.                                                             *)
PutTicketRefund(t, k) ==
  /\ LET again == \E a \in asked : a.ticket = t /\ a.key = k IN
       /\ again => MayGoWrong("Put")
       /\ faults' = IF again THEN faults + 1 ELSE faults
  /\ asked' = asked \cup {[ticket |-> t, key |-> k, listed |-> tickets[t].stored]}
  /\ queue' = Post(queue, Msg("RefundTicket", t, k))
  /\ UNCHANGED <<booking, left, reply, published, tickets, apis, lost, at, todo>>
-----------------------------------------------------------------------------
(* The handlers of a confirmation. *)

(* INSERT ... ON CONFLICT DO NOTHING. Ticket ids are UUIDs: of another id, *)
(* which POST /tickets-status takes as well, the INSERT fails each time.   *)
Add(t) ==
  tickets' = [tickets EXCEPT ![t].stored = TRUE]

StoreTicket ==
  LET g == "StoreTicket" IN
  /\ Ready(g)
  /\ Add(Current(g).ticket)
  /\ Start(g, "sending", <<>>)
  /\ UNCHANGED <<requests, apis>>

(* Mutant: the receipt is asked for under a new key on each attempt. *)
IssueReceiptNewKey ==
  LET g == "IssueReceipt"
      m == Current(g)
  IN
  /\ Ready(g)
  /\ receipts' = receipts \cup {[ticket |-> m.ticket, key |-> <<m.key, Cardinality(receipts)>>]}
  /\ Start(g, "sending", <<Msg("TicketReceiptIssued", m.ticket, m.key)>>)
  /\ UNCHANGED <<requests, tickets, rows, files, voided, refunds>>

IssueReceipt ==
  LET g == "IssueReceipt"
      m == Current(g)
  IN
  /\ Ready(g)
  /\ receipts' = receipts \cup {[ticket |-> m.ticket, key |-> m.key]}
  /\ Start(g, "sending", <<Msg("TicketReceiptIssued", m.ticket, m.key)>>)
  /\ UNCHANGED <<requests, tickets, rows, files, voided, refunds>>

AppendRow(sheet, t) ==
  rows' = [rows EXCEPT ![sheet][t] = IF @ < MaxRows THEN @ + 1 ELSE @]

AppendToTracker ==
  LET g == "AppendToTracker" IN
  /\ Ready(g)
  /\ AppendRow("tickets-to-print", Current(g).ticket)
  /\ Start(g, "sending", <<>>)
  /\ UNCHANGED <<requests, tickets, receipts, files, voided, refunds>>

(* 409 Conflict is as good as 201. *)
StoreTicketFile ==
  LET g == "StoreTicketFile"
      t == Current(g).ticket
  IN
  /\ Ready(g)
  /\ files' = files \cup {t}
  /\ Start(g, "sending", <<Msg("TicketPrinted", t, Nobody)>>)
  /\ UNCHANGED <<requests, tickets, receipts, rows, voided, refunds>>
-----------------------------------------------------------------------------
(* The handlers of a cancellation. *)

(* Mutant: the number of rows is not looked at. *)
SoftDeleteIfThere(t) ==
  tickets' = [tickets EXCEPT ![t].deleted = @ \/ tickets[t].stored]

(* A ticket that is not there is an error. *)
SoftDelete(t) ==
  /\ tickets[t].stored
  /\ tickets' = [tickets EXCEPT ![t].deleted = TRUE]

(* The handler of g returns an error of its own accord: it is run again.   *)
ReturnError(g) ==
  /\ at' = [at EXCEPT ![g] = "idle"]
  /\ UNCHANGED <<queue, lost, todo, faults>>

CancelTicketAppend ==
  LET g == "CancelTicket" IN
  /\ Ready(g)
  /\ AppendRow("tickets-to-refund", Current(g).ticket)
  /\ Start(g, "appended", <<>>)
  /\ UNCHANGED <<requests, tickets, receipts, files, voided, refunds>>

(* A ticket that is not stored yet is an error, and the row is appended    *)
(* once more by the next attempt.                                          *)
CancelTicketDelete ==
  LET g == "CancelTicket" IN
  /\ at[g] = "appended"
  /\ \/ SoftDelete(Current(g).ticket) /\ Reach(g, "sending", <<>>, queue)
     \/ ~tickets[Current(g).ticket].stored /\ UNCHANGED tickets /\ ReturnError(g)
  /\ UNCHANGED <<requests, apis>>

(* An attempt that finds no row changes nothing: it is left out, and the   *)
(* handler waits.                                                          *)
RemoveCanceledTicket ==
  LET g == "RemoveCancledTicket" IN
  /\ Ready(g)
  /\ SoftDelete(Current(g).ticket)
  /\ Start(g, "sending", <<>>)
  /\ UNCHANGED <<requests, apis>>
-----------------------------------------------------------------------------
(* The handlers of a refund. *)

VoidReceipt ==
  LET g == "RefundTicket" IN
  /\ Ready(g)
  /\ voided' = voided \cup {Current(g).ticket}
  /\ Start(g, "voided", <<>>)
  /\ UNCHANGED <<requests, tickets, receipts, rows, files, refunds>>

RefundPayment ==
  LET g == "RefundTicket"
      m == Current(g)
  IN
  /\ at[g] = "voided"
  /\ refunds' = refunds \cup {[ticket |-> m.ticket, key |-> m.key]}
  /\ Reach(g, "sending", <<Msg("TicketRefunded", m.ticket, Nobody)>>, queue)
  /\ UNCHANGED <<requests, tickets, receipts, rows, files, voided>>

(* Mutant: only rows that are still listed are updated. *)
UpdateRefundedAtIfListed(t) ==
  tickets' = [tickets EXCEPT ![t].refunded = @ \/ (tickets[t].stored /\ ~tickets[t].deleted)]

(* UPDATE tickets: the number of rows is not looked at. *)
UpdateRefundedAt(t) ==
  tickets' = [tickets EXCEPT ![t].refunded = @ \/ tickets[t].stored]

UpdateRefundedTicket ==
  LET g == "UpdateRefundedTicket" IN
  /\ Ready(g)
  /\ UpdateRefundedAt(Current(g).ticket)
  /\ Start(g, "sending", <<>>)
  /\ UNCHANGED <<requests, apis>>

(* Group BookingMade: the show is read and Dead Nation is asked to book. *)
BookingMadeUpdate ==
  LET g == "BookingMade" IN
  /\ Ready(g)
  /\ booking' = "told"
  /\ Start(g, "sending", <<>>)
  /\ UNCHANGED <<left, reply, published, asked, tickets, apis>>
-----------------------------------------------------------------------------
HttpServer == \E p \in Request : PublishStatus(p) \/ AnswerStatus(p)

Handler(g) ==
  \/ g = "StoreTicket" /\ StoreTicket
  \/ g = "IssueReceipt" /\ IssueReceipt
  \/ g = "AppendToTracker" /\ AppendToTracker
  \/ g = "StoreTicketFile" /\ StoreTicketFile
  \/ g = "CancelTicket" /\ (CancelTicketAppend \/ CancelTicketDelete)
  \/ g = "RemoveCancledTicket" /\ RemoveCanceledTicket
  \/ g = "RefundTicket" /\ (VoidReceipt \/ RefundPayment)
  \/ g = "UpdateRefundedTicket" /\ UpdateRefundedTicket
  \/ g = "BookingMade" /\ BookingMadeUpdate
  \/ (SendNext(g) \/ Ack(g) \/ Claim(g)) /\ UNCHANGED <<requests, tickets, apis>>

Fail(g) == (Retry(g) \/ Crash(g)) /\ UNCHANGED <<requests, tickets, apis>>

Next ==
  \/ BookTickets
  \/ \E p \in Request : PostTicketsConfirmation(p) \/ PostAgain(p)
  \/ HttpServer
  \/ \E r \in RefundRequest : PutTicketRefund(r[1], r[2])
  \/ \E g \in Groups : Handler(g) \/ Fail(g)

Spec == Init /\ [][Next]_vars

(* The HTTP server goes on with the requests it has, the router runs the   *)
(* handlers. CancelTicket, which may fail over and over again, must not    *)
(* keep the others from running. Requests and failures are left free.      *)
Fairness ==
  /\ WF_vars(HttpServer)
  /\ WF_vars(Handler("CancelTicket"))
  /\ WF_vars(\E g \in Groups \ {"CancelTicket"} : Handler(g))

FairSpec == Spec /\ Fairness
-----------------------------------------------------------------------------
Refunded == [ticket : Ticket, key : {r[2] : r \in RefundRequest}]
Message ==
  [type : {Subscribed(g) : g \in Groups} \cup {"TicketReceiptIssued", "TicketPrinted"},
   ticket : Ticket \cup {Nobody},
   key : (Request \X Ticket) \cup {r[2] : r \in RefundRequest} \cup {Nobody}]

(* The variables keep their types; a ticket that is refunded or deleted is *)
(* one that was stored.                                                    *)
TypeOK ==
  /\ booking \in {"no", "made", "told"}
  /\ left \in [Request -> Seq([ticket : Ticket, status : Statuses])]
  /\ reply \in [Request -> {"unsent", "running", "200", "400"}]
  /\ published \subseteq {"TicketBookingConfirmed", "TicketBookingCanceled"} \X Ticket
  /\ asked \subseteq [ticket : Ticket, key : {r[2] : r \in RefundRequest}, listed : BOOLEAN]
  /\ tickets \in [Ticket -> [stored : BOOLEAN, refunded : BOOLEAN, deleted : BOOLEAN]]
  /\ \A t \in Ticket : tickets[t].refunded \/ tickets[t].deleted => tickets[t].stored
  /\ receipts \subseteq [ticket : Ticket, key : Request \X Ticket]
  /\ rows \in [Sheets -> [Ticket -> 0 .. MaxRows]]
  /\ files \subseteq Ticket
  /\ voided \subseteq Ticket
  /\ refunds \subseteq Refunded
  /\ queue \in [Groups -> Seq(Message)]
  /\ lost \in [Groups -> Seq(Message)]
  /\ at \in [Groups -> {"idle", "sending", "appended", "voided"}]
  /\ todo \in [Groups -> Seq(Message)]
  /\ faults \in 0 .. MaxFaults

(* PostTicketsConfirmation, IssueReceipt: a ticket has one receipt, though *)
(* the POST may be repeated, the event delivered twice and the handler run *)
(* again after the API was called.                                         *)
OneReceipt ==
  \A r, q \in receipts : r.ticket = q.ticket => r = q

(* PutTicketRefund, RefundTicket, UpdateRefundedTicket: money is returned  *)
(* once per request of the customer, however often the request, the command*)
(* or the handler is repeated, and only after the receipt is void; a ticket*)
(* is marked as refunded only when all this is done.                       *)
PaidAsAsked ==
  /\ \A r \in refunds :
       /\ r.ticket \in voided
       /\ \E a \in asked : a.ticket = r.ticket /\ a.key = r.key
  /\ \A t \in Ticket :
       tickets[t].refunded => \E r \in refunds : r.ticket = t

ConfirmedIsProcessed(t) ==
  /\ tickets[t].stored
  /\ \E r \in receipts : r.ticket = t
  /\ t \in files
  /\ rows["tickets-to-print"][t] > 0

CanceledIsWithdrawn(t) == tickets[t].deleted /\ rows["tickets-to-refund"][t] > 0

RefundsAreMarked == \A a \in asked : a.listed => tickets[a.ticket].refunded

(* Once nothing is under way, whatever failed, was repeated or overtook    *)
(* what: a confirmed ticket is stored, has its receipt, its file and its   *)
(* row in the sheet (the four groups of TicketBookingConfirmed); one that  *)
(* was cancelled is no longer listed and is in the sheet of refunds (the   *)
(* two of TicketBookingCanceled); and a refund asked for when the ticket   *)
(* was stored is marked, even if it is cancelled meanwhile. (A refund asked*)
(* for before may be lost: UpdateRefundedAt does not look at the rows.)    *)
EventsHaveEffect ==
  Quiet =>
    /\ \A t \in Ticket :
         /\ <<"TicketBookingConfirmed", t>> \in published => ConfirmedIsProcessed(t)
         /\ <<"TicketBookingCanceled", t>> \in published => CanceledIsWithdrawn(t)
    /\ RefundsAreMarked

(* CancelTicket, RemoveCanceledTicket: a cancelled ticket leaves the list, *)
(* although both handlers of the cancellation fail until it is stored:     *)
(* provided its confirmation is published and its id is one StoreTicket can*)
(* store, a UUID.                                                          *)
CancelledLeaves ==
  \A t \in Ticket :
       (/\ <<"TicketBookingCanceled", t>> \in published
        /\ <<"TicketBookingConfirmed", t>> \in published) ~> tickets[t].deleted
=============================================================================
