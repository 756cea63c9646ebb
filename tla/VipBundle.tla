------------------------------ MODULE VipBundle ------------------------------
(***************************************************************************)
(* The VIP bundle: a booking of show tickets, two flights and a taxi, sold *)
(* together. The process manager of process_manager/ keeps the bundle in   *)
(* table vip_bundles, reacts to events and sends commands; the command     *)
(* handlers of commands/handler book the show (BookingOutcome), call the   *)
(* transportation API and refund tickets. When a flight or the taxi cannot *)
(* be had, what was already bought is refunded and cancelled.              *)
(*                                                                         *)
(* A booking id is identified with its bundle; PlainBooking are the ids of *)
(* bookings made without a bundle, whose events reach the same handlers.   *)
(* The tickets of one flight booking are one unit, named by the            *)
(* idempotency key they were booked under. External code: the              *)
(* transportation API, which gives one answer per idempotency key; the     *)
(* payments API, which pays once per key; Dead Nation, which confirms the  *)
(* tickets of a booking. The outbox and the splitter between the code that *)
(* publishes and the queues are the subject of EventDelivery.              *)
(***************************************************************************)
EXTENDS Naturals, Sequences

CONSTANTS
  Bundle,         \* VIP bundles, and the ids of their bookings
  PlainBooking,   \* other bookings
  Size,           \* number of tickets of each booking
  Misnamed,       \* ids of a bundle that may be wrong
  Faulty, MaxFaults

Booking == Bundle \cup PlainBooking

ASSUME BookingAssumption ==
  Bundle \cap PlainBooking = {} /\ Size \in [Booking -> Nat \ {0}]

ASSUME MisnamedAssumption == Misnamed \subseteq {"show", "inbound", "return"}

VARIABLES
  bundles,    \* table vip_bundles
  outcome,    \* of each booking: open, made or refused
  confirmed,  \* tickets confirmed by Dead Nation
  transport,  \* answers of the transportation API
  cancelled,  \* keys whose flight tickets were cancelled
  voided,     \* tickets whose receipt was voided
  refunds,    \* payments returned
  announced,  \* events no handler here consumes
  lastKey,    \* idempotency keys drawn so far
  queue, lost, at, todo, faults

sales == <<outcome, confirmed>>
outside == <<transport, cancelled, voided, refunds>>
vars == <<bundles, sales, outside, announced, lastKey,
          queue, lost, at, todo, faults>>
-----------------------------------------------------------------------------
Events == {"VipBundleInitialized", "BookingMade", "TicketBookingConfirmed",
           "BookingFailed", "FlightBooked", "FlightBookingFailed",
           "TaxiBooked", "TaxiBookingFailed"}
Commands == {"BookShowTickets", "BookFlight", "BookTaxi",
             "CancelFlightTickets", "RefundTicket"}

(* One group per handler and one handler per type: a group is named by the *)
(* type it consumes.                                                       *)
Handlers == Events \cup Commands

INSTANCE ConsumerGroups WITH Group <- Handlers, Topic <- [h \in Handlers |-> h]

Sales == INSTANCE BookingOutcome

Legs == {"inbound", "return", "taxi"}

(* Fields a type of message does not have are left at "none" and 0. *)
Msg(type, ref, leg, key, ticket) ==
  [type |-> type, ref |-> ref, leg |-> leg, key |-> key, ticket |-> ticket]

About(type, ref) == Msg(type, ref, "none", 0, 0)
Flight(type, b, leg, key) == Msg(type, b, leg, key, 0)
Taxi(type, b, key) == Msg(type, b, "taxi", key, 0)
OfTicket(type, ref, i, key) == Msg(type, ref, "none", key, i)
Finalized(b, success) ==
  About(IF success THEN "VipBundleFinalized" ELSE "VipBundleFinalizedFailed", b)

NoBundle == [created |-> FALSE, wrong |-> {}, bookingMade |-> FALSE, tickets |-> <<>>,
             inbound |-> 0, return |-> 0, taxi |-> 0,
             finalized |-> FALSE, failed |-> FALSE]

Init ==
  /\ bundles = [b \in Bundle |-> NoBundle]
  /\ Sales!OutcomeInit
  /\ confirmed = {}
  /\ transport = {}
  /\ cancelled = {}
  /\ voided = {}
  /\ refunds = {}
  /\ announced = {}
  /\ lastKey = 0
  /\ BusInit

(* POST /book-vip-bundle: the bundle and its event in one transaction.     *)
(* NewVipBundle asks only that ids are not empty: that of the show may be  *)
(* no UUID, or of no show that is ever added, that of a flight no UUID.    *)
BookVipBundle(b) ==
  /\ ~bundles[b].created
  /\ \E ids \in SUBSET Misnamed :
       bundles' = [bundles EXCEPT ![b] = [@ EXCEPT !.created = TRUE, !.wrong = ids]]
  /\ queue' = Post(queue, About("VipBundleInitialized", b))
  /\ UNCHANGED <<sales, outside, announced, lastKey, lost, at, todo, faults>>

(* POST /book-tickets, by any other customer *)
BookTickets(p) ==
  /\ Sales!Make(p)
  /\ queue' = Post(queue, About("BookingMade", p))
  /\ UNCHANGED <<bundles, confirmed, outside, announced, lastKey,
                 lost, at, todo, faults>>

(* POST /tickets-status, called by Dead Nation. An error of Publish is     *)
(* ignored: the confirmation is lost and 200 is answered.                  *)
ConfirmTicket(k, i) ==
  /\ outcome[k] = "made"
  /\ i \in 1 .. Size[k]
  /\ <<k, i>> \notin confirmed
  /\ confirmed' = confirmed \cup {<<k, i>>}
  /\ \/ /\ queue' = Post(queue, OfTicket("TicketBookingConfirmed", k, i, 0))
        /\ UNCHANGED faults
     \/ /\ "PostTicketsConfirmation" \in Faulty
        /\ faults < MaxFaults
        /\ faults' = faults + 1
        /\ UNCHANGED queue
  /\ UNCHANGED <<bundles, outcome, outside, announced, lastKey, lost, at, todo>>
-----------------------------------------------------------------------------
(* The process manager. Each first step is the read or update of the       *)
(* bundle, one SERIALIZABLE transaction; the commands are sent after it.   *)

Update(b, new) == bundles' = [bundles EXCEPT ![b] = new]

OnVipBundleInitialized ==
  LET h == "VipBundleInitialized" IN
  /\ Ready(h)
  /\ Start(h, "sending", <<About("BookShowTickets", Current(h).ref)>>)
  /\ UNCHANGED <<bundles, sales, outside, announced, lastKey>>

(* UpdateByBookingID: sql.ErrNoRows comes wrapped, no caller recognises it *)
(* and the handler fails again and again.                                  *)
Found(k) == k \in Bundle /\ bundles[k].created

(* Mutant: both flights are ordered at once. *)
OnBookingMadeBothFlights ==
  LET h == "BookingMade"
      b == Current(h).ref
  IN
  /\ Ready(h)
  /\ Found(b)
  /\ Update(b, [bundles[b] EXCEPT !.bookingMade = TRUE])
  /\ lastKey' = lastKey + 2
  /\ Start(h, "sending", <<Flight("BookFlight", b, "inbound", lastKey + 1),
                           Flight("BookFlight", b, "return", lastKey + 2)>>)
  /\ UNCHANGED <<sales, outside, announced>>

OnBookingMade ==
  LET h == "BookingMade"
      b == Current(h).ref
  IN
  /\ Ready(h)
  /\ Found(b)
  /\ Update(b, [bundles[b] EXCEPT !.bookingMade = TRUE])
  /\ lastKey' = lastKey + 1
  /\ Start(h, "sending", <<Flight("BookFlight", b, "inbound", lastKey')>>)
  /\ UNCHANGED <<sales, outside, announced>>

OnTicketBookingConfirmed ==
  LET h == "TicketBookingConfirmed"
      b == Current(h).ref
  IN
  /\ Ready(h)
  /\ Found(b)
  /\ Update(b, [bundles[b] EXCEPT !.tickets = Append(@, Current(h).ticket)])
  /\ Start(h, "sending", <<>>)
  /\ UNCHANGED <<sales, outside, announced, lastKey>>

OnBookingFailed ==
  LET h == "BookingFailed"
      b == Current(h).ref
  IN
  /\ Ready(h)
  /\ Found(b)
  /\ Update(b, [bundles[b] EXCEPT !.finalized = TRUE, !.failed = TRUE])
  /\ Start(h, "sending", <<Finalized(b, FALSE)>>)
  /\ UNCHANGED <<sales, outside, announced, lastKey>>

(* Mutant: the taxi is ordered with the first flight that is booked. *)
OnFlightBookedTaxiAtOnce ==
  LET h == "FlightBooked"
      m == Current(h)
  IN
  /\ Ready(h)
  /\ lastKey' = lastKey + 1
  /\ m.leg = "inbound"
  /\ Update(m.ref, [bundles[m.ref] EXCEPT !.inbound = m.key])
  /\ Start(h, "sending", <<Taxi("BookTaxi", m.ref, lastKey')>>)
  /\ UNCHANGED <<sales, outside, announced>>

OnFlightBooked ==
  LET h == "FlightBooked"
      m == Current(h)
  IN
  /\ Ready(h)
  /\ lastKey' = lastKey + 1
  /\ \/ /\ m.leg = "inbound"
        /\ Update(m.ref, [bundles[m.ref] EXCEPT !.inbound = m.key])
        /\ Start(h, "sending", <<Flight("BookFlight", m.ref, "return", lastKey')>>)
     \/ /\ m.leg = "return"
        /\ Update(m.ref, [bundles[m.ref] EXCEPT !.return = m.key])
        /\ Start(h, "sending", <<Taxi("BookTaxi", m.ref, lastKey')>>)
  /\ UNCHANGED <<sales, outside, announced>>

OnTaxiBooked ==
  LET h == "TaxiBooked"
      m == Current(h)
  IN
  /\ Ready(h)
  /\ Update(m.ref, [bundles[m.ref] EXCEPT !.taxi = m.key, !.finalized = TRUE])
  /\ Start(h, "sending", <<Finalized(m.ref, TRUE)>>)
  /\ UNCHANGED <<sales, outside, announced, lastKey>>

(* One RefundTicket per ticket of the bundle as read, each with a new key. *)
RefundCommands(b) ==
  [i \in 1 .. Len(bundles[b].tickets) |->
     OfTicket("RefundTicket", b, bundles[b].tickets[i], lastKey + i)]

CancelCommands(b, key) ==
  IF key = 0 THEN <<>> ELSE <<Flight("CancelFlightTickets", b, "none", key)>>

Others == UNCHANGED <<bundles, sales, outside, announced, lastKey>>

Compensate(h, b, commands) ==
  /\ lastKey' = lastKey + Len(bundles[b].tickets)
  /\ Start(h, "compensating", commands)
  /\ UNCHANGED <<bundles, sales, outside, announced>>

(* Mutant: the confirmations are not waited for. *)
OnFlightBookingFailedAtOnce ==
  LET h == "FlightBookingFailed"
      b == Current(h).ref
  IN
  /\ Ready(h)
  /\ IF bundles[b].bookingMade
       THEN Compensate(h, b, CancelCommands(b, bundles[b].inbound) \o RefundCommands(b))
       ELSE Start(h, "sending", <<>>) /\ Others

(* Mutant: nil is returned, not an error, while tickets are unconfirmed. *)
OnFlightBookingFailedForgets ==
  LET h == "FlightBookingFailed"
      b == Current(h).ref
  IN
  /\ Ready(h)
  /\ IF bundles[b].bookingMade /\ Len(bundles[b].tickets) = Size[b]
       THEN Compensate(h, b, CancelCommands(b, bundles[b].inbound) \o RefundCommands(b))
       ELSE Start(h, "sending", <<>>) /\ Others

(* Without a booking the event is acknowledged and forgotten; until every  *)
(* ticket is confirmed the handler returns an error.                       *)
OnFlightBookingFailed ==
  LET h == "FlightBookingFailed"
      b == Current(h).ref
  IN
  /\ Ready(h)
  /\ bundles[b].bookingMade => Len(bundles[b].tickets) = Size[b]
  /\ IF bundles[b].bookingMade
       THEN Compensate(h, b, CancelCommands(b, bundles[b].inbound) \o RefundCommands(b))
       ELSE Start(h, "sending", <<>>) /\ Others

(* Mutant: the return flight is not cancelled. *)
OnTaxiBookingFailedKeepsReturn ==
  LET h == "TaxiBookingFailed"
      b == Current(h).ref
  IN
  /\ Ready(h)
  /\ Compensate(h, b, RefundCommands(b) \o CancelCommands(b, bundles[b].inbound))

OnTaxiBookingFailed ==
  LET h == "TaxiBookingFailed"
      b == Current(h).ref
  IN
  /\ Ready(h)
  /\ Compensate(h, b, RefundCommands(b)
                        \o CancelCommands(b, bundles[b].inbound)
                        \o CancelCommands(b, bundles[b].return))

(* The last update of both, after the commands. *)
CloseFailed(h) ==
  LET b == Current(h).ref IN
  /\ at[h] = "compensating"
  /\ todo[h] = <<>>
  /\ Update(b, [bundles[b] EXCEPT !.finalized = TRUE, !.failed = TRUE])
  /\ Reach(h, "sending", <<Finalized(b, FALSE)>>, queue)
  /\ UNCHANGED <<sales, outside, announced, lastKey>>
-----------------------------------------------------------------------------
(* The command handlers. *)

(* Mutant: a booking that exists is announced again. *)
BookShowTicketsAnnouncesAgain ==
  LET h == "BookShowTickets"
      b == Current(h).ref
  IN
  /\ Ready(h)
  /\ "show" \notin bundles[b].wrong
  /\ \/ /\ Sales!Make(b)
        /\ Reach(h, "sending", <<>>, Post(queue, About("BookingMade", b)))
     \/ /\ outcome[b] = "made"
        /\ Start(h, "sending", <<About("BookingMade", b)>>)
        /\ UNCHANGED outcome
     \/ /\ Sales!Refuse(b)
        /\ Start(h, "sending", <<About("BookingFailed", b)>>)
     \/ /\ outcome[b] = "refused"
        /\ Start(h, "sending", <<About("BookingFailed", b)>>)
        /\ UNCHANGED outcome
  /\ UNCHANGED <<bundles, confirmed, outside, announced, lastKey>>

(* AddBooking and what is made of its error. A booking found without       *)
(* places stays so (Bookings), also when the command is run again. Any     *)
(* other error, as for a show there is none of, fails the handler again and*)
(* again.                                                                  *)
BookShowTickets ==
  LET h == "BookShowTickets"
      b == Current(h).ref
  IN
  /\ Ready(h)
  /\ "show" \notin bundles[b].wrong
  /\ \/ /\ Sales!Make(b)
        /\ Reach(h, "sending", <<>>, Post(queue, About("BookingMade", b)))
     \/ /\ outcome[b] = "made"
        /\ Start(h, "sending", <<>>)
        /\ UNCHANGED outcome
     \/ /\ Sales!Refuse(b)
        /\ Start(h, "sending", <<About("BookingFailed", b)>>)
     \/ /\ outcome[b] = "refused"
        /\ Start(h, "sending", <<About("BookingFailed", b)>>)
        /\ UNCHANGED outcome
  /\ UNCHANGED <<bundles, confirmed, outside, announced, lastKey>>

(* Mutant: NewBookFlight and NewBookTaxi swap their last two arguments. *)
AnswerSwapped(key, b, leg, status) ==
  [key |-> b, ref |-> key, leg |-> leg, status |-> status]

Answer(key, b, leg, status) ==
  [key |-> key, ref |-> b, leg |-> leg, status |-> status]

(* PUT of the transportation API: one answer per idempotency key. *)
Ask(m, leg, status) ==
  IF \E a \in transport : a.key = m.key
    THEN /\ \E a \in transport : a.key = m.key /\ a.status = status
         /\ UNCHANGED transport
    ELSE transport' = transport \cup {Answer(m.key, m.ref, leg, status)}

(* Mutant: any error of the client is taken for a refusal. *)
BookFlightAnyError ==
  LET h == "BookFlight"
      m == Current(h)
  IN
  /\ Ready(h)
  /\ \/ /\ Ask(m, m.leg, "booked")
        /\ Start(h, "sending", <<Flight("FlightBooked", m.ref, m.leg, m.key)>>)
     \/ /\ UNCHANGED transport
        /\ Start(h, "sending", <<Flight("FlightBookingFailed", m.ref, m.leg, 0)>>)
  /\ UNCHANGED <<bundles, sales, cancelled, voided, refunds, announced, lastKey>>

(* An id that is no UUID is an error like any other: the handler fails     *)
(* again and again.                                                        *)
BookFlight ==
  LET h == "BookFlight"
      m == Current(h)
  IN
  /\ Ready(h)
  /\ m.leg \notin bundles[m.ref].wrong
  /\ \/ /\ Ask(m, m.leg, "booked")
        /\ Start(h, "sending", <<Flight("FlightBooked", m.ref, m.leg, m.key)>>)
     \/ /\ Ask(m, m.leg, "refused")
        /\ Start(h, "sending", <<Flight("FlightBookingFailed", m.ref, m.leg, 0)>>)
  /\ UNCHANGED <<bundles, sales, cancelled, voided, refunds, announced, lastKey>>

BookTaxi ==
  LET h == "BookTaxi"
      m == Current(h)
  IN
  /\ Ready(h)
  /\ \/ /\ Ask(m, "taxi", "booked")
        /\ Start(h, "sending", <<Taxi("TaxiBooked", m.ref, m.key)>>)
     \/ /\ Ask(m, "taxi", "refused")
        /\ Start(h, "sending", <<Taxi("TaxiBookingFailed", m.ref, 0)>>)
  /\ UNCHANGED <<bundles, sales, cancelled, voided, refunds, announced, lastKey>>

(* DELETE of each ticket, 404 being as good as 204. *)
CancelFlightTickets ==
  LET h == "CancelFlightTickets" IN
  /\ Ready(h)
  /\ cancelled' = cancelled \cup {Current(h).key}
  /\ Start(h, "sending", <<>>)
  /\ UNCHANGED <<bundles, sales, transport, voided, refunds, announced, lastKey>>

(* VoidReceipt, then RefundPayment, then the event. *)
VoidReceipt ==
  LET h == "RefundTicket" IN
  /\ Ready(h)
  /\ voided' = voided \cup {<<Current(h).ref, Current(h).ticket>>}
  /\ Start(h, "voided", <<>>)
  /\ UNCHANGED <<bundles, sales, transport, cancelled, refunds, announced, lastKey>>

(* Mutant: each attempt pays under a key of its own. *)
RefundPaymentNewKey ==
  LET h == "RefundTicket"
      m == Current(h)
  IN
  /\ at[h] = "voided"
  /\ lastKey' = lastKey + 1
  /\ refunds' = refunds \cup {[ref |-> m.ref, ticket |-> m.ticket, key |-> lastKey']}
  /\ Reach(h, "sending", <<OfTicket("TicketRefunded", m.ref, m.ticket, 0)>>, queue)
  /\ UNCHANGED <<bundles, sales, transport, cancelled, voided, announced>>

RefundPayment ==
  LET h == "RefundTicket"
      m == Current(h)
  IN
  /\ at[h] = "voided"
  /\ refunds' = refunds \cup {[ref |-> m.ref, ticket |-> m.ticket, key |-> m.key]}
  /\ Reach(h, "sending", <<OfTicket("TicketRefunded", m.ref, m.ticket, 0)>>, queue)
  /\ UNCHANGED <<bundles, sales, transport, cancelled, voided, announced, lastKey>>
-----------------------------------------------------------------------------
Send(h) ==
  /\ SendNext(h)
  /\ announced' = announced \cup {m \in {Head(todo[h])} : m.type \notin Handlers}
  /\ UNCHANGED <<bundles, sales, outside, lastKey>>

ProcessManager ==
  \/ OnVipBundleInitialized \/ OnBookingMade \/ OnTicketBookingConfirmed
  \/ OnBookingFailed \/ OnFlightBooked \/ OnFlightBookingFailed
  \/ OnTaxiBooked \/ OnTaxiBookingFailed
  \/ \E h \in {"FlightBookingFailed", "TaxiBookingFailed"} : CloseFailed(h)

CommandHandlers ==
  \/ BookShowTickets \/ BookFlight \/ BookTaxi \/ CancelFlightTickets
  \/ VoidReceipt \/ RefundPayment

Deliver(h) == Send(h) \/ (Ack(h) /\ Others) \/ (Claim(h) /\ Others)

Fail(h) == (Retry(h) \/ Crash(h)) /\ Others

DeadNation == \E k \in Booking : \E i \in 1 .. Size[k] : ConfirmTicket(k, i)

Next ==
  \/ \E b \in Bundle : BookVipBundle(b)
  \/ \E p \in PlainBooking : BookTickets(p)
  \/ DeadNation
  \/ ProcessManager
  \/ CommandHandlers
  \/ \E h \in Handlers : Deliver(h) \/ Fail(h)

Spec == Init /\ [][Next]_vars
(* The router runs every handler whose message it can handle, and claims   *)
(* what a crash left pending; Dead Nation confirms the tickets of what it  *)
(* was told to book. Customers, failures and crashes are left free.        *)
Fairness ==
  /\ WF_vars(ProcessManager)
  /\ WF_vars(CommandHandlers)
  /\ WF_vars(\E h \in Handlers : Deliver(h))
  /\ WF_vars(DeadNation)

FairSpec == Spec /\ Fairness
-----------------------------------------------------------------------------
Message ==
  [type : Handlers \cup {"VipBundleFinalized", "VipBundleFinalizedFailed",
                         "TicketRefunded"},
   ref : Booking, leg : Legs \cup {"none"}, key : Nat, ticket : Nat]

(* The variables keep their types. *)
TypeOK ==
  /\ bundles \in [Bundle -> [created : BOOLEAN, wrong : SUBSET Misnamed, bookingMade : BOOLEAN,
                             tickets : Seq(Nat), inbound : Nat, return : Nat,
                             taxi : Nat, finalized : BOOLEAN, failed : BOOLEAN]]
  /\ outcome \in [Booking -> Sales!Verdicts \cup {"open"}]
  /\ confirmed \subseteq Booking \X Nat
  /\ transport \subseteq [key : Nat, ref : Bundle, leg : Legs,
                          status : {"booked", "refused"}]
  /\ cancelled \subseteq Nat
  /\ voided \subseteq Booking \X Nat
  /\ refunds \subseteq [ref : Bundle, ticket : Nat, key : Nat]
  /\ announced \subseteq Message
  /\ lastKey \in Nat
  /\ queue \in [Handlers -> Seq(Message)]
  /\ lost \in [Handlers -> Seq(Message)]
  /\ at \in [Handlers -> {"idle", "sending", "compensating", "voided"}]
  /\ todo \in [Handlers -> Seq(Message)]
  /\ faults \in Nat

Succeeded(b) == Finalized(b, TRUE) \in announced
Failed(b) == Finalized(b, FALSE) \in announced
RefusedLegs(b) == {a.leg : a \in {t \in transport : t.ref = b /\ t.status = "refused"}}
BookedKeys(b, legs) ==
  {a.key : a \in {t \in transport : t.ref = b /\ t.leg \in legs /\ t.status = "booked"}}

SuccessIsBacked(b) ==
  /\ outcome[b] = "made"
  /\ bundles[b].finalized
  /\ bundles[b].inbound \in BookedKeys(b, {"inbound"})
  /\ bundles[b].return \in BookedKeys(b, {"return"})
  /\ bundles[b].taxi \in BookedKeys(b, {"taxi"})

FailureIsBacked(b) ==
  /\ bundles[b].finalized /\ bundles[b].failed
  /\ outcome[b] = "refused" \/ RefusedLegs(b) # {}

(* Whatever was redelivered, reordered or lost on the way: a bundle is     *)
(* announced as complete (OnTaxiBooked) only when the show is booked and   *)
(* the flights and the taxi it names are bookings of this very bundle; and *)
(* as failed (OnBookingFailed, the two compensations) only after that is   *)
(* recorded for good, and only if the show or some leg was refused.        *)
VerdictIsBacked ==
  \A b \in Bundle :
    /\ Succeeded(b) => SuccessIsBacked(b)
    /\ Failed(b) => FailureIsBacked(b)

(* OnBookingMade, OnFlightBooked: the API is asked for a leg only when the *)
(* bundle in the database has recorded what comes before it, so that a     *)
(* failure of this leg finds the bundle with something to compensate and   *)
(* is not forgotten (the early return of OnFlightBookingFailed).           *)
LegsInOrder ==
  \A a \in transport :
    /\ bundles[a.ref].bookingMade
    /\ a.leg \in {"return", "taxi"} => bundles[a.ref].inbound # 0
    /\ a.leg = "taxi" => bundles[a.ref].return # 0

(* RefundTicket, CancelFlightTickets: money is returned, and flight        *)
(* tickets are cancelled, only for a bundle some leg of which was refused; *)
(* and only for tickets Dead Nation confirmed and flights of this bundle.  *)
CompensatesOnlyFailures ==
  /\ \A r \in refunds :
       /\ RefusedLegs(r.ref) # {}
       /\ <<r.ref, r.ticket>> \in confirmed \cap voided
  /\ \A key \in cancelled :
       \E b \in Bundle : RefusedLegs(b) # {} /\ key \in BookedKeys(b, Legs)

(* A bundle is announced as complete or as failed, not as both. *)
OneVerdict == \A b \in Bundle : ~(Succeeded(b) /\ Failed(b))

(* Once nothing is under way, a failed bundle holds no flight tickets: each*)
(* one the API ever issued for it was cancelled.                           *)
FlightsReleased ==
  Quiet => \A b \in Bundle :
             Failed(b) => BookedKeys(b, {"inbound", "return"}) \subseteq cancelled

(* No ticket is paid back twice. *)
NoDoubleRefund ==
  \A r, q \in refunds : r.ref = q.ref /\ r.ticket = q.ticket => r = q

(* OnFlightBookingFailed waits for every confirmation: once nothing is     *)
(* under way, all the tickets of the bundle were paid back. (After a taxi  *)
(* is refused only those confirmed by then are.)                           *)
FlightFailureRefundsAll ==
  Quiet => \A b \in Bundle :
    Failed(b) /\ RefusedLegs(b) \cap {"inbound", "return"} # {} =>
      \A i \in 1 .. Size[b] : \E r \in refunds : r.ref = b /\ r.ticket = i

(* A handler that will never be done with m: Found, BookShowTickets,       *)
(* BookFlight.                                                             *)
RetriedForEver(m) ==
  \/ m.type \in {"BookingMade", "TicketBookingConfirmed", "BookingFailed"} /\ m.ref \notin Bundle
  \/ m.type = "BookShowTickets" /\ "show" \in bundles[m.ref].wrong
  \/ m.type = "BookFlight" /\ m.leg \in bundles[m.ref].wrong

Blocked(h) == queue[h] # <<>> /\ RetriedForEver(Head(queue[h]))

(* Every bundle that was ordered is completed or failed, and says so,      *)
(* whichever of the repeatable handlers fail half-way, if no confirmation  *)
(* is lost; unless one and the same message is retried for ever and holds  *)
(* up its group. Only an event of a booking outside the bundles does that, *)
(* a show there is none of, or a flight id that is no UUID: of this bundle,*)
(* or of any other.                                                        *)
BundleSettled ==
  \A b \in Bundle :
    bundles[b].created ~> (Succeeded(b) \/ Failed(b) \/ \E h \in Handlers : Blocked(h))

(* "Not all ticket confirmations are part of VIP bundles - ignore if not   *)
(* found": the confirmation of another booking is handled like any other.  *)
PlainConfirmationIgnored ==
  \A p \in PlainBooking : \A i \in 1 .. Size[p] :
    (queue["TicketBookingConfirmed"] # <<>>
       /\ Head(queue["TicketBookingConfirmed"]).ref = p)
      ~> (\A j \in 1 .. Len(queue["TicketBookingConfirmed"]) :
            queue["TicketBookingConfirmed"][j].ref # p)
=============================================================================
