------------------------------ MODULE Bookings ------------------------------
(***************************************************************************)
(* Booking seats of a show: BookingsRepository.AddBooking, one SERIALIZABLE*)
(* transaction over the tables shows and bookings and the outbox, with its *)
(* two callers, POST /book-tickets and the BookShowTickets command handler.*)
(*                                                                         *)
(* A request is one call of a caller; Req gives what it asks for. Several  *)
(* transactions run at once, each on its own snapshot; PostgreSQL (external*)
(* code) refuses the commit of one that read rows of a show to which a     *)
(* concurrent transaction has added. The service may crash at any point,   *)
(* after which redis delivers a command again.                             *)
(*                                                                         *)
(* SUM(number_of_tickets) over a show is the cardinality of its set of     *)
(* sold seats, a seat being a pair of a booking and a number within it.    *)
(* Requests for fewer than zero tickets are outside the model.             *)
(***************************************************************************)
EXTENDS Naturals, FiniteSets

CONSTANTS
  Show, BookingId,
  Request,    \* calls: HTTP requests and deliveries of a command
  Req,        \* what each of them asks for
  Capacity,   \* shows.number_of_tickets
  MaxFaults   \* bound on crashes and lost connections

Via == {"http", "command"}
Row == [booking : BookingId, show : Show, tickets : Nat]

(* BookVipBundle draws the booking id of its command (uuid.NewString), so  *)
(* only another delivery of the same command carries it.                   *)
ASSUME RequestAssumption ==
  /\ Req \in [Request -> [row : Row, via : Via]]
  /\ \A r, q \in Request :
       Req[r].row.booking = Req[q].row.booking /\ Req[r].via = "command"
         => Req[q] = Req[r]

ASSUME CapacityAssumption == Capacity \in [Show -> Nat]
ASSUME FaultsAssumption == MaxFaults \in Nat

VARIABLES
  shows,      \* ids in table shows
  bookings,   \* rows of table bookings
  outbox,     \* BookingMade_v1 rows in the outbox
  refusals,   \* bookings whose BookingFailed_v1 has been published
  phase,      \* how far each request has got
  snapshot,   \* what the transaction of each request sees of bookings
  reply,      \* what the caller was told
  faults

vars == <<shows, bookings, outbox, refusals, phase, snapshot, reply, faults>>
tables == <<shows, bookings, outbox>>

BookingOf(r) == Req[r].row.booking
ShowOf(r) == Req[r].row.show
TicketsOf(r) == Req[r].row.tickets
Commands == {r \in Request : Req[r].via = "command"}
HttpCalls == Request \ Commands

Phases == {"idle", "inserted", "committed", "exists", "no_places",
           "announced", "error", "answered"}
Replies == {"none", "created", "conflict", "bad_request", "error", "ack"}
-----------------------------------------------------------------------------
RowsOf(s, table) == {row \in table : row.show = s}

SeatsOf(row) == {row.booking} \X (1 .. row.tickets)

SoldSeats(s, table) == UNION {SeatsOf(row) : row \in RowsOf(s, table)}

(* SELECT COALESCE(SUM(number_of_tickets), 0) ... WHERE show_id = $1 *)
AlreadyBooked(s, table) == Cardinality(SoldSeats(s, table))

(* The sum is taken after the INSERT: the transaction sees its own row. *)
Fits(r) ==
  AlreadyBooked(ShowOf(r), snapshot[r] \cup {Req[r].row}) + TicketsOf(r)
    <= Capacity[ShowOf(r)]

HasRow(b, table) == \E row \in table : row.booking = b

(* The unique index makes a second INSERT of a key wait for the first. *)
KeyLocked(r) ==
  \E q \in Request \ {r} : phase[q] = "inserted" /\ BookingOf(q) = BookingOf(r)

(* Mutant: the transaction runs at REPEATABLE READ. *)
SerializableNot(r) == TRUE

(* Neither transaction may miss rows the other one added to the show. *)
Serializable(r) == RowsOf(ShowOf(r), bookings) = RowsOf(ShowOf(r), snapshot[r])

Move(r, to) == phase' = [phase EXCEPT ![r] = to]
-----------------------------------------------------------------------------
Init ==
  /\ shows = {}
  /\ bookings = {}
  /\ outbox = {}
  /\ refusals = {}
  /\ phase = [r \in Request |-> "idle"]
  /\ snapshot = [r \in Request |-> {}]
  /\ reply = [r \in Request |-> "none"]
  /\ faults = 0

(* POST /shows *)
AddShow(s) ==
  /\ s \notin shows
  /\ shows' = shows \cup {s}
  /\ UNCHANGED <<bookings, outbox, refusals, phase, snapshot, reply, faults>>

(* Mutant: INSERT ... ON CONFLICT DO NOTHING. *)
InsertBookingAnyway(r) ==
  /\ phase[r] = "idle"
  /\ ShowOf(r) \in shows
  /\ Move(r, "inserted")
  /\ snapshot' = [snapshot EXCEPT ![r] = bookings]
  /\ UNCHANGED <<tables, refusals, reply, faults>>

(* BEGIN; INSERT INTO bookings *)
InsertBooking(r) ==
  /\ phase[r] = "idle"
  /\ ~HasRow(BookingOf(r), bookings)
  /\ ShowOf(r) \in shows
  /\ ~KeyLocked(r)
  /\ Move(r, "inserted")
  /\ snapshot' = [snapshot EXCEPT ![r] = bookings]
  /\ UNCHANGED <<tables, refusals, reply, faults>>

(* Mutant: the places are counted before the booking id is looked up. *)
InsertDuplicateNoPlaces(r) ==
  /\ phase[r] = "idle"
  /\ HasRow(BookingOf(r), bookings)
  /\ Move(r, "no_places")
  /\ UNCHANGED <<tables, refusals, snapshot, reply, faults>>

(* SQLSTATE 23505, ErrBookingAlreadyExists *)
InsertDuplicate(r) ==
  /\ phase[r] = "idle"
  /\ HasRow(BookingOf(r), bookings)
  /\ Move(r, "exists")
  /\ UNCHANGED <<tables, refusals, snapshot, reply, faults>>

(* The foreign key of bookings refuses a show that is not there. *)
InsertWithoutShow(r) ==
  /\ phase[r] = "idle"
  /\ ~HasRow(BookingOf(r), bookings)
  /\ ShowOf(r) \notin shows
  /\ Move(r, "error")
  /\ UNCHANGED <<tables, refusals, snapshot, reply, faults>>

(* ErrNoPlacesLeft, ROLLBACK *)
RollbackNoPlaces(r) ==
  /\ phase[r] = "inserted"
  /\ ~Fits(r)
  /\ Move(r, "no_places")
  /\ UNCHANGED <<tables, refusals, snapshot, reply, faults>>

Store(r) ==
  /\ bookings' = bookings \cup {Req[r].row}
  /\ outbox' = outbox \cup {Req[r].row}

(* The outbox row and the booking are committed together. *)
CommitBooking(r) ==
  /\ phase[r] = "inserted"
  /\ Fits(r)
  /\ Serializable(r)
  /\ Store(r)
  /\ Move(r, "committed")
  /\ UNCHANGED <<shows, refusals, snapshot, reply, faults>>

SerializationFailure(r) ==
  /\ phase[r] = "inserted"
  /\ Fits(r)
  /\ ~Serializable(r)
  /\ Move(r, "error")
  /\ UNCHANGED <<tables, refusals, snapshot, reply, faults>>

(* The connection breaks: before COMMIT took effect, or after. *)
LoseConnection(r) ==
  /\ phase[r] = "inserted"
  /\ faults < MaxFaults
  /\ faults' = faults + 1
  /\ \/ UNCHANGED <<bookings, outbox>>
     \/ Fits(r) /\ Serializable(r) /\ Store(r)
  /\ Move(r, "error")
  /\ UNCHANGED <<shows, refusals, snapshot, reply>>
-----------------------------------------------------------------------------
HttpStatus == [committed |-> "created", exists |-> "conflict",
               no_places |-> "bad_request", error |-> "error"]

(* Handler.BookTickets *)
AnswerHttp(r) ==
  /\ r \in HttpCalls
  /\ phase[r] \in DOMAIN HttpStatus
  /\ reply' = [reply EXCEPT ![r] = HttpStatus[phase[r]]]
  /\ Move(r, "answered")
  /\ UNCHANGED <<tables, refusals, snapshot, faults>>

(* A caller that saw an error may send the same request again. *)
PostAgain(r) ==
  /\ r \in HttpCalls
  /\ phase[r] = "answered"
  /\ reply[r] = "error"
  /\ reply' = [reply EXCEPT ![r] = "none"]
  /\ Move(r, "idle")
  /\ UNCHANGED <<tables, refusals, snapshot, faults>>

(* CommandHandler.BookShowTickets on ErrNoPlacesLeft *)
PublishBookingFailed(r) ==
  /\ r \in Commands
  /\ phase[r] = "no_places"
  /\ refusals' = refusals \cup {BookingOf(r)}
  /\ Move(r, "announced")
  /\ UNCHANGED <<tables, snapshot, reply, faults>>

(* Mutant: ErrBookingAlreadyExists is returned as any other error. *)
AckCommandNotExists(r) ==
  /\ r \in Commands
  /\ phase[r] \in {"committed", "announced"}
  /\ reply' = [reply EXCEPT ![r] = "ack"]
  /\ Move(r, "answered")
  /\ UNCHANGED <<tables, refusals, snapshot, faults>>

(* The handler returned nil: the message is acknowledged. *)
AckCommand(r) ==
  /\ r \in Commands
  /\ phase[r] \in {"committed", "exists", "announced"}
  /\ reply' = [reply EXCEPT ![r] = "ack"]
  /\ Move(r, "answered")
  /\ UNCHANGED <<tables, refusals, snapshot, faults>>

(* Any other error: the Retry middleware, then redelivery after a nack. *)
RetryCommand(r) ==
  /\ r \in Commands
  /\ phase[r] = "error"
  /\ Move(r, "idle")
  /\ UNCHANGED <<tables, refusals, snapshot, reply, faults>>

(* Open transactions roll back; redis redelivers what was not acknowledged;*)
(* an HTTP caller sees its connection drop.                                *)
Crash ==
  /\ faults < MaxFaults
  /\ faults' = faults + 1
  /\ phase' = [r \in Request |->
                 IF phase[r] = "answered" THEN "answered"
                 ELSE IF r \in Commands THEN "idle"
                 ELSE IF phase[r] = "idle" THEN "idle" ELSE "answered"]
  /\ reply' = [r \in Request |->
                 IF r \in HttpCalls /\ phase[r] \notin {"idle", "answered"}
                   THEN "error" ELSE reply[r]]
  /\ UNCHANGED <<tables, refusals, snapshot>>
-----------------------------------------------------------------------------
Transaction(r) ==
  \/ InsertBooking(r)
  \/ InsertDuplicate(r)
  \/ InsertWithoutShow(r)
  \/ RollbackNoPlaces(r)
  \/ CommitBooking(r)
  \/ SerializationFailure(r)

Caller(r) ==
  \/ AnswerHttp(r)
  \/ PublishBookingFailed(r)
  \/ AckCommand(r)
  \/ RetryCommand(r)

Next ==
  \/ \E s \in Show : AddShow(s)
  \/ \E r \in Request :
       Transaction(r) \/ Caller(r) \/ LoseConnection(r) \/ PostAgain(r)
  \/ Crash

Spec == Init /\ [][Next]_vars

(* The database finishes the transactions it was given and the router runs *)
(* each command until it is acknowledged; nobody has to create a show, and *)
(* nobody has to repeat an HTTP request.                                   *)
Fairness == \A r \in Request : WF_vars(Transaction(r)) /\ WF_vars(Caller(r))

FairSpec == Spec /\ Fairness
-----------------------------------------------------------------------------
(* The variables keep their types. *)
TypeOK ==
  /\ shows \subseteq Show
  /\ bookings \subseteq Row
  /\ outbox \subseteq Row
  /\ refusals \subseteq BookingId
  /\ phase \in [Request -> Phases]
  /\ snapshot \in [Request -> SUBSET Row]
  /\ reply \in [Request -> Replies]
  /\ faults \in Nat

(* AddBooking: however many transactions run at once, no show has more     *)
(* seats sold than it has places.                                          *)
NoOverbooking == \A s \in Show : AlreadyBooked(s, bookings) <= Capacity[s]

(* What a caller is told is true. 201 is answered to one request for a     *)
(* booking id only, and that request's row is the one stored; a command is *)
(* acknowledged only when its booking is stored or refused; 409 means that *)
(* the id is taken.                                                        *)
TruthfulReplies ==
  \A r \in Request :
    /\ reply[r] = "created" =>
         /\ Req[r].row \in bookings
         /\ \A q \in Request \ {r} :
              BookingOf(q) = BookingOf(r) => reply[q] # "created"
    /\ reply[r] = "ack" => Req[r].row \in bookings \/ BookingOf(r) \in refusals
    /\ reply[r] = "conflict" => HasRow(BookingOf(r), bookings)

(* The outcome of a VIP booking as the rest of the system sees it, from    *)
(* the events alone.                                                       *)
VipBookings == {BookingOf(r) : r \in Commands}
OutcomeSeen ==
  [b \in VipBookings |->
     IF HasRow(b, outbox)
       THEN IF b \in refusals THEN "contradiction" ELSE "made"
       ELSE IF b \in refusals THEN "refused" ELSE "open"]

Promise == INSTANCE BookingOutcome WITH Booking <- VipBookings,
                                        outcome <- OutcomeSeen

(* A command gives one verdict, BookingMade_v1 or BookingFailed_v1, though *)
(* it is retried, delivered twice at once and interrupted by crashes.      *)
ImplementsOutcome == Promise!OutcomeSpec

(* Every command for a show that exists is acknowledged in the end.        *)
CommandSettled ==
  \A r \in Commands : ShowOf(r) \in shows ~> reply[r] = "ack"

(* tests/component_test.go, "exact capacity booking": a booking is refused *)
(* only when the seats left, those sold to others deducted, do not cover it*)
RefusedOnlyWhenFull ==
  \A r \in Request :
    phase[r] = "no_places" =>
      AlreadyBooked(ShowOf(r), snapshot[r]) + TicketsOf(r) > Capacity[ShowOf(r)]
=============================================================================
