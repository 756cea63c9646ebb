# Verification of the ticket service

The repository holds the code of an event-driven ticket service (`project/`,
about 5000 lines of Go) and the small programs that lead up to it. This
directory models the service in TLA+: what its transactions, message handlers
and process manager do when they run at once, fail half-way, are retried,
redelivered or crash; and those of the other programs that have a state of
their own (the poison queue and its command line, an orders service, three read
models). TLC checks the models on small instances; TLAPS proves the theorems of
the modules called `...Proofs` for every instance.

Paths below are relative to `project/` unless they start with a number or with
`poison-queue-cli`.

## The system

| Component | State | Operations | Talks to |
|---|---|---|---|
| HTTP API (`http/controller.go`) | none | POST /shows, /book-tickets, /book-vip-bundle, /tickets-status, PUT /ticket-refund, GETs | repositories, event bus, command bus |
| Seat booking (`database/booking-repository.go`) | tables `shows`, `bookings`, the outbox | `AddShow`, `AddBooking` | called by HTTP and by the command handler `BookShowTickets` |
| Outbox and forwarder (`database/outbox.go`, `forwarder.go`) | outbox rows, the forwarder's offset | publish in a transaction; forward to the stream `events` | redis |
| Routers (`events/router.go`, `commands/router.go`) | redis streams, a consumer group per handler | split `events` by type, run handlers, retry, nack, acknowledge | every handler |
| Process manager (`process_manager/`) | table `vip_bundles` | eight event handlers | sends commands, publishes `VipBundleFinalized_v1` |
| Command handlers (`commands/handler/`) | none | `BookShowTickets`, `BookFlight`, `BookTaxi`, `CancelFlightTickets`, `RefundTicket` | bookings, transportation, receipts and payments APIs |
| Ticket handlers (`events/handler/`) | table `tickets`, spreadsheet, files, receipts | store, remove, print, issue receipt, cancel, mark refunded | files, spreadsheets, receipts, Dead Nation |
| Ops read model (`database/read-model-ops-booking-repository.go`) | table `read_model_ops_bookings` | create, update by booking, update by ticket | fed by five groups |
| Event store and migration (`database/event-repository.go`, `migration.go`) | table `events` | store every event once; replay v0 events at start-up | the ops read model |
| Service (`service/service.go`) | the running goroutines | start in order, stop together | everything |
| Poison queue (`poison-queue-cli/main.go`, `20-fault-tolerance/04-poison-queue/`) | a Kafka topic | move a hopeless message there; preview, remove, requeue | Kafka |
| Orders service (`21-sagas-and-process-managers/02-removing-sagas/`) | tables `stock`, `orders` | POST /orders, POST /products-stock | PostgreSQL |
| Alerts (`14-message-ordering/04-...`, `05-...`) | a map in memory | two handlers each, which publish `AlertUpdated` | Kafka |
| Invoices (`13-read-models/02-building-read-models/`) | two maps in memory | three handlers | a bus in memory |

What is hard about it:

* **Concurrency.** `AddBooking` runs in as many transactions as there are
  requests. Every handler is a group of its own: the events of one bundle are
  handled side by side, in an order only their causes fix.
* **Failure.** A handler is several steps (update, send, send, publish); an
  error or a crash between two of them runs it again from its first line. Its
  safety then rests on idempotency keys, on unique indexes, or on nothing.
* **Ordering.** Confirmations of tickets arrive at any time; a crash leaves
  messages pending which are claimed after later ones.
* **Waiting.** A handler that returns an error until something else has
  happened blocks its group meanwhile.

What makes each component correct:

* *Seat booking*: no show is sold beyond its capacity; each booking id is
  stored once; what a caller is told is true; a booking of a VIP bundle gets
  one verdict.
* *Process manager*: a bundle is announced as complete only when all parts are
  booked, as failed only when some part was refused; on a failure everything
  bought is given back, once; every bundle is closed.
* *Routers, outbox, event store*: every committed event reaches every group at
  least once and the event store exactly once.
* *Tickets*: a confirmed ticket gets its row, receipt, file and line in the
  sheet, a cancelled one leaves the list; one receipt per ticket, one payment
  per refund asked for, and no mark before the payment.
* *Ops read model and migration*: nothing recorded is overwritten, nothing is
  shown before the confirmation, and in the end everything is shown.
* *Service*: a signal or a failure ends all goroutines, and cuts nothing off.
* *Poison queue*: no message is lost or multiplied; a command sees every message
  and ends.
* *Orders*: an order is shipped as a whole from a stock that covers it or
  cancelled as a whole, once, and every request is answered.
* *Alerts, invoices*: what is published or stored follows the events, whatever
  their order and repetition.

## Modules

| Module | Models |
|---|---|
| `BookingOutcome` | abstract: the booking of a VIP bundle is open, then made or refused, for good |
| `Bookings` | `AddBooking` and both its callers, with concurrent transactions; implements `BookingOutcome` |
| `BookingsProofs` | theorems about `Bookings` |
| `ConsumerGroups` | generic: consumer groups, retry, crash, claiming of pending messages |
| `VipBundle` | process manager, command handlers and the services behind them, on top of `ConsumerGroups` and `BookingOutcome` |
| `VipBundleProofs` | theorems about `VipBundle` |
| `EventDelivery` | outbox, forwarder, stream `events`, splitter, event store and the groups behind them, on top of `ConsumerGroups` |
| `OpsView` | abstract: what has happened comes into view, one event at a time, once and for good |
| `OpsReadModel` | the ops read model, its five groups and the migration, on top of `ConsumerGroups`; implements `OpsView` |
| `OpsReadModelProofs` | theorems about `OpsReadModel` |
| `Tickets` | confirmation, cancellation and refund of tickets through nine groups, on top of `ConsumerGroups` |
| `TicketsProofs` | theorems about `Tickets` |
| `ServiceRun` | start and stop of the service |
| `ServiceProofs` | theorems about its routers: about `EventDelivery` and `ServiceRun` |
| `PoisonQueue`, `PoisonQueueProofs` | the poison queue with its service and commands, and theorems about them |
| `OrderOutcome` | abstract: an order is shipped or cancelled, once and as a whole |
| `Orders`, `OrdersProofs` | the orders service; implements `OrderOutcome`; and theorems about it |
| `AlertTopics` | generic: two Kafka topics and the offsets of their consumers |
| `VersionedAlerts`, `IndependentAlerts` | the two ways to keep alerts, on top of `AlertTopics` |
| `InvoiceReadModel` | the invoices |
| `ReadModels` | one of the three read models: `VersionedAlerts`, `IndependentAlerts` or `InvoiceReadModel` |
| `ReadModelsProofs` | theorems about them |
| `MCBookings`, `MCVipBundle`, `MCEventDelivery`, `MCOpsReadModel`, `MCTickets`, `MCPoisonQueue`, `MCOrders`, `MCReadModels` | instances for TLC (`ServiceRun` needs none) |

Operators defined right before another one and commented "Mutant" are faulty
versions of it. They are part of no specification; they record, for each
property, a bug that it finds.

### Bookings

`InsertBooking` begins the transaction and takes its snapshot;
`RollbackNoPlaces`, `CommitBooking` and `SerializationFailure` are its ends.
The sum of `number_of_tickets` is taken after the INSERT, so it counts the new
row (`Fits`), as the code does. `outbox` stands for the `BookingMade_v1` rows
committed with the bookings. PostgreSQL is external and modelled by two facts:
the INSERT of a key waits for an uncommitted row with the same key
(`KeyLocked`), and of two transactions that each add a row to a show and sum
its rows, the second to commit fails under SERIALIZABLE (`Serializable`;
PostgreSQL may refuse more, which is a retry like `LoseConnection`). A lost
connection and a crash are faults: the COMMIT may or may not have taken
effect. A command is redelivered until it is acknowledged, and two deliveries
of it may run at once; an HTTP caller may repeat a request that failed.
Number of tickets is a natural number; negative numbers, which the code
accepts, are outside the model.

`SUM(number_of_tickets)` is written as the cardinality of a set of seats
(pairs of a booking and a number within it), which is the same number as long
as the ids are distinct, and keeps recursion out of a module with proofs.

### ConsumerGroups and VipBundle

A group takes the messages of its topic one by one. A handler is its first
step (`Start`: the read or update of the bundle, or the call of the API), the
messages it then sends, one per step (`SendNext`), and the acknowledgement.
Between any two of these it may fail and run again (`Retry`), or the service
may stop and the message becomes pending (`Crash`) and is claimed when later
messages may have been handled (`Claim`). `Faulty` names the handlers that may fail,
`MaxFaults` bounds how often.

The code's `OnX` handlers are actions of the same name. `OnFlightBookingFailed`
and `OnTaxiBookingFailed` send commands before they update the bundle; the
update and the closing event are `CloseFailed`. Tickets of one flight booking
are named by the idempotency key of the order. The transportation API
(external) gives one answer per key. The message's flight id is its leg, so
the two flights of a bundle are taken to be different ones. A flight or taxi
order that ends in an error other than a refusal changes nothing and is
retried; it is not a step of the model. The booking of the show is the
abstract `BookingOutcome`, whose verdict `refused` is given when the places
were found missing; `Bookings` shows that a later attempt then finds them
missing as well. Messages go straight to the queues; the outbox and the
splitter in between are the subject of `EventDelivery`. An event that is
delivered twice has the effect of a handler that runs again, which is what
`Faulty` gives; so has a confirmation that Dead Nation posts twice.

`FlightBooked_v1` and the other answers carry a bundle that exists, so their
handlers' "not found" errors cannot occur; the events of bookings without a
bundle do reach `OnBookingMade` and `OnTicketBookingConfirmed`, whose `Found` is then false for ever: the code means to ignore them and does not.

`BookVipBundle` takes ids as they come, and `wrong` says which of them are bad:
`NewVipBundle` asks only that they are not empty. `AddBooking` fails on a show
that does not exist or whose id is no UUID, `BookFlight` on a flight id that is
no UUID, and both again on each attempt, since nothing marks these errors as
permanent: their actions then have no step. `Misnamed` names the ids that may be
wrong in a run. These commands, and the events of other bookings, are all the
messages that are `RetriedForEver`, and a group with such a message in front is
`Blocked`. `BundleSettled` says that every bundle is completed or failed unless
some group is blocked; the compensations of a refused flight may be held up by
another bundle's command as well as by its own.

### EventDelivery

Here the handlers do nothing but note the event, and the way of the event is
the subject. `Commit` adds a row to the outbox with the transaction it belongs
to, `Publish` adds an event to the stream `events` directly. `Forward`, `Split`
and `SaveEventInEventStore` are the three relays, `Handle` is any handler of
`events/router.go`; all of them are groups of `ConsumerGroups`, so each may
fail or be stopped after it has published and before it has acknowledged. The
forwarder reads the outbox by a stored offset (watermill-sql, external) and
not through redis: a stop is for it like an error, it takes the same row again.
The ids of the events are drawn when they are made; two copies of a message
carry the same id, and `stored` is the set of the ids. Every event type has its
stream, also those nobody subscribes to. Internal events
(`InternalOpsReadModelUpdated`) go to a stream of their own that has no reader.
The streams are never trimmed and redis keeps what it was given.

### OpsReadModel

`rows` is the table `read_model_ops_bookings`. A payload is abstracted to the
set of pairs of a ticket and an event type it has a trace of (`ConfirmedAt`,
`ReceiptIssuedAt`, `PrintedAt`, `RefundedAt`); the times and amounts themselves
are left out, since each field is written by one event of the ticket only.
`CreateBooking` is one statement. The updates are two steps, `ReadPayload` and
`WritePayload`, with an entry of `open` between them that holds the row and the
payload as it was read. A handler that finds no row, or no ticket in it,
returns an error and is run again until it does: in the model it waits.

The migration is one more reader and writer of the rows: `WaitForEvents` takes
the stored old events (`batch`: those it has yet to replay), `ReplayBookingMade`,
`ReplayRead` and `ReplayWrite` put them in, in the order of `published_at`
(`Replaying`). `ReplayFails` is its first error,
which ends the service; `ServiceStops` is a crash, or the five minutes without
events. Both restart it: transactions are rolled back, messages in hand become
pending, the migration begins with the first event. v1 events in the store are
skipped by `processEvent`; all they do is end the waiting (`liveStored`). That
an event comes after what caused it (`Causes`) is the only order there is; a
refund may be asked for before the ticket is confirmed. It is an assumption that
Dead Nation confirms only tickets of bookings that were made: POST
/tickets-status takes any `booking_id`, and the confirmation of a booking there
is none of would be retried for ever.

### Tickets

`booking` is the one booking all the tickets belong to: Dead Nation is told of
it by group `BookingMade` and may then POST its entries
(`PostTicketsConfirmation`). `PublishStatus` is one turn of the handler's loop,
which goes on after a failed Publish and ends at an invalid status with 400
(`AnswerStatus`). `PostAgain` is a request that is repeated under its
idempotency key, after a lost answer or a stop in the middle. `PutTicketRefund`
takes any ticket id, as the code does.

Each group is an action: `StoreTicket`, `IssueReceipt`, `AppendToTracker`,
`StoreTicketFile`, `RemoveCanceledTicket`, `UpdateRefundedTicket`,
`BookingMadeUpdate`; `CancelTicket` is two (`CancelTicketAppend`,
`CancelTicketDelete`) and `RefundTicket` is two (`VoidReceipt`,
`RefundPayment`), since they can fail in between. `CancelTicketDelete` returns
an error on a ticket that is not stored, and the row is appended again;
`RemoveCanceledTicket` would change nothing and waits. `UpdateRefundedAt` does
not look at the number of rows, as the code does not. Ticket ids are taken to be
UUIDs. POST /tickets-status accepts others too; the INSERT of `StoreTicket` then
fails on every attempt, and the group stays with that ticket. This is outside the
model.

The APIs are external: receipts and payments act once per idempotency key, the
files API keeps one file per name, the spreadsheet gets a row per call, counted
up to `MaxRows`. A table row is whether the ticket is stored, refunded and
deleted. Events nobody in the model reads (`TicketPrinted`,
`TicketReceiptIssued`) are sent all the same; their readers are in
`OpsReadModel`. The group is called `RemoveCancledTicket` in the code.

### ServiceRun

`pc` is where each goroutine of `Service.Run`'s errgroup is: the three routers,
the migration, the HTTP goroutine and the one that shuts the server down
(`closer`). `Signal` and `ReturnError` cancel the context they share; the first
error is the one `Run` returns. A router that was cancelled waits for its
message up to the CloseTimeout (`RouterStops` with the message still in hand is
the timeout). The migration waits for the events router, the HTTP goroutine for
all three, and neither looks at the context meanwhile. The routers, the HTTP
server and the errgroup are external. The goroutine that flushes traces is left
out; it does not keep anybody from ending.

### PoisonQueue

`topic` is the topic of the orders from the first one not acknowledged, `poison`
the topic PoisonQueue in the same way. The service handles an order
(`StoreTrackingLink`) or publishes it to PoisonQueue and acknowledges it
(`PublishToPoisonQueue`, `AckPoisoned`). `StartCommand` is a command's first
look at the queue. Its handler is `KeepMessage`, `RemoveMessage` or
`RequeueMessage`, followed by the publishing and the acknowledgement as steps of
their own; `FirstAgain` and `StopRouter` end the round when the message it
began with comes back, or the one it began with has left. `Timeout` is the ten
seconds of `iterate`. Kafka is external: it keeps the order and gives a message
out until it is acknowledged. One command runs at a time; `start`, `ending`,
`messages` and `removed` remember what a command found and did.

### Orders

A request is one transaction: `ReadStock` is its first look at all its products
(the snapshot), `UpdateStock` the UPDATE of one row, `InsertOrder`, `Commit`,
`Rollback`. `updated` holds the rows it has locked, `stale` those that somebody
committed since its snapshot. PostgreSQL is external and modelled by: a locked
row or key makes the next one wait; an UPDATE of a stale row is refused
(`ConcurrentUpdate`); of transactions that wait for each other one is rolled
back (`DeadlockDetected`); it may also refuse more, which is `Fail`. The code
ranges over a Go map, so the rows are updated in any order. It does not retry:
whatever fails is a 500 and the client may send the order again under another
request. `order_products` is written with `orders` and not kept apart.

### AlertTopics, VersionedAlerts, IndependentAlerts

The producer publishes `AlertTriggered` and `AlertResolved` to a topic each;
between the topics there is no order. The handlers hold one lock over everything
they do, publishing included, so each is one step; a `Publish` that fails may
have reached Kafka. A crash loses the map and goes back to the committed
offsets; the messages of `AlertUpdated` stay in Kafka, and each carries the
start of the process it was published in (`restarts` counts them), which is a
device of the model. `VersionedAlerts` drops every event whose version is not
the next one. Its history variable `overtook` notes the messages handled
(acknowledged) while the version before theirs was not;
`IndependentAlerts` applies every event to the field of its kind. The version of
an event is its number and stands for its time as well.

### InvoiceReadModel

The three handlers run at once and nothing locks the maps. Each is two steps,
`InvoiceByID` and the write. Accesses that overlap may end the process
(`ConcurrentMapWrites`, Go's "fatal error"), or each takes effect. The bus is
external: it hands a message out again until its handler returns nil, and
`Publish` returns after that, so a publisher's events come in order. Amounts and
times are natural numbers. `Reflects` says what the row of an invoice should hold
of the payments and voidings whose `Publish` has returned; the sum of the
payments is the number of units in them, as in `Bookings`. A handler that has
read an invoice overwrites what another stored meanwhile, so `ReadModelUpdated`
is stated for invoices whose payments and voidings do not meet (`InTurn`): they
come from one publisher, or there is only one of the two.

## Runs

| Run | Instance | Shows |
|---|---|---|
| `bookings_safety` | one show of 4 places, five calls (two share a booking id, two are deliveries of one command), 1 fault, fairness | `NoOverbooking`, `TruthfulReplies`, `ImplementsOutcome`, `CommandSettled` |
| `bookings_exact_capacity` | two calls, no fault | `RefusedOnlyWhenFull` is **violated** |
| `vip_faults` | one bundle, any of whose ids of the show and the flights may be wrong, and one plain booking of one ticket, 1 fault of a handler whose repetition has new effects | `TypeOK`, `VerdictIsBacked`, `LegsInOrder`, `CompensatesOnlyFailures` |
| `vip_retries` | one bundle of two tickets, any of whose ids of the show and the flights may be wrong, 1 fault of a handler that is safe to repeat, fairness | `OneVerdict`, `FlightsReleased`, `NoDoubleRefund`, `FlightFailureRefundsAll`, `BundleSettled` |
| `vip_plain_confirmation` | one bundle, one plain booking, no fault, fairness | `PlainConfirmationIgnored` is **violated** |
| `delivery_safety` | three events of two types (two through the outbox), two handlers, 1 fault of anybody, fairness | `NothingLost`, `BoundedDuplicates`, `EventHandled` |
| `ops_safety` | a new ticket with three events, an old one that is replayed and printed meanwhile, 1 fault, fairness | `TypeOK`, `ConfirmedFirst`, `RecordedOrOwed`, `ImplementsView`, `LiveRecorded`, `MigrationEnds` |
| `tickets` | one ticket, confirmed and cancelled in one request that ends in a bad entry, refunded at any time; 1 fault of the request, its Publish, or a group that calls an API before its last step; fairness | `OneReceipt`, `PaidAsAsked`, `EventsHaveEffect`, `CancelledLeaves` |
| `poison_queue` | three orders, two of them hopeless, two commands, 2 faults of any kind, fairness | `CompleteRound`, `NothingLost`, `BoundedCopies`, `RoundEnds` |
| `orders` | two orders for the same two products, one posted twice, up to 4 of each product, 2 faults, fairness | `StockConserved`, `ImplementsOrderOutcome`, `Answered` |
| `service_run` | all goroutines, 2 requests and 2 failures of any of them but the closer, fairness | `NothingInTheWorks`, `Returns` |
| `read_models` | one of: two alerts by versions, two alerts by kind (5 events, 2 faults), two invoices fed by three publishers | `TypeOK`, `UpdatesInOrder`, `LostOnlyOvertaken`, `Converges`, `ReadModelUpdated` |

What each property says, and of which code, is in the comment before it. The type
invariants that are in no run are proved.

The bounds. Four places for requests of 1 and 2 tickets let some but not all
of the calls through, in different combinations, and the interesting races
need two or three transactions on one show; shows do not interact. One fault
is enough to separate any two steps of a handler and run it again; with a
second one the models of the groups grow tenfold and repeat the same situations.
Where a second fault makes a difference, since what it meets is what the first
one left behind, there are two (poison queue, orders, service, alerts). One
bundle has one message per handler in flight, except where a repetition adds
more, which is what the faults are for; two tickets make a difference between
some and all confirmations. On the way of an event, two events in one stream
can overtake each other, a third goes another way. In the read model the
confirmation, the receipt and the refund of one ticket compete for its row, and
a live event competes with the replay for another; rows do not interact. The
groups of `Tickets` compete for the row of one ticket and no group looks at two;
one more row of a sheet than the first says nothing new (`MaxRows = 1`). Three
messages are the fewest among which a poison queue has a first, a middle and a
last one. Two orders for two products can wait for each other, and 4 pieces of
each are enough for one order, for both, or for one that meets the rest of the
other. Three states of an alert are needed for a time to be overtaken by an
older one. Deadlock is not checked: the systems rightly stop when every request
is answered and every queue is empty, or blocked.

The two violations are disagreements between the code and its own words:

* `RefusedOnlyWhenFull` (`database/booking-repository.go:109`): the requested
  tickets are counted twice, once in `alreadyBookedSeats`, a sum taken after the
  INSERT, and once in the comparison of `remainingSeats` with them. The test
  "exact capacity booking" (`tests/component_test.go:176`) expects 6 and then 4
  of 10 places to be booked. The first booking is refused (10 - 6 = 4 < 6), and
  then the second passes (10 - 4 = 6). More than half of the places cannot be
  booked at once, and the last one never.
* `PlainConfirmationIgnored` (`process_manager/vip_bundle_process_manager.go:108`):
  the comment says that confirmations outside bundles are ignored; the error is
  wrapped, is not recognised, and the message blocks its group.

A third disagreement has no run of its own, since the property that contradicts
the test is one that holds: "get ops bookings filtered by receipt date"
(`tests/ops_bookings_test.go:144`) books two tickets and expects the read model to
list them (`:156`, `require.Equal(t, 2, len(ticketIDs))`) before it confirms them.
`CreateBooking` stores an empty map of tickets
(`database/read-model-ops-booking-repository.go:72`), and only a confirmation adds
one: `ConfirmedFirst` says that no ticket is shown before. In the tests Dead Nation
is a stub that confirms nothing, so the assertion fails.

**Which handlers are safe to repeat** is a result of the models, and the reason
for two runs with different `Faulty` sets. Safe: `OnVipBundleInitialized`,
`OnBookingFailed`, `OnTaxiBooked`, and the commands `BookShowTickets`,
`CancelFlightTickets`, `RefundTicket`. Not safe: `OnBookingMade` and
`OnFlightBooked` draw a new idempotency key on each attempt, so that flights or
taxis are ordered twice and one set of tickets is forgotten;
`OnFlightBookingFailed` and `OnTaxiBookingFailed` send refunds under new keys;
`OnTicketBookingConfirmed` appends the ticket a second time, after which
`len(TicketIDs)` never equals `NumberOfTickets`; `BookFlight` and `BookTaxi`
publish their answer again, which then meets one of the former. With a fault of
one of these `OneVerdict`, `FlightsReleased`, `NoDoubleRefund` and
`BundleSettled` are false; no document of the repository claims otherwise, so
these are stated here and not as findings. The properties of `vip_faults` hold
even then.

Seen on the way, and promised by no document, so neither properties nor
findings:

* A first poisoned message that cannot be published at the tail is redelivered,
  taken for the end of the round, and the command ends early
  (`poison-queue-cli/main.go:163`); `CompleteRound` is stated without faults.
* A signal during the migration makes `Run` return the error of the context and
  `main` panic (`service/service.go:161`); a router that never starts keeps the
  HTTP goroutine, and with it `Run`, for ever, so `Returns` is stated for
  services whose routers have all started.
* A command with a bad id (a show that is not there, a flight id that is no UUID)
  is retried for ever and holds up the same command of every other bundle
  (`database/booking-repository.go:92`, `adapters/transportation_client.go:37`);
  `BundleSettled` excepts it.
* If the Publish of a confirmation fails and that of the cancellation does not,
  both groups of the cancellation fail for ever and hold up the others behind
  it; `CancelledLeaves` is stated for tickets whose confirmation is published.
* A refund handled before `StoreTicket` leaves no mark
  (`database/tickets-repository.go:57`).
* A payment and a voiding of one invoice handled at once lose one of the two
  (`13-read-models/02-building-read-models/main.go:110`); `ReadModelUpdated` is
  stated for invoices whose payments and voidings have one publisher.
* After a restart of `04-versioning-entities` an alert's version begins with 0
  again while the topics go on from the committed offsets: an alert whose first
  event is behind them is stuck, and one whose events are not is published a
  second time. `UpdatesInOrder` promises order and no repetition from one start
  to the next, and `LostOnlyOvertaken` is stated for the time before a restart.

**Fairness.** `Bookings!FairSpec`: the database ends each transaction it was
given, the router runs a command until it is acknowledged (the Retry
middleware, then redelivery after a nack). Nobody has to create a show or
repeat an HTTP request. `VipBundle!FairSpec`: the routers run handlers that can
make a step and claim pending messages; Dead Nation confirms the tickets of
bookings that were made, and `vip_retries` has no loss of a confirmation. A
handler with a bad id can make no step, so fairness does not force it to a
verdict. Weak fairness of each group of actions as a whole is
enough. `EventDelivery!FairSpec`: `Service.Run` keeps routers and forwarder
running as long as the service does, each with a goroutine per handler, so a
step of a group that stays possible is taken; nobody has to publish anything.
`OpsReadModel!FairSpec` says the same of the five groups and of the migration,
which `Service.Run` starts beside them. `LiveRecorded` is stated for histories
in which every refunded ticket is confirmed (`TicketsConfirmed`),
`MigrationEnds` for an event store that is complete before the migration: the
code waits for the first event only, and accepts the refund of any ticket id.
`Tickets!FairSpec`: the HTTP server goes on with the requests it has and the
router runs the handlers; `CancelTicket`, whose attempts may fail over and over,
is fair by itself, so that it is no substitute for the others.
`PoisonQueue!FairSpec`: the service and the router of a command run; no timeout
has to come. `Orders!FairSpec`: each request has a goroutine, and PostgreSQL
answers it. `ServiceRun!FairRunSpec`: goroutines are scheduled and requests
answered; nobody has to send a signal, and a message in hand may outlive the
CloseTimeout. `IndependentAlerts!Fairness`: the router runs both handlers. The
other two read models have safety properties only and no fairness. Requests,
commands, orders, faults and refusals are free everywhere.

## Proofs

`BookingsProofs` proves, for any sets of shows, requests and booking ids, any
capacities and any number of faults (assuming `RequestAssumption`: a command's
booking id is used only by deliveries of the same command; and
`CapacityAssumption`, `FaultsAssumption`: the numbers are naturals; the sets
need not be finite):

* `TypeCorrect`: `Spec => []TypeOK`.
* `NeverOverbooked`: `Spec => []NoOverbooking`.
* `BookingsImplementOutcome`: `Spec => ImplementsOutcome`.
* `RepliesAreTrue`: `Spec => []TruthfulReplies`.

`NoOverbooking` is not inductive: a commit checks the sum of its *snapshot*. The
inductive invariant `IInv` adds what ties the snapshot to the table and the
verdict to the events:

* `LockInv`: the booking id of a transaction between INSERT and COMMIT has no
  row yet, and no other open transaction has that id;
* `SnapshotInv`: a snapshot is a part of `bookings`;
* `OutboxInv`: the outbox holds just the rows of `bookings`;
* `SeatsInv`: the sold seats of each show are finite and no more than its
  capacity;
* `RefusalInv`: a command found without places, or announced as refused, has
  no row, and its tickets counted twice do not fit beside what is stored; as
  rows are only added, it never gets one.

`CommitKeepsInvariant` is where they meet: `Serializable` makes the sum over
the snapshot the sum over the table, the new row adds its tickets at most
(`SeatsOfRow`, `AddRow`), and the check, which is stricter than it has to be,
leaves the total within the capacity. Dropping `KeyLocked` or `Serializable`
from the model makes the proof fail. The refinement maps a commit of a command
to `Make`, the publishing of `BookingFailed` to `Refuse` and all else to a
stutter. `RepliesAreTrue` rests on `RepliesInv`: two requests for one id are not
both committed or answered 201 (the second had to wait for the row of the first,
by `LockInv`), and every row was asked for by some request, which for a command
that finds its id taken can only be another delivery of itself
(`RequestAssumption`).

`ServiceProofs` proves, for any events, types, handlers and number of
faults (assuming that the outbox holds events, that handlers subscribe to event
types and are none of the relays, and that no type is called like one of the two
streams):

* `TypeCorrect`: `Spec => []TypeOK`.
* `NoEventLost`: `Spec => []NothingLost`.
* `RunsAreBounded`: `Spec => []BoundedDuplicates`.

What makes `NothingLost` inductive is a promise each group keeps between
publishing and acknowledging. `Delivered(g, e)` says that g has done its part
for e: the groups behind g have the event or have delivered it in turn.
`SendInv` says that a handler with nothing left to send has delivered the
message in its hand, so that acknowledging it gives up nothing; `BusOK`, that a
handler which is not idle has one. Every step makes `Progress`: a group stops
to owe an event only if it has delivered it; then `DeliveredStays`, by
following the way of the event from its end (handlers and store, splitter,
forwarder).

For `BoundedDuplicates` the runs are counted together with those that can still
come. `Total(c, e)` adds up the runs handler c had for event e, the messages of e
at the forwarder, the splitter and c whose work is still to be done (`Due`), and
one if e was not accepted yet. It starts as one. Commit, publishing, forwarding
and splitting take one off and add one at most; a handler's run takes off the
message it is run for; acknowledging and claiming change nothing; a retry or a
crash brings back the one message whose work was done but not acknowledged, and
is one more fault. So `Total(c, e) <= 1 + faults` is inductive (`DupInv`), with
`OwnMessages` (a group has only messages of its topic), and nothing in it is
negative.

Each of the proof modules about queues begins with lemmas which say what the
operations it needs (append, push, tail, removal from the middle) do to the set
of their messages (`RangeAppend`, ...), and where copies matter to the number of
copies of one (`CountWithout`, ...).

`OpsReadModelProofs` proves, for any bookings, tickets, live events, old events in
any order with their causes before them, faulty groups and number of faults
(assuming `TicketAssumption`: each ticket is of a booking; `LiveAssumption` and
`OldAssumption`: events are about bookings and tickets, live ones are not old;
`BoundAssumption`):

* `TypeCorrect`: `Spec => []TypeOK`.
* `RowsKeepFacts`: `Spec => FactsKept`, an action property.
* `ConfirmationsComeFirst`: `Spec => []ConfirmedFirst`.
* `NoEventDropped`: `Spec => []RecordedOrOwed`.
* `ReadModelImplementsView`: `Spec => ImplementsView`, a refinement.

A payload is read in one step and written back whole in another, so `FactsKept`
holds only if nobody else has written the row in between. `LockInv` says so: each
open transaction still `Holds` its row, that is, the row is as it was read, no
other open transaction has it, and the group that opened it is still at the event
it was opened for (the migration, at the next event of its batch, of which there
is one: `OneAtATime`), for which the row is ready (`Awaits`): it is the row of the
event's booking and, unless the event is the confirmation, has confirmed the
ticket. The last is why `ConfirmedFirst` holds: a ticket is found only in a payload
that has a trace of it, whose first was the confirmation (`FoundAwaits`). Rolling
back with the failure, and at a restart, is needed as well: a transaction that
outlived its handler would write for an event that is not in hand any more.
`BusInv`: a group has only events of its type that were published, and is about to
acknowledge only what the rows show; since rows only grow (`Grow`), it stays shown,
and `OwedInv`, which is `RecordedOrOwed` for queues as sets, is kept by the one
lemma `GroupStep` for all steps of a group.

The refinement maps what is in view to the events that are `Recorded`. Only four
steps change the rows. The two that create a booking bring its `BookingMade` into
view or, when it is there, nothing (`BookingInView`: the `ON CONFLICT`). The two
that write a payload bring in the event of the transaction (`WrittenInView`), since
by `LockInv` the payload is still that of the row, and the row `Awaits` the event:
so all it builds on is in view (`BuildsOn`). An event that is handled again, or
replayed by a second migration, changes nothing in view. That `OpsView` never takes
an event back gives `FactsKept` once more, for facts in rows of their own booking.

`TicketsProofs` proves, for any tickets, requests with any entries, refunds and
number of faults (assuming `BodyAssumption` and `RefundAssumption`: the entries
and the refunds are about tickets; `BoundAssumption`: the bounds are naturals):

* `TypeCorrect`: `Spec => []TypeOK`.
* `MoneyAsAsked`: `Spec => []PaidAsAsked`.
* `OneReceiptEach`: `Spec => []OneReceipt`, if no two requests confirm the same
  ticket (two different requests do get two receipts: the key of a receipt is
  that of the request and the ticket).
* `EffectsComplete`: `Spec => []EventsHaveEffect`.

`PaidAsAsked` ties the table to the payments and these to the requests, while
between them there are only messages. `HonestBus` says of each message, wherever
it is, pending ones included, that what it says is so (`Good`): a `RefundTicket`
was asked for under its key, a `TicketRefunded` was paid, a
`TicketBookingConfirmed` carries the key of a request that confirms the ticket.
`VoidInv` says that a handler about to pay has voided the receipt of the message
in its hand. Nobody takes back what makes a message good, so it stays good
(`HonestStays`) and all that is left to show of a step is which messages it adds
(`Adds`): none for a retry, a crash or a claim (`BusAddsNothing`), one for a
request (`PublisherKeepsBus`), those of the handler otherwise
(`HandlerKeepsBus`).

`EventsHaveEffect` speaks of moments when nothing is under way. Its invariant
`TInv` says for every moment where the effect of an event is, if it is not there:
a message that is due (`Due`), that is, waiting, pending after a crash, or in the
hands of a handler which has not done its work yet. `EffectInv` says so of the
events of every group; `MarkInv` of a refund asked for a stored ticket, which is
marked, or due to `RefundTicket`, or to `UpdateRefundedTicket` behind it;
`AppendedInv` and `SentInv` say what a handler between its steps has done. A step
may take a message off a group only when its effect is there, and effects last
(`Lasting`): a row of a sheet is never taken out, a file stays, and a ticket is
marked or deleted for good, `StoreTicket` run again or not.

`VipBundleProofs` proves, for any bundles, other bookings, booking sizes, faulty
handlers and number of faults (assuming `BookingAssumption`: no id is both a
bundle's and another booking's, and each booking has tickets), and whichever ids
of a bundle are wrong (`MisnamedAssumption`: among those of the show and of the
two flights):

* `TypeCorrect`: `Spec => []TypeOK`.
* `LegsFollow`: `Spec => []LegsInOrder`.
* `VerdictsBacked`: `Spec => []VerdictIsBacked`.
* `FailuresOnly`: `Spec => []CompensatesOnlyFailures`.

and, assuming `OnceOnly` (no failure strikes half-way the handlers that order the
legs, ask for them, compensate a failure, or count a confirmed ticket):

* `VerdictIsFinal`: `Spec => []OneVerdict`.
* `PaidBackOnce`: `Spec => []NoDoubleRefund`.
* `FlightsAreReleased`: `Spec => []FlightsReleased`.
* `AllPaidBack`: `Spec => []FlightFailureRefundsAll`.

Those of the first list survive handlers run twice, in any order. None is
inductive: each step relies on what its message says, and the one who sent it may
be long done. The invariant is again that all messages are `Good`, here also
those in the hands of a handler and the announced ones: a `FlightBooked` names a
booking the API made for that leg of that bundle (`Bought`), and the bundle has
recorded what precedes the leg (`Ahead`); whatever compensates names a bundle
with a refused leg (`Refused`). `Grows` is why messages stay good: verdicts,
answers, confirmations and what a bundle records are never taken back.
`KeysInv` is what the idempotency keys are for: orders and answers with the same
key agree on bundle and leg, so that an answer the API repeats is about the order
it is given for. Each handler's lemma shows that it grows what is recorded, sends
good messages, and draws at most one new key for an order (`Fresh`);
`HandlerKeeps`, `PublisherKeeps` and `RouterKeeps` do the rest.

Those of the second are false without `OnceOnly`: those handlers draw a new
idempotency key, or append to `TicketIDs`, each time they run, so that a second
run orders a leg, asks for a refund or counts a ticket once more (the hazards say
where). All other handlers may fail as often as they like, among them
`RefundTicket`, `CancelFlightTickets`, and all the handlers of the ticket service,
which is more than the run `vip_retries` allows. The invariant is `IInv` and
`TInv`. `Shape`: of each bundle there is at most one message in the whole chain
BookingMade, BookFlight, FlightBooked, ..., so its steps follow each other although
six groups take part. `View` says what the bundle's row, the API and the
compensations under way say of each other: a leg is asked for once (`AskedOnce`),
the row has recorded what the API answered unless the answer is still on its way
(`Recorded`), what a failed bundle has booked is cancelled or about to be
(`Released`), and its tickets are paid back or about to be, each under one key
(`Repaid`, `RefundKeys`). `Done`: the handlers of the compensations have done what
they are about to acknowledge. `Counted`: a ticket is in `TicketIDs` once, which is
why a bundle that waits for its confirmations has all of them when the numbers
agree. When nothing is under way, "about to be" is empty, and the properties are
what is left.

`PoisonQueueProofs` proves `TypeCorrect` and `NoMessageLost`
(`Spec => []NothingLost`) for any messages, commands and faults (assuming that
`None` is no message and `MissingLink` are messages). A message between its
publishing and its acknowledgement is in two places; `SafeToAck` says that all
would still be somewhere if it were acknowledged at once. It also proves

* `RoundsAreComplete`: `Spec => []CompleteRound`;
* `CopiesBounded`: `Spec => []BoundedCopies`.

Both look at the two queues as they will be once what was published is
acknowledged (`Topic`, `Poison`): in this view publishing at the tail and leaving
the head are one move. `CInv` says that without faults there is one copy of each
message (`OneCopy`) and that a command is somewhere in its round (`RoundInv`): for
some i (`Halfway`), the i messages it has done are behind those it found and has
not read, and these, unread, are still in the order it found them, at the head;
what the service poisons meanwhile comes behind. So the first message comes back
when just the messages found are done (unless it is the one asked for, and the
command ends with it). `BoundedCopies` counts:
`Total`, the copies in both views and the one to be published, changes only when
something fails between the publishing and the acknowledgement.

`OrdersProofs` proves, for any products, orders (assuming `DemandAssumption`:
they ask for products in whole numbers), requests and faults: `TypeCorrect`;
`StockNeverNegative` (`Spec => []NeverNegative`, in no run since the
refinement says more); `OrdersImplementOutcome`
(`Spec => ImplementsOrderOutcome`); `NothingVanishes`
(`Spec => []StockConserved`). `RowsInv`: a row a transaction holds is held
by no other and has not changed since its snapshot; `SnapshotInv`: what the
snapshot says of rows that are not stale still holds; `KeyInv`: of the
transactions of an order one at most has inserted it, having updated all its
rows. So at a commit the order is covered by the stock of that moment. The sum in
`StockConserved` needs no induction: what the shipped orders took of a product is
the cardinality of the set of its units (`Units`, a pair of the order and a number
for each), a commit adds the units of one order that was not shipped before, and
these sets are disjoint (`ShippedUnits`).

Of `ServiceRun`, `ServiceProofs` proves, for any number of requests and failures
(assuming `BoundAssumption`: the number of requests has a bound, which is a
natural), `RunTypeCorrect`, `StopsClean` (`RunSpec => []NothingInTheWorks`) and
`RequestsAreServedInFull` (`RunSpec => []ServedInFull`: while requests are served
and the service is not stopping, all three routers run; in no run).
`RouterInv`: a router stops for the context only, and only one that ran has a
message; `ServerInv`: the server does not listen again once it was shut down,
and the closer leaves no request behind.

`ReadModelsProofs` proves, for any alerts with any history, any publishers,
invoices and events, and any number of faults (assuming `HistoryAssumption`: what
happens to an alert is that it is triggered or resolved; `EventAssumption`: what is
published are the three events, and a payment that is published more than once is
the same each time; `BoundAssumption`):

* `TypeCorrect`: `Spec => []TypeOK`.
* `UpdatesAreInOrder`: `Spec => []UpdatesInOrder`.
* `LostWereOvertaken`: `Spec => []LostOnlyOvertaken`.
* `ReadModelFollows`: `Spec => []ReadModelUpdated`.

The alerts rely on their topics: `Labelled` says that a message is an event of its
alert that was published, `Ordered` that within a topic the versions of an alert
grow; `TopicsGrow` is what a step of a topic does for those who read it. So the
message in hand is later than all that its group has handled (`MessageIsGood`).
`UpdatesInv`: what was published of an alert, start by start, are versions in
their order, those of the present start up to the stored one (`InOrder`, `Before`),
and each version `Missing` from those was a publication that failed, not a
restart. A restart changes none of the messages; it empties the map and begins a
new start, in which everything that was published lies before (`AnewInOrder`).

`LostOnlyOvertaken` is inductive together with the topics, though the stored
version moves. `LostInv` says of each message that was handled and is beyond the
stored version that one of the versions in between, or its own, is in `overtook`
(`Overtaken`); and that only handled messages are in it (`WasHandled`). A version
that is dropped and not older than the stored one either came before its
predecessor was handled, and is noted, or its predecessor was handled and is
itself beyond the stored version, so that what is said of that one holds of it
too. When a version is applied, it leaves the range; it had not been handled
before, so it was not in `overtook`, and who was overtaken elsewhere still is.

For the invoices, `AckedInv` says that the two maps hold the invoices and payments
of the events whose `Publish` has returned, `RowsInv` is `ReadModelUpdated`, and
`CopyInv` is what makes it inductive: between a handler's read and its write, an
invoice in turn stays as it was read. Only the other handler could change it, which
then had an event of the same invoice in hand at the same time, from another
publisher (`HandsDiffer`, `OneHandHasInvoice`). A payment found in
`processedPayments` is, by `EventAssumption`, the one that was counted before, so
that the set of acknowledged events stays the same; a new one adds its units to a
set that has none of them (`OneMorePayment`).

Only model-checked: all liveness (`CommandSettled`, `BundleSettled`,
`EventHandled`, `LiveRecorded`, `MigrationEnds`, `CancelledLeaves`, `RoundEnds`,
`Answered`, `Returns`, `Converges`), which is out of the prover's reach. No module
uses a RECURSIVE operator.

## Not modelled

Tracing, metrics, logging and the GET handlers keep no state.
`project-modeling-process-manager/main.go` is the process manager as it was
before it was put into the project; `VipBundle` models the one that runs. The
players of `14-message-ordering/02-...` and `03-...` append to and remove from a
Go slice: with one topic this is sequential, with two partitions it is a data
race whose outcomes depend on the capacity of the slice's array. Throttling and
the circuit breaker (`20-fault-tolerance/`) put a middleware of the message
library in front of one handler, and the state is the library's. The other
exercises show one library call each, or are earlier versions of what the
project does.

Left out of the modules: more than one bundle at a time (two of them share the
queues and the key space of the transportation API; their states are too many
for one run beside a fault), equal flights in a bundle, negative numbers of
tickets, and orders of the same id with different products.

## What could come next

Two bundles at once, with a coarser `ConsumerGroups`.
