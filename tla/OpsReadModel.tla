---------------------------- MODULE OpsReadModel ----------------------------
(***************************************************************************)
(* The read model of the operations team: a row per booking, whose payload *)
(* says of each ticket that it was confirmed, printed, and so on. Five     *)
(* groups read a payload, change it and write it back, each on the events  *)
(* of one type and in no order among them. Beside them, when the service   *)
(* starts, the migration replays the old (v0) events of the event store    *)
(* into the same rows; if that fails, the service stops, and is started    *)
(* again.                                                                  *)
(*                                                                         *)
(* A payload is the set of pairs <<ticket, event type>> it has a trace of. *)
(***************************************************************************)
EXTENDS Naturals, Sequences, FiniteSets

CONSTANTS
  Ticket, Booking,
  BookingOf,     \* the booking of each ticket
  LiveEvents,    \* v1 events that may be published while the service runs
  OldEvents,     \* v0 events in the order of published_at
  Faulty, MaxFaults

Handles ==
  [OnBookingMade |-> "BookingMade",
   OnTicketBookingConfirmed_v1 |-> "TicketBookingConfirmed",
   OnTicketReceiptIssued_v1 |-> "TicketReceiptIssued",
   OnTicketPrinted_v1 |-> "TicketPrinted",
   OnTicketRefunded_v1 |-> "TicketRefunded"]

Group == DOMAIN Handles
Topic == Handles

Event ==
       [type : {"BookingMade"}, of : Booking]
  \cup [type : {Handles[g] : g \in Group} \ {"BookingMade"}, of : Ticket]

Old == {OldEvents[i] : i \in DOMAIN OldEvents}
RowOf(e) == IF e.type = "BookingMade" THEN e.of ELSE BookingOf[e.of]
MadeBefore(e) == [type |-> "BookingMade", of |-> RowOf(e)]
ConfirmedBefore(e) == [type |-> "TicketBookingConfirmed", of |-> e.of]

(* What must have happened before e. A refund may be asked for before the  *)
(* ticket is confirmed. That Dead Nation confirms tickets of bookings that *)
(* were made, and no others, is an assumption: POST /tickets-status takes  *)
(* any booking_id.                                                         *)
Causes(e) ==
  CASE e.type = "BookingMade" -> {}
    [] e.type \in {"TicketBookingConfirmed", "TicketRefunded"} -> {MadeBefore(e)}
    [] OTHER -> {MadeBefore(e), ConfirmedBefore(e)}

ASSUME BoundAssumption == MaxFaults \in Nat
ASSUME TicketAssumption == BookingOf \in [Ticket -> Booking]
ASSUME LiveAssumption == LiveEvents \subseteq Event \ Old
ASSUME OldAssumption ==
  /\ OldEvents \in Seq(Event)
  /\ \A i \in DOMAIN OldEvents :
       LET e == OldEvents[i] IN
       e.type # "BookingMade" =>
         Causes(e) \cup {ConfirmedBefore(e)} \subseteq {OldEvents[j] : j \in 1 .. i}

VARIABLES
  occurred,   \* live events published
  stored,     \* old events in the event store
  liveStored, \* some live event is in it as well
  rows,       \* read_model_ops_bookings: the payload of each booking in it
  open,       \* transactions that hold a row FOR UPDATE, and what they read
  migration,  \* "waiting", "running" or "done"
  batch,      \* the events it has yet to replay
  queue, lost, at, todo, faults

INSTANCE ConsumerGroups

events == <<occurred, stored, liveStored>>
migrator == <<migration, batch>>
bus == <<queue, lost, at, todo, faults>>
vars == <<events, rows, open, migrator, bus>>

Init ==
  /\ occurred = {}
  /\ stored = {}
  /\ liveStored = FALSE
  /\ rows = <<>>
  /\ open = {}
  /\ migration = "waiting" /\ batch = {}
  /\ BusInit
-----------------------------------------------------------------------------
(* The repository. *)

(* payload -> 'tickets' ? t *)
HasTicket(payload, t) == \E f \in payload : f[1] = t

(* Mutant: a row is looked up by its booking only. *)
FoundByBooking(e) == DOMAIN rows \cap {RowOf(e)}

(* findReadModelByBookingID, findReadModelByTicketID *)
Found(e) ==
  IF e.type = "TicketBookingConfirmed"
  THEN DOMAIN rows \cap {BookingOf[e.of]}
  ELSE {b \in DOMAIN rows : HasTicket(rows[b], e.of)}

Locked(b) == \E tx \in open : tx.row = b

(* Mutant: the SELECT is not FOR UPDATE. *)
SelectUnlocked(w, e) ==
  \E b \in Found(e) : open' = open \cup {[by |-> w, row |-> b, payload |-> rows[b]]}

(* SELECT ... FOR UPDATE: waits for a transaction that holds the row, then *)
(* reads what it has left. *)
SelectForUpdate(w, e) ==
  \E b \in Found(e) :
    /\ ~Locked(b)
    /\ open' = open \cup {[by |-> w, row |-> b, payload |-> rows[b]]}

UpdateReadModel(w, e) ==
  \E tx \in open :
    /\ tx.by = w
    /\ rows' = [rows EXCEPT ![tx.row] = tx.payload \cup {<<e.of, e.type>>}]
    /\ open' = open \ {tx}

(* Mutant: the transaction is left open after an error. *)
NoRollback(w) == UNCHANGED open

Rollback(w) == open' = {tx \in open : tx.by # w}

(* ON CONFLICT (booking_id) DO NOTHING *)
CreateBooking(b) ==
  rows' = [r \in DOMAIN rows \cup {b} |-> IF r \in DOMAIN rows THEN rows[r] ELSE {}]
-----------------------------------------------------------------------------
(* The handlers. One that does not find its row, or its ticket in it, fails*)
(* and is retried until it does; this changes nothing and is no step.      *)

OnBookingMade ==
  /\ Start("OnBookingMade", "sending", <<>>)
  /\ CreateBooking(Current("OnBookingMade").of)
  /\ UNCHANGED <<events, open, migrator>>

ReadPayload(g) ==
  /\ Start(g, "found", <<>>)
  /\ SelectForUpdate(g, Current(g))
  /\ UNCHANGED <<events, rows, migrator>>

WritePayload(g) ==
  /\ at[g] = "found"
  /\ Reach(g, "sending", <<>>, queue)
  /\ UpdateReadModel(g, Current(g))
  /\ UNCHANGED <<events, migrator>>

(* Mutant: a ticket that is missing is not an error. *)
AckMissing(g) ==
  \/ ReadPayload(g)
  \/ WritePayload(g)
  \/ /\ Ready(g)
     /\ Found(Current(g)) = {}
     /\ Start(g, "sending", <<>>)
     /\ UNCHANGED <<events, rows, open, migrator>>

UpdateReadModelByBookingID(g) == ReadPayload(g) \/ WritePayload(g)

UpdateReadModelByTicketID(g) == ReadPayload(g) \/ WritePayload(g)

OnTicketBookingConfirmed_v1 == UpdateReadModelByBookingID("OnTicketBookingConfirmed_v1")
OnTicketReceiptIssued_v1 == UpdateReadModelByTicketID("OnTicketReceiptIssued_v1")
OnTicketPrinted_v1 == UpdateReadModelByTicketID("OnTicketPrinted_v1")
OnTicketRefunded_v1 == UpdateReadModelByTicketID("OnTicketRefunded_v1")

Finish(g) == Ack(g) /\ UNCHANGED <<events, rows, open, migrator>>

ClaimPending(g) == Claim(g) /\ UNCHANGED <<events, rows, open, migrator>>

(* An error between two steps, or a COMMIT whose answer is lost. *)
FailHandler(g) ==
  /\ Retry(g)
  /\ Rollback(g)
  /\ UNCHANGED <<events, rows, migrator>>
-----------------------------------------------------------------------------
(* Mutant: what was left to replay is kept. *)
MigrateFromHere == migration' = "waiting" /\ UNCHANGED batch

(* Mutant: a migration that was begun counts as done. *)
MigrateOnce ==
  /\ migration' = IF migration = "running" THEN "done" ELSE migration
  /\ batch' = {}

MigrateAnew == migration' = "waiting" /\ batch' = {}

(* The service stops and is started again: open transactions are rolled    *)
(* back, and the migration begins anew. Messages whose handlers had begun, *)
(* or all that wait at the head of a queue, stay pending.                  *)
Restart ==
  /\ open' = {}
  /\ MigrateAnew
  /\ at' = [g \in Group |-> "idle"]
  /\ \E pending \in {{g \in Group : ~Idle(g)}, {g \in Group : queue[g] # <<>>}} :
       /\ queue' = [g \in Group |-> IF g \in pending THEN Tail(queue[g]) ELSE queue[g]]
       /\ lost' = [g \in Group |->
                     IF g \in pending THEN Append(lost[g], Current(g)) ELSE lost[g]]
  /\ UNCHANGED <<events, rows, todo>>

(* A crash, or no event within five minutes (waitForEvents). *)
ServiceStops ==
  /\ faults < MaxFaults
  /\ faults' = faults + 1
  /\ Restart

WaitForEvents ==
  /\ migration = "waiting"
  /\ stored # {} \/ liveStored
  /\ migration' = "running"
  /\ batch' = stored
  /\ UNCHANGED <<events, rows, open, bus>>

(* e is the next of them by published_at. *)
Replaying(e) ==
  /\ migration = "running"
  /\ \E i \in DOMAIN OldEvents :
       /\ e = OldEvents[i] /\ e \in batch
       /\ \A j \in 1 .. i - 1 : OldEvents[j] \notin batch

(* handleBookingMade_v0 *)
ReplayBookingMade(e) ==
  /\ Replaying(e)
  /\ e.type = "BookingMade"
  /\ CreateBooking(e.of)
  /\ batch' = batch \ {e}
  /\ UNCHANGED <<events, open, migration, bus>>

(* The other handlers of v0 events. *)
ReplayRead(e) ==
  /\ Replaying(e)
  /\ e.type # "BookingMade"
  /\ ~\E tx \in open : tx.by = "migration"
  /\ SelectForUpdate("migration", e)
  /\ UNCHANGED <<events, rows, migrator, bus>>

ReplayWrite(e) ==
  /\ Replaying(e)
  /\ UpdateReadModel("migration", e)
  /\ batch' = batch \ {e}
  /\ UNCHANGED <<events, migration, bus>>

(* The first error ends the migration, and with it the service. *)
ReplayFails(e) ==
  /\ Replaying(e)
  /\ e.type # "BookingMade"
  /\ Found(e) = {}
  /\ Restart
  /\ UNCHANGED faults

MigrationDone ==
  /\ migration = "running"
  /\ batch = {}
  /\ migration' = "done"
  /\ UNCHANGED <<events, rows, open, batch, bus>>

Replay(e) == ReplayBookingMade(e) \/ ReplayRead(e) \/ ReplayWrite(e) \/ ReplayFails(e)
-----------------------------------------------------------------------------
(* Surroundings *)

Occurs(e) ==
  /\ e \in LiveEvents \ occurred
  /\ Causes(e) \subseteq occurred \cup Old
  /\ occurred' = occurred \cup {e}
  /\ queue' = Post(queue, e)
  /\ UNCHANGED <<stored, liveStored, rows, open, migrator, lost, at, todo, faults>>

(* SaveEventInEventStore. After a failure an event may be stored behind    *)
(* one that was published later.                                           *)
SaveOldEvent(e) ==
  /\ e \in Old \ stored
  /\ stored' = stored \cup {e}
  /\ UNCHANGED <<occurred, liveStored, rows, open, migrator, bus>>

SaveLiveEvent ==
  /\ occurred # {}
  /\ ~liveStored
  /\ liveStored' = TRUE
  /\ UNCHANGED <<occurred, stored, rows, open, migrator, bus>>

Handlers ==
  \/ OnBookingMade
  \/ OnTicketBookingConfirmed_v1
  \/ OnTicketReceiptIssued_v1
  \/ OnTicketPrinted_v1
  \/ OnTicketRefunded_v1

Next ==
  \/ Handlers
  \/ \E g \in Group : Finish(g) \/ ClaimPending(g) \/ FailHandler(g)
  \/ ServiceStops
  \/ WaitForEvents
  \/ MigrationDone
  \/ \E e \in Old : Replay(e) \/ SaveOldEvent(e)
  \/ \E e \in LiveEvents : Occurs(e)
  \/ SaveLiveEvent

Spec == Init /\ [][Next]_vars

(* Router and migration run until they are done, and what is pending is    *)
(* claimed. A lock on a row is not denied for ever, as only so many events *)
(* ask for it.                                                             *)
Fairness ==
  /\ WF_vars(OnBookingMade)
  /\ WF_vars(OnTicketBookingConfirmed_v1)
  /\ WF_vars(OnTicketReceiptIssued_v1)
  /\ WF_vars(OnTicketPrinted_v1)
  /\ WF_vars(OnTicketRefunded_v1)
  /\ \A g \in Group : WF_vars(Finish(g)) /\ WF_vars(ClaimPending(g))
  /\ WF_vars(WaitForEvents)
  /\ WF_vars(MigrationDone)
  /\ \A e \in Old : WF_vars(Replay(e))

FairSpec == Spec /\ Fairness
-----------------------------------------------------------------------------
Fact == Ticket \X {Handles[g] : g \in Group}

(* The variables keep their types. *)
TypeOK ==
  /\ occurred \subseteq LiveEvents
  /\ stored \subseteq Old
  /\ liveStored \in BOOLEAN
  /\ DOMAIN rows \subseteq Booking
  /\ rows \in [DOMAIN rows -> SUBSET Fact]
  /\ open \subseteq [by : Group \cup {"migration"}, row : Booking, payload : SUBSET Fact]
  /\ migration \in {"waiting", "running", "done"}
  /\ batch \subseteq IF migration = "running" THEN Old ELSE {}
  /\ queue \in [Group -> Seq(Event)]
  /\ lost \in [Group -> Seq(Event)]
  /\ at \in [Group -> {"idle", "found", "sending"}]
  /\ todo = [g \in Group |-> <<>>]
  /\ faults \in 0 .. MaxFaults

Recorded(e) ==
  IF e.type = "BookingMade" THEN e.of \in DOMAIN rows
  ELSE RowOf(e) \in DOMAIN rows /\ <<e.of, e.type>> \in rows[RowOf(e)]

(* What must be in the rows before e is. *)
BuildsOn ==
  [e \in Event |->
     CASE e.type = "BookingMade" -> {}
       [] e.type = "TicketBookingConfirmed" -> {MadeBefore(e)}
       [] OTHER -> {ConfirmedBefore(e)}]

View == INSTANCE OpsView
          WITH happened <- occurred \cup Old, shown <- {e \in Event : Recorded(e)}

(* Groups and migration come to the rows in any order, some of them twice, *)
(* between any two steps of each other, and after failures and restarts;   *)
(* yet the rows take in one event at a time, once, after those it builds   *)
(* on, only if it has happened, and for good.                              *)
ImplementsView == View!ViewSpec

(* What a row says is never taken back: neither another group that writes  *)
(* the same payload, nor the migration, nor BookingMade handled again      *)
(* removes a booking or a trace of a ticket from the read model.           *)
FactsKept ==
  [][\A b \in DOMAIN rows : b \in DOMAIN rows' /\ rows[b] \subseteq rows'[b]]_vars

(* In whatever order the groups and the migration come to a ticket, it is  *)
(* shown in its own booking and confirmed first, and everything it is said *)
(* to have been through has happened. tests/ops_bookings_test.go:144-158   *)
(* expects otherwise: two tickets in a booking just made, none of them     *)
(* confirmed; CreateBooking stores an empty map of tickets.                *)
ConfirmedFirst ==
  \A b \in DOMAIN rows : \A f \in rows[b] :
    /\ BookingOf[f[1]] = b
    /\ <<f[1], "TicketBookingConfirmed">> \in rows[b]
    /\ [type |-> f[2], of |-> f[1]] \in occurred \cup Old

(* An event that comes before its booking or ticket is not dropped: until  *)
(* the read model shows it, its group has the message.                     *)
RecordedOrOwed ==
  \A e \in occurred :
    \/ Recorded(e)
    \/ \E g \in Group : \E i \in 1 .. Len(queue[g] \o lost[g]) :
         Topic[g] = e.type /\ (queue[g] \o lost[g])[i] = e

(* Every ticket about which there will be events is confirmed: its         *)
(* confirmation was published, or replayed.                                *)
TicketsConfirmed ==
  \A e \in LiveEvents :
    e.type \notin {"BookingMade", "TicketBookingConfirmed"} =>
      ConfirmedBefore(e) \in occurred \/ Recorded(ConfirmedBefore(e))

(* Every event is shown in the end, whatever fails and whichever group it  *)
(* has to wait for, once no ticket is left that is never confirmed.        *)
LiveRecorded ==
  \A e \in LiveEvents : (e \in occurred /\ TicketsConfirmed) ~> Recorded(e)

(* A migration with all its events before it ends, whatever the groups do  *)
(* meanwhile, and has then recorded them all.                              *)
MigrationEnds ==
  (stored = Old /\ migration = "waiting")
    ~> (migration = "done" /\ \A e \in Old : Recorded(e))
=============================================================================
