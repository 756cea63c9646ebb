--------------------------- MODULE BookingsProofs ---------------------------
(***************************************************************************)
(* For every set of shows, requests and capacities: AddBooking never       *)
(* oversells a show, and a VIP booking gets one verdict.                   *)
(*                                                                         *)
(* The invariant IInv says what a transaction may rely on between its      *)
(* INSERT and its COMMIT (LockInv, SnapshotInv), that the events are those *)
(* of the committed rows (OutboxInv), and that a refusal stays justified   *)
(* because seats are never given back (RefusalInv).                        *)
(***************************************************************************)
EXTENDS Bookings, FiniteSetTheorems, TLAPS

LockInv ==
  \A r \in Request : phase[r] = "inserted" =>
    /\ ~HasRow(BookingOf(r), bookings)
    /\ \A q \in Request \ {r} :
         phase[q] = "inserted" => BookingOf(q) # BookingOf(r)

SnapshotInv == \A r \in Request : snapshot[r] \subseteq bookings

OutboxInv == outbox = bookings

SeatsInv ==
  \A s \in Show : /\ IsFiniteSet(SoldSeats(s, bookings))
                  /\ AlreadyBooked(s, bookings) <= Capacity[s]

Refused(r) ==
  /\ ~HasRow(BookingOf(r), bookings)
  /\ AlreadyBooked(ShowOf(r), bookings) + TicketsOf(r) + TicketsOf(r)
       > Capacity[ShowOf(r)]

RefusalInv ==
  /\ refusals \subseteq VipBookings
  /\ \A r \in Commands :
       \/ phase[r] \in {"no_places", "announced"}
       \/ BookingOf(r) \in refusals
       => Refused(r)

IInv == TypeOK /\ LockInv /\ SnapshotInv /\ OutboxInv /\ SeatsInv /\ RefusalInv
-----------------------------------------------------------------------------
(* A row holds as many seats as it has tickets. *)
LEMMA SeatsOfRow ==
  ASSUME NEW row \in Row
  PROVE  IsFiniteSet(SeatsOf(row)) /\ Cardinality(SeatsOf(row)) = row.tickets
<1> DEFINE n == row.tickets
           id == {row.booking}
           numbers == 1 .. n
<1>1. n \in Nat
  BY DEF Row
<1>2. SeatsOf(row) = id \X numbers
  BY DEF SeatsOf
<1>3. IsFiniteSet(id) /\ Cardinality(id) = 1
  BY FS_Singleton
<1>. HIDE DEF n, id
<1>4. IsFiniteSet(numbers) /\ Cardinality(numbers) = IF 1 > n THEN 0 ELSE n - 1 + 1
  <2>1. 1 \in Int /\ n \in Int
    BY <1>1
  <2>. QED  BY ONLY <2>1, FS_Interval
<1>5. (IF 1 > n THEN 0 ELSE n - 1 + 1) = n
  BY <1>1
<1>6. Cardinality(numbers) = n
  BY <1>4, <1>5
<1>. HIDE DEF numbers
<1>7. /\ IsFiniteSet(id \X numbers)
      /\ Cardinality(id \X numbers) = Cardinality(id) * Cardinality(numbers)
  BY ONLY <1>3, <1>4, FS_Product
<1>8. 1 * n = n
  BY <1>1
<1>. QED  BY <1>2, <1>3, <1>6, <1>7, <1>8 DEF n

(* Adding a row for a new booking adds its tickets to the sum of its show. *)
LEMMA AddRow ==
  ASSUME NEW table \in SUBSET Row, NEW row \in Row, ~HasRow(row.booking, table),
         IsFiniteSet(SoldSeats(row.show, table))
  PROVE  /\ IsFiniteSet(SoldSeats(row.show, table \cup {row}))
         /\ AlreadyBooked(row.show, table) \in Nat
         /\ AlreadyBooked(row.show, table \cup {row})
              = AlreadyBooked(row.show, table) + row.tickets
<1> DEFINE old == SoldSeats(row.show, table)
           new == SeatsOf(row)
<1>1. SoldSeats(row.show, table \cup {row}) = old \cup new
  BY DEF SoldSeats, RowsOf
<1>2. old \cap new = {}
  BY DEF SoldSeats, SeatsOf, RowsOf, HasRow
<1>3. IsFiniteSet(new) /\ Cardinality(new) = row.tickets
  BY SeatsOfRow
<1>4. /\ IsFiniteSet(old \cup new)
      /\ Cardinality(old \cup new) = Cardinality(old) + Cardinality(new) - Cardinality({})
  BY <1>2, <1>3, FS_Union
<1>5. Cardinality({}) = 0 /\ Cardinality(old) \in Nat /\ row.tickets \in Nat
  BY FS_EmptySet, FS_CardinalityType DEF Row
<1>6. Cardinality(old \cup new) = Cardinality(old) + row.tickets
  BY <1>3, <1>4, <1>5
<1>. QED  BY <1>1, <1>4, <1>5, <1>6 DEF AlreadyBooked

(* A row of another show changes nothing. *)
LEMMA OtherShow ==
  ASSUME NEW table, NEW row, NEW s, row.show # s
  PROVE  SoldSeats(s, table \cup {row}) = SoldSeats(s, table)
BY DEF SoldSeats, RowsOf

(* Fewer rows, no more seats. *)
LEMMA FewerRows ==
  ASSUME NEW table, NEW part \in SUBSET table, NEW s,
         IsFiniteSet(SoldSeats(s, table))
  PROVE  /\ IsFiniteSet(SoldSeats(s, part))
         /\ AlreadyBooked(s, part) \in Nat
         /\ AlreadyBooked(s, table) \in Nat
         /\ AlreadyBooked(s, part) <= AlreadyBooked(s, table)
<1>1. SoldSeats(s, part) \in SUBSET SoldSeats(s, table)
  BY DEF SoldSeats, RowsOf
<1>. QED  BY <1>1, FS_Subset, FS_CardinalityType DEF AlreadyBooked

(* What a request asks for is well typed. *)
LEMMA RequestTypes ==
  ASSUME NEW r \in Request
  PROVE  /\ Req[r].row \in Row
         /\ BookingOf(r) \in BookingId
         /\ ShowOf(r) \in Show
         /\ TicketsOf(r) \in Nat
         /\ Capacity[ShowOf(r)] \in Nat
         /\ Req[r].row.booking = BookingOf(r)
         /\ Req[r].row.show = ShowOf(r)
         /\ Req[r].row.tickets = TicketsOf(r)
BY RequestAssumption, CapacityAssumption DEF Row, BookingOf, ShowOf, TicketsOf
-----------------------------------------------------------------------------
(* The variables keep their types. *)
THEOREM TypeCorrect == Spec => []TypeOK
<1>1. Init => TypeOK
  BY DEF Init, TypeOK, Phases, Replies
<1>2. TypeOK /\ [Next]_vars => TypeOK'
  <2> SUFFICES ASSUME TypeOK, [Next]_vars PROVE TypeOK'
    OBVIOUS
  <2> USE RequestTypes DEF TypeOK, tables, Move, Phases, Replies
  <2>1. ASSUME NEW s \in Show, AddShow(s) PROVE TypeOK'
    BY <2>1 DEF AddShow
  <2>2. ASSUME NEW r \in Request, Transaction(r) PROVE TypeOK'
    BY <2>2 DEF Transaction, InsertBooking, InsertDuplicate, InsertWithoutShow,
                RollbackNoPlaces, CommitBooking, SerializationFailure, Store
  <2>3. ASSUME NEW r \in Request, Caller(r) PROVE TypeOK'
    <3>1. CASE AnswerHttp(r)
      BY <3>1 DEF AnswerHttp, HttpStatus
    <3>2. CASE PublishBookingFailed(r)
      BY <3>2 DEF PublishBookingFailed
    <3>3. CASE AckCommand(r) \/ RetryCommand(r)
      BY <3>3 DEF AckCommand, RetryCommand
    <3>. QED  BY <2>3, <3>1, <3>2, <3>3 DEF Caller
  <2>4. ASSUME NEW r \in Request, LoseConnection(r) PROVE TypeOK'
    BY <2>4 DEF LoseConnection, Store
  <2>5. ASSUME NEW r \in Request, PostAgain(r) PROVE TypeOK'
    BY <2>5 DEF PostAgain
  <2>6. CASE Crash
    BY <2>6 DEF Crash
  <2>7. CASE UNCHANGED vars
    BY <2>7 DEF vars
  <2>. QED  BY <2>1, <2>2, <2>3, <2>4, <2>5, <2>6, <2>7 DEF Next
<1>. QED  BY <1>1, <1>2, PTL DEF Spec

(* A transaction that inserted, fits and is serializable keeps the         *)
(* invariant when it commits, whether or not its caller learns of it.      *)
LEMMA CommitKeepsInvariant ==
  ASSUME IInv, NEW r \in Request, phase[r] = "inserted", Fits(r),
         Serializable(r), Store(r), UNCHANGED <<refusals, snapshot>>,
         NEW to \in {"committed", "error"}, Move(r, to)
  PROVE  (LockInv /\ SnapshotInv /\ OutboxInv /\ SeatsInv /\ RefusalInv)'
<1> DEFINE row == Req[r].row
           s == ShowOf(r)
<1> USE RequestTypes DEF IInv, TypeOK
<1>1. /\ row \in Row /\ row.booking = BookingOf(r) /\ row.show = s
      /\ row.tickets = TicketsOf(r) /\ s \in Show /\ TicketsOf(r) \in Nat
      /\ Capacity[s] \in Nat
  OBVIOUS
<1>2. ~HasRow(BookingOf(r), bookings) /\ ~HasRow(BookingOf(r), snapshot[r])
  BY DEF LockInv, SnapshotInv, HasRow
<1>3. SoldSeats(s, snapshot[r]) = SoldSeats(s, bookings)
  BY DEF Serializable, SoldSeats
<1>4. IsFiniteSet(SoldSeats(s, bookings))
  BY DEF SeatsInv
<1>5. /\ IsFiniteSet(SoldSeats(s, bookings'))
      /\ AlreadyBooked(s, bookings) \in Nat
      /\ AlreadyBooked(s, bookings') = AlreadyBooked(s, bookings) + TicketsOf(r)
  BY <1>1, <1>2, <1>4, AddRow DEF Store
<1>6. AlreadyBooked(s, snapshot[r] \cup {row})
        = AlreadyBooked(s, bookings) + TicketsOf(r)
  <2>1. snapshot[r] \in SUBSET Row /\ IsFiniteSet(SoldSeats(s, snapshot[r]))
    BY <1>3, <1>4
  <2>2. AlreadyBooked(s, snapshot[r]) = AlreadyBooked(s, bookings)
    BY <1>3 DEF AlreadyBooked
  <2>3. /\ ~HasRow(row.booking, snapshot[r])
        /\ IsFiniteSet(SoldSeats(row.show, snapshot[r]))
    BY <1>1, <1>2, <2>1
  <2>4. AlreadyBooked(row.show, snapshot[r] \cup {row})
          = AlreadyBooked(row.show, snapshot[r]) + row.tickets
    BY <1>1, <2>1, <2>3, AddRow
  <2>. QED  BY <1>1, <2>2, <2>4
<1>7. AlreadyBooked(s, bookings) + TicketsOf(r) + TicketsOf(r) <= Capacity[s]
  BY <1>6 DEF Fits
<1>8. LockInv'
  <2>1. \A q \in Request \ {r} :
           phase'[q] = "inserted" => BookingOf(q) # BookingOf(r)
    BY DEF LockInv, Move
  <2>2. phase'[r] # "inserted"
    BY DEF Move
  <2>. QED  BY <1>1, <2>1, <2>2 DEF LockInv, Move, Store, HasRow
<1>9. SnapshotInv' /\ OutboxInv'
  BY DEF SnapshotInv, OutboxInv, Store
<1>10. SeatsInv'
  <2> SUFFICES ASSUME NEW t \in Show
               PROVE  /\ IsFiniteSet(SoldSeats(t, bookings'))
                      /\ AlreadyBooked(t, bookings') <= Capacity[t]
    BY DEF SeatsInv
  <2>1. CASE t = s
    BY <2>1, <1>1, <1>5, <1>7
  <2>2. CASE t # s
    BY <2>2, <1>1, OtherShow DEF Store, SeatsInv, AlreadyBooked
  <2>. QED  BY <2>1, <2>2
<1>11. RefusalInv'
  <2> SUFFICES ASSUME NEW q \in Commands,
                      \/ phase'[q] \in {"no_places", "announced"}
                      \/ BookingOf(q) \in refusals
               PROVE  Refused(q)'
    BY DEF RefusalInv
  <2>1. q \in Request
    BY DEF Commands
  <2>2. Refused(q)
    BY <2>1 DEF RefusalInv, Move
  <2>3. BookingOf(q) # BookingOf(r)
    <3> SUFFICES ASSUME BookingOf(q) = BookingOf(r) PROVE FALSE
      OBVIOUS
    <3>1. Req[q] = Req[r]
      BY <2>1, RequestAssumption DEF BookingOf, Commands
    <3>. QED  BY <3>1, <2>2, <1>1, <1>5, <1>7 DEF Refused, ShowOf, TicketsOf
  <2>4. ~HasRow(BookingOf(q), bookings')
    BY <1>1, <2>2, <2>3 DEF Refused, HasRow, Store
  <2>5. /\ AlreadyBooked(ShowOf(q), bookings') \in Nat
        /\ AlreadyBooked(ShowOf(q), bookings) \in Nat
        /\ AlreadyBooked(ShowOf(q), bookings) <= AlreadyBooked(ShowOf(q), bookings')
    BY <2>1, <1>10, FewerRows DEF Store, SeatsInv
  <2>6. AlreadyBooked(ShowOf(q), bookings') + TicketsOf(q) + TicketsOf(q)
          > Capacity[ShowOf(q)]
    BY <2>1, <2>2, <2>5 DEF Refused
  <2>. QED  BY <2>4, <2>6 DEF Refused
<1>. QED  BY <1>8, <1>9, <1>10, <1>11
(* What the other actions have in common: the tables keep their rows.      *)
LEMMA TablesUnchanged ==
  ASSUME IInv, UNCHANGED <<bookings, outbox, refusals>>,
         \A r \in Request :
           /\ phase'[r] = "inserted" => phase[r] = "inserted"
           /\ phase'[r] \in {"no_places", "announced"}
                => phase[r] \in {"no_places", "announced"}
           /\ snapshot'[r] = snapshot[r]
  PROVE  (LockInv /\ SnapshotInv /\ OutboxInv /\ SeatsInv /\ RefusalInv)'
<1>1. LockInv'
  BY DEF IInv, LockInv, HasRow
<1>2. SnapshotInv' /\ OutboxInv' /\ SeatsInv'
  BY DEF IInv, SnapshotInv, OutboxInv, SeatsInv, AlreadyBooked, SoldSeats, RowsOf
<1>3. RefusalInv'
  BY DEF IInv, RefusalInv, Refused, Commands, HasRow, AlreadyBooked, SoldSeats, RowsOf
<1>. QED  BY <1>1, <1>2, <1>3

(* A refusal is justified by the snapshot, hence by the table itself.      *)
LEMMA RefusalKeepsInvariant ==
  ASSUME IInv, NEW r \in Request, RollbackNoPlaces(r)
  PROVE  (LockInv /\ SnapshotInv /\ OutboxInv /\ SeatsInv /\ RefusalInv)'
<1> DEFINE row == Req[r].row
           s == ShowOf(r)
<1> USE RequestTypes DEF IInv, TypeOK
<1>1. /\ row \in Row /\ row.booking = BookingOf(r) /\ row.show = s
      /\ row.tickets = TicketsOf(r) /\ s \in Show /\ TicketsOf(r) \in Nat
      /\ Capacity[s] \in Nat
  OBVIOUS
<1>2. /\ phase[r] = "inserted" /\ ~Fits(r) /\ Move(r, "no_places")
      /\ UNCHANGED <<shows, bookings, outbox, refusals, snapshot>>
  BY DEF RollbackNoPlaces, tables
<1>3. LockInv'
  BY <1>2 DEF LockInv, Move, HasRow
<1>4. SnapshotInv' /\ OutboxInv' /\ SeatsInv'
  BY <1>2 DEF SnapshotInv, OutboxInv, SeatsInv, AlreadyBooked, SoldSeats, RowsOf
<1>5. Refused(r)
  <2>1. ~HasRow(row.booking, bookings) /\ ~HasRow(row.booking, snapshot[r])
    BY <1>1, <1>2 DEF LockInv, SnapshotInv, HasRow
  <2>2. snapshot[r] \in SUBSET bookings /\ snapshot[r] \in SUBSET Row
    BY DEF SnapshotInv
  <2>3. /\ IsFiniteSet(SoldSeats(row.show, snapshot[r]))
        /\ AlreadyBooked(row.show, snapshot[r]) \in Nat
        /\ AlreadyBooked(row.show, bookings) \in Nat
        /\ AlreadyBooked(row.show, snapshot[r]) <= AlreadyBooked(row.show, bookings)
    BY <1>1, <2>2, FewerRows DEF SeatsInv
  <2>4. AlreadyBooked(row.show, snapshot[r] \cup {row})
          = AlreadyBooked(row.show, snapshot[r]) + row.tickets
    BY <1>1, <2>1, <2>2, <2>3, AddRow
  <2>5. ~(AlreadyBooked(s, snapshot[r]) + TicketsOf(r) + TicketsOf(r) <= Capacity[s])
    BY <1>1, <1>2, <2>4 DEF Fits
  <2>6. AlreadyBooked(s, bookings) + TicketsOf(r) + TicketsOf(r) > Capacity[s]
    BY <1>1, <2>3, <2>5
  <2>. QED  BY <1>1, <2>1, <2>6 DEF Refused
<1>6. RefusalInv'
  <2> SUFFICES ASSUME NEW q \in Commands,
                      \/ phase'[q] \in {"no_places", "announced"}
                      \/ BookingOf(q) \in refusals
               PROVE  Refused(q)
    BY <1>2 DEF RefusalInv, Refused, HasRow, AlreadyBooked, SoldSeats, RowsOf
  <2>1. CASE q = r
    BY <2>1, <1>5
  <2>2. CASE q # r
    BY <2>2, <1>2 DEF RefusalInv, Move, Commands
  <2>. QED  BY <2>1, <2>2
<1>. QED  BY <1>3, <1>4, <1>6

(* IInv is inductive. *)
LEMMA InvariantHolds == Spec => []IInv
<1>1. Init => IInv
  <2> SUFFICES ASSUME Init PROVE IInv
    OBVIOUS
  <2>1. TypeOK
    BY DEF Init, TypeOK, Phases, Replies
  <2>2. LockInv /\ SnapshotInv /\ OutboxInv /\ RefusalInv
    BY DEF Init, LockInv, SnapshotInv, OutboxInv, RefusalInv, VipBookings, Commands
  <2>3. ASSUME NEW s \in Show PROVE SoldSeats(s, bookings) = {}
    BY DEF Init, SoldSeats, RowsOf
  <2>4. SeatsInv
    BY <2>3, FS_EmptySet, CapacityAssumption DEF SeatsInv, AlreadyBooked
  <2>. QED  BY <2>1, <2>2, <2>4 DEF IInv
<1>2. IInv /\ TypeOK' /\ [Next]_vars => IInv'
  <2> SUFFICES ASSUME IInv, TypeOK', [Next]_vars
               PROVE  (LockInv /\ SnapshotInv /\ OutboxInv /\ SeatsInv /\ RefusalInv)'
    BY DEF IInv
  <2>0. TypeOK
    BY DEF IInv
  <2>1. ASSUME NEW s \in Show, AddShow(s)
        PROVE  (LockInv /\ SnapshotInv /\ OutboxInv /\ SeatsInv /\ RefusalInv)'
    BY <2>1, TablesUnchanged DEF AddShow
  <2>2. ASSUME NEW r \in Request, InsertBooking(r)
        PROVE  (LockInv /\ SnapshotInv /\ OutboxInv /\ SeatsInv /\ RefusalInv)'
    <3>1. LockInv'
      BY <2>0, <2>2 DEF InsertBooking, IInv, LockInv, KeyLocked, Move, HasRow,
                        TypeOK, tables
    <3>2. SnapshotInv' /\ OutboxInv' /\ SeatsInv'
      BY <2>0, <2>2 DEF InsertBooking, IInv, SnapshotInv, OutboxInv, SeatsInv, TypeOK,
                        tables, AlreadyBooked, SoldSeats, RowsOf
    <3>3. RefusalInv'
      BY <2>0, <2>2 DEF InsertBooking, IInv, RefusalInv, Refused, Move, TypeOK, Commands,
                        tables, HasRow, AlreadyBooked, SoldSeats, RowsOf
    <3>. QED  BY <3>1, <3>2, <3>3
  <2>3. ASSUME NEW r \in Request,
               \/ InsertDuplicate(r) \/ InsertWithoutShow(r)
               \/ SerializationFailure(r) \/ AnswerHttp(r) \/ AckCommand(r)
               \/ RetryCommand(r) \/ PostAgain(r)
        PROVE  (LockInv /\ SnapshotInv /\ OutboxInv /\ SeatsInv /\ RefusalInv)'
    <3>1. UNCHANGED <<bookings, outbox, refusals, snapshot>>
      BY <2>3 DEF InsertDuplicate, InsertWithoutShow, SerializationFailure, AnswerHttp,
                  AckCommand, RetryCommand, PostAgain, tables
    <3>2. \A q \in Request :
             /\ phase'[q] = "inserted" => phase[q] = "inserted"
             /\ phase'[q] \in {"no_places", "announced"}
                  => phase[q] \in {"no_places", "announced"}
      BY <2>0, <2>3 DEF InsertDuplicate, InsertWithoutShow, SerializationFailure,
                  AnswerHttp, AckCommand, RetryCommand, PostAgain, Move, TypeOK
    <3>. QED  BY <3>1, <3>2, TablesUnchanged
  <2>4. ASSUME NEW r \in Request, RollbackNoPlaces(r)
        PROVE  (LockInv /\ SnapshotInv /\ OutboxInv /\ SeatsInv /\ RefusalInv)'
    BY <2>4, RefusalKeepsInvariant
  <2>5. ASSUME NEW r \in Request, CommitBooking(r)
        PROVE  (LockInv /\ SnapshotInv /\ OutboxInv /\ SeatsInv /\ RefusalInv)'
    BY <2>5, CommitKeepsInvariant DEF CommitBooking
  <2>6. ASSUME NEW r \in Request, LoseConnection(r)
        PROVE  (LockInv /\ SnapshotInv /\ OutboxInv /\ SeatsInv /\ RefusalInv)'
    <3>1. CASE UNCHANGED <<bookings, outbox>>
      <4>1. \A q \in Request :
              /\ phase'[q] = "inserted" => phase[q] = "inserted"
              /\ phase'[q] \in {"no_places", "announced"}
                   => phase[q] \in {"no_places", "announced"}
        BY <2>0, <2>6 DEF LoseConnection, Move, TypeOK
      <4>. QED  BY <3>1, <4>1, <2>6, TablesUnchanged DEF LoseConnection
    <3>2. CASE Fits(r) /\ Serializable(r) /\ Store(r)
      BY <3>2, <2>6, CommitKeepsInvariant DEF LoseConnection
    <3>. QED  BY <2>6, <3>1, <3>2 DEF LoseConnection
  <2>7. ASSUME NEW r \in Request, PublishBookingFailed(r)
        PROVE  (LockInv /\ SnapshotInv /\ OutboxInv /\ SeatsInv /\ RefusalInv)'
    <3>1. /\ r \in Commands /\ phase[r] = "no_places" /\ Move(r, "announced")
          /\ refusals' = refusals \cup {BookingOf(r)}
          /\ UNCHANGED <<shows, bookings, outbox, snapshot>>
      BY <2>7 DEF PublishBookingFailed, tables
    <3>2. LockInv' /\ SnapshotInv' /\ OutboxInv' /\ SeatsInv'
      BY <2>0, <3>1 DEF IInv, LockInv, SnapshotInv, OutboxInv, SeatsInv, Move, HasRow,
                        TypeOK, AlreadyBooked, SoldSeats, RowsOf
    <3>3. RefusalInv'
      <4>1. refusals' \subseteq VipBookings
        BY <3>1 DEF IInv, RefusalInv, VipBookings
      <4>2. ASSUME NEW q \in Commands,
                   \/ phase'[q] \in {"no_places", "announced"}
                   \/ BookingOf(q) \in refusals'
            PROVE  Refused(q)
        <5>1. CASE BookingOf(q) = BookingOf(r)
          <6>1. Req[q] = Req[r]
            BY <5>1, <3>1, RequestAssumption DEF BookingOf, Commands
          <6>2. Refused(r)
            BY <3>1 DEF IInv, RefusalInv
          <6>. QED  BY <6>1, <6>2 DEF Refused, BookingOf, ShowOf, TicketsOf
        <5>2. CASE BookingOf(q) # BookingOf(r)
          BY <5>2, <4>2, <2>0, <3>1 DEF IInv, RefusalInv, Move, TypeOK, Commands
        <5>. QED  BY <5>1, <5>2
      <4>. QED  BY <4>1, <4>2, <3>1
           DEF RefusalInv, Refused, HasRow, AlreadyBooked, SoldSeats, RowsOf
    <3>. QED  BY <3>2, <3>3
  <2>8. CASE Crash
    <3>1. UNCHANGED <<bookings, outbox, refusals, snapshot>>
      BY <2>8 DEF Crash, tables
    <3>2. \A q \in Request : phase'[q] \in {"idle", "answered"}
      BY <2>8 DEF Crash
    <3>. QED  BY <3>1, <3>2, TablesUnchanged
  <2>9. CASE UNCHANGED vars
    BY <2>9, TablesUnchanged DEF vars
  <2>. QED  BY <2>1, <2>2, <2>3, <2>4, <2>5, <2>6, <2>7, <2>8, <2>9
            DEF Next, Transaction, Caller
<1>. QED  BY <1>1, <1>2, TypeCorrect, PTL DEF Spec

(* AddBooking never sells more seats of a show than it has places, for any *)
(* number of shows, requests and concurrent transactions.                  *)
THEOREM NeverOverbooked == Spec => []NoOverbooking
<1>1. IInv => NoOverbooking
  BY DEF IInv, SeatsInv, NoOverbooking
<1>. QED  BY <1>1, InvariantHolds, PTL

(* The events of a VIP booking show one verdict, given once and for all:   *)
(* Bookings implements BookingOutcome.                                     *)
THEOREM BookingsImplementOutcome == Spec => ImplementsOutcome
<1>1. Init => Promise!OutcomeInit
  BY DEF Init, Promise!OutcomeInit, OutcomeSeen, HasRow
<1>2. IInv /\ IInv' /\ [Next]_vars => [Promise!OutcomeNext]_OutcomeSeen
  <2> SUFFICES ASSUME IInv, IInv', [Next]_vars
               PROVE  [Promise!OutcomeNext]_OutcomeSeen
    OBVIOUS
  <2>0. TypeOK /\ outbox = bookings
    BY DEF IInv, OutboxInv
  <2>1. ASSUME UNCHANGED <<outbox, refusals>>
        PROVE  UNCHANGED OutcomeSeen
    BY <2>1 DEF OutcomeSeen, HasRow
  <2>2. ASSUME NEW r \in Request, phase[r] = "inserted", Store(r), UNCHANGED refusals
        PROVE  [Promise!OutcomeNext]_OutcomeSeen
    <3> DEFINE b == BookingOf(r)
    <3>1. \A c : HasRow(c, outbox') <=> HasRow(c, outbox) \/ c = b
      BY <2>2 DEF Store, HasRow, BookingOf
    <3>2. ~HasRow(b, outbox)
      BY <2>0, <2>2 DEF IInv, LockInv
    <3>3. CASE b \in VipBookings
      <4>1. b \notin refusals
        <5>1. PICK q \in Commands : BookingOf(q) = b
          BY <3>3 DEF VipBookings
        <5>2. b \in refusals' => Refused(q)'
          BY <5>1, <2>2 DEF IInv, RefusalInv
        <5>3. HasRow(b, bookings')
          BY <2>2 DEF Store, HasRow, BookingOf
        <5>. QED  BY <5>1, <5>2, <5>3, <2>2 DEF Refused
      <4>2. OutcomeSeen[b] = "open"
        BY <3>2, <3>3, <4>1 DEF OutcomeSeen
      <4>3. OutcomeSeen' = [OutcomeSeen EXCEPT ![b] = "made"]
        BY <3>1, <3>3, <4>1, <2>2 DEF OutcomeSeen
      <4>. QED  BY <3>3, <4>2, <4>3 DEF Promise!OutcomeNext, Promise!Make
    <3>4. CASE b \notin VipBookings
      <4>1. OutcomeSeen' = OutcomeSeen
        BY <3>1, <3>4, <2>2 DEF OutcomeSeen
      <4>. QED  BY <4>1
    <3>. QED  BY <3>3, <3>4
  <2>3. ASSUME NEW r \in Request, PublishBookingFailed(r)
        PROVE  [Promise!OutcomeNext]_OutcomeSeen
    <3> DEFINE b == BookingOf(r)
    <3>1. /\ r \in Commands /\ phase[r] = "no_places"
          /\ refusals' = refusals \cup {b} /\ UNCHANGED outbox
      BY <2>3 DEF PublishBookingFailed, tables
    <3>2. b \in VipBookings
      BY <3>1 DEF VipBookings
    <3>3. ~HasRow(b, outbox)
      BY <2>0, <3>1 DEF IInv, RefusalInv, Refused
    <3>4. CASE b \in refusals
      BY <3>1, <3>4, <2>1
    <3>5. CASE b \notin refusals
      <4>1. OutcomeSeen[b] = "open"
        BY <3>2, <3>3, <3>5 DEF OutcomeSeen
      <4>2. OutcomeSeen' = [OutcomeSeen EXCEPT ![b] = "refused"]
        BY <3>1, <3>2, <3>3, <3>5 DEF OutcomeSeen, HasRow
      <4>. QED  BY <3>2, <4>1, <4>2 DEF Promise!OutcomeNext, Promise!Refuse
    <3>. QED  BY <3>4, <3>5
  <2>4. ASSUME NEW r \in Request, CommitBooking(r)
        PROVE  [Promise!OutcomeNext]_OutcomeSeen
    BY <2>4, <2>2 DEF CommitBooking
  <2>5. ASSUME NEW r \in Request, LoseConnection(r)
        PROVE  [Promise!OutcomeNext]_OutcomeSeen
    BY <2>5, <2>1, <2>2 DEF LoseConnection
  <2>6. ASSUME NEW r \in Request, PostAgain(r) \/ AnswerHttp(r) \/ AckCommand(r)
                 \/ RetryCommand(r) \/ InsertBooking(r) \/ InsertDuplicate(r)
                 \/ InsertWithoutShow(r) \/ RollbackNoPlaces(r)
                 \/ SerializationFailure(r)
        PROVE  UNCHANGED OutcomeSeen
    BY <2>6, <2>1 DEF PostAgain, AnswerHttp, AckCommand, RetryCommand, InsertBooking,
         InsertDuplicate, InsertWithoutShow, RollbackNoPlaces, SerializationFailure, tables
  <2>7. ASSUME (\E s \in Show : AddShow(s)) \/ Crash \/ UNCHANGED vars
        PROVE  UNCHANGED OutcomeSeen
    BY <2>7, <2>1 DEF AddShow, Crash, vars, tables
  <2>. QED  BY <2>3, <2>4, <2>5, <2>6, <2>7 DEF Next, Transaction, Caller
<1>. QED  BY <1>1, <1>2, InvariantHolds, PTL
          DEF Spec, ImplementsOutcome, Promise!OutcomeSpec
-----------------------------------------------------------------------------
(* What the replies rest on: a committed request has its row, and no other *)
(* request for the id was committed.                                       *)
Won(r) == phase[r] = "committed" \/ reply[r] = "created"
Taken(r) == phase[r] = "exists" \/ reply[r] = "conflict"

RepliesInv ==
  /\ \A row \in bookings : \E q \in Request : Req[q].row = row
  /\ \A r \in Request :
       /\ Won(r) => Req[r].row \in bookings
       /\ \A q \in Request : Won(r) /\ Won(q) /\ BookingOf(q) = BookingOf(r) => q = r
       /\ Taken(r) => HasRow(BookingOf(r), bookings)
       /\ phase[r] = "announced" => BookingOf(r) \in refusals
       /\ reply[r] = "ack" => Req[r].row \in bookings \/ BookingOf(r) \in refusals

(* A step that changes no table needs to look at the phases and replies of *)
(* requests only.                                                          *)
LEMMA RepliesStay ==
  ASSUME RepliesInv, UNCHANGED bookings, refusals \subseteq refusals',
         \A r \in Request :
           /\ Won(r)' => Won(r)
           /\ Taken(r)' => Taken(r) \/ HasRow(BookingOf(r), bookings)
           /\ phase'[r] = "announced" => phase[r] = "announced" \/ BookingOf(r) \in refusals'
           /\ reply'[r] = "ack" =>
                \/ reply[r] = "ack" \/ Req[r].row \in bookings
                \/ BookingOf(r) \in refusals
  PROVE  RepliesInv'
BY DEF RepliesInv, HasRow

(* The row of a request is stored. *)
LEMMA RepliesGrow ==
  ASSUME IInv, RepliesInv, NEW r \in Request, phase[r] = "inserted", Store(r),
         UNCHANGED <<refusals, reply>>, NEW to \in {"committed", "error"}, Move(r, to)
  PROVE  RepliesInv'
<1>1. bookings' = bookings \cup {Req[r].row}
  BY DEF Store
<1>2. \A q \in Request : phase'[q] = IF q = r THEN to ELSE phase[q]
  BY DEF Move, IInv, TypeOK
<1>3. ~HasRow(BookingOf(r), bookings)
  BY DEF IInv, LockInv
<1>4. \A q \in Request : Won(q) => BookingOf(q) # BookingOf(r)
  BY <1>3 DEF RepliesInv, HasRow, BookingOf
<1>5. \A q \in Request : Won(q)' => Won(q) \/ q = r
  BY <1>2 DEF Won
<1>6. \A q \in Request : Taken(q)' => Taken(q)
  BY <1>2 DEF Taken
<1>7. \A q \in Request : HasRow(BookingOf(q), bookings) => HasRow(BookingOf(q), bookings')
  BY <1>1 DEF HasRow
<1>. QED
  BY <1>1, <1>2, <1>4, <1>5, <1>6, <1>7 DEF RepliesInv

LEMMA RepliesStep ==
  IInv /\ RepliesInv /\ [Next]_vars => RepliesInv'
<1> SUFFICES ASSUME IInv, RepliesInv, [Next]_vars PROVE RepliesInv'
  OBVIOUS
<1>0. phase \in [Request -> Phases] /\ reply \in [Request -> Replies]
  BY DEF IInv, TypeOK
<1>. USE <1>0 DEF Move, tables, Won, Taken
<1>1. ASSUME \E s \in Show : AddShow(s) PROVE RepliesInv'
  BY <1>1, RepliesStay DEF AddShow
<1>2. ASSUME NEW r \in Request, InsertBooking(r) \/ InsertWithoutShow(r)
                 \/ RollbackNoPlaces(r) \/ SerializationFailure(r) \/ RetryCommand(r)
      PROVE  RepliesInv'
  BY <1>2, RepliesStay
  DEF InsertBooking, InsertWithoutShow, RollbackNoPlaces, SerializationFailure, RetryCommand
<1>3. ASSUME NEW r \in Request, InsertDuplicate(r) PROVE RepliesInv'
  BY <1>3, RepliesStay DEF InsertDuplicate
<1>4. ASSUME NEW r \in Request, CommitBooking(r) PROVE RepliesInv'
  BY <1>4, RepliesGrow DEF CommitBooking
<1>5. ASSUME NEW r \in Request, LoseConnection(r) PROVE RepliesInv'
  <2>1. CASE UNCHANGED <<bookings, outbox>>
    BY <1>5, <2>1, RepliesStay DEF LoseConnection
  <2>2. CASE Store(r)
    BY <1>5, <2>2, RepliesGrow DEF LoseConnection
  <2>. QED  BY <1>5, <2>1, <2>2 DEF LoseConnection
<1>6. ASSUME NEW r \in Request, AnswerHttp(r) PROVE RepliesInv'
  <2>1. /\ HttpStatus[phase[r]] = "created" => phase[r] = "committed"
        /\ HttpStatus[phase[r]] = "conflict" => phase[r] = "exists"
        /\ HttpStatus[phase[r]] # "ack"
    BY <1>6 DEF AnswerHttp, HttpStatus
  <2>. QED  BY <1>6, <2>1, RepliesStay DEF AnswerHttp
<1>7. ASSUME NEW r \in Request, PostAgain(r) PROVE RepliesInv'
  BY <1>7, RepliesStay DEF PostAgain
<1>8. ASSUME NEW r \in Request, PublishBookingFailed(r) PROVE RepliesInv'
  BY <1>8, RepliesStay DEF PublishBookingFailed
<1>9. ASSUME NEW r \in Request, AckCommand(r) PROVE RepliesInv'
  <2>1. Req[r].row \in bookings \/ BookingOf(r) \in refusals
    <3>1. CASE phase[r] = "committed" \/ phase[r] = "announced"
      BY <3>1 DEF RepliesInv
    <3>2. CASE phase[r] = "exists"
      <4>1. PICK row \in bookings : row.booking = BookingOf(r)
        BY <3>2 DEF RepliesInv, HasRow
      <4>2. PICK q \in Request : Req[q].row = row
        BY DEF RepliesInv
      <4>3. Req[q] = Req[r]
        BY <1>9, <4>1, <4>2, RequestAssumption DEF AckCommand, Commands, BookingOf
      <4>. QED  BY <4>2, <4>3
    <3>. QED  BY <1>9, <3>1, <3>2 DEF AckCommand
  <2>. QED  BY <1>9, <2>1, RepliesStay DEF AckCommand
<1>10. CASE Crash
  BY <1>10, RepliesStay DEF Crash
<1>11. CASE UNCHANGED vars
  BY <1>11, RepliesStay DEF vars
<1>. QED
  BY <1>1, <1>2, <1>3, <1>4, <1>5, <1>6, <1>7, <1>8, <1>9, <1>10, <1>11
  DEF Next, Transaction, Caller

(* AddBooking's callers: 201 is answered to one request for a booking id,  *)
(* whose row is stored; a command is acknowledged only with a verdict; 409 *)
(* means that the id is taken; whatever crashes, races or is repeated.     *)
THEOREM RepliesAreTrue == Spec => []TruthfulReplies
<1>1. Init => RepliesInv
  BY DEF Init, RepliesInv, Won, Taken
<1>2. RepliesInv => TruthfulReplies
  BY DEF RepliesInv, TruthfulReplies, Won, Taken
<1>. QED  BY <1>1, <1>2, RepliesStep, InvariantHolds, PTL DEF Spec
=============================================================================
