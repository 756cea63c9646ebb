------------------------- MODULE OpsReadModelProofs -------------------------
(***************************************************************************)
(* For any bookings, tickets and events, old and live, and any number of   *)
(* failures and restarts: the rows keep what they say, say only what has   *)
(* happened and confirm a ticket first, no event is dropped, and all of it *)
(* implements OpsView.                                                     *)
(*                                                                         *)
(* That no write undoes another rests on LockInv: a row that is read for   *)
(* update stays as it was read until it is written, and whoever holds it   *)
(* is at the event it was read for. That none is dropped rests on BusInv:  *)
(* a message is acknowledged only once the rows show its event.            *)
(***************************************************************************)
EXTENDS OpsReadModel, SequenceTheorems, TLAPS

(* The events group g is sent. *)
Told(g) == {e \in occurred : e.type = Topic[g]}

BusInv ==
  \A g \in Group :
    /\ queue[g] \in Seq(Told(g)) /\ lost[g] \in Seq(Told(g))
    /\ at[g] # "idle" => queue[g] # <<>>
    /\ at[g] = "sending" => Recorded(Current(g))

(* Row b is the one e is to be recorded in, and is ready for it. *)
Awaits(b, e) ==
  /\ e.type # "BookingMade" /\ b = BookingOf[e.of] /\ b \in DOMAIN rows
  /\ e.type # "TicketBookingConfirmed" => <<e.of, "TicketBookingConfirmed">> \in rows[b]

(* What the transaction tx was opened for is still to be done. *)
Holds(tx) ==
  /\ tx.row \in DOMAIN rows /\ tx.payload = rows[tx.row]
  /\ tx.by \in Group => at[tx.by] = "found" /\ Awaits(tx.row, Current(tx.by))
  /\ tx.by = "migration" =>
       migration # "waiting" /\ \A e \in Old : Replaying(e) => Awaits(tx.row, e)

LockInv ==
  /\ \A tx \in open : Holds(tx)
  /\ \A tx1, tx2 \in open : tx1.row = tx2.row \/ tx1.by = tx2.by => tx1 = tx2

Owes(g, e) == e \in Range(queue[g]) \cup Range(lost[g])

OwedInv ==
  \A e \in occurred : Recorded(e) \/ \E g \in Group : Topic[g] = e.type /\ Owes(g, e)

IInv == TypeOK /\ BusInv /\ LockInv /\ ConfirmedFirst /\ OwedInv

(* The parts of TypeOK. *)
BusTypes ==
  /\ queue \in [Group -> Seq(Event)]
  /\ lost \in [Group -> Seq(Event)]
  /\ at \in [Group -> {"idle", "found", "sending"}]
  /\ todo = [g \in Group |-> <<>>]
  /\ faults \in 0 .. MaxFaults

RowTypes ==
  /\ DOMAIN rows \subseteq Booking
  /\ rows \in [DOMAIN rows -> SUBSET Fact]

LockTypes ==
  open \subseteq [by : Group \cup {"migration"}, row : Booking, payload : SUBSET Fact]

EventTypes ==
  /\ occurred \subseteq LiveEvents
  /\ stored \subseteq Old
  /\ liveStored \in BOOLEAN
  /\ migration \in {"waiting", "running", "done"}
  /\ batch \subseteq IF migration = "running" THEN Old ELSE {}

(* What a row says stays. *)
Grow == \A b \in DOMAIN rows : b \in DOMAIN rows' /\ rows[b] \subseteq rows'[b]
-----------------------------------------------------------------------------
(* What the operations on a queue do to the set of its messages. *)

LEMMA RangeSingle ==
  ASSUME NEW S, NEW x \in S
  PROVE  <<x>> \in Seq(S) /\ Range(<<x>>) = {x}
BY DEF Range

LEMMA RangeShift ==
  ASSUME NEW S, NEW s \in Seq(S), NEW t \in Seq(S),
         Len(t) = Len(s) + 1, \A i \in 1 .. Len(s) : t[i + 1] = s[i]
  PROVE  Range(t) = Range(s) \cup {t[1]}
<1>1. \A i \in 1 .. Len(t) : i = 1 \/ (i - 1 \in 1 .. Len(s) /\ t[i] = s[i - 1])
  OBVIOUS
<1>2. 1 \in 1 .. Len(t) /\ \A i \in 1 .. Len(s) : i + 1 \in 1 .. Len(t)
  OBVIOUS
<1>3. Range(s) = {s[i] : i \in 1 .. Len(s)} /\ Range(t) = {t[i] : i \in 1 .. Len(t)}
  BY RangeEquality
<1>. QED  BY <1>1, <1>2, <1>3

LEMMA RangePush ==
  ASSUME NEW S, NEW s \in Seq(S), NEW x \in S
  PROVE  <<x>> \o s \in Seq(S) /\ Range(<<x>> \o s) = Range(s) \cup {x}
<1> DEFINE t == <<x>> \o s
<1>1. /\ t \in Seq(S) /\ Len(t) = Len(s) + 1 /\ t[1] = x
      /\ \A i \in 1 .. Len(s) : t[i + 1] = s[i]
  OBVIOUS
<1>. HIDE DEF t
<1>2. Range(t) = Range(s) \cup {t[1]}
  BY <1>1, RangeShift
<1>. QED  BY <1>1, <1>2 DEF t

LEMMA RangeAppend ==
  ASSUME NEW S, NEW s \in Seq(S), NEW x \in S
  PROVE  Append(s, x) \in Seq(S) /\ Range(Append(s, x)) = Range(s) \cup {x}
<1>1. <<x>> \in Seq(S) /\ Range(<<x>>) = {x}
  BY RangeSingle
<1>2. Append(s, x) = s \o <<x>>
  BY AppendIsConcat
<1>3. Range(s \o <<x>>) = Range(s) \cup Range(<<x>>)
  BY <1>1, RangeConcatenation
<1>. QED  BY <1>1, <1>2, <1>3

LEMMA RangeTail ==
  ASSUME NEW S, NEW s \in Seq(S), s # <<>>
  PROVE  /\ Tail(s) \in Seq(S) /\ Head(s) \in S
         /\ Range(s) = Range(Tail(s)) \cup {Head(s)}
<1>1. Tail(s) \in Seq(S) /\ Head(s) \in S
  BY HeadTailProperties
<1>2. Range(s) = Range(Tail(s)) \cup {s[1]}
  <2>1. Len(s) = Len(Tail(s)) + 1 /\ \A i \in 1 .. Len(Tail(s)) : s[i + 1] = Tail(s)[i]
    BY HeadTailProperties
  <2>. QED  BY <1>1, <2>1, RangeShift
<1>. QED  BY <1>1, <1>2

LEMMA RangeWithout ==
  ASSUME NEW S, NEW s \in Seq(S), NEW i \in 1 .. Len(s)
  PROVE  LET t == SubSeq(s, 1, i - 1) \o SubSeq(s, i + 1, Len(s))
         IN  t \in Seq(S) /\ s[i] \in S /\ Range(s) = Range(t) \cup {s[i]}
<1> DEFINE a == SubSeq(s, 1, i - 1)
           b == SubSeq(s, i + 1, Len(s))
           c == SubSeq(s, i, Len(s))
<1>1. /\ a \in Seq(S) /\ b \in Seq(S) /\ c \in Seq(S)
      /\ s[i] \in S /\ i \in Nat \ {0} /\ Len(s) \in Nat /\ i <= Len(s)
  OBVIOUS
<1>2. s = a \o c
  <2>1. a \o c = SubSeq(s, 1, Len(s))
    <3>1. 1 \in 1 .. Len(s) + 1 /\ i - 1 \in 1 - 1 .. Len(s) /\ Len(s) \in i - 1 .. Len(s)
      BY <1>1
    <3>2. (i - 1) + 1 = i
      BY <1>1
    <3>3. SubSeq(s, 1, i - 1) \o SubSeq(s, (i - 1) + 1, Len(s)) = SubSeq(s, 1, Len(s))
      BY <3>1, ConcatAdjacentSubSeq
    <3>. QED  BY <3>2, <3>3
  <2>. QED  BY <2>1, SubSeqFull
<1>3. c = <<s[i]>> \o b
  <2>1. Len(s) \in i .. Len(s)
    BY <1>1
  <2>. QED  BY <2>1, SubSeqRecursiveFirst
<1>4. Range(c) = Range(b) \cup {s[i]}
  <2>1. Range(<<s[i]>> \o b) = Range(b) \cup {s[i]}
    BY <1>1, RangePush
  <2>. QED  BY <1>3, <2>1
<1>5. Range(s) = Range(a) \cup Range(c)
  <2>1. Range(a \o c) = Range(a) \cup Range(c)
    <3>. HIDE DEF a, c
    <3>. QED  BY <1>1, RangeConcatenation
  <2>. QED  BY <1>2, <2>1
<1>6. a \o b \in Seq(S) /\ Range(a \o b) = Range(a) \cup Range(b)
  <2>. HIDE DEF a, b
  <2>. QED  BY <1>1, ConcatProperties, RangeConcatenation
<1>. QED
  BY <1>1, <1>4, <1>5, <1>6
-----------------------------------------------------------------------------
LEMMA Types == TypeOK <=> BusTypes /\ RowTypes /\ LockTypes /\ EventTypes
BY DEF TypeOK, BusTypes, RowTypes, LockTypes, EventTypes
-----------------------------------------------------------------------------
LEMMA Groups ==
  /\ Group = {"OnBookingMade", "OnTicketBookingConfirmed_v1", "OnTicketReceiptIssued_v1",
              "OnTicketPrinted_v1", "OnTicketRefunded_v1"}
  /\ Topic["OnBookingMade"] = "BookingMade"
  /\ \A g \in Group : Topic[g] = "BookingMade" => g = "OnBookingMade"
  /\ "migration" \notin Group
BY DEF Group, Topic, Handles

LEMMA EventIs ==
  ASSUME NEW e \in Event
  PROVE  /\ e.type = "BookingMade" => e.of \in Booking
         /\ e.type # "BookingMade" => e.of \in Ticket /\ BookingOf[e.of] \in Booking
         /\ \E g \in Group : Topic[g] = e.type
         /\ e = [type |-> e.type, of |-> e.of]
<1>1. CASE e \in [type : {"BookingMade"}, of : Booking]
  BY <1>1, Groups
<1>2. CASE e \in [type : {Handles[g] : g \in Group} \ {"BookingMade"}, of : Ticket]
  <2>1. PICK g \in Group, t \in Ticket :
          Handles[g] # "BookingMade" /\ e = [type |-> Handles[g], of |-> t]
    BY <1>2
  <2>. QED  BY <2>1, TicketAssumption DEF Topic
<1>. QED  BY <1>1, <1>2 DEF Event

LEMMA OldIs == Old \subseteq Event
BY OldAssumption DEF Old

LEMMA ToldIs ==
  ASSUME occurred \subseteq LiveEvents, NEW g \in Group
  PROVE  Told(g) \subseteq Event /\ Told(g) \subseteq occurred
BY LiveAssumption DEF Told

LEMMA SeqGrows ==
  ASSUME NEW S, NEW T, S \subseteq T, NEW s \in Seq(S)
  PROVE  s \in Seq(T)
OBVIOUS

(* The message in hand. *)
LEMMA InHand ==
  ASSUME BusInv, NEW g \in Group, queue[g] # <<>>
  PROVE  /\ Current(g) \in Told(g) /\ Tail(queue[g]) \in Seq(Told(g))
         /\ Range(queue[g]) = Range(Tail(queue[g])) \cup {Current(g)}
BY RangeTail DEF BusInv, Current

LEMMA RecordedStays ==
  ASSUME Grow, NEW e, Recorded(e)
  PROVE  Recorded(e)'
BY DEF Grow, Recorded, RowOf

-----------------------------------------------------------------------------
(* A step in which only group g takes messages or lets go of them. *)
LEMMA GroupStep ==
  ASSUME BusInv, OwedInv, Grow, occurred' = occurred, NEW g \in Group,
         \A h \in Group \ {g} : queue'[h] = queue[h] /\ lost'[h] = lost[h] /\ at'[h] = at[h],
         queue'[g] \in Seq(Told(g)), lost'[g] \in Seq(Told(g)),
         at'[g] # "idle" => queue'[g] # <<>>,
         at'[g] = "sending" => queue'[g] = queue[g] /\ \A e \in Told(g) : e = Current(g) => Recorded(e)',
         \A e \in occurred : Owes(g, e) => Owes(g, e)' \/ Recorded(e)'
  PROVE  BusInv' /\ OwedInv'
<1>1. ASSUME NEW h \in Group
      PROVE  /\ queue'[h] \in Seq(Told(h)') /\ lost'[h] \in Seq(Told(h)')
             /\ at'[h] # "idle" => queue'[h] # <<>>
  BY DEF BusInv, Told
<1>2. ASSUME NEW h \in Group, at'[h] = "sending"
      PROVE  Recorded(Current(h))'
  <2>1. queue'[h] = queue[h] /\ queue[h] # <<>>
    BY <1>1, <1>2
  <2>2. PICK e \in Told(h) : e = Current(h)
    BY <2>1, InHand
  <2>3. Recorded(e)'
    <3>1. CASE h = g
      BY <1>2, <2>2, <3>1
    <3>2. CASE h # g
      <4>1. Recorded(e)
        BY <1>2, <2>2, <3>2 DEF BusInv
      <4>. QED  BY <4>1, RecordedStays
    <3>. QED  BY <3>1, <3>2
  <2>4. Current(h)' = e
    BY <2>1, <2>2 DEF Current
  <2>. QED  BY <2>3, <2>4
<1>3. ASSUME NEW e \in occurred
      PROVE  Recorded(e)' \/ \E h \in Group : Topic[h] = e.type /\ Owes(h, e)'
  <2>1. CASE Recorded(e)
    BY <2>1, RecordedStays
  <2>2. ASSUME NEW h \in Group, Topic[h] = e.type, Owes(h, e)
        PROVE  Recorded(e)' \/ Owes(h, e)'
    <3>1. CASE h = g
      BY <2>2, <3>1
    <3>2. CASE h # g
      BY <2>2, <3>2 DEF Owes
    <3>. QED  BY <3>1, <3>2
  <2>. QED  BY <2>1, <2>2 DEF OwedInv
<1>. QED  BY <1>1, <1>2, <1>3 DEF BusInv, OwedInv

(* A step in which no group takes part. *)
LEMMA NoGroupStep ==
  ASSUME BusTypes, BusInv, OwedInv, Grow, occurred' = occurred,
         UNCHANGED <<queue, lost, at, todo, faults>>
  PROVE  BusTypes' /\ BusInv' /\ OwedInv'
<1>1. BusTypes'
  BY DEF BusTypes
<1>2. ASSUME NEW g \in Group, at[g] = "sending"
      PROVE  Recorded(Current(g))'
  <2>1. PICK e \in Told(g) : e = Current(g)
    BY <1>2, InHand DEF BusInv
  <2>2. Recorded(e)
    BY <1>2, <2>1 DEF BusInv
  <2>3. Recorded(e)' /\ Current(g)' = e
    BY <2>1, <2>2, RecordedStays DEF Current
  <2>. QED  BY <2>3
<1>3. BusInv'
  BY <1>2 DEF BusInv, Told
<1>4. OwedInv'
  BY RecordedStays DEF OwedInv, Owes
<1>. QED  BY <1>1, <1>3, <1>4
-----------------------------------------------------------------------------
(* The steps of a group. *)

LEMMA StartStep ==
  ASSUME TypeOK, BusInv, OwedInv, Grow, occurred' = occurred, NEW g \in Group,
         NEW s \in {"found", "sending"}, Start(g, s, <<>>),
         s = "sending" => \A e \in Told(g) : e = Current(g) => Recorded(e)'
  PROVE  /\ BusTypes' /\ BusInv' /\ OwedInv'
         /\ \A h \in Group \ {g} : queue'[h] = queue[h] /\ at'[h] = at[h]
         /\ s = "found" => queue' = queue /\ at'[g] = "found"
<1>1. BusTypes /\ queue[g] # <<>> /\ Reach(g, s, <<>>, queue)
  BY Types DEF Start, Ready
<1>2. \/ queue' = queue /\ at' = [at EXCEPT ![g] = s]
      \/ /\ queue' = [queue EXCEPT ![g] = Tail(@)] /\ at' = [at EXCEPT ![g] = "idle"]
         /\ s = "sending"
  BY <1>1 DEF Reach
<1>3. todo' = todo /\ lost' = lost /\ faults' = faults
  BY <1>1 DEF Reach, BusTypes
<1>4. Tail(queue[g]) \in Seq(Event)
  BY <1>1, HeadTailProperties DEF BusTypes
<1>5. BusTypes'
  BY <1>1, <1>2, <1>3, <1>4 DEF BusTypes
<1>6. /\ \A h \in Group \ {g} : queue'[h] = queue[h] /\ at'[h] = at[h]
      /\ s = "found" => queue' = queue /\ at'[g] = "found"
      /\ queue'[g] = queue[g] \/ (queue'[g] = Tail(queue[g]) /\ at'[g] = "idle" /\ s = "sending")
      /\ at'[g] \in {s, "idle"}
  BY <1>1, <1>2 DEF BusTypes
<1>7. /\ queue[g] \in Seq(Told(g)) /\ lost[g] \in Seq(Told(g))
      /\ Tail(queue[g]) \in Seq(Told(g))
      /\ Range(queue[g]) = Range(Tail(queue[g])) \cup {Current(g)} /\ Current(g) \in Told(g)
  BY <1>1, InHand DEF BusInv
<1>8. \A e \in occurred : Owes(g, e) => Owes(g, e)' \/ Recorded(e)'
  BY <1>3, <1>6, <1>7 DEF Owes
<1>9. BusInv' /\ OwedInv'
  <2>1. /\ \A h \in Group \ {g} : queue'[h] = queue[h] /\ lost'[h] = lost[h] /\ at'[h] = at[h]
        /\ queue'[g] \in Seq(Told(g)) /\ lost'[g] \in Seq(Told(g))
        /\ at'[g] # "idle" => queue'[g] # <<>>
        /\ at'[g] = "sending" =>
             queue'[g] = queue[g] /\ \A e \in Told(g) : e = Current(g) => Recorded(e)'
    BY <1>1, <1>3, <1>6, <1>7
  <2>. QED  BY <1>8, <2>1, GroupStep
<1>. QED  BY <1>5, <1>6, <1>9

(* The handler has what it read, and goes on to its end. *)
LEMMA WriteStep ==
  ASSUME TypeOK, BusInv, OwedInv, Grow, occurred' = occurred, NEW g \in Group,
         at[g] = "found", Reach(g, "sending", <<>>, queue),
         \A e \in Told(g) : e = Current(g) => Recorded(e)'
  PROVE  /\ BusTypes' /\ BusInv' /\ OwedInv'
         /\ \A h \in Group \ {g} : queue'[h] = queue[h] /\ at'[h] = at[h]
<1>1. BusTypes /\ queue[g] # <<>>
  BY Types DEF BusInv
<1>2. \/ queue' = queue /\ at' = [at EXCEPT ![g] = "sending"]
      \/ queue' = [queue EXCEPT ![g] = Tail(@)] /\ at' = [at EXCEPT ![g] = "idle"]
  BY DEF Reach
<1>3. todo' = todo /\ lost' = lost /\ faults' = faults
  BY <1>1 DEF Reach, BusTypes
<1>4. Tail(queue[g]) \in Seq(Event)
  BY <1>1, HeadTailProperties DEF BusTypes
<1>5. BusTypes'
  BY <1>1, <1>2, <1>3, <1>4 DEF BusTypes
<1>6. /\ \A h \in Group \ {g} : queue'[h] = queue[h] /\ at'[h] = at[h]
      /\ queue'[g] = queue[g] \/ (queue'[g] = Tail(queue[g]) /\ at'[g] = "idle")
  BY <1>1, <1>2 DEF BusTypes
<1>7. /\ queue[g] \in Seq(Told(g)) /\ lost[g] \in Seq(Told(g))
      /\ Tail(queue[g]) \in Seq(Told(g))
      /\ Range(queue[g]) = Range(Tail(queue[g])) \cup {Current(g)} /\ Current(g) \in Told(g)
  BY <1>1, InHand DEF BusInv
<1>8. \A e \in occurred : Owes(g, e) => Owes(g, e)' \/ Recorded(e)'
  BY <1>3, <1>6, <1>7 DEF Owes
<1>9. BusInv' /\ OwedInv'
  <2>1. /\ \A h \in Group \ {g} : queue'[h] = queue[h] /\ lost'[h] = lost[h] /\ at'[h] = at[h]
        /\ queue'[g] \in Seq(Told(g)) /\ lost'[g] \in Seq(Told(g))
        /\ at'[g] # "idle" => queue'[g] # <<>>
        /\ at'[g] = "sending" =>
             queue'[g] = queue[g] /\ \A e \in Told(g) : e = Current(g) => Recorded(e)'
    BY <1>1, <1>3, <1>6, <1>7
  <2>. QED  BY <1>8, <2>1, GroupStep
<1>. QED  BY <1>5, <1>6, <1>9

(* Acknowledgement, failure and claim. *)
LEMMA EndStep ==
  ASSUME TypeOK, BusInv, OwedInv, rows' = rows, occurred' = occurred,
         NEW g \in Group, Ack(g) \/ Retry(g) \/ Claim(g)
  PROVE  /\ BusTypes' /\ BusInv' /\ OwedInv'
         /\ \A h \in Group \ {g} : queue'[h] = queue[h] /\ at'[h] = at[h]
<1>1. BusTypes /\ Grow
  BY Types DEF Grow
<1>2. /\ queue[g] \in Seq(Told(g)) /\ lost[g] \in Seq(Told(g))
      /\ Told(g) \subseteq Event /\ Told(g) \subseteq occurred
  BY ToldIs DEF BusInv, TypeOK
<1>3. CASE Ack(g)
  <2>1. /\ queue[g] # <<>> /\ queue' = [queue EXCEPT ![g] = Tail(@)]
        /\ at' = [at EXCEPT ![g] = "idle"] /\ UNCHANGED <<lost, todo, faults>>
        /\ Recorded(Current(g))
    BY <1>3 DEF Ack, BusInv
  <2>2. /\ Tail(queue[g]) \in Seq(Told(g)) /\ Current(g) \in Told(g)
        /\ Range(queue[g]) = Range(Tail(queue[g])) \cup {Current(g)}
    BY <2>1, InHand
  <2>3. Tail(queue[g]) \in Seq(Event)
    BY <1>2, <2>2, SeqGrows
  <2>4. BusTypes'
    BY <1>1, <2>1, <2>3 DEF BusTypes
  <2>5. /\ \A h \in Group \ {g} : queue'[h] = queue[h] /\ lost'[h] = lost[h] /\ at'[h] = at[h]
        /\ queue'[g] = Tail(queue[g]) /\ lost'[g] = lost[g] /\ at'[g] = "idle"
    BY <1>1, <2>1 DEF BusTypes
  <2>6. \A e \in occurred : Owes(g, e) => Owes(g, e)' \/ Recorded(e)'
    <3>1. ASSUME NEW e \in occurred, e = Current(g) PROVE Recorded(e)'
      BY <1>1, <2>1, <3>1, RecordedStays
    <3>. QED  BY <2>2, <2>5, <3>1 DEF Owes
  <2>7. BusInv' /\ OwedInv'
    BY <1>1, <1>2, <2>2, <2>5, <2>6, GroupStep
  <2>. QED  BY <2>4, <2>5, <2>7
<1>4. CASE Retry(g)
  <2>1. /\ queue' = queue /\ lost' = lost /\ at' = [at EXCEPT ![g] = "idle"]
        /\ todo' = [todo EXCEPT ![g] = <<>>] /\ faults < MaxFaults /\ faults' = faults + 1
    BY <1>4 DEF Retry, MayFail
  <2>2. BusTypes'
    BY <1>1, <2>1, BoundAssumption DEF BusTypes
  <2>3. /\ \A h \in Group \ {g} : queue'[h] = queue[h] /\ lost'[h] = lost[h] /\ at'[h] = at[h]
        /\ at'[g] = "idle"
    BY <1>1, <2>1 DEF BusTypes
  <2>4. \A e \in occurred : Owes(g, e) => Owes(g, e)' \/ Recorded(e)'
    BY <2>1 DEF Owes
  <2>5. BusInv' /\ OwedInv'
    BY <1>1, <1>2, <2>1, <2>3, <2>4, GroupStep
  <2>. QED  BY <2>2, <2>3, <2>5
<1>5. CASE Claim(g)
  <2>1. PICK i \in 1 .. Len(lost[g]) :
          /\ queue' = [queue EXCEPT ![g] = <<lost[g][i]>> \o @]
          /\ lost' = [lost EXCEPT ![g] = RemoveAt(@, i)]
    BY <1>5 DEF Claim
  <2>2. at[g] = "idle" /\ UNCHANGED <<at, todo, faults>>
    BY <1>5 DEF Claim, Idle
  <2>3. /\ RemoveAt(lost[g], i) \in Seq(Told(g)) /\ lost[g][i] \in Told(g)
        /\ Range(lost[g]) = Range(RemoveAt(lost[g], i)) \cup {lost[g][i]}
    BY <1>2, RangeWithout DEF RemoveAt
  <2>4. /\ <<lost[g][i]>> \o queue[g] \in Seq(Told(g))
        /\ Range(<<lost[g][i]>> \o queue[g]) = Range(queue[g]) \cup {lost[g][i]}
    BY <1>2, <2>3, RangePush
  <2>5. RemoveAt(lost[g], i) \in Seq(Event) /\ <<lost[g][i]>> \o queue[g] \in Seq(Event)
    BY <1>2, <2>3, <2>4, SeqGrows
  <2>6. BusTypes'
    BY <1>1, <2>1, <2>2, <2>5 DEF BusTypes
  <2>7. /\ \A h \in Group \ {g} : queue'[h] = queue[h] /\ lost'[h] = lost[h] /\ at'[h] = at[h]
        /\ queue'[g] = <<lost[g][i]>> \o queue[g] /\ lost'[g] = RemoveAt(lost[g], i)
        /\ at'[g] = "idle"
    BY <1>1, <2>1, <2>2 DEF BusTypes
  <2>8. \A e \in occurred : Owes(g, e) => Owes(g, e)' \/ Recorded(e)'
    BY <2>3, <2>4, <2>7 DEF Owes
  <2>9. BusInv' /\ OwedInv'
    BY <1>1, <1>2, <2>3, <2>4, <2>7, <2>8, GroupStep
  <2>. QED  BY <2>6, <2>7, <2>9
<1>. QED  BY <1>3, <1>4, <1>5

(* A restart: what was in hand is pending, and nothing is at work. *)
LEMMA RestartStep ==
  ASSUME TypeOK, BusInv, OwedInv, Restart, faults' \in 0 .. MaxFaults
  PROVE  BusTypes' /\ BusInv' /\ OwedInv'
<1>1. PICK pending \in {{g \in Group : ~Idle(g)}, {g \in Group : queue[g] # <<>>}} :
        /\ queue' = [g \in Group |-> IF g \in pending THEN Tail(queue[g]) ELSE queue[g]]
        /\ lost' = [g \in Group |->
                      IF g \in pending THEN Append(lost[g], Current(g)) ELSE lost[g]]
  BY DEF Restart
<1>2. /\ at' = [g \in Group |-> "idle"] /\ todo' = todo
      /\ rows' = rows /\ occurred' = occurred
  BY DEF Restart, events
<1>3. BusTypes /\ Grow /\ occurred \subseteq LiveEvents
  BY <1>2, Types DEF Grow, EventTypes
<1>4. \A g \in pending : g \in Group /\ queue[g] # <<>>
  BY DEF BusInv, Idle
<1>5. ASSUME NEW g \in Group
      PROVE  /\ queue'[g] \in Seq(Told(g)) /\ lost'[g] \in Seq(Told(g))
             /\ Range(queue'[g]) \cup Range(lost'[g]) = Range(queue[g]) \cup Range(lost[g])
             /\ Told(g) \subseteq Event
  <2>1. queue[g] \in Seq(Told(g)) /\ lost[g] \in Seq(Told(g)) /\ Told(g) \subseteq Event
    BY <1>3, ToldIs DEF BusInv
  <2>2. CASE g \in pending
    <3>1. /\ Current(g) \in Told(g) /\ Tail(queue[g]) \in Seq(Told(g))
          /\ Range(queue[g]) = Range(Tail(queue[g])) \cup {Current(g)}
      BY <1>4, <2>2, InHand
    <3>2. /\ Append(lost[g], Current(g)) \in Seq(Told(g))
          /\ Range(Append(lost[g], Current(g))) = Range(lost[g]) \cup {Current(g)}
      BY <2>1, <3>1, RangeAppend
    <3>3. queue'[g] = Tail(queue[g]) /\ lost'[g] = Append(lost[g], Current(g))
      BY <1>1, <2>2
    <3>. QED  BY <2>1, <3>1, <3>2, <3>3
  <2>3. CASE g \notin pending
    BY <1>1, <2>1, <2>3
  <2>. QED  BY <2>2, <2>3
<1>6. ASSUME NEW g \in Group PROVE queue'[g] \in Seq(Event) /\ lost'[g] \in Seq(Event)
  BY <1>5, SeqGrows
<1>7. BusTypes'
  <2>1. queue' \in [Group -> Seq(Event)] /\ lost' \in [Group -> Seq(Event)]
    BY <1>1, <1>6
  <2>. QED  BY <1>2, <1>3, <2>1 DEF BusTypes
<1>8. BusInv'
  BY <1>2, <1>5 DEF BusInv, Told
<1>9. OwedInv'
  <2>1. \A e \in occurred : Recorded(e) => Recorded(e)'
    BY <1>3, RecordedStays
  <2>2. \A e \in occurred : \A g \in Group : Owes(g, e) => Owes(g, e)'
    BY <1>5 DEF Owes
  <2>. QED  BY <1>2, <2>1, <2>2 DEF OwedInv
<1>. QED  BY <1>7, <1>8, <1>9

(* An event is published. *)
LEMMA OccursStep ==
  ASSUME TypeOK, BusInv, OwedInv, NEW e \in LiveEvents, Occurs(e)
  PROVE  /\ BusTypes' /\ BusInv' /\ OwedInv'
         /\ \A g \in Group : queue[g] # <<>> => Current(g)' = Current(g)
<1>1. /\ occurred' = occurred \cup {e} /\ queue' = Post(queue, e)
      /\ UNCHANGED <<rows, lost, at, todo, faults>>
      /\ BusTypes /\ Grow /\ occurred \subseteq LiveEvents /\ e \in Event
  BY Types, LiveAssumption DEF Occurs, Grow, EventTypes
<1>2. ASSUME NEW g \in Group
      PROVE  /\ queue'[g] \in Seq(Told(g)') /\ lost'[g] \in Seq(Told(g)')
             /\ Range(queue[g]) \subseteq Range(queue'[g])
             /\ Topic[g] = e.type => e \in Range(queue'[g])
             /\ queue[g] # <<>> => queue'[g] # <<>> /\ Head(queue'[g]) = Head(queue[g])
             /\ queue'[g] \in Seq(Event)
  <2> DEFINE S == Told(g)'
  <2>1. queue'[g] = IF Topic[g] = e.type THEN Append(queue[g], e) ELSE queue[g]
    BY <1>1 DEF Post
  <2>2. Told(g) \subseteq S /\ (Topic[g] = e.type => e \in S) /\ S \subseteq Event
    BY <1>1, LiveAssumption DEF Told
  <2>. HIDE DEF S
  <2>3. queue[g] \in Seq(S) /\ lost[g] \in Seq(S)
    BY <2>2, SeqGrows DEF BusInv
  <2>4. CASE Topic[g] = e.type
    <3>1. /\ Append(queue[g], e) \in Seq(S)
          /\ Range(Append(queue[g], e)) = Range(queue[g]) \cup {e}
      BY <2>2, <2>3, <2>4, RangeAppend
    <3>2. queue[g] # <<>> =>
            Append(queue[g], e) # <<>> /\ Head(Append(queue[g], e)) = Head(queue[g])
      BY <2>2, <2>3, <2>4
    <3>3. queue'[g] = Append(queue[g], e)
      BY <2>1, <2>4
    <3>4. queue'[g] \in Seq(Event)
      BY <2>2, <3>1, <3>3, SeqGrows
    <3>. QED  BY <1>1, <2>3, <3>1, <3>2, <3>3, <3>4 DEF S
  <2>5. CASE Topic[g] # e.type
    <3>1. queue'[g] = queue[g] /\ queue[g] \in Seq(Event)
      BY <2>1, <2>2, <2>3, <2>5, SeqGrows
    <3>. QED  BY <1>1, <2>3, <2>5, <3>1 DEF S
  <2>. QED  BY <2>4, <2>5
<1>3. BusTypes'
  <2>1. queue' \in [Group -> Seq(Event)]
    BY <1>1, <1>2 DEF Post
  <2>. QED  BY <1>1, <2>1 DEF BusTypes
<1>4. \A g \in Group : queue[g] # <<>> => Current(g)' = Current(g)
  BY <1>2 DEF Current
<1>5. ASSUME NEW g \in Group, at[g] = "sending" PROVE Recorded(Current(g))'
  <2>1. PICK f \in Told(g) : f = Current(g)
    BY <1>5, InHand DEF BusInv
  <2>2. Recorded(f)
    BY <1>5, <2>1 DEF BusInv
  <2>3. Recorded(f)' /\ Current(g)' = f
    BY <1>1, <1>4, <1>5, <2>1, <2>2, RecordedStays DEF BusInv
  <2>. QED  BY <2>3
<1>6. BusInv'
  BY <1>1, <1>2, <1>5 DEF BusInv
<1>7. ASSUME NEW f \in occurred
      PROVE  Recorded(f)' \/ \E g \in Group : Topic[g] = f.type /\ Owes(g, f)'
  <2>1. Recorded(f) => Recorded(f)'
    BY <1>1, RecordedStays
  <2>2. \A g \in Group : Owes(g, f) => Owes(g, f)'
    BY <1>1, <1>2 DEF Owes
  <2>. QED  BY <2>1, <2>2 DEF OwedInv
<1>8. \E g \in Group : Topic[g] = e.type /\ Owes(g, e)'
  BY <1>1, <1>2, EventIs DEF Owes
<1>9. OwedInv'
  BY <1>1, <1>7, <1>8 DEF OwedInv
<1>. QED  BY <1>3, <1>4, <1>6, <1>9
-----------------------------------------------------------------------------
(* The rows. *)

LEMMA FoundAwaits ==
  ASSUME RowTypes, ConfirmedFirst, NEW e \in Event, e.type # "BookingMade", NEW b \in Found(e)
  PROVE  b \in Booking /\ Awaits(b, e)
<1>1. b \in DOMAIN rows /\ b \in Booking
  BY DEF Found, RowTypes
<1>2. CASE e.type = "TicketBookingConfirmed"
  BY <1>1, <1>2 DEF Found, Awaits
<1>3. CASE e.type # "TicketBookingConfirmed"
  <2>1. PICK f \in rows[b] : f[1] = e.of
    BY <1>3 DEF Found, HasTicket
  <2>2. BookingOf[e.of] = b /\ <<e.of, "TicketBookingConfirmed">> \in rows[b]
    <3>1. BookingOf[f[1]] = b /\ <<f[1], "TicketBookingConfirmed">> \in rows[b]
      BY ONLY <1>1, ConfirmedFirst DEF ConfirmedFirst
    <3>. QED  BY <2>1, <3>1
  <2>. QED  BY <1>1, <2>2 DEF Awaits
<1>. QED  BY <1>2, <1>3

(* An event is added to the row that awaits it. *)
LEMMA FactAdded ==
  ASSUME RowTypes, ConfirmedFirst, occurred' = occurred,
         NEW e \in Event, e \in occurred \cup Old, NEW b \in DOMAIN rows, Awaits(b, e),
         rows' = [rows EXCEPT ![b] = rows[b] \cup {<<e.of, e.type>>}]
  PROVE  /\ RowTypes' /\ ConfirmedFirst' /\ Grow /\ Recorded(e)'
         /\ \A r \in DOMAIN rows : r \in DOMAIN rows' /\ (r # b => rows'[r] = rows[r])
<1>1. e.of \in Ticket /\ e = [type |-> e.type, of |-> e.of] /\ \E g \in Group : Topic[g] = e.type
  BY EventIs DEF Awaits
<1>2. <<e.of, e.type>> \in Fact
  BY <1>1 DEF Fact, Topic
<1>3. /\ DOMAIN rows' = DOMAIN rows
      /\ \A r \in DOMAIN rows :
           rows'[r] = IF r = b THEN rows[b] \cup {<<e.of, e.type>>} ELSE rows[r]
  BY DEF RowTypes
<1>4. RowTypes'
  BY <1>2 DEF RowTypes
<1>5. Grow
  BY <1>3 DEF Grow
<1>6. Recorded(e)'
  BY <1>3 DEF Recorded, RowOf, Awaits
<1>7. ASSUME NEW r \in DOMAIN rows', NEW f \in rows'[r]
      PROVE  /\ BookingOf[f[1]] = r
             /\ <<f[1], "TicketBookingConfirmed">> \in rows'[r]
             /\ [type |-> f[2], of |-> f[1]] \in occurred \cup Old
  <2>1. CASE f \in rows[r]
    BY <1>3, <2>1 DEF ConfirmedFirst
  <2>2. CASE r = b /\ f = <<e.of, e.type>>
    <3>1. f[1] = e.of /\ f[2] = e.type
      BY <2>2
    <3>2. <<e.of, "TicketBookingConfirmed">> \in rows'[b]
      BY <1>3 DEF Awaits
    <3>. QED  BY <1>1, <2>2, <3>1, <3>2 DEF Awaits
  <2>. QED  BY <1>3, <2>1, <2>2
<1>8. ConfirmedFirst'
  BY <1>7 DEF ConfirmedFirst
<1>. QED  BY <1>3, <1>4, <1>5, <1>6, <1>8

LEMMA BookingAdded ==
  ASSUME RowTypes, ConfirmedFirst, occurred' = occurred, NEW b \in Booking, CreateBooking(b)
  PROVE  /\ RowTypes' /\ ConfirmedFirst' /\ Grow /\ b \in DOMAIN rows'
         /\ \A r \in DOMAIN rows : r \in DOMAIN rows' /\ rows'[r] = rows[r]
<1>1. /\ DOMAIN rows' = DOMAIN rows \cup {b}
      /\ \A r \in DOMAIN rows : rows'[r] = rows[r]
      /\ \A r \in DOMAIN rows' : r \notin DOMAIN rows => rows'[r] = {}
  BY DEF CreateBooking
<1>2. RowTypes'
  BY <1>1 DEF RowTypes, CreateBooking
<1>3. ConfirmedFirst'
  BY <1>1 DEF ConfirmedFirst
<1>. QED  BY <1>1, <1>2, <1>3 DEF Grow

LEMMA RowsSame ==
  ASSUME RowTypes, ConfirmedFirst, rows' = rows, occurred \subseteq occurred'
  PROVE  RowTypes' /\ ConfirmedFirst' /\ Grow
BY DEF RowTypes, ConfirmedFirst, Grow
-----------------------------------------------------------------------------
(* The locks. *)

(* A transaction holds its row while neither the row nor the one who opened*)
(* the transaction moves on.                                               *)
LEMMA StillHolds ==
  ASSUME NEW tx, Holds(tx), NEW w, tx.by # w,
         tx.row \in DOMAIN rows', rows'[tx.row] = rows[tx.row],
         \A g \in Group \ {w} :
           at'[g] = at[g] /\ (at[g] = "found" => Current(g)' = Current(g)),
         tx.by = "migration" =>
           \/ UNCHANGED migrator
           \/ migration = "waiting"
           \/ batch' = {} /\ migration' # "waiting"
  PROVE  Holds(tx)'
<1>1. \A e : Awaits(tx.row, e) => Awaits(tx.row, e)'
  BY DEF Awaits
<1>2. ASSUME tx.by \in Group PROVE at'[tx.by] = "found" /\ Awaits(tx.row, Current(tx.by))'
  <2>1. PICK g \in Group \ {w} : g = tx.by
    BY <1>2
  <2>2. at[g] = "found" /\ Awaits(tx.row, Current(g))
    BY <2>1 DEF Holds
  <2>3. PICK e : e = Current(g)
    OBVIOUS
  <2>4. at'[g] = "found" /\ Current(g)' = e /\ Awaits(tx.row, e)'
    BY <1>1, <2>2, <2>3
  <2>5. Awaits(tx.row, Current(g))'
    BY <2>4
  <2>. QED  BY <2>1, <2>4, <2>5
<1>3. ASSUME tx.by = "migration"
      PROVE  migration' # "waiting" /\ \A e \in Old : Replaying(e)' => Awaits(tx.row, e)'
  <2>1. CASE UNCHANGED migrator
    <3>1. \A e \in Old : Replaying(e)' => Replaying(e)
      BY <2>1 DEF Replaying, migrator
    <3>. QED  BY <1>1, <1>3, <2>1, <3>1 DEF Holds, migrator
  <2>2. CASE migration = "waiting"
    BY <1>3, <2>2 DEF Holds
  <2>3. CASE batch' = {} /\ migration' # "waiting"
    BY <2>3 DEF Replaying
  <2>. QED  BY <1>3, <2>1, <2>2, <2>3
<1>. QED  BY <1>2, <1>3 DEF Holds

(* A worker w that holds no row, or no longer, may go on. *)
LEMMA LocksKept ==
  ASSUME LockTypes, LockInv, open' \subseteq open, NEW w,
         \A tx \in open' :
           tx.by # w /\ tx.row \in DOMAIN rows' /\ rows'[tx.row] = rows[tx.row],
         \A g \in Group \ {w} :
           at'[g] = at[g] /\ (at[g] = "found" => Current(g)' = Current(g)),
         \/ w = "migration"
         \/ UNCHANGED migrator
         \/ migration = "waiting"
         \/ batch' = {} /\ migration' # "waiting"
  PROVE  LockTypes' /\ LockInv'
<1>1. ASSUME NEW tx \in open' PROVE Holds(tx)'
  <2>1. Holds(tx)
    BY DEF LockInv
  <2>. QED  BY <2>1, StillHolds
<1>2. LockTypes'
  BY DEF LockTypes
<1>. QED  BY <1>1, <1>2 DEF LockInv

(* A step of no worker. *)
LEMMA NobodysStep ==
  ASSUME LockTypes, LockInv, open' = open, rows' = rows,
         \A g \in Group :
           at'[g] = at[g] /\ (at[g] = "found" => Current(g)' = Current(g)),
         \/ UNCHANGED migrator
         \/ migration = "waiting"
         \/ batch' = {} /\ migration' # "waiting"
  PROVE  LockTypes' /\ LockInv'
<1>1. PICK w : w \notin Group \cup {"migration"}
  BY NoSetContainsEverything
<1>2. \A tx \in open' :
        tx.by # w /\ tx.row \in DOMAIN rows' /\ rows'[tx.row] = rows[tx.row]
  BY <1>1 DEF LockTypes, LockInv, Holds
<1>3. \A g \in Group \ {w} : at'[g] = at[g] /\ (at[g] = "found" => Current(g)' = Current(g))
  OBVIOUS
<1>. QED  BY <1>2, <1>3, LocksKept

(* A worker reads a row for update. *)
LEMMA LockTaken ==
  ASSUME LockTypes, RowTypes, LockInv, NEW w \in Group \cup {"migration"}, NEW e \in Event,
         SelectForUpdate(w, e), \A b \in Found(e) : b \in Booking /\ Awaits(b, e),
         rows' = rows, UNCHANGED migrator,
         \A tx \in open : tx.by # w,
         \A g \in Group \ {w} :
           at'[g] = at[g] /\ (at[g] = "found" => Current(g)' = Current(g)),
         w \in Group => at'[w] = "found" /\ Current(w)' = e,
         w = "migration" => migration # "waiting" /\ \A f \in Old : Replaying(f) => f = e
  PROVE  LockTypes' /\ LockInv'
<1>1. PICK b \in Found(e) :
        ~Locked(b) /\ open' = open \cup {[by |-> w, row |-> b, payload |-> rows[b]]}
  BY DEF SelectForUpdate
<1>2. PICK new : new = [by |-> w, row |-> b, payload |-> rows[b]]
  OBVIOUS
<1>3. b \in Booking /\ b \in DOMAIN rows /\ Awaits(b, e) /\ rows[b] \in SUBSET Fact
  BY DEF Awaits, RowTypes
<1>4. \A f : \A r : Awaits(r, f)' = Awaits(r, f)
  BY DEF Awaits
<1>5. \A f \in Old : Replaying(f)' = Replaying(f)
  BY DEF Replaying, migrator
<1>6. Holds(new)'
  <2>1. w \in Group => at'[w] = "found" /\ Awaits(b, Current(w))'
    <3>1. Awaits(b, e)'
      BY <1>3, <1>4
    <3>. QED  BY <3>1
  <2>2. w = "migration" =>
          migration' # "waiting" /\ \A f \in Old : Replaying(f)' => Awaits(b, f)'
    BY <1>3, <1>4, <1>5 DEF migrator
  <2>. QED  BY <1>3, <1>2, <2>1, <2>2 DEF Holds
<1>7. ASSUME NEW tx \in open PROVE Holds(tx)'
  <2>1. Holds(tx) /\ tx.by # w
    BY DEF LockInv
  <2>2. tx.row \in DOMAIN rows' /\ rows'[tx.row] = rows[tx.row]
    BY <2>1 DEF Holds
  <2>. QED  BY <2>1, <2>2, StillHolds
<1>8. \A tx \in open : tx.row # b /\ tx.by # w
  BY <1>1 DEF Locked
<1>9. LockTypes'
  BY <1>1, <1>3 DEF LockTypes
<1>10. new.row = b /\ new.by = w /\ open' = open \cup {new}
  BY <1>1, <1>2
<1>11. \A tx1, tx2 \in open' : tx1.row = tx2.row \/ tx1.by = tx2.by => tx1 = tx2
  BY <1>8, <1>10 DEF LockInv
<1>. QED  BY <1>6, <1>7, <1>9, <1>10, <1>11 DEF LockInv

(* The worker that holds a row writes it. *)
LEMMA RowWritten ==
  ASSUME RowTypes, LockTypes, LockInv, ConfirmedFirst, occurred' = occurred,
         NEW w, NEW e \in Event, e \in occurred \cup Old, UpdateReadModel(w, e),
         \A tx \in open : tx.by = w => Awaits(tx.row, e)
  PROVE  /\ RowTypes' /\ ConfirmedFirst' /\ Grow /\ Recorded(e)' /\ open' \subseteq open
         /\ \A tx \in open' :
              tx.by # w /\ tx.row \in DOMAIN rows' /\ rows'[tx.row] = rows[tx.row]
<1>1. PICK tx \in open :
        /\ tx.by = w /\ open' = open \ {tx}
        /\ rows' = [rows EXCEPT ![tx.row] = tx.payload \cup {<<e.of, e.type>>}]
  BY DEF UpdateReadModel
<1>2. Holds(tx) /\ Awaits(tx.row, e)
  BY <1>1 DEF LockInv
<1>3. PICK b \in DOMAIN rows : b = tx.row /\ tx.payload = rows[b]
  BY <1>2 DEF Holds
<1>4. rows' = [rows EXCEPT ![b] = rows[b] \cup {<<e.of, e.type>>}] /\ Awaits(b, e)
  BY <1>1, <1>2, <1>3
<1>5. /\ RowTypes' /\ ConfirmedFirst' /\ Grow /\ Recorded(e)'
      /\ \A r \in DOMAIN rows : r \in DOMAIN rows' /\ (r # b => rows'[r] = rows[r])
  BY <1>4, FactAdded
<1>6. ASSUME NEW tx2 \in open'
      PROVE  tx2.by # w /\ tx2.row \in DOMAIN rows' /\ rows'[tx2.row] = rows[tx2.row]
  <2>1. tx2 \in open /\ tx2 # tx
    BY <1>1
  <2>2. tx2.row # b /\ tx2.by # w /\ tx2.row \in DOMAIN rows
    BY <1>1, <1>3, <2>1 DEF LockInv, Holds
  <2>. QED  BY <1>5, <2>2
<1>. QED  BY <1>1, <1>5, <1>6
-----------------------------------------------------------------------------
(* The invariant, and that no row loses anything, from their parts. *)

Step == IInv' /\ Grow

LEMMA Together ==
  ASSUME BusTypes', RowTypes', LockTypes', EventTypes',
         BusInv', LockInv', ConfirmedFirst', OwedInv', Grow
  PROVE  Step
BY DEF Step, IInv, TypeOK, BusTypes, RowTypes, LockTypes, EventTypes

LEMMA Parts ==
  ASSUME IInv
  PROVE  /\ BusTypes /\ RowTypes /\ LockTypes /\ EventTypes /\ TypeOK
         /\ BusInv /\ LockInv /\ ConfirmedFirst /\ OwedInv
BY Types DEF IInv

LEMMA InitIInv == Init => IInv
<1>. SUFFICES ASSUME Init PROVE IInv
  OBVIOUS
<1>1. BusTypes
  BY BoundAssumption DEF Init, BusInit, BusTypes
<1>2. RowTypes
  <2>1. DOMAIN rows = {} /\ rows = [b \in DOMAIN rows |-> rows[b]]
    BY DEF Init
  <2>. QED  BY <2>1 DEF RowTypes
<1>5. LockTypes /\ EventTypes
  BY DEF Init, LockTypes, EventTypes
<1>3. BusInv
  BY DEF Init, BusInit, BusInv
<1>4. LockInv /\ ConfirmedFirst /\ OwedInv
  BY DEF Init, LockInv, ConfirmedFirst, OwedInv
<1>. QED  BY <1>1, <1>2, <1>3, <1>4, <1>5, Types DEF IInv

LEMMA EventTypesKept ==
  ASSUME EventTypes, UNCHANGED events, UNCHANGED migrator
  PROVE  EventTypes' /\ occurred' = occurred
BY DEF EventTypes, events, migrator

(* A group that is not between reading a row and writing it holds none. *)
LEMMA FreeGroup ==
  ASSUME LockInv, NEW g \in Group, at[g] # "found"
  PROVE  \A tx \in open : tx.by # g
BY DEF LockInv, Holds

LEMMA BookingStep ==
  ASSUME IInv, OnBookingMade
  PROVE  Step
<1>1. PICK g \in Group : g = "OnBookingMade" /\ Topic[g] = "BookingMade"
  BY Groups
<1>2. /\ Start(g, "sending", <<>>) /\ CreateBooking(Current(g).of)
      /\ UNCHANGED events /\ open' = open /\ UNCHANGED migrator
  BY <1>1 DEF OnBookingMade
<1>3. at[g] = "idle" /\ queue[g] # <<>>
  BY <1>2 DEF Start, Ready, Idle
<1>4. PICK e \in Told(g) : e = Current(g)
  BY <1>3, Parts, InHand
<1>5. EventTypes' /\ occurred' = occurred /\ occurred \subseteq LiveEvents
  BY <1>2, Parts, EventTypesKept DEF EventTypes
<1>6. e \in Event /\ e.type = "BookingMade" /\ e.of \in Booking
  BY <1>1, <1>5, ToldIs, EventIs DEF Told
<1>7. /\ RowTypes' /\ ConfirmedFirst' /\ Grow /\ e.of \in DOMAIN rows'
      /\ \A r \in DOMAIN rows : r \in DOMAIN rows' /\ rows'[r] = rows[r]
  BY <1>2, <1>4, <1>5, <1>6, Parts, BookingAdded
<1>8. Recorded(e)'
  BY <1>6, <1>7 DEF Recorded
<1>9. /\ BusTypes' /\ BusInv' /\ OwedInv'
      /\ \A h \in Group \ {g} : queue'[h] = queue[h] /\ at'[h] = at[h]
  <2>1. \A f \in Told(g) : f = Current(g) => Recorded(f)'
    BY <1>4, <1>8
  <2>2. TypeOK /\ BusInv /\ OwedInv
    BY Parts
  <2>. QED  BY <1>2, <1>5, <1>7, <2>1, <2>2, StartStep
<1>10. LockTypes' /\ LockInv'
  <2>1. LockTypes /\ LockInv /\ g # "migration"
    BY Parts, Groups
  <2>2. \A tx \in open' : tx.by # g /\ tx.row \in DOMAIN rows' /\ rows'[tx.row] = rows[tx.row]
    BY <1>2, <1>3, <1>7, <2>1, FreeGroup DEF LockInv, Holds
  <2>3. \A h \in Group \ {g} : at'[h] = at[h] /\ (at[h] = "found" => Current(h)' = Current(h))
    BY <1>9 DEF Current
  <2>. QED  BY <1>2, <2>1, <2>2, <2>3, LocksKept
<1>. QED  BY <1>5, <1>7, <1>9, <1>10, Together

LEMMA ReadStep ==
  ASSUME IInv, NEW g \in Group, g # "OnBookingMade", ReadPayload(g)
  PROVE  Step
<1>1. /\ Start(g, "found", <<>>) /\ SelectForUpdate(g, Current(g))
      /\ UNCHANGED events /\ rows' = rows /\ UNCHANGED migrator
  BY DEF ReadPayload
<1>2. at[g] = "idle" /\ queue[g] # <<>>
  BY <1>1 DEF Start, Ready, Idle
<1>3. PICK e \in Told(g) : e = Current(g)
  BY <1>2, Parts, InHand
<1>4. EventTypes' /\ occurred' = occurred /\ occurred \subseteq LiveEvents
  BY <1>1, Parts, EventTypesKept DEF EventTypes
<1>5. e \in Event /\ e.type # "BookingMade"
  BY <1>4, ToldIs, Groups DEF Told
<1>6. RowTypes' /\ ConfirmedFirst' /\ Grow
  BY <1>1, <1>4, Parts, RowsSame
<1>7. /\ BusTypes' /\ BusInv' /\ OwedInv'
      /\ \A h \in Group \ {g} : queue'[h] = queue[h] /\ at'[h] = at[h]
      /\ queue' = queue /\ at'[g] = "found"
  <2>1. TypeOK /\ BusInv /\ OwedInv
    BY Parts
  <2>. QED  BY <1>1, <1>4, <1>6, <2>1, StartStep
<1>8. LockTypes' /\ LockInv'
  <2>1. LockTypes /\ RowTypes /\ LockInv /\ ConfirmedFirst /\ g # "migration"
    BY Parts, Groups
  <2>2. SelectForUpdate(g, e) /\ \A b \in Found(e) : b \in Booking /\ Awaits(b, e)
    BY <1>1, <1>3, <1>5, <2>1, FoundAwaits
  <2>3. \A tx \in open : tx.by # g
    BY <1>2, <2>1, FreeGroup
  <2>4. \A h \in Group \ {g} : at'[h] = at[h] /\ (at[h] = "found" => Current(h)' = Current(h))
    BY <1>7 DEF Current
  <2>5. at'[g] = "found" /\ Current(g)' = e
    BY <1>3, <1>7 DEF Current
  <2>. QED  BY <1>1, <1>5, <2>1, <2>2, <2>3, <2>4, <2>5, LockTaken
<1>. QED  BY <1>4, <1>6, <1>7, <1>8, Together

LEMMA PayloadStep ==
  ASSUME IInv, NEW g \in Group, WritePayload(g)
  PROVE  Step
<1>1. /\ at[g] = "found" /\ Reach(g, "sending", <<>>, queue)
      /\ UpdateReadModel(g, Current(g)) /\ UNCHANGED events /\ UNCHANGED migrator
  BY DEF WritePayload
<1>2. PICK e \in Told(g) : e = Current(g)
  BY <1>1, Parts, InHand DEF BusInv
<1>3. EventTypes' /\ occurred' = occurred /\ occurred \subseteq LiveEvents
  BY <1>1, Parts, EventTypesKept DEF EventTypes
<1>4. e \in Event /\ e \in occurred \cup Old
  BY <1>3, ToldIs
<1>5. /\ RowTypes' /\ ConfirmedFirst' /\ Grow /\ Recorded(e)' /\ open' \subseteq open
      /\ \A tx \in open' :
           tx.by # g /\ tx.row \in DOMAIN rows' /\ rows'[tx.row] = rows[tx.row]
  <2>1. RowTypes /\ LockTypes /\ LockInv /\ ConfirmedFirst
    BY Parts
  <2>2. \A tx \in open : tx.by = g => Awaits(tx.row, e)
    BY <1>2, <2>1 DEF LockInv, Holds
  <2>3. UpdateReadModel(g, e)
    BY <1>1, <1>2
  <2>. QED  BY <1>3, <1>4, <2>1, <2>2, <2>3, RowWritten
<1>6. /\ BusTypes' /\ BusInv' /\ OwedInv'
      /\ \A h \in Group \ {g} : queue'[h] = queue[h] /\ at'[h] = at[h]
  <2>1. \A f \in Told(g) : f = Current(g) => Recorded(f)'
    BY <1>2, <1>5
  <2>2. TypeOK /\ BusInv /\ OwedInv
    BY Parts
  <2>. QED  BY <1>1, <1>3, <1>5, <2>1, <2>2, WriteStep
<1>7. LockTypes' /\ LockInv'
  <2>1. LockTypes /\ LockInv /\ g # "migration"
    BY Parts, Groups
  <2>2. \A h \in Group \ {g} : at'[h] = at[h] /\ (at[h] = "found" => Current(h)' = Current(h))
    BY <1>6 DEF Current
  <2>. QED  BY <1>1, <1>5, <2>1, <2>2, LocksKept
<1>. QED  BY <1>3, <1>5, <1>6, <1>7, Together

LEMMA GroupEnds ==
  ASSUME IInv, NEW g \in Group, Finish(g) \/ ClaimPending(g) \/ FailHandler(g)
  PROVE  Step
<1>1. /\ Ack(g) \/ Retry(g) \/ Claim(g)
      /\ UNCHANGED events /\ rows' = rows /\ UNCHANGED migrator /\ open' \subseteq open
  BY DEF Finish, ClaimPending, FailHandler, Rollback
<1>2. EventTypes' /\ occurred' = occurred
  BY <1>1, Parts, EventTypesKept
<1>3. RowTypes' /\ ConfirmedFirst' /\ Grow
  BY <1>1, <1>2, Parts, RowsSame
<1>4. /\ BusTypes' /\ BusInv' /\ OwedInv'
      /\ \A h \in Group \ {g} : queue'[h] = queue[h] /\ at'[h] = at[h]
  <2>1. TypeOK /\ BusInv /\ OwedInv
    BY Parts
  <2>. QED  BY <1>1, <1>2, <2>1, EndStep
<1>5. LockTypes' /\ LockInv'
  <2>1. LockTypes /\ LockInv /\ g # "migration"
    BY Parts, Groups
  <2>2. \A tx \in open' : tx.by # g
    <3>1. CASE FailHandler(g)
      BY <3>1 DEF FailHandler, Rollback
    <3>2. CASE Finish(g) \/ ClaimPending(g)
      <4>1. at[g] # "found"
        BY <3>2 DEF Finish, ClaimPending, Ack, Claim, Idle
      <4>. QED  BY <1>1, <2>1, <4>1, FreeGroup
    <3>. QED  BY <3>1, <3>2
  <2>3. \A tx \in open' : tx.row \in DOMAIN rows' /\ rows'[tx.row] = rows[tx.row]
    BY <1>1, <2>1 DEF LockInv, Holds
  <2>4. \A h \in Group \ {g} : at'[h] = at[h] /\ (at[h] = "found" => Current(h)' = Current(h))
    BY <1>4 DEF Current
  <2>. QED  BY <1>1, <2>1, <2>2, <2>3, <2>4, LocksKept
<1>. QED  BY <1>2, <1>3, <1>4, <1>5, Together

LEMMA Restarts ==
  ASSUME IInv, Restart, faults' \in 0 .. MaxFaults
  PROVE  Step
<1>1. /\ open' = {} /\ migration' = "waiting" /\ batch' = {}
      /\ UNCHANGED events /\ rows' = rows
  BY DEF Restart, MigrateAnew
<1>2. EventTypes' /\ occurred' = occurred
  BY <1>1, Parts DEF EventTypes, events
<1>3. RowTypes' /\ ConfirmedFirst' /\ Grow
  BY <1>1, <1>2, Parts, RowsSame
<1>4. LockTypes' /\ LockInv'
  BY <1>1 DEF LockTypes, LockInv
<1>5. BusTypes' /\ BusInv' /\ OwedInv'
  BY Parts, RestartStep
<1>. QED  BY <1>2, <1>3, <1>4, <1>5, Together
-----------------------------------------------------------------------------
(* The migration. *)

LEMMA OneAtATime ==
  ASSUME NEW e, NEW f, Replaying(e), Replaying(f)
  PROVE  e = f
<1>1. PICK i \in DOMAIN OldEvents :
        e = OldEvents[i] /\ e \in batch /\ \A j \in 1 .. i - 1 : OldEvents[j] \notin batch
  BY DEF Replaying
<1>2. PICK k \in DOMAIN OldEvents :
        f = OldEvents[k] /\ f \in batch /\ \A j \in 1 .. k - 1 : OldEvents[j] \notin batch
  BY DEF Replaying
<1>3. i \in Nat \ {0} /\ k \in Nat \ {0}
  BY OldAssumption
<1>4. ~(i < k) /\ ~(k < i)
  BY <1>1, <1>2, <1>3
<1>. QED  BY <1>1, <1>2, <1>3, <1>4

LEMMA ReplayBookingStep ==
  ASSUME IInv, NEW e \in Old, ReplayBookingMade(e)
  PROVE  Step
<1>1. /\ Replaying(e) /\ e.type = "BookingMade" /\ CreateBooking(e.of)
      /\ UNCHANGED events /\ open' = open /\ UNCHANGED <<queue, lost, at, todo, faults>>
      /\ migration' = migration /\ batch' = batch \ {e}
  BY DEF ReplayBookingMade, bus
<1>2. e \in Event /\ e.of \in Booking
  BY <1>1, OldIs, EventIs
<1>3. EventTypes' /\ occurred' = occurred
  BY <1>1, Parts DEF EventTypes, events
<1>4. /\ RowTypes' /\ ConfirmedFirst' /\ Grow
      /\ \A r \in DOMAIN rows : r \in DOMAIN rows' /\ rows'[r] = rows[r]
  BY <1>1, <1>2, <1>3, Parts, BookingAdded
<1>5. BusTypes' /\ BusInv' /\ OwedInv'
  BY <1>1, <1>3, <1>4, Parts, NoGroupStep
<1>6. LockTypes' /\ LockInv'
  <2>1. LockTypes /\ LockInv
    BY Parts
  <2>2. \A tx \in open : tx.by # "migration"
    BY <1>1, <2>1 DEF LockInv, Holds, Awaits
  <2>3. \A tx \in open' : tx.row \in DOMAIN rows' /\ rows'[tx.row] = rows[tx.row]
    BY <1>1, <1>4, <2>1 DEF LockInv, Holds
  <2>4. \A h \in Group \ {"migration"} :
          at'[h] = at[h] /\ (at[h] = "found" => Current(h)' = Current(h))
    BY <1>1 DEF Current
  <2>. QED  BY <1>1, <2>1, <2>2, <2>3, <2>4, LocksKept
<1>. QED  BY <1>3, <1>4, <1>5, <1>6, Together

LEMMA ReplayReadStep ==
  ASSUME IInv, NEW e \in Old, ReplayRead(e)
  PROVE  Step
<1>1. /\ Replaying(e) /\ e.type # "BookingMade" /\ SelectForUpdate("migration", e)
      /\ \A tx \in open : tx.by # "migration"
      /\ UNCHANGED events /\ rows' = rows /\ UNCHANGED migrator
      /\ UNCHANGED <<queue, lost, at, todo, faults>>
  BY DEF ReplayRead, bus
<1>2. e \in Event
  BY OldIs
<1>3. EventTypes' /\ occurred' = occurred
  BY <1>1, Parts, EventTypesKept
<1>4. RowTypes' /\ ConfirmedFirst' /\ Grow
  BY <1>1, <1>3, Parts, RowsSame
<1>5. BusTypes' /\ BusInv' /\ OwedInv'
  BY <1>1, <1>3, <1>4, Parts, NoGroupStep
<1>6. LockTypes' /\ LockInv'
  <2>1. LockTypes /\ RowTypes /\ LockInv /\ ConfirmedFirst /\ "migration" \notin Group
    BY Parts, Groups
  <2>2. \A b \in Found(e) : b \in Booking /\ Awaits(b, e)
    BY <1>1, <1>2, <2>1, FoundAwaits
  <2>3. migration # "waiting" /\ \A f \in Old : Replaying(f) => f = e
    <3>1. migration = "running"
      BY <1>1 DEF Replaying
    <3>. QED  BY <1>1, <3>1, OneAtATime
  <2>4. \A h \in Group \ {"migration"} :
          at'[h] = at[h] /\ (at[h] = "found" => Current(h)' = Current(h))
    BY <1>1 DEF Current
  <2>. QED  BY <1>1, <1>2, <2>1, <2>2, <2>3, <2>4, LockTaken
<1>. QED  BY <1>3, <1>4, <1>5, <1>6, Together

LEMMA ReplayWriteStep ==
  ASSUME IInv, NEW e \in Old, ReplayWrite(e)
  PROVE  Step
<1>1. /\ Replaying(e) /\ UpdateReadModel("migration", e) /\ UNCHANGED events
      /\ UNCHANGED <<queue, lost, at, todo, faults>>
      /\ migration' = migration /\ batch' = batch \ {e}
  BY DEF ReplayWrite, bus
<1>2. e \in Event
  BY OldIs
<1>3. EventTypes' /\ occurred' = occurred
  BY <1>1, Parts DEF EventTypes, events
<1>4. /\ RowTypes' /\ ConfirmedFirst' /\ Grow /\ open' \subseteq open
      /\ \A tx \in open' :
           tx.by # "migration" /\ tx.row \in DOMAIN rows' /\ rows'[tx.row] = rows[tx.row]
  <2>1. RowTypes /\ LockTypes /\ LockInv /\ ConfirmedFirst
    BY Parts
  <2>2. \A tx \in open : tx.by = "migration" => Awaits(tx.row, e)
    BY <1>1, <2>1 DEF LockInv, Holds
  <2>. QED  BY <1>1, <1>2, <1>3, <2>1, <2>2, RowWritten
<1>5. BusTypes' /\ BusInv' /\ OwedInv'
  BY <1>1, <1>3, <1>4, Parts, NoGroupStep
<1>6. LockTypes' /\ LockInv'
  <2>1. LockTypes /\ LockInv
    BY Parts
  <2>2. \A h \in Group \ {"migration"} :
          at'[h] = at[h] /\ (at[h] = "found" => Current(h)' = Current(h))
    BY <1>1 DEF Current
  <2>. QED  BY <1>4, <2>1, <2>2, LocksKept
<1>. QED  BY <1>3, <1>4, <1>5, <1>6, Together

(* Steps that leave the rows and the groups alone. *)
LEMMA OtherStep ==
  ASSUME IInv, rows' = rows, open' = open, UNCHANGED <<queue, lost, at, todo, faults>>,
         EventTypes', occurred' = occurred,
         UNCHANGED migrator \/ migration = "waiting" \/ (batch' = {} /\ migration' # "waiting")
  PROVE  Step
<1>1. RowTypes' /\ ConfirmedFirst' /\ Grow
  BY Parts, RowsSame
<1>2. BusTypes' /\ BusInv' /\ OwedInv'
  BY <1>1, Parts, NoGroupStep
<1>3. LockTypes' /\ LockInv'
  <2>1. LockTypes /\ LockInv
    BY Parts
  <2>2. \A g \in Group : at'[g] = at[g] /\ (at[g] = "found" => Current(g)' = Current(g))
    BY DEF Current
  <2>. QED  BY <2>1, <2>2, NobodysStep
<1>. QED  BY <1>1, <1>2, <1>3, Together

LEMMA OccursKeeps ==
  ASSUME IInv, NEW e \in LiveEvents, Occurs(e)
  PROVE  Step
<1>1. /\ occurred' = occurred \cup {e} /\ rows' = rows /\ open' = open /\ at' = at
      /\ UNCHANGED <<stored, liveStored>> /\ UNCHANGED migrator
  BY DEF Occurs
<1>2. EventTypes'
  BY <1>1, Parts DEF EventTypes, migrator
<1>3. RowTypes' /\ ConfirmedFirst' /\ Grow
  BY <1>1, Parts, RowsSame
<1>4. /\ BusTypes' /\ BusInv' /\ OwedInv'
      /\ \A g \in Group : queue[g] # <<>> => Current(g)' = Current(g)
  BY Parts, OccursStep
<1>5. LockTypes' /\ LockInv'
  <2>1. LockTypes /\ LockInv /\ BusInv
    BY Parts
  <2>2. \A g \in Group : at'[g] = at[g] /\ (at[g] = "found" => Current(g)' = Current(g))
    BY <1>1, <1>4, <2>1 DEF BusInv
  <2>. QED  BY <1>1, <2>1, <2>2, NobodysStep
<1>. QED  BY <1>2, <1>3, <1>4, <1>5, Together

LEMMA NextStep ==
  ASSUME IInv, [Next]_vars
  PROVE  Step
<1>1. CASE Handlers
  <2>1. \/ OnBookingMade
        \/ \E g \in Group : g # "OnBookingMade" /\ (ReadPayload(g) \/ WritePayload(g))
    BY <1>1, Groups DEF Handlers, OnTicketBookingConfirmed_v1, OnTicketReceiptIssued_v1,
       OnTicketPrinted_v1, OnTicketRefunded_v1,
       UpdateReadModelByBookingID, UpdateReadModelByTicketID
  <2>. QED  BY <2>1, BookingStep, ReadStep, PayloadStep
<1>2. ASSUME NEW g \in Group, Finish(g) \/ ClaimPending(g) \/ FailHandler(g) PROVE Step
  BY <1>2, GroupEnds
<1>3. CASE ServiceStops
  <2>1. faults' \in 0 .. MaxFaults /\ Restart
    BY <1>3, Parts, BoundAssumption DEF ServiceStops, BusTypes
  <2>. QED  BY <2>1, Restarts
<1>4. CASE WaitForEvents
  <2>1. /\ rows' = rows /\ open' = open /\ UNCHANGED <<queue, lost, at, todo, faults>>
        /\ migration = "waiting" /\ migration' = "running" /\ batch' = stored
        /\ UNCHANGED events
    BY <1>4 DEF WaitForEvents, bus
  <2>2. EventTypes' /\ occurred' = occurred
    BY <2>1, Parts DEF EventTypes, events
  <2>. QED  BY <2>1, <2>2, OtherStep
<1>5. CASE MigrationDone
  <2>1. /\ rows' = rows /\ open' = open /\ UNCHANGED <<queue, lost, at, todo, faults>>
        /\ batch = {} /\ batch' = batch /\ migration' = "done" /\ UNCHANGED events
    BY <1>5 DEF MigrationDone, bus
  <2>2. EventTypes' /\ occurred' = occurred
    BY <2>1, Parts DEF EventTypes, events
  <2>. QED  BY <2>1, <2>2, OtherStep
<1>6. ASSUME NEW e \in Old, Replay(e) PROVE Step
  <2>1. CASE ReplayBookingMade(e)
    BY <2>1, ReplayBookingStep
  <2>2. CASE ReplayRead(e)
    BY <2>2, ReplayReadStep
  <2>3. CASE ReplayWrite(e)
    BY <2>3, ReplayWriteStep
  <2>4. CASE ReplayFails(e)
    <3>1. faults' \in 0 .. MaxFaults /\ Restart
      BY <2>4, Parts DEF ReplayFails, BusTypes
    <3>. QED  BY <3>1, Restarts
  <2>. QED  BY <1>6, <2>1, <2>2, <2>3, <2>4 DEF Replay
<1>7. ASSUME NEW e \in Old, SaveOldEvent(e) PROVE Step
  <2>1. /\ rows' = rows /\ open' = open /\ UNCHANGED <<queue, lost, at, todo, faults>>
        /\ UNCHANGED migrator /\ stored' = stored \cup {e}
        /\ UNCHANGED <<occurred, liveStored>>
    BY <1>7 DEF SaveOldEvent, bus
  <2>2. EventTypes' /\ occurred' = occurred
    BY <2>1, Parts DEF EventTypes, migrator
  <2>. QED  BY <2>1, <2>2, OtherStep
<1>8. ASSUME NEW e \in LiveEvents, Occurs(e) PROVE Step
  BY <1>8, OccursKeeps
<1>9. CASE SaveLiveEvent
  <2>1. /\ rows' = rows /\ open' = open /\ UNCHANGED <<queue, lost, at, todo, faults>>
        /\ UNCHANGED migrator /\ liveStored' = TRUE /\ UNCHANGED <<occurred, stored>>
    BY <1>9 DEF SaveLiveEvent, bus
  <2>2. EventTypes' /\ occurred' = occurred
    BY <2>1, Parts DEF EventTypes, migrator
  <2>. QED  BY <2>1, <2>2, OtherStep
<1>10. CASE UNCHANGED vars
  <2>1. /\ rows' = rows /\ open' = open /\ UNCHANGED <<queue, lost, at, todo, faults>>
        /\ UNCHANGED migrator /\ UNCHANGED events
    BY <1>10 DEF vars, bus
  <2>2. EventTypes' /\ occurred' = occurred
    BY <2>1, Parts, EventTypesKept
  <2>. QED  BY <2>1, <2>2, OtherStep
<1>. QED
  BY <1>1, <1>2, <1>3, <1>4, <1>5, <1>6, <1>7, <1>8, <1>9, <1>10 DEF Next

THEOREM InvariantHolds == Spec => []IInv
<1>1. IInv /\ [Next]_vars => IInv'
  BY NextStep DEF Step
<1>. QED  BY <1>1, InitIInv, PTL DEF Spec

(* The repository, the handlers and the migration: the variables keep their*)
(* types.                                                                  *)
THEOREM TypeCorrect == Spec => []TypeOK
<1>1. IInv => TypeOK
  BY DEF IInv
<1>. QED  BY <1>1, InvariantHolds, PTL

(* updateReadModel under FOR UPDATE, CreateBooking with ON CONFLICT DO     *)
(* NOTHING, the migration: what a row says is never taken back.            *)
THEOREM RowsKeepFacts == Spec => FactsKept
<1>1. IInv /\ [Next]_vars =>
        [\A b \in DOMAIN rows : b \in DOMAIN rows' /\ rows[b] \subseteq rows'[b]]_vars
  BY NextStep DEF Step, Grow
<1>. QED  BY <1>1, InvariantHolds, PTL DEF Spec, FactsKept

(* findReadModelByBookingID, findReadModelByTicketID: a ticket is shown in *)
(* its own booking and confirmed first, and only with what has happened.   *)
THEOREM ConfirmationsComeFirst == Spec => []ConfirmedFirst
<1>1. IInv => ConfirmedFirst
  BY DEF IInv
<1>. QED  BY <1>1, InvariantHolds, PTL

(* The handlers of the read model: until the rows show an event, its group *)
(* has the message.                                                        *)
THEOREM NoEventDropped == Spec => []RecordedOrOwed
<1>1. IInv => RecordedOrOwed
  <2>. SUFFICES ASSUME IInv, NEW e \in occurred, ~Recorded(e)
               PROVE  \E g \in Group : \E i \in 1 .. Len(queue[g] \o lost[g]) :
                        Topic[g] = e.type /\ (queue[g] \o lost[g])[i] = e
    BY DEF RecordedOrOwed
  <2>1. PICK g \in Group : Topic[g] = e.type /\ Owes(g, e)
    BY DEF IInv, OwedInv
  <2>2. PICK s : s = queue[g] \o lost[g]
    OBVIOUS
  <2>3. s \in Seq(Event) /\ Range(s) = Range(queue[g]) \cup Range(lost[g])
    <3>1. queue[g] \in Seq(Event) /\ lost[g] \in Seq(Event)
      BY Parts DEF BusTypes
    <3>. QED  BY <2>2, <3>1, RangeConcatenation, ConcatProperties
  <2>4. PICK i \in 1 .. Len(s) : s[i] = e
    BY <2>1, <2>3, RangeEquality DEF Owes
  <2>. QED  BY <2>1, <2>2, <2>4
<1>. QED  BY <1>1, InvariantHolds, PTL
-----------------------------------------------------------------------------
(* The view. *)

Seen == <<occurred \cup Old, {e \in Event : Recorded(e)}>>

LEMMA InView ==
  ASSUME NEW e \in Event, e \in occurred \cup Old, occurred' = occurred,
         \A f \in BuildsOn[e] : f \in Event /\ Recorded(f),
         \A f \in Event : Recorded(f)' <=> Recorded(f) \/ f = e
  PROVE  [View!ViewNext]_Seen
<1> DEFINE shown == {f \in Event : Recorded(f)}
<1>1. shown' = shown \cup {e} /\ BuildsOn[e] \subseteq shown
  OBVIOUS
<1>2. CASE Recorded(e)
  BY <1>1, <1>2 DEF Seen
<1>3. CASE ~Recorded(e)
  BY <1>1, <1>3 DEF View!ViewNext, View!Show
<1>. QED  BY <1>2, <1>3

(* A step that leaves the rows alone. *)
LEMMA SameView ==
  ASSUME rows' = rows, occurred' = occurred
  PROVE  UNCHANGED Seen
BY DEF Seen, Recorded, RowOf

LEMMA BookingInView ==
  ASSUME NEW e \in Event, e \in occurred \cup Old, occurred' = occurred,
         e.type = "BookingMade", CreateBooking(e.of)
  PROVE  [View!ViewNext]_Seen
<1>1. /\ DOMAIN rows' = DOMAIN rows \cup {e.of}
      /\ \A r \in DOMAIN rows : rows'[r] = rows[r]
      /\ \A r \in DOMAIN rows' : r \notin DOMAIN rows => rows'[r] = {}
  BY DEF CreateBooking
<1>2. BuildsOn[e] = {}
  BY DEF BuildsOn
<1>3. ASSUME NEW f \in Event PROVE Recorded(f)' <=> Recorded(f) \/ f = e
  <2>1. CASE f.type = "BookingMade"
    <3>1. f.of = e.of <=> f = e
      BY <2>1, EventIs
    <3>. QED  BY <1>1, <2>1, <3>1 DEF Recorded
  <2>2. CASE f.type # "BookingMade"
    <3>1. f # e
      BY <2>2
    <3>. QED  BY <1>1, <2>2, <3>1 DEF Recorded, RowOf
  <2>. QED  BY <2>1, <2>2
<1>. QED  BY <1>2, <1>3, InView

LEMMA FactInView ==
  ASSUME RowTypes, NEW e \in Event, e \in occurred \cup Old, occurred' = occurred,
         NEW b \in DOMAIN rows, Awaits(b, e),
         rows' = [rows EXCEPT ![b] = rows[b] \cup {<<e.of, e.type>>}]
  PROVE  [View!ViewNext]_Seen
<1>1. /\ DOMAIN rows' = DOMAIN rows
      /\ \A r \in DOMAIN rows :
           rows'[r] = IF r = b THEN rows[b] \cup {<<e.of, e.type>>} ELSE rows[r]
  BY DEF RowTypes
<1>2. e.type # "BookingMade" /\ b = BookingOf[e.of] /\ b \in Booking /\ e.of \in Ticket
  BY EventIs DEF Awaits, RowTypes
<1>3. ASSUME NEW f \in BuildsOn[e] PROVE f \in Event /\ Recorded(f)
  <2>1. CASE e.type = "TicketBookingConfirmed"
    <3>1. f = [type |-> "BookingMade", of |-> b]
      BY <1>2, <2>1 DEF BuildsOn, MadeBefore, RowOf
    <3>. QED  BY <1>2, <3>1 DEF Event, Recorded
  <2>2. CASE e.type # "TicketBookingConfirmed"
    <3>1. f = [type |-> "TicketBookingConfirmed", of |-> e.of]
      BY <1>2, <2>2 DEF BuildsOn, ConfirmedBefore
    <3>2. "TicketBookingConfirmed" \in {Handles[g] : g \in Group} \ {"BookingMade"}
      BY DEF Group, Handles
    <3>3. f \in Event
      BY <1>2, <3>1, <3>2 DEF Event
    <3>. QED  BY <1>2, <2>2, <3>1, <3>3 DEF Recorded, RowOf, Awaits
  <2>. QED  BY <2>1, <2>2
<1>4. ASSUME NEW f \in Event PROVE Recorded(f)' <=> Recorded(f) \/ f = e
  <2>1. CASE f.type = "BookingMade"
    BY <1>1, <1>2, <2>1 DEF Recorded
  <2>2. CASE f.type # "BookingMade"
    <3>1. <<f.of, f.type>> = <<e.of, e.type>> <=> f = e
      BY EventIs
    <3>2. f = e => RowOf(f) = b
      BY <1>2 DEF RowOf
    <3>. QED  BY <1>1, <2>2, <3>1, <3>2 DEF Recorded, RowOf
  <2>. QED  BY <2>1, <2>2
<1>. QED  BY <1>3, <1>4, InView

(* What a transaction writes is what it was opened for. *)
LEMMA WrittenInView ==
  ASSUME IInv, NEW w, NEW e \in Event, e \in occurred \cup Old, occurred' = occurred,
         \A tx \in open : tx.by = w => Awaits(tx.row, e),
         UpdateReadModel(w, e)
  PROVE  [View!ViewNext]_Seen
<1>1. PICK tx \in open :
        /\ tx.by = w
        /\ rows' = [rows EXCEPT ![tx.row] = tx.payload \cup {<<e.of, e.type>>}]
  BY DEF UpdateReadModel
<1>2. tx.row \in DOMAIN rows /\ tx.payload = rows[tx.row] /\ Awaits(tx.row, e)
  BY <1>1, Parts DEF LockInv, Holds
<1>. QED  BY <1>1, <1>2, Parts, FactInView

LEMMA GroupView ==
  ASSUME IInv, NEW g \in Group, WritePayload(g)
  PROVE  [View!ViewNext]_Seen
<1>1. /\ at[g] = "found" /\ UpdateReadModel(g, Current(g)) /\ occurred' = occurred
  BY DEF WritePayload, events
<1>2. PICK e \in Told(g) : e = Current(g)
  BY <1>1, Parts, InHand DEF BusInv
<1>3. e \in Event /\ e \in occurred \cup Old
  BY Parts, ToldIs DEF EventTypes
<1>4. \A tx \in open : tx.by = g => Awaits(tx.row, e)
  BY <1>2, Parts DEF LockInv, Holds
<1>. QED  BY <1>1, <1>2, <1>3, <1>4, WrittenInView

LEMMA BookingView ==
  ASSUME IInv, OnBookingMade
  PROVE  [View!ViewNext]_Seen
<1>1. PICK g \in Group : g = "OnBookingMade" /\ Topic[g] = "BookingMade"
  BY Groups
<1>2. /\ queue[g] # <<>> /\ CreateBooking(Current(g).of) /\ occurred' = occurred
  BY <1>1 DEF OnBookingMade, events, Start, Ready
<1>3. PICK e \in Told(g) : e = Current(g)
  BY <1>2, Parts, InHand
<1>4. e \in Event /\ e \in occurred \cup Old /\ e.type = "BookingMade"
  BY <1>1, Parts, ToldIs DEF EventTypes, Told
<1>. QED  BY <1>2, <1>3, <1>4, BookingInView

LEMMA ReplayView ==
  ASSUME IInv, NEW e \in Old, Replay(e)
  PROVE  [View!ViewNext]_Seen
<1>1. e \in Event /\ e \in occurred \cup Old
  BY OldIs
<1>2. CASE ReplayBookingMade(e)
  BY <1>1, <1>2, BookingInView DEF ReplayBookingMade, events
<1>3. CASE ReplayRead(e) \/ ReplayFails(e)
  BY <1>3, SameView DEF ReplayRead, ReplayFails, Restart, events
<1>4. CASE ReplayWrite(e)
  <2>1. Replaying(e) /\ UpdateReadModel("migration", e) /\ occurred' = occurred
    BY <1>4 DEF ReplayWrite, events
  <2>2. \A tx \in open : tx.by = "migration" => Awaits(tx.row, e)
    BY <2>1, Parts DEF LockInv, Holds
  <2>. QED  BY <1>1, <2>1, <2>2, WrittenInView
<1>. QED  BY <1>2, <1>3, <1>4 DEF Replay

(* The read model, its groups and the migration keep the promise of        *)
(* OpsView: one event at a time comes into view, once, after those it      *)
(* builds on, only if it has happened, and for good.                       *)
THEOREM ReadModelImplementsView == Spec => ImplementsView
<1>1. Init => View!ViewInit
  BY DEF Init, View!ViewInit, Recorded
<1>2. IInv /\ [Next]_vars => [View!ViewNext]_Seen
  <2>. SUFFICES ASSUME IInv, [Next]_vars PROVE [View!ViewNext]_Seen
    OBVIOUS
  <2>1. CASE Handlers
    <3>1. \/ OnBookingMade
          \/ \E g \in Group : ReadPayload(g) \/ WritePayload(g)
      BY <2>1, Groups DEF Handlers, OnTicketBookingConfirmed_v1, OnTicketReceiptIssued_v1,
         OnTicketPrinted_v1, OnTicketRefunded_v1,
         UpdateReadModelByBookingID, UpdateReadModelByTicketID
    <3>2. ASSUME NEW g \in Group, ReadPayload(g) PROVE UNCHANGED Seen
      BY <3>2, SameView DEF ReadPayload, events
    <3>. QED  BY <3>1, <3>2, BookingView, GroupView
  <2>2. ASSUME NEW g \in Group, Finish(g) \/ ClaimPending(g) \/ FailHandler(g)
        PROVE  UNCHANGED Seen
    BY <2>2, SameView DEF Finish, ClaimPending, FailHandler, events
  <2>3. CASE ServiceStops \/ WaitForEvents \/ MigrationDone \/ SaveLiveEvent
    BY <2>3, SameView DEF ServiceStops, Restart, WaitForEvents, MigrationDone,
       SaveLiveEvent, events
  <2>4. ASSUME NEW e \in Old, SaveOldEvent(e) PROVE UNCHANGED Seen
    BY <2>4, SameView DEF SaveOldEvent
  <2>5. ASSUME NEW e \in LiveEvents, Occurs(e) PROVE View!ViewNext
    <3>1. e \in Event /\ occurred' = occurred \cup {e} /\ rows' = rows
      BY <2>5, LiveAssumption DEF Occurs
    <3>2. (occurred \cup Old)' = (occurred \cup Old) \cup {e}
      BY <3>1
    <3>3. UNCHANGED {f \in Event : Recorded(f)}
      BY <3>1 DEF Recorded, RowOf
    <3>. QED  BY <3>1, <3>2, <3>3 DEF View!ViewNext, View!Happen
  <2>6. CASE UNCHANGED vars
    BY <2>6, SameView DEF vars, events
  <2>. QED  BY <2>1, <2>2, <2>3, <2>4, <2>5, <2>6, ReplayView DEF Next
<1>. QED  BY <1>1, <1>2, InvariantHolds, PTL
          DEF Spec, ImplementsView, View!ViewSpec, Seen
=============================================================================
