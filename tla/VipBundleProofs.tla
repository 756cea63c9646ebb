--------------------------- MODULE VipBundleProofs ---------------------------
(***************************************************************************)
(* Proofs about VipBundle, for any bundles, booking sizes and number of    *)
(* failures.                                                               *)
(*                                                                         *)
(* First, whatever fails: a verdict is backed by what was booked or        *)
(* refused, the legs are asked for in order, and only failures are         *)
(* compensated (IInv). The invariant follows the messages, as in           *)
(* TicketsProofs: whoever sends one has seen to what it says (Good), and   *)
(* as nothing it says is ever taken back (Grows) it holds whenever the     *)
(* message is handled, however late and however often. KeysInv is needed   *)
(* for the answers of the transportation API: an idempotency key stands    *)
(* for one order.                                                          *)
(*                                                                         *)
(* Then, as long as no failure strikes the handlers that do not do the     *)
(* same when they run again (OnceOnly): one verdict, no ticket paid back   *)
(* twice, and nothing of a failed bundle kept (TInv). All but the          *)
(* confirmations of a bundle is one chain: each handler of it sends one    *)
(* message, so that a bundle has one at a time (Shape). From the message   *)
(* it has one reads how far the bundle is, and when it has none any more   *)
(* all is recorded, released and repaid, or will be by the commands that   *)
(* are under way (View).                                                   *)
(***************************************************************************)
EXTENDS VipBundle, SequenceTheorems, FiniteSetTheorems, TLAPS

Bought(b, leg, key) ==
  \E a \in transport : a.ref = b /\ a.leg = leg /\ a.key = key /\ a.status = "booked"

Refused(b) == \E a \in transport : a.ref = b /\ a.status = "refused"

(* What has to be recorded before a leg is asked for. *)
Ahead(b, leg) ==
  /\ bundles[b].bookingMade
  /\ leg \in {"return", "taxi"} => bundles[b].inbound # 0
  /\ leg = "taxi" => bundles[b].return # 0

Ordering == {"BookFlight", "BookTaxi"}

(* What a message says is so. *)
Good(m) ==
  /\ m \in Message
  /\ m.type \notin {"BookingMade", "TicketBookingConfirmed"} => m.ref \in Bundle
  /\ m.type = "BookingMade" => outcome[m.ref] = "made"
  /\ m.type = "BookingFailed" => outcome[m.ref] = "refused"
  /\ m.type \in {"TicketBookingConfirmed", "RefundTicket"} =>
       <<m.ref, m.ticket>> \in confirmed
  /\ m.type \in {"BookFlight", "FlightBooked"} => m.leg \in {"inbound", "return"}
  /\ m.type \in {"BookTaxi", "TaxiBooked"} => m.leg = "taxi"
  /\ m.type \in Ordering \cup {"FlightBooked", "TaxiBooked"} =>
       m.key # 0 /\ Ahead(m.ref, m.leg)
  /\ m.type \in {"FlightBooked", "TaxiBooked"} => Bought(m.ref, m.leg, m.key)
  /\ m.type \in {"FlightBookingFailed", "TaxiBookingFailed",
                 "CancelFlightTickets", "RefundTicket"} => Refused(m.ref)
  /\ m.type = "CancelFlightTickets" => \E leg \in Legs : Bought(m.ref, leg, m.key)
  /\ m.type = "VipBundleFinalized" =>
       /\ bundles[m.ref].finalized
       /\ Ahead(m.ref, "taxi") /\ bundles[m.ref].taxi # 0
  /\ m.type = "VipBundleFinalizedFailed" =>
       /\ bundles[m.ref].finalized /\ bundles[m.ref].failed
       /\ outcome[m.ref] = "refused" \/ Refused(m.ref)

Held(h) == Range(queue[h]) \cup Range(lost[h])

HonestBus ==
  /\ \A h \in Handlers : \A m \in Held(h) : m.type = h /\ Good(m)
  /\ \A h \in Handlers : \A m \in Range(todo[h]) : Good(m)
  /\ \A m \in announced : Good(m)

(* The types of the bus; who is in the middle of a message has one. *)
BusOK ==
  /\ queue \in [Handlers -> Seq(Message)]
  /\ lost \in [Handlers -> Seq(Message)]
  /\ at \in [Handlers -> {"idle", "sending", "compensating", "voided"}]
  /\ todo \in [Handlers -> Seq(Message)]
  /\ faults \in Nat
  /\ \A h \in Handlers :
       /\ at[h] # "idle" => queue[h] # <<>>
       /\ todo[h] # <<>> => at[h] \in {"sending", "compensating"}

(* The orders under way. *)
Orders ==
  {m \in Message : /\ m.type \in Ordering
                   /\ \E h \in Handlers : m \in Held(h) \cup Range(todo[h])}

(* A key is drawn for one order of one leg. *)
KeysInv ==
  \A x, y \in Orders \cup transport :
    /\ x.key <= lastKey
    /\ x.key = y.key => x.ref = y.ref /\ x.leg = y.leg

(* A refund is paid for a ticket whose receipt is void. *)
VoidInv ==
  at["RefundTicket"] = "voided" =>
    <<Current("RefundTicket").ref, Current("RefundTicket").ticket>> \in voided

Rows == [created : BOOLEAN, wrong : SUBSET Misnamed, bookingMade : BOOLEAN, tickets : Seq(Nat),
         inbound : Nat, return : Nat, taxi : Nat,
         finalized : BOOLEAN, failed : BOOLEAN]

(* A bundle records what was booked and confirmed, and nothing else. *)
Backed(b, row) ==
  /\ row.bookingMade => outcome[b] = "made"
  /\ row.inbound # 0 => Bought(b, "inbound", row.inbound)
  /\ row.return # 0 => Bought(b, "return", row.return)
  /\ row.taxi # 0 => Bought(b, "taxi", row.taxi)
  /\ \A i \in 1 .. Len(row.tickets) : <<b, row.tickets[i]>> \in confirmed

BundlesOK ==
  /\ bundles \in [Bundle -> Rows]
  /\ \A b \in Bundle : Backed(b, bundles[b])

WorldOK ==
  /\ outcome \in [Booking -> Sales!Verdicts \cup {"open"}]
  /\ confirmed \subseteq Booking \X Nat
  /\ transport \subseteq [key : Nat, ref : Bundle, leg : Legs,
                          status : {"booked", "refused"}]
  /\ cancelled \subseteq Nat
  /\ voided \subseteq Booking \X Nat
  /\ refunds \subseteq [ref : Bundle, ticket : Nat, key : Nat]
  /\ lastKey \in Nat

(* Whoever is compensated had a leg refused. *)
DoneOK ==
  /\ \A r \in refunds : Refused(r.ref) /\ <<r.ref, r.ticket>> \in confirmed \cap voided
  /\ \A key \in cancelled :
       \E b \in Bundle : Refused(b) /\ \E leg \in Legs : Bought(b, leg, key)

BusInv == BusOK /\ HonestBus /\ KeysInv /\ VoidInv

TradeInv == BundlesOK /\ WorldOK /\ DoneOK /\ LegsInOrder

IInv == BusInv /\ TradeInv
-----------------------------------------------------------------------------
(* What the operations on a queue do to the set of its messages. *)

LEMMA RangeSingle ==
  ASSUME NEW S, NEW x \in S
  PROVE  <<x>> \in Seq(S) /\ Range(<<x>>) = {x}
BY DEF Range

LEMMA RangeShift ==
  ASSUME NEW S, NEW s \in Seq(S), NEW t \in Seq(S),
         Len(t) = Len(s) + 1, \A i \in 1 .. Len(s) : t[i + 1] = s[i]
  PROVE  Range(t) = Range(s) \cup {t[1]}
<1>1. \A i \in 1 .. Len(t) : i = 1 \/ (i - 1 \in 1 .. Len(s) /\ t[i] = s[i - 1])
  OBVIOUS
<1>2. 1 \in 1 .. Len(t) /\ \A i \in 1 .. Len(s) : i + 1 \in 1 .. Len(t)
  OBVIOUS
<1>3. Range(s) = {s[i] : i \in 1 .. Len(s)} /\ Range(t) = {t[i] : i \in 1 .. Len(t)}
  BY RangeEquality
<1>. QED  BY <1>1, <1>2, <1>3

LEMMA RangePush ==
  ASSUME NEW S, NEW s \in Seq(S), NEW x \in S
  PROVE  <<x>> \o s \in Seq(S) /\ Range(<<x>> \o s) = Range(s) \cup {x}
<1> DEFINE t == <<x>> \o s
<1>1. /\ t \in Seq(S) /\ Len(t) = Len(s) + 1 /\ t[1] = x
      /\ \A i \in 1 .. Len(s) : t[i + 1] = s[i]
  OBVIOUS
<1>. HIDE DEF t
<1>2. Range(t) = Range(s) \cup {t[1]}
  BY <1>1, RangeShift
<1>. QED  BY <1>1, <1>2 DEF t

LEMMA RangeAppend ==
  ASSUME NEW S, NEW s \in Seq(S), NEW x \in S
  PROVE  Append(s, x) \in Seq(S) /\ Range(Append(s, x)) = Range(s) \cup {x}
<1>1. <<x>> \in Seq(S) /\ Range(<<x>>) = {x}
  BY RangeSingle
<1>2. Append(s, x) = s \o <<x>>
  BY AppendIsConcat
<1>3. Range(s \o <<x>>) = Range(s) \cup Range(<<x>>)
  BY <1>1, RangeConcatenation
<1>. QED  BY <1>1, <1>2, <1>3

LEMMA RangeTail ==
  ASSUME NEW S, NEW s \in Seq(S), s # <<>>
  PROVE  /\ Tail(s) \in Seq(S) /\ Head(s) \in S
         /\ Range(s) = Range(Tail(s)) \cup {Head(s)}
<1>1. Tail(s) \in Seq(S) /\ Head(s) \in S
  BY HeadTailProperties
<1>2. Range(s) = Range(Tail(s)) \cup {s[1]}
  <2>1. Len(s) = Len(Tail(s)) + 1 /\ \A i \in 1 .. Len(Tail(s)) : s[i + 1] = Tail(s)[i]
    BY HeadTailProperties
  <2>. QED  BY <1>1, <2>1, RangeShift
<1>. QED  BY <1>1, <1>2

LEMMA RangeWithout ==
  ASSUME NEW S, NEW s \in Seq(S), NEW i \in 1 .. Len(s)
  PROVE  LET t == SubSeq(s, 1, i - 1) \o SubSeq(s, i + 1, Len(s))
         IN  t \in Seq(S) /\ s[i] \in S /\ Range(s) = Range(t) \cup {s[i]}
<1> DEFINE a == SubSeq(s, 1, i - 1)
           b == SubSeq(s, i + 1, Len(s))
           c == SubSeq(s, i, Len(s))
<1>1. /\ a \in Seq(S) /\ b \in Seq(S) /\ c \in Seq(S)
      /\ s[i] \in S /\ i \in Nat \ {0} /\ Len(s) \in Nat /\ i <= Len(s)
  OBVIOUS
<1>2. s = a \o c
  <2>1. a \o c = SubSeq(s, 1, Len(s))
    <3>1. 1 \in 1 .. Len(s) + 1 /\ i - 1 \in 1 - 1 .. Len(s) /\ Len(s) \in i - 1 .. Len(s)
      BY <1>1
    <3>2. (i - 1) + 1 = i
      BY <1>1
    <3>3. SubSeq(s, 1, i - 1) \o SubSeq(s, (i - 1) + 1, Len(s)) = SubSeq(s, 1, Len(s))
      BY <3>1, ConcatAdjacentSubSeq
    <3>. QED  BY <3>2, <3>3
  <2>. QED  BY <2>1, SubSeqFull
<1>3. c = <<s[i]>> \o b
  <2>1. Len(s) \in i .. Len(s)
    BY <1>1
  <2>. QED  BY <2>1, SubSeqRecursiveFirst
<1>4. Range(c) = Range(b) \cup {s[i]}
  <2>1. Range(<<s[i]>> \o b) = Range(b) \cup {s[i]}
    BY <1>1, RangePush
  <2>. QED  BY <1>3, <2>1
<1>5. Range(s) = Range(a) \cup Range(c)
  <2>1. Range(a \o c) = Range(a) \cup Range(c)
    <3>. HIDE DEF a, c
    <3>. QED  BY <1>1, RangeConcatenation
  <2>. QED  BY <1>2, <2>1
<1>6. a \o b \in Seq(S) /\ Range(a \o b) = Range(a) \cup Range(b)
  <2>. HIDE DEF a, b
  <2>. QED  BY <1>1, ConcatProperties, RangeConcatenation
<1>. QED
  BY <1>1, <1>4, <1>5, <1>6
-----------------------------------------------------------------------------
LEMMA RangeRemoveAt ==
  ASSUME NEW S, NEW s \in Seq(S), NEW i \in 1 .. Len(s)
  PROVE  /\ RemoveAt(s, i) \in Seq(S) /\ s[i] \in S
         /\ Range(s) = Range(RemoveAt(s, i)) \cup {s[i]}
BY RangeWithout DEF RemoveAt

LEMMA RangeEmpty ==
  <<>> \in Seq(Message) /\ Range(<<>>) = {}
BY DEF Range

LEMMA CurrentMessage ==
  ASSUME BusOK, HonestBus, NEW h \in Handlers, queue[h] # <<>>
  PROVE  Current(h) \in Message /\ Current(h).type = h /\ Good(Current(h))
<1>1. queue[h] \in Seq(Message)
  BY DEF BusOK
<1>2. Current(h) \in Message /\ Current(h) \in Range(queue[h])
  BY <1>1, RangeTail DEF Current
<1>. QED  BY <1>2 DEF HonestBus, Held

(* No queue and no handler has a message but those there were, and ns; the *)
(* handler of g may have reached s, the others stay where they are or stop.*)
Adds(ns) ==
  \A h \in Handlers :
    /\ \A m \in Held(h)' : m \in Held(h) \/ (m \in ns /\ m.type = h)
    /\ \A m \in Range(todo[h])' : m \in Range(todo[h]) \/ m \in ns

Moves(g, s) ==
  \A h \in Handlers :
    at'[h] # "idle" =>
      Current(h)' = Current(h) /\ (at'[h] = at[h] \/ (h = g /\ at'[h] = s))

(* The queues q hold what they did and perhaps ps, behind it. *)
Longer(q, ps) ==
  /\ q \in [Handlers -> Seq(Message)]
  /\ \A h \in Handlers :
       /\ \A m \in Range(q[h]) : m \in Range(queue[h]) \/ (m \in ps /\ m.type = h)
       /\ queue[h] # <<>> => q[h] # <<>> /\ Head(q[h]) = Head(queue[h])

LEMMA QueueLonger ==
  ASSUME BusOK
  PROVE  Longer(queue, {})
BY DEF BusOK, Longer

LEMMA PostLonger ==
  ASSUME BusOK, NEW m \in Message
  PROVE  Longer(Post(queue, m), {m})
<1> DEFINE q == Post(queue, m)
<1>1. \A h \in Handlers :
        q[h] = IF h = m.type THEN Append(queue[h], m) ELSE queue[h]
  BY DEF Post
<1>2. q \in [Handlers -> Seq(Message)]
  BY <1>1 DEF Post, BusOK
<1>. HIDE DEF q
<1>3. ASSUME NEW h \in Handlers
      PROVE  \A n \in Range(q[h]) : n \in Range(queue[h]) \/ (n = m /\ m.type = h)
  <2>1. Range(Append(queue[h], m)) = Range(queue[h]) \cup {m}
    BY RangeAppend DEF BusOK
  <2>. QED  BY <1>1, <2>1
<1>4. ASSUME NEW h \in Handlers, queue[h] # <<>>
      PROVE  q[h] # <<>> /\ Head(q[h]) = Head(queue[h])
  <2>1. queue[h] \in Seq(Message)
    BY DEF BusOK
  <2>2. Append(queue[h], m) # <<>> /\ Head(Append(queue[h], m)) = Head(queue[h])
    BY <1>4, <2>1
  <2>. QED  BY <1>1, <1>4, <2>2
<1>5. Longer(q, {m})
  BY <1>2, <1>3, <1>4 DEF Longer
<1>. QED  BY <1>5 DEF q

Steps == {"sending", "compensating", "voided"}

(* A handler reaches a step, and its message may be acknowledged. *)
LEMMA ReachAdds ==
  ASSUME BusOK, NEW g \in Handlers, queue[g] # <<>>,
         NEW q, NEW ps, Longer(q, ps),
         NEW ms \in Seq(Message), NEW s \in Steps, s = "voided" => ms = <<>>,
         Reach(g, s, ms, q)
  PROVE  BusOK' /\ Adds(ps \cup Range(ms)) /\ Moves(g, s)
<1>1. /\ q \in [Handlers -> Seq(Message)] /\ q[g] # <<>>
      /\ \A h \in Handlers :
           /\ \A m \in Range(q[h]) : m \in Range(queue[h]) \/ (m \in ps /\ m.type = h)
           /\ queue[h] # <<>> => q[h] # <<>> /\ Head(q[h]) = Head(queue[h])
  BY DEF Longer
<1>2. Tail(q[g]) \in Seq(Message) /\ Range(Tail(q[g])) \subseteq Range(q[g])
  BY <1>1, RangeTail
<1>3. /\ lost' = lost /\ faults' = faults
      /\ todo' = [todo EXCEPT ![g] = ms]
      /\ \/ queue' = [q EXCEPT ![g] = Tail(@)] /\ at' = [at EXCEPT ![g] = "idle"]
            /\ s = "sending" /\ ms = <<>>
         \/ queue' = q /\ at' = [at EXCEPT ![g] = s]
  BY DEF Reach
<1>4. BusOK'
  <2>1. /\ queue' \in [Handlers -> Seq(Message)] /\ lost' \in [Handlers -> Seq(Message)]
        /\ at' \in [Handlers -> {"idle", "sending", "compensating", "voided"}]
        /\ todo' \in [Handlers -> Seq(Message)] /\ faults' \in Nat
    BY <1>1, <1>2, <1>3 DEF BusOK, Steps
  <2>2. ASSUME NEW h \in Handlers
        PROVE  /\ at'[h] # "idle" => queue'[h] # <<>>
               /\ todo'[h] # <<>> => at'[h] \in {"sending", "compensating"}
    <3>1. CASE h = g
      BY <1>1, <1>3, <3>1 DEF BusOK, Steps
    <3>2. CASE h # g
      BY <1>1, <1>3, <3>2 DEF BusOK
    <3>. QED  BY <3>1, <3>2
  <2>. QED  BY <2>1, <2>2 DEF BusOK
<1>5. \A h \in Handlers : Range(queue'[h]) \subseteq Range(q[h])
  BY <1>1, <1>2, <1>3
<1>6. \A h \in Handlers : todo'[h] = IF h = g THEN ms ELSE todo[h]
  BY <1>3 DEF BusOK
<1>7. Adds(ps \cup Range(ms))
  BY <1>1, <1>3, <1>5, <1>6 DEF Adds, Held
<1>8. Moves(g, s)
  BY <1>1, <1>3 DEF Moves, Current, BusOK
<1>. QED  BY <1>4, <1>7, <1>8

(* A handler sends the next of its messages. *)
LEMMA SendNextAdds ==
  ASSUME BusOK, NEW g \in Handlers, SendNext(g)
  PROVE  /\ Head(todo[g]) \in Message /\ Head(todo[g]) \in Range(todo[g])
         /\ BusOK' /\ Adds(Range(todo[g])) /\ Moves(g, at[g])
<1> DEFINE l == todo[g]
           m == Head(l)
<1>1. l \in Seq(Message) /\ l # <<>> /\ at[g] \in Steps \ {"voided"} /\ queue[g] # <<>>
  BY DEF BusOK, SendNext, Steps
<1>2. Reach(g, at[g], Tail(l), Post(queue, m))
  BY DEF SendNext
<1>. HIDE DEF l
<1>3. m \in Message /\ Tail(l) \in Seq(Message) /\ Range(l) = Range(Tail(l)) \cup {m}
  BY <1>1, RangeTail
<1>. HIDE DEF m
<1>4. Longer(Post(queue, m), {m})
  BY <1>3, PostLonger
<1>5. BusOK' /\ Adds({m} \cup Range(Tail(l))) /\ Moves(g, at[g])
  BY <1>1, <1>2, <1>3, <1>4, ReachAdds
<1>6. {m} \cup Range(Tail(l)) = Range(l)
  BY <1>3
<1>. QED  BY <1>3, <1>5, <1>6 DEF l, m

(* The end of a handler's run, a failure, and a message that is claimed.   *)
LEMMA BusAddsNothing ==
  ASSUME BusOK, NEW g \in Handlers, Ack(g) \/ Retry(g) \/ Crash(g) \/ Claim(g)
  PROVE  BusOK' /\ Adds({}) /\ Moves(g, at[g])
<1>0. queue[g] \in Seq(Message) /\ lost[g] \in Seq(Message)
  BY DEF BusOK
<1>a. ASSUME queue[g] # <<>>
      PROVE  /\ Tail(queue[g]) \in Seq(Message) /\ Current(g) \in Message
             /\ Range(queue[g]) = Range(Tail(queue[g])) \cup {Current(g)}
  BY <1>0, <1>a, RangeTail DEF Current
<1>1. CASE Ack(g)
  <2>1. queue[g] # <<>>
    BY <1>1 DEF Ack, BusOK
  <2>2. BusOK'
    BY <1>1, <1>a, <2>1 DEF BusOK, Ack
  <2>3. Adds({})
    BY <1>1, <1>a, <2>1 DEF BusOK, Ack, Adds, Held
  <2>. QED  BY <1>1, <2>2, <2>3 DEF BusOK, Ack, Moves, Current
<1>2. CASE Retry(g)
  <2>1. BusOK'
    BY <1>2 DEF BusOK, Retry
  <2>2. Adds({})
    BY <1>2, RangeEmpty DEF BusOK, Retry, Adds, Held
  <2>. QED  BY <1>2, <2>1, <2>2 DEF BusOK, Retry, Moves, Current
<1>3. CASE Crash(g)
  <2>1. /\ Append(lost[g], Current(g)) \in Seq(Message)
        /\ Range(Append(lost[g], Current(g))) = Range(lost[g]) \cup {Current(g)}
    <3>1. Current(g) \in Message
      BY <1>3, <1>a DEF Crash
    <3>. QED  BY <1>0, <3>1, RangeAppend
  <2>2. BusOK'
    BY <1>3, <1>a, <2>1 DEF BusOK, Crash
  <2>3. \A h \in Handlers : Held(h)' = Held(h)
    BY <1>3, <1>a, <2>1 DEF BusOK, Crash, Held
  <2>4. Adds({})
    BY <1>3, <2>3, RangeEmpty DEF BusOK, Crash, Adds
  <2>. QED  BY <1>3, <2>2, <2>4 DEF BusOK, Crash, Moves, Current
<1>4. CASE Claim(g)
  <2>1. PICK i \in 1 .. Len(lost[g]) :
          /\ queue' = [queue EXCEPT ![g] = <<lost[g][i]>> \o @]
          /\ lost' = [lost EXCEPT ![g] = RemoveAt(@, i)]
    BY <1>4 DEF Claim
  <2>2. /\ RemoveAt(lost[g], i) \in Seq(Message) /\ lost[g][i] \in Message
        /\ Range(lost[g]) = Range(RemoveAt(lost[g], i)) \cup {lost[g][i]}
    BY <1>0, RangeRemoveAt
  <2> DEFINE x == lost[g][i]
             r == RemoveAt(lost[g], i)
             p == <<x>> \o queue[g]
  <2>. HIDE DEF x, r
  <2>3. p \in Seq(Message) /\ Range(p) = Range(queue[g]) \cup {x}
    BY <1>0, <2>2, RangePush DEF x
  <2>. HIDE DEF p
  <2>4. queue' = [queue EXCEPT ![g] = p] /\ lost' = [lost EXCEPT ![g] = r]
    BY <2>1 DEF p, r, x
  <2>5. UNCHANGED <<at, todo, faults>> /\ at[g] = "idle"
    BY <1>4 DEF Claim, Idle
  <2>6. BusOK'
    BY <2>2, <2>3, <2>4, <2>5 DEF BusOK, r
  <2>7. \A h \in Handlers : Held(h)' = Held(h)
    BY <2>2, <2>3, <2>4 DEF BusOK, Held, x, r
  <2>8. Adds({})
    BY <2>5, <2>7 DEF Adds
  <2>. QED  BY <2>4, <2>5, <2>6, <2>8 DEF BusOK, Moves, Current
<1>. QED  BY <1>1, <1>2, <1>3, <1>4
-----------------------------------------------------------------------------
(* Nothing a message says is taken back. *)
RowGrows(row, new) ==
  /\ row.bookingMade => new.bookingMade
  /\ row.inbound # 0 => new.inbound # 0
  /\ row.return # 0 => new.return # 0
  /\ row.taxi # 0 => new.taxi # 0
  /\ row.finalized => new.finalized
  /\ row.failed => new.failed

Grows ==
  /\ \A k \in Booking : outcome[k] \in Sales!Verdicts => outcome'[k] = outcome[k]
  /\ confirmed \subseteq confirmed' /\ transport \subseteq transport'
  /\ voided \subseteq voided'
  /\ \A b \in Bundle : RowGrows(bundles[b], bundles'[b])

LEMMA GoodStays ==
  ASSUME Grows, NEW m, Good(m)
  PROVE  Good(m)'
<1>1. m \in Message /\ m.ref \in Booking
  BY DEF Good, Message
<1>2. \A v \in Sales!Verdicts : outcome[m.ref] = v => outcome'[m.ref] = v
  BY <1>1 DEF Grows
<1>3. outcome[m.ref] = "made" => outcome'[m.ref] = "made"
  BY <1>2 DEF Sales!Verdicts
<1>4. outcome[m.ref] = "refused" => outcome'[m.ref] = "refused"
  BY <1>2 DEF Sales!Verdicts
<1>5. Refused(m.ref) => Refused(m.ref)'
  BY DEF Grows, Refused
<1>6. \A leg : Bought(m.ref, leg, m.key) => Bought(m.ref, leg, m.key)'
  BY DEF Grows, Bought
<1>7. ASSUME m.ref \in Bundle
      PROVE  /\ \A leg : Ahead(m.ref, leg) => Ahead(m.ref, leg)'
             /\ bundles[m.ref].taxi # 0 => bundles'[m.ref].taxi # 0
             /\ bundles[m.ref].finalized => bundles'[m.ref].finalized
             /\ bundles[m.ref].failed => bundles'[m.ref].failed
  BY <1>7 DEF Grows, RowGrows, Ahead
<1>8. <<m.ref, m.ticket>> \in confirmed => <<m.ref, m.ticket>> \in confirmed'
  BY DEF Grows
<1>. QED  BY <1>1, <1>3, <1>4, <1>5, <1>6, <1>7, <1>8 DEF Good, Ordering

(* The orders among ns are those under way and perhaps one with a new key. *)
Fresh(ns) ==
  /\ lastKey' \in Nat /\ lastKey <= lastKey'
  /\ \A m \in ns : m.type \in Ordering =>
       m \in Orders \/ (lastKey < m.key /\ m.key <= lastKey')
  /\ \A m, n \in ns \ Orders : m.type \in Ordering /\ n.type \in Ordering => m = n

(* The API answers orders. *)
Answers ==
  \A a \in transport' : \E x \in Orders \cup transport :
    a.key = x.key /\ a.ref = x.ref /\ a.leg = x.leg

LEMMA KeysStay ==
  ASSUME KeysInv, WorldOK, NEW ns, Adds(ns), Fresh(ns), Answers
  PROVE  KeysInv'
<1>1. \A x \in Orders' : x \in Orders \/ (x \in ns \ Orders /\ x.type \in Ordering)
  BY DEF Orders, Adds
<1>2. \A x \in Orders \cup transport : x.key \in Nat
  BY DEF Orders, Message, WorldOK
<1>3. ASSUME NEW x \in (Orders \cup transport)'
      PROVE  \/ \E o \in Orders \cup transport :
                  x.key = o.key /\ x.ref = o.ref /\ x.leg = o.leg
             \/ /\ x \in ns \ Orders /\ x.type \in Ordering
                /\ x \in Message /\ lastKey < x.key /\ x.key <= lastKey'
  <2>1. x \in Orders' => x \in Message
    BY DEF Orders
  <2>. QED  BY <1>1, <2>1 DEF Answers, Fresh
<1>4. \A x \in Message : x.key \in Nat
  BY DEF Message
<1>5. lastKey \in Nat /\ lastKey' \in Nat /\ lastKey <= lastKey'
  BY DEF WorldOK, Fresh
<1>6. ASSUME NEW x \in (Orders \cup transport)' PROVE x.key <= lastKey'
  BY <1>2, <1>3, <1>4, <1>5 DEF KeysInv
<1>7. ASSUME NEW x \in (Orders \cup transport)', NEW y \in (Orders \cup transport)',
             x.key = y.key
      PROVE  x.ref = y.ref /\ x.leg = y.leg
  <2>1. CASE \E o \in Orders \cup transport :
               x.key = o.key /\ x.ref = o.ref /\ x.leg = o.leg
    <3>1. x.key \in Nat /\ x.key <= lastKey
      BY <1>2, <2>1 DEF KeysInv
    <3>2. \E o \in Orders \cup transport :
            y.key = o.key /\ y.ref = o.ref /\ y.leg = o.leg
      BY <1>3, <1>5, <1>7, <3>1
    <3>. QED  BY <1>7, <2>1, <3>2 DEF KeysInv
  <2>2. CASE /\ x \in ns \ Orders /\ x.type \in Ordering
             /\ x \in Message /\ lastKey < x.key /\ x.key <= lastKey'
    <3>1. x.key \in Nat
      BY <1>4, <2>2
    <3>2. ~ \E o \in Orders \cup transport :
              y.key = o.key /\ y.ref = o.ref /\ y.leg = o.leg
      BY <1>2, <1>5, <1>7, <2>2, <3>1 DEF KeysInv
    <3>3. y \in ns \ Orders /\ y.type \in Ordering
      BY <1>3, <3>2
    <3>. QED  BY <2>2, <3>3 DEF Fresh
  <2>. QED  BY <1>3, <2>1, <2>2
<1>. QED  BY <1>6, <1>7 DEF KeysInv

(* The bus is left as it should be by whatever adds ns and moves g to s. *)
LEMMA BusKept ==
  ASSUME BusInv, WorldOK, Grows, BusOK',
         NEW ns, Adds(ns), Fresh(ns), \A m \in ns : Good(m)',
         Answers, \A m \in announced' : m \in announced \cup ns,
         NEW g \in Handlers, NEW s, Moves(g, s),
         s = "voided" /\ g = "RefundTicket" =>
           <<Current(g).ref, Current(g).ticket>> \in voided'
  PROVE  BusInv'
<1>1. HonestBus'
  <2>1. \A m : Good(m) => Good(m)'
    BY GoodStays
  <2>2. ASSUME NEW h \in Handlers, NEW m \in Held(h)' PROVE m.type = h /\ Good(m)'
    BY <2>1, <2>2 DEF BusInv, HonestBus, Adds
  <2>3. ASSUME NEW h \in Handlers, NEW m \in Range(todo[h])' PROVE Good(m)'
    BY <2>1, <2>3 DEF BusInv, HonestBus, Adds
  <2>4. ASSUME NEW m \in announced' PROVE Good(m)'
    BY <2>1, <2>4 DEF BusInv, HonestBus
  <2>. QED  BY <2>2, <2>3, <2>4 DEF HonestBus
<1>2. KeysInv'
  BY KeysStay DEF BusInv
<1>3. VoidInv'
  <2>1. "RefundTicket" \in Handlers
    BY DEF Handlers, Commands
  <2>. QED  BY <2>1 DEF BusInv, VoidInv, Moves, Grows
<1>. QED  BY <1>1, <1>2, <1>3 DEF BusInv

(* No orders, no new key. *)
LEMMA NoOrders ==
  ASSUME WorldOK, NEW ns, \A m \in ns : m.type \notin Ordering,
         lastKey' \in Nat, lastKey <= lastKey'
  PROVE  Fresh(ns)
BY DEF Fresh

LEMMA OneOrder ==
  ASSUME WorldOK, NEW m \in Message, m.key = lastKey', lastKey' = lastKey + 1
  PROVE  Fresh({m})
BY DEF Fresh, WorldOK

LEMMA SameAnswers ==
  ASSUME UNCHANGED transport
  PROVE  Answers
BY DEF Answers

(* A handler takes a step. *)
LEMMA HandlerKeeps ==
  ASSUME BusInv, WorldOK, Grows, Answers, UNCHANGED announced,
         NEW g \in Handlers, queue[g] # <<>>,
         NEW q, NEW ps, Longer(q, ps),
         NEW ms \in Seq(Message), NEW s \in Steps, s = "voided" => ms = <<>>,
         Reach(g, s, ms, q), Fresh(ps \cup Range(ms)),
         \A m \in ps \cup Range(ms) : Good(m)',
         s = "voided" => <<Current(g).ref, Current(g).ticket>> \in voided'
  PROVE  BusInv'
<1>1. BusOK' /\ Adds(ps \cup Range(ms)) /\ Moves(g, s)
  BY ReachAdds DEF BusInv
<1>. QED  BY <1>1, BusKept

(* It sends one message and is done with its first step. *)
LEMMA SenderKeeps ==
  ASSUME BusInv, WorldOK, Grows, Answers, UNCHANGED announced,
         NEW g \in Handlers, queue[g] # <<>>, NEW m, Good(m)', Fresh({m}),
         Reach(g, "sending", <<m>>, queue)
  PROVE  BusInv'
<1>1. m \in Message
  BY DEF Good
<1>2. <<m>> \in Seq(Message) /\ Range(<<m>>) = {m} /\ {} \cup {m} = {m}
  BY <1>1, RangeSingle
<1>3. Longer(queue, {})
  BY QueueLonger DEF BusInv
<1>4. "sending" \in Steps /\ "sending" # "voided"
  BY DEF Steps
<1> DEFINE ms == <<m>>
<1>5. ms \in Seq(Message) /\ Range(ms) = {m} /\ Reach(g, "sending", ms, queue)
  BY <1>2
<1>. HIDE DEF ms
<1>6. {} \cup Range(ms) = {m} /\ \A n \in {m} : Good(n)'
  BY <1>5
<1>7. Fresh({} \cup Range(ms)) /\ \A n \in {} \cup Range(ms) : Good(n)'
  BY <1>6
<1>. QED  BY <1>3, <1>4, <1>5, <1>7, HandlerKeeps

(* It sends nothing. *)
LEMMA SilentKeeps ==
  ASSUME BusInv, WorldOK, Grows, UNCHANGED <<announced, transport, lastKey>>,
         NEW g \in Handlers, queue[g] # <<>>, NEW s \in Steps,
         Reach(g, s, <<>>, queue),
         s = "voided" => <<Current(g).ref, Current(g).ticket>> \in voided'
  PROVE  BusInv'
<1>1. Longer(queue, {})
  BY QueueLonger DEF BusInv
<1> DEFINE ms == <<>>
<1>2. ms \in Seq(Message) /\ Range(ms) = {} /\ Reach(g, s, ms, queue) /\ ms = <<>>
  BY RangeEmpty
<1>. HIDE DEF ms
<1>3. {} \cup Range(ms) = {}
  BY <1>2
<1>4. Fresh({})
  BY DEF Fresh, WorldOK
<1>5. Answers
  BY DEF Answers
<1>. QED  BY <1>1, <1>2, <1>3, <1>4, <1>5, HandlerKeeps

(* A customer or Dead Nation posts messages, or loses them. *)
LEMMA PublisherKeeps ==
  ASSUME BusInv, WorldOK, Grows, UNCHANGED <<announced, transport, lastKey>>,
         NEW ns, Longer(queue', ns), UNCHANGED <<lost, at, todo>>, faults' \in Nat,
         \A m \in ns : Good(m)' /\ m.type \notin Ordering
  PROVE  BusInv'
<1>1. BusOK' /\ Adds(ns) /\ Moves("RefundTicket", "sending")
  BY DEF BusInv, BusOK, Longer, Adds, Held, Moves, Current
<1>2. Fresh(ns) /\ Answers
  BY DEF Fresh, WorldOK, Answers
<1>3. "RefundTicket" \in Handlers
  BY DEF Handlers, Commands
<1>. QED  BY <1>1, <1>2, <1>3, BusKept

(* The router sends, acknowledges, claims, repeats or crashes. *)
LEMMA RouterKeeps ==
  ASSUME BusInv, WorldOK, Grows, UNCHANGED <<transport, lastKey>>,
         NEW g \in Handlers,
         \/ SendNext(g) /\ announced' \subseteq announced \cup {Head(todo[g])}
         \/ (Ack(g) \/ Retry(g) \/ Crash(g) \/ Claim(g)) /\ UNCHANGED announced
  PROVE  BusInv'
<1>1. Answers
  BY DEF Answers
<1>2. at[g] = "voided" /\ g = "RefundTicket" =>
        <<Current(g).ref, Current(g).ticket>> \in voided'
  BY DEF BusInv, VoidInv, Grows
<1>3. CASE SendNext(g) /\ announced' \subseteq announced \cup {Head(todo[g])}
  <2> DEFINE ns == Range(todo[g])
  <2>1. /\ Head(todo[g]) \in ns /\ BusOK' /\ Adds(ns) /\ Moves(g, at[g])
    BY <1>3, SendNextAdds DEF BusInv
  <2>2. /\ \A m \in ns : Good(m)
        /\ \A m \in ns : m.type \in Ordering => m \in Orders
    BY DEF BusInv, HonestBus, Orders, Good
  <2>. HIDE DEF ns
  <2>3. \A m \in ns : Good(m)'
    BY <2>2, GoodStays
  <2>4. Fresh(ns)
    BY <2>2 DEF Fresh, WorldOK
  <2>5. \A m \in announced' : m \in announced \cup ns
    BY <1>3, <2>1
  <2>. QED  BY <1>1, <1>2, <2>1, <2>3, <2>4, <2>5, BusKept
<1>4. CASE (Ack(g) \/ Retry(g) \/ Crash(g) \/ Claim(g)) /\ UNCHANGED announced
  <2>1. BusOK' /\ Adds({}) /\ Moves(g, at[g])
    BY <1>4, BusAddsNothing DEF BusInv
  <2>2. Fresh({}) /\ \A m \in {} : Good(m)'
    BY DEF Fresh, WorldOK
  <2>3. \A m \in announced' : m \in announced \cup {}
    BY <1>4
  <2>. QED  BY <1>1, <1>2, <2>1, <2>2, <2>3, BusKept
<1>. QED  BY <1>3, <1>4
-----------------------------------------------------------------------------
(* What the steps do to bundles, bookings and the services outside. *)
LEMMA NothingKept ==
  ASSUME TradeInv, UNCHANGED <<bundles, sales, transport, cancelled, refunds>>,
         voided \subseteq voided', voided' \subseteq Booking \X Nat,
         lastKey' \in Nat
  PROVE  TradeInv' /\ Grows
<1>1. Grows
  BY DEF Grows, RowGrows, sales
<1>2. BundlesOK'
  BY DEF TradeInv, BundlesOK, Backed, Bought, sales
<1>3. WorldOK'
  BY DEF TradeInv, WorldOK, sales
<1>4. DoneOK'
  BY DEF TradeInv, DoneOK, Refused, Bought, sales
<1>5. LegsInOrder'
  BY DEF TradeInv, LegsInOrder
<1>. QED  BY <1>1, <1>2, <1>3, <1>4, <1>5 DEF TradeInv

(* A bundle is updated. *)
LEMMA RowKept ==
  ASSUME TradeInv, NEW b \in Bundle, NEW row \in Rows,
         Backed(b, row), RowGrows(bundles[b], row),
         bundles' = [bundles EXCEPT ![b] = row],
         UNCHANGED <<sales, outside>>, lastKey' \in Nat
  PROVE  TradeInv' /\ Grows /\ bundles'[b] = row
<1>1. bundles' \in [Bundle -> Rows] /\ \A c \in Bundle : bundles'[c] = IF c = b THEN row ELSE bundles[c]
  BY DEF TradeInv, BundlesOK
<1>2. \A c \in Bundle : RowGrows(bundles[c], bundles'[c])
  BY <1>1 DEF RowGrows
<1>3. Grows
  BY <1>2 DEF Grows, sales, outside
<1>4. \A c \in Bundle : Backed(c, bundles'[c])
  BY <1>1 DEF TradeInv, BundlesOK
<1>5. BundlesOK'
  BY <1>1, <1>4 DEF BundlesOK, Backed, Bought, sales, outside
<1>6. WorldOK'
  BY DEF TradeInv, WorldOK, sales, outside
<1>7. DoneOK'
  BY DEF TradeInv, DoneOK, Refused, Bought, sales, outside
<1>8. LegsInOrder'
  <2>1. \A a \in transport : a.ref \in Bundle
    BY DEF TradeInv, WorldOK
  <2>2. transport' = transport
    BY DEF outside
  <2>. QED  BY <1>2, <2>1, <2>2 DEF TradeInv, LegsInOrder, RowGrows
<1>. QED  BY <1>1, <1>3, <1>5, <1>6, <1>7, <1>8 DEF TradeInv

(* The verdict on a booking. *)
LEMMA VerdictKept ==
  ASSUME TradeInv, NEW k \in Booking, NEW v \in {"made", "refused"},
         outcome[k] = "open", outcome' = [outcome EXCEPT ![k] = v],
         UNCHANGED <<bundles, confirmed, outside, lastKey>>
  PROVE  TradeInv' /\ Grows /\ outcome'[k] = v
<1>1. /\ outcome' \in [Booking -> Sales!Verdicts \cup {"open"}]
      /\ \A c \in Booking : outcome'[c] = IF c = k THEN v ELSE outcome[c]
  BY DEF TradeInv, WorldOK, Sales!Verdicts
<1>2. Grows
  BY <1>1 DEF Grows, RowGrows, outside, Sales!Verdicts
<1>3. BundlesOK'
  <2>1. \A b \in Bundle : b \in Booking
    BY DEF Booking
  <2>. QED  BY <1>1, <2>1 DEF TradeInv, BundlesOK, Backed, Bought, outside
<1>4. WorldOK'
  BY <1>1 DEF TradeInv, WorldOK, outside
<1>5. DoneOK'
  BY DEF TradeInv, DoneOK, Refused, Bought, outside
<1>6. LegsInOrder'
  BY DEF TradeInv, LegsInOrder, outside
<1>. QED  BY <1>1, <1>2, <1>3, <1>4, <1>5, <1>6 DEF TradeInv

(* A ticket is confirmed. *)
LEMMA TicketKept ==
  ASSUME TradeInv, NEW k \in Booking, NEW i \in Nat,
         confirmed' = confirmed \cup {<<k, i>>},
         UNCHANGED <<bundles, outcome, outside, lastKey>>
  PROVE  TradeInv' /\ Grows
<1>1. Grows
  BY DEF Grows, RowGrows, outside
<1>2. BundlesOK'
  BY DEF TradeInv, BundlesOK, Backed, Bought, outside
<1>3. WorldOK'
  BY DEF TradeInv, WorldOK, outside
<1>4. DoneOK'
  BY DEF TradeInv, DoneOK, Refused, Bought, outside
<1>5. LegsInOrder'
  BY DEF TradeInv, LegsInOrder, outside
<1>. QED  BY <1>1, <1>2, <1>3, <1>4, <1>5 DEF TradeInv

(* The API answers an order, as before if it did. *)
LEMMA AskKept ==
  ASSUME IInv, NEW m \in Orders, Good(m), NEW status \in {"booked", "refused"},
         Ask(m, m.leg, status),
         UNCHANGED <<bundles, sales, cancelled, voided, refunds, lastKey>>
  PROVE  /\ TradeInv' /\ Grows /\ Answers
         /\ \E a \in transport' :
              a.key = m.key /\ a.ref = m.ref /\ a.leg = m.leg /\ a.status = status
<1>1. /\ m.key \in Nat /\ m.ref \in Bundle /\ m.leg \in Legs /\ Ahead(m.ref, m.leg)
  BY DEF Good, Orders, Message, Ordering, Legs
<1>2. PICK a : a = Answer(m.key, m.ref, m.leg, status)
  OBVIOUS
<1>3. /\ a \in [key : Nat, ref : Bundle, leg : Legs, status : {"booked", "refused"}]
      /\ a.key = m.key /\ a.ref = m.ref /\ a.leg = m.leg /\ a.status = status
  BY <1>1, <1>2 DEF Answer
<1>4. \/ transport' = transport /\ \E x \in transport : x.key = m.key /\ x.status = status
      \/ transport' = transport \cup {a}
  BY <1>2 DEF Ask
<1>5. Grows
  BY <1>4 DEF Grows, RowGrows, sales
<1>6. Answers
  BY <1>3, <1>4 DEF Answers
<1>7. \E x \in transport' :
        x.key = m.key /\ x.ref = m.ref /\ x.leg = m.leg /\ x.status = status
  BY <1>3, <1>4 DEF IInv, BusInv, KeysInv
<1>8. BundlesOK'
  <2>1. \A b, leg, key : Bought(b, leg, key) => Bought(b, leg, key)'
    BY <1>4 DEF Bought
  <2>. QED  BY <2>1 DEF IInv, TradeInv, BundlesOK, Backed, sales
<1>9. WorldOK'
  BY <1>3, <1>4 DEF IInv, TradeInv, WorldOK, sales
<1>10. DoneOK'
  <2>1. \A b, leg, key : Bought(b, leg, key) => Bought(b, leg, key)'
    BY <1>4 DEF Bought
  <2>2. \A b : Refused(b) => Refused(b)'
    BY <1>4 DEF Refused
  <2>. QED  BY <2>1, <2>2 DEF IInv, TradeInv, DoneOK, sales
<1>11. LegsInOrder'
  <2>1. \A x \in transport' : x \in transport \/ x = a
    BY <1>4
  <2>. QED  BY <1>1, <1>3, <2>1 DEF IInv, TradeInv, LegsInOrder, Ahead
<1>. QED  BY <1>5, <1>6, <1>7, <1>8, <1>9, <1>10, <1>11 DEF TradeInv
-----------------------------------------------------------------------------
Types == Handlers \cup {"VipBundleFinalized", "VipBundleFinalizedFailed", "TicketRefunded"}

LEMMA MsgFields ==
  ASSUME NEW type \in Types, NEW k \in Booking, NEW leg \in Legs \cup {"none"},
         NEW key \in Nat, NEW i \in Nat, NEW m, m = Msg(type, k, leg, key, i)
  PROVE  /\ m \in Message /\ m.type = type /\ m.ref = k /\ m.leg = leg
         /\ m.key = key /\ m.ticket = i
BY DEF Msg, Message, Types

LEMMA Fields ==
  ASSUME NEW type \in Types, NEW k \in Booking, NEW m
  PROVE  /\ m = About(type, k) => m \in Message /\ m.type = type /\ m.ref = k
         /\ \A leg \in Legs \cup {"none"}, key \in Nat : m = Flight(type, k, leg, key) =>
              m \in Message /\ m.type = type /\ m.ref = k /\ m.leg = leg /\ m.key = key
         /\ \A key \in Nat : m = Taxi(type, k, key) =>
              m \in Message /\ m.type = type /\ m.ref = k /\ m.leg = "taxi" /\ m.key = key
         /\ \A i \in Nat, key \in Nat : m = OfTicket(type, k, i, key) =>
              m \in Message /\ m.type = type /\ m.ref = k /\ m.ticket = i /\ m.key = key
<1>1. "none" \in Legs \cup {"none"} /\ "taxi" \in Legs \cup {"none"} /\ 0 \in Nat
  BY DEF Legs
<1>. QED  BY <1>1, MsgFields DEF About, Flight, Taxi, OfTicket

LEMMA TypesAre ==
  /\ \A type \in {"VipBundleInitialized", "BookingMade", "TicketBookingConfirmed",
                 "BookingFailed", "FlightBooked", "FlightBookingFailed", "TaxiBooked",
                 "TaxiBookingFailed", "BookShowTickets", "BookFlight", "BookTaxi",
                 "CancelFlightTickets", "RefundTicket"} : type \in Handlers /\ type \in Types
  /\ "VipBundleFinalized" \in Types /\ "VipBundleFinalizedFailed" \in Types
  /\ "TicketRefunded" \in Types
  /\ {"none", "inbound", "return", "taxi"} \subseteq Legs \cup {"none"}
BY DEF Types, Handlers, Events, Commands, Legs

LEMMA BundleBookings ==
  ASSUME NEW b \in Bundle PROVE b \in Booking
BY DEF Booking
-----------------------------------------------------------------------------
LEMMA InitIInv ==
  Init => IInv
<1> SUFFICES ASSUME Init PROVE IInv
  OBVIOUS
<1>. USE DEF Init, BusInit
<1>1. BusOK
  BY DEF BusOK
<1>2. HonestBus
  BY RangeEmpty DEF HonestBus, Held
<1>3. KeysInv
  BY RangeEmpty DEF KeysInv, Orders, Held
<1>4. VoidInv
  BY DEF VoidInv, Handlers, Commands
<1>5. BundlesOK
  BY DEF BundlesOK, Backed, NoBundle, Rows
<1>6. WorldOK
  BY DEF WorldOK, Sales!OutcomeInit
<1>7. DoneOK /\ LegsInOrder
  BY DEF DoneOK, LegsInOrder
<1>. QED
  BY <1>1, <1>2, <1>3, <1>4, <1>5, <1>6, <1>7 DEF IInv, BusInv, TradeInv

(* The customers and Dead Nation. *)
LEMMA CustomersKeep ==
  ASSUME IInv,
         \/ \E b \in Bundle : BookVipBundle(b)
         \/ \E p \in PlainBooking : BookTickets(p)
         \/ DeadNation
  PROVE  IInv'
<1>0. /\ BusInv /\ TradeInv /\ WorldOK /\ BusOK /\ lastKey \in Nat /\ faults \in Nat
      /\ bundles \in [Bundle -> Rows]
  BY DEF IInv, BusInv, TradeInv, WorldOK, BusOK, BundlesOK
<1>1. ASSUME NEW b \in Bundle, BookVipBundle(b) PROVE IInv'
  <2>0. b \in Booking
    BY BundleBookings
  <2>1. PICK m : m = About("VipBundleInitialized", b)
    OBVIOUS
  <2>2. m \in Message /\ m.type = "VipBundleInitialized" /\ m.ref = b
    BY <2>0, <2>1, Fields, TypesAre
  <2>3. TradeInv' /\ Grows
    <3>3. PICK ids \in SUBSET Misnamed :
            bundles' = [bundles EXCEPT ![b] = [bundles[b] EXCEPT !.created = TRUE, !.wrong = ids]]
      BY <1>1 DEF BookVipBundle
    <3> DEFINE row == [bundles[b] EXCEPT !.created = TRUE, !.wrong = ids]
    <3>1. row \in Rows /\ Backed(b, row) /\ RowGrows(bundles[b], row)
      BY <1>0 DEF TradeInv, BundlesOK, Backed, Rows, RowGrows
    <3>2. bundles' = [bundles EXCEPT ![b] = row]
      BY <3>3
    <3>. HIDE DEF row
    <3>. QED  BY <1>0, <1>1, <3>1, <3>2, RowKept DEF BookVipBundle
  <2>4. Good(m)'
    BY <2>2 DEF Good, Ordering
  <2>5. BusInv'
    <3>1. Longer(queue', {m})
      BY <1>0, <1>1, <2>1, <2>2, PostLonger DEF BookVipBundle
    <3>2. m.type \notin Ordering /\ UNCHANGED <<announced, transport, lastKey, lost, at, todo, faults>>
      BY <1>1, <2>2 DEF Ordering, BookVipBundle, outside
    <3>. QED  BY <1>0, <2>3, <2>4, <3>1, <3>2, PublisherKeeps
  <2>. QED  BY <2>3, <2>5 DEF IInv
<1>2. ASSUME NEW p \in PlainBooking, BookTickets(p) PROVE IInv'
  <2>1. PICK m : m = About("BookingMade", p)
    OBVIOUS
  <2>2. p \in Booking
    BY DEF Booking
  <2>3. m \in Message /\ m.type = "BookingMade" /\ m.ref = p
    BY <2>1, <2>2, Fields, TypesAre
  <2>4. TradeInv' /\ Grows /\ outcome'[p] = "made"
    BY <1>0, <1>2, <2>2, VerdictKept DEF BookTickets, Sales!Make
  <2>5. Good(m)'
    BY <2>3, <2>4 DEF Good, Ordering
  <2>6. BusInv'
    <3>1. Longer(queue', {m})
      BY <1>0, <1>2, <2>1, <2>3, PostLonger DEF BookTickets
    <3>2. m.type \notin Ordering /\ UNCHANGED <<announced, transport, lastKey, lost, at, todo, faults>>
      BY <1>2, <2>3 DEF Ordering, BookTickets, outside
    <3>. QED  BY <1>0, <2>4, <2>5, <3>1, <3>2, PublisherKeeps
  <2>. QED  BY <2>4, <2>6 DEF IInv
<1>3. ASSUME NEW k \in Booking, NEW i \in 1 .. Size[k], ConfirmTicket(k, i) PROVE IInv'
  <2>1. PICK m : m = OfTicket("TicketBookingConfirmed", k, i, 0)
    OBVIOUS
  <2>2. i \in Nat
    BY BookingAssumption
  <2>3. m \in Message /\ m.type = "TicketBookingConfirmed" /\ m.ref = k /\ m.ticket = i
    BY <2>1, <2>2, Fields, TypesAre
  <2>4. TradeInv' /\ Grows
    BY <1>0, <1>3, <2>2, TicketKept DEF ConfirmTicket
  <2>5. Good(m)'
    BY <1>3, <2>3 DEF Good, Ordering, ConfirmTicket
  <2>6. BusInv'
    <3>1. Longer(queue', {m})
      <4>1. Longer(Post(queue, m), {m})
        BY <1>0, <2>3, PostLonger
      <4>2. Longer(queue, {m})
        BY <1>0 DEF Longer, BusOK
      <4>. QED  BY <1>3, <2>1, <4>1, <4>2 DEF ConfirmTicket
    <3>2. /\ m.type \notin Ordering /\ UNCHANGED <<announced, transport, lastKey, lost, at, todo>>
          /\ faults' \in Nat
      BY <1>0, <1>3, <2>3 DEF Ordering, ConfirmTicket, outside
    <3>. QED  BY <1>0, <2>4, <2>5, <3>1, <3>2, PublisherKeeps
  <2>. QED  BY <2>4, <2>6 DEF IInv
<1>. QED  BY <1>1, <1>2, <1>3 DEF DeadNation
-----------------------------------------------------------------------------
(* What a handler knows of its message. *)
LEMMA Hearing ==
  ASSUME IInv, NEW h \in Handlers, queue[h] # <<>>
  PROVE  \E c \in Message :
           /\ c = Current(h) /\ c.type = h /\ Good(c) /\ c.ref \in Booking
           /\ h \notin {"BookingMade", "TicketBookingConfirmed"} => c.ref \in Bundle
<1>1. Current(h) \in Message /\ Current(h).type = h /\ Good(Current(h))
  BY CurrentMessage DEF IInv, BusInv
<1>2. \A c \in Message : c.ref \in Booking
  BY DEF Message
<1>3. \A c \in Message : Good(c) /\ c.type = h =>
        (h \notin {"BookingMade", "TicketBookingConfirmed"} => c.ref \in Bundle)
  BY DEF Good
<1>. QED  BY <1>1, <1>2, <1>3

LEMMA Parts ==
  ASSUME IInv
  PROVE  /\ BusInv /\ TradeInv /\ WorldOK /\ BusOK /\ lastKey \in Nat
         /\ bundles \in [Bundle -> Rows]
         /\ \A b \in Bundle : Backed(b, bundles[b]) /\ bundles[b] \in Rows
BY DEF IInv, BusInv, TradeInv, WorldOK, BusOK, BundlesOK

(* The process manager: a bundle is initialized. *)
LEMMA InitializedKeeps ==
  ASSUME IInv, OnVipBundleInitialized
  PROVE  IInv'
<1> DEFINE h == "VipBundleInitialized"
<1>1. h \in Handlers /\ queue[h] # <<>>
  BY DEF OnVipBundleInitialized, Ready, Handlers, Events
<1>2. PICK c \in Message : c = Current(h) /\ c.ref \in Booking /\ c.ref \in Bundle
  BY <1>1, Hearing
<1>3. PICK m : m = About("BookShowTickets", c.ref)
  OBVIOUS
<1>4. m \in Message /\ m.type = "BookShowTickets" /\ m.ref = c.ref
  BY <1>2, <1>3, Fields, TypesAre
<1>5. TradeInv' /\ Grows
  BY Parts, NothingKept DEF OnVipBundleInitialized, outside, TradeInv, WorldOK
<1>6. Good(m)' /\ Fresh({m}) /\ Answers
  BY <1>2, <1>4, Parts DEF Good, Ordering, Fresh, Answers, OnVipBundleInitialized, outside
<1>7. BusInv'
  BY <1>1, <1>2, <1>3, <1>5, <1>6, Parts, SenderKeeps DEF OnVipBundleInitialized, Start
<1>. QED  BY <1>5, <1>7 DEF IInv

(* The booking is made: the first flight is asked for. *)
LEMMA MadeKeeps ==
  ASSUME IInv, OnBookingMade
  PROVE  IInv'
<1> DEFINE h == "BookingMade"
<1>1. h \in Handlers /\ queue[h] # <<>>
  BY DEF OnBookingMade, Ready, Handlers, Events
<1>2. PICK c \in Message : c = Current(h) /\ c.type = h /\ Good(c) /\ c.ref \in Booking
  BY <1>1, Hearing
<1>3. PICK b \in Bundle : b = c.ref /\ b \in Booking /\ outcome[b] = "made"
  BY <1>2 DEF OnBookingMade, Found, Good
<1>4. PICK key \in Nat : key = lastKey' /\ key = lastKey + 1 /\ key # 0
  BY Parts DEF OnBookingMade
<1>5. PICK m : m = Flight("BookFlight", b, "inbound", key)
  OBVIOUS
<1>6. m \in Message /\ m.type = "BookFlight" /\ m.ref = b /\ m.leg = "inbound" /\ m.key = key
  BY <1>3, <1>5, Fields, TypesAre
<1>7. PICK row : row = [bundles[b] EXCEPT !.bookingMade = TRUE]
  OBVIOUS
<1>8. row \in Rows /\ Backed(b, row) /\ RowGrows(bundles[b], row) /\ row.bookingMade
  BY <1>3, <1>7, Parts DEF Backed, Rows, RowGrows
<1>9. TradeInv' /\ Grows /\ bundles'[b] = row
  BY <1>2, <1>3, <1>4, <1>7, <1>8, Parts, RowKept DEF OnBookingMade, Update
<1>10. Good(m)'
  BY <1>4, <1>6, <1>8, <1>9 DEF Good, Ordering, Ahead
<1>11. Fresh({m}) /\ Answers
  BY <1>4, <1>6, Parts, OneOrder, SameAnswers DEF OnBookingMade, outside
<1>12. Reach(h, "sending", <<m>>, queue)
  BY <1>2, <1>3, <1>4, <1>5 DEF OnBookingMade, Start
<1>13. BusInv'
  BY <1>1, <1>9, <1>10, <1>11, <1>12, Parts, SenderKeeps DEF OnBookingMade
<1>. QED  BY <1>9, <1>13 DEF IInv

(* A ticket is confirmed. *)
LEMMA ConfirmedKeeps ==
  ASSUME IInv, OnTicketBookingConfirmed
  PROVE  IInv'
<1> DEFINE h == "TicketBookingConfirmed"
<1>1. h \in Handlers /\ queue[h] # <<>>
  BY DEF OnTicketBookingConfirmed, Ready, Handlers, Events
<1>2. PICK c \in Message : c = Current(h) /\ c.type = h /\ Good(c) /\ c.ref \in Booking
  BY <1>1, Hearing
<1>3. PICK b \in Bundle : b = c.ref /\ <<b, c.ticket>> \in confirmed
  BY <1>2 DEF OnTicketBookingConfirmed, Found, Good
<1>4. c.ticket \in Nat
  BY DEF Message
<1>5. PICK row : row = [bundles[b] EXCEPT !.tickets = Append(@, c.ticket)]
  OBVIOUS
<1>6. row \in Rows /\ Backed(b, row) /\ RowGrows(bundles[b], row)
  <2> DEFINE old == bundles[b].tickets
             new == Append(old, c.ticket)
  <2>1. old \in Seq(Nat) /\ \A i \in 1 .. Len(old) : <<b, old[i]>> \in confirmed
    BY <1>3, Parts DEF Backed, Rows
  <2>2. /\ new \in Seq(Nat)
        /\ \A i \in 1 .. Len(new) :
             (i \in 1 .. Len(old) /\ new[i] = old[i]) \/ new[i] = c.ticket
    <3>. HIDE DEF old
    <3>. QED  BY <1>4, <2>1
  <2>3. row = [bundles[b] EXCEPT !.tickets = new]
    BY <1>5
  <2>. HIDE DEF old, new
  <2>4. \A i \in 1 .. Len(new) : <<b, new[i]>> \in confirmed
    BY <1>3, <2>1, <2>2
  <2>. QED  BY <1>3, <2>2, <2>3, <2>4, Parts DEF Backed, Rows, RowGrows
<1>7. TradeInv' /\ Grows /\ bundles'[b] = row
  BY <1>2, <1>3, <1>5, <1>6, Parts, RowKept DEF OnTicketBookingConfirmed, Update
<1>8. Reach(h, "sending", <<>>, queue) /\ "sending" \in Steps
  BY DEF OnTicketBookingConfirmed, Start, Steps
<1>9. UNCHANGED <<announced, transport, lastKey>> /\ ("sending" # "voided")
  BY DEF OnTicketBookingConfirmed, outside
<1>10. BusInv'
  BY <1>1, <1>7, <1>8, <1>9, Parts, SilentKeeps
<1>. QED  BY <1>7, <1>10 DEF IInv

(* The booking is refused. *)
LEMMA FailedKeeps ==
  ASSUME IInv, OnBookingFailed
  PROVE  IInv'
<1> DEFINE h == "BookingFailed"
<1>1. h \in Handlers /\ queue[h] # <<>>
  BY DEF OnBookingFailed, Ready, Handlers, Events
<1>2. PICK c \in Message : c = Current(h) /\ c.type = h /\ Good(c) /\ c.ref \in Booking
  BY <1>1, Hearing
<1>3. PICK b \in Bundle : b = c.ref /\ b \in Booking /\ outcome[b] = "refused"
  BY <1>2 DEF OnBookingFailed, Found, Good
<1>4. PICK m : m = Finalized(b, FALSE)
  OBVIOUS
<1>5. m \in Message /\ m.type = "VipBundleFinalizedFailed" /\ m.ref = b
  BY <1>3, <1>4, Fields, TypesAre DEF Finalized
<1>6. PICK row : row = [bundles[b] EXCEPT !.finalized = TRUE, !.failed = TRUE]
  OBVIOUS
<1>7. row \in Rows /\ Backed(b, row) /\ RowGrows(bundles[b], row) /\ row.finalized /\ row.failed
  BY <1>3, <1>6, Parts DEF Backed, Rows, RowGrows
<1>8. TradeInv' /\ Grows /\ bundles'[b] = row
  BY <1>2, <1>3, <1>6, <1>7, Parts, RowKept DEF OnBookingFailed, Update
<1>9. Good(m)'
  BY <1>3, <1>5, <1>7, <1>8 DEF Good, Ordering, OnBookingFailed, sales
<1>10. Fresh({m}) /\ Answers
  BY <1>5, Parts DEF Fresh, Ordering, Answers, OnBookingFailed, outside
<1>11. Reach(h, "sending", <<m>>, queue)
  BY <1>2, <1>3, <1>4 DEF OnBookingFailed, Start
<1>12. BusInv'
  BY <1>1, <1>8, <1>9, <1>10, <1>11, Parts, SenderKeeps DEF OnBookingFailed
<1>. QED  BY <1>8, <1>12 DEF IInv

(* A flight is booked: the next leg is asked for. *)
LEMMA FlightKeeps ==
  ASSUME IInv, OnFlightBooked
  PROVE  IInv'
<1> DEFINE h == "FlightBooked"
<1>1. h \in Handlers /\ queue[h] # <<>>
  BY DEF OnFlightBooked, Ready, Handlers, Events
<1>2. PICK c \in Message : /\ c = Current(h) /\ c.type = h /\ Good(c)
                           /\ c.ref \in Booking /\ c.ref \in Bundle
  BY <1>1, Hearing
<1>3. /\ c.key # 0 /\ c.key \in Nat /\ Ahead(c.ref, c.leg) /\ Bought(c.ref, c.leg, c.key)
  BY <1>2 DEF Good, Message
<1>4. PICK key \in Nat : key = lastKey' /\ key = lastKey + 1 /\ key # 0
  BY Parts DEF OnFlightBooked
<1>5. UNCHANGED <<sales, outside, announced, transport>>
  BY DEF OnFlightBooked, outside
<1>6. CASE /\ c.leg = "inbound"
           /\ Update(c.ref, [bundles[c.ref] EXCEPT !.inbound = c.key])
           /\ Start(h, "sending", <<Flight("BookFlight", c.ref, "return", key)>>)
  <2>1. PICK m : m = Flight("BookFlight", c.ref, "return", key)
    OBVIOUS
  <2>2. m \in Message /\ m.type = "BookFlight" /\ m.ref = c.ref /\ m.leg = "return" /\ m.key = key
    BY <1>2, <2>1, Fields, TypesAre
  <2>3. PICK row : row = [bundles[c.ref] EXCEPT !.inbound = c.key]
    OBVIOUS
  <2>4. /\ row \in Rows /\ Backed(c.ref, row) /\ RowGrows(bundles[c.ref], row)
        /\ row.bookingMade /\ row.inbound # 0
    BY <1>2, <1>3, <1>6, <2>3, Parts DEF Backed, Rows, RowGrows, Ahead
  <2>5. TradeInv' /\ Grows /\ bundles'[c.ref] = row
    BY <1>2, <1>4, <1>5, <1>6, <2>3, <2>4, Parts, RowKept DEF Update
  <2>6. Good(m)'
    BY <1>2, <1>4, <2>2, <2>4, <2>5 DEF Good, Ordering, Ahead
  <2>7. Fresh({m}) /\ Answers
    BY <1>4, <1>5, <2>2, Parts, OneOrder, SameAnswers
  <2>8. BusInv'
    BY <1>1, <1>5, <1>6, <2>1, <2>5, <2>6, <2>7, Parts, SenderKeeps DEF Start
  <2>. QED  BY <2>5, <2>8 DEF IInv
<1>7. CASE /\ c.leg = "return"
           /\ Update(c.ref, [bundles[c.ref] EXCEPT !.return = c.key])
           /\ Start(h, "sending", <<Taxi("BookTaxi", c.ref, key)>>)
  <2>1. PICK m : m = Taxi("BookTaxi", c.ref, key)
    OBVIOUS
  <2>2. m \in Message /\ m.type = "BookTaxi" /\ m.ref = c.ref /\ m.leg = "taxi" /\ m.key = key
    BY <1>2, <2>1, Fields, TypesAre
  <2>3. PICK row : row = [bundles[c.ref] EXCEPT !.return = c.key]
    OBVIOUS
  <2>4. /\ row \in Rows /\ Backed(c.ref, row) /\ RowGrows(bundles[c.ref], row)
        /\ row.bookingMade /\ row.inbound # 0 /\ row.return # 0
    BY <1>2, <1>3, <1>7, <2>3, Parts DEF Backed, Rows, RowGrows, Ahead
  <2>5. TradeInv' /\ Grows /\ bundles'[c.ref] = row
    BY <1>2, <1>4, <1>5, <1>7, <2>3, <2>4, Parts, RowKept DEF Update
  <2>6. Good(m)'
    BY <1>2, <1>4, <2>2, <2>4, <2>5 DEF Good, Ordering, Ahead
  <2>7. Fresh({m}) /\ Answers
    BY <1>4, <1>5, <2>2, Parts, OneOrder, SameAnswers
  <2>8. BusInv'
    BY <1>1, <1>5, <1>7, <2>1, <2>5, <2>6, <2>7, Parts, SenderKeeps DEF Start
  <2>. QED  BY <2>5, <2>8 DEF IInv
<1>. QED  BY <1>2, <1>4, <1>6, <1>7 DEF OnFlightBooked

(* The taxi is booked: the bundle is complete. *)
LEMMA TaxiKeeps ==
  ASSUME IInv, OnTaxiBooked
  PROVE  IInv'
<1> DEFINE h == "TaxiBooked"
<1>1. h \in Handlers /\ queue[h] # <<>>
  BY DEF OnTaxiBooked, Ready, Handlers, Events
<1>2. PICK c \in Message : /\ c = Current(h) /\ c.type = h /\ Good(c)
                           /\ c.ref \in Booking /\ c.ref \in Bundle
  BY <1>1, Hearing
<1>3. c.key # 0 /\ c.key \in Nat /\ Ahead(c.ref, "taxi") /\ Bought(c.ref, "taxi", c.key)
  BY <1>2 DEF Good, Message
<1>4. PICK m : m = Finalized(c.ref, TRUE)
  OBVIOUS
<1>5. m \in Message /\ m.type = "VipBundleFinalized" /\ m.ref = c.ref
  BY <1>2, <1>4, Fields, TypesAre DEF Finalized
<1>6. PICK row : row = [bundles[c.ref] EXCEPT !.taxi = c.key, !.finalized = TRUE]
  OBVIOUS
<1>7. /\ row \in Rows /\ Backed(c.ref, row) /\ RowGrows(bundles[c.ref], row)
      /\ row.finalized /\ row.taxi # 0
      /\ row.bookingMade /\ row.inbound # 0 /\ row.return # 0
  <2>1. bundles[c.ref] \in Rows /\ Backed(c.ref, bundles[c.ref])
    BY <1>2, Parts
  <2>2. /\ row \in Rows /\ row.finalized /\ row.taxi = c.key
        /\ row.bookingMade = bundles[c.ref].bookingMade /\ row.failed = bundles[c.ref].failed
        /\ row.inbound = bundles[c.ref].inbound /\ row.return = bundles[c.ref].return
        /\ row.tickets = bundles[c.ref].tickets
    BY <1>3, <1>6, <2>1 DEF Rows
  <2>3. Backed(c.ref, row)
    BY <1>3, <2>1, <2>2 DEF Backed
  <2>4. RowGrows(bundles[c.ref], row)
    BY <1>3, <2>2 DEF RowGrows
  <2>. QED  BY <1>3, <2>2, <2>3, <2>4 DEF Ahead
<1>8. TradeInv' /\ Grows /\ bundles'[c.ref] = row
  BY <1>2, <1>6, <1>7, Parts, RowKept DEF OnTaxiBooked, Update
<1>9. Good(m)'
  BY <1>2, <1>5, <1>7, <1>8 DEF Good, Ordering, Ahead
<1>10. Fresh({m}) /\ Answers
  BY <1>5, Parts DEF Fresh, Ordering, Answers, OnTaxiBooked, outside
<1>11. Reach(h, "sending", <<m>>, queue)
  BY <1>2, <1>4 DEF OnTaxiBooked, Start
<1>12. BusInv'
  BY <1>1, <1>8, <1>9, <1>10, <1>11, Parts, SenderKeeps DEF OnTaxiBooked
<1>. QED  BY <1>8, <1>12 DEF IInv
-----------------------------------------------------------------------------
(* The commands that compensate a bundle concern what it recorded. *)
LEMMA RefundsGood ==
  ASSUME IInv, NEW b \in Bundle, Refused(b)
  PROVE  /\ RefundCommands(b) \in Seq(Message)
         /\ \A m \in Range(RefundCommands(b)) : Good(m) /\ m.type = "RefundTicket"
<1> DEFINE old == bundles[b].tickets
           ms == RefundCommands(b)
<1>1. old \in Seq(Nat) /\ \A i \in 1 .. Len(old) : <<b, old[i]>> \in confirmed
  BY Parts DEF Backed, Rows
<1>2. ms = [i \in 1 .. Len(old) |-> OfTicket("RefundTicket", b, old[i], lastKey + i)]
  BY DEF RefundCommands
<1>. HIDE DEF old, ms
<1>3. ASSUME NEW i \in 1 .. Len(old)
      PROVE  ms[i] \in Message /\ Good(ms[i]) /\ ms[i].type = "RefundTicket"
  <2>1. old[i] \in Nat /\ lastKey + i \in Nat /\ b \in Booking
    BY <1>1, Parts, BundleBookings
  <2>2. PICK m : m = ms[i]
    OBVIOUS
  <2>3. m \in Message /\ m.type = "RefundTicket" /\ m.ref = b /\ m.ticket = old[i]
    BY <1>2, <2>1, <2>2, Fields, TypesAre
  <2>. QED  BY <1>1, <2>2, <2>3 DEF Good, Ordering
<1>4. ms \in Seq(Message) /\ Len(ms) = Len(old)
  BY <1>1, <1>2, <1>3
<1>5. Range(ms) = {ms[i] : i \in 1 .. Len(ms)}
  BY <1>4, RangeEquality
<1>. QED  BY <1>3, <1>4, <1>5 DEF ms

LEMMA CancelsGood ==
  ASSUME IInv, NEW b \in Bundle, Refused(b), NEW leg \in Legs, NEW key \in Nat,
         key # 0 => Bought(b, leg, key)
  PROVE  /\ CancelCommands(b, key) \in Seq(Message)
         /\ \A m \in Range(CancelCommands(b, key)) : Good(m) /\ m.type = "CancelFlightTickets"
<1>1. CASE key = 0
  BY <1>1, RangeEmpty DEF CancelCommands
<1>2. CASE key # 0
  <2>0. b \in Booking /\ "CancelFlightTickets" \in Types /\ "none" \in Legs \cup {"none"}
    BY BundleBookings, TypesAre
  <2>1. PICK m : m = Flight("CancelFlightTickets", b, "none", key)
    OBVIOUS
  <2>2. m \in Message /\ m.type = "CancelFlightTickets" /\ m.ref = b /\ m.key = key
    BY <2>0, <2>1, Fields
  <2>3. Good(m)
    BY <1>2, <2>2 DEF Good, Ordering
  <2>4. <<m>> \in Seq(Message) /\ Range(<<m>>) = {m} /\ CancelCommands(b, key) = <<m>>
    BY <1>2, <2>1, <2>2, RangeSingle DEF CancelCommands
  <2>. QED  BY <2>2, <2>3, <2>4
<1>. QED  BY <1>1, <1>2

(* The compensation starts: commands are sent, nothing is recorded yet. *)
LEMMA CompensateKeeps ==
  ASSUME IInv, NEW h \in Handlers, queue[h] # <<>>, NEW b \in Bundle, NEW ms \in Seq(Message),
         \A m \in Range(ms) : Good(m) /\ m.type \notin Ordering,
         Compensate(h, b, ms)
  PROVE  IInv'
<1>1. lastKey' \in Nat /\ lastKey <= lastKey'
  <2>1. Len(bundles[b].tickets) \in Nat
    BY Parts DEF Rows
  <2>. QED  BY <2>1, Parts DEF Compensate
<1>2. UNCHANGED <<bundles, sales, outside, announced>>
  BY DEF Compensate
<1>3. TradeInv' /\ Grows
  BY <1>1, <1>2, Parts, NothingKept DEF outside, TradeInv, WorldOK
<1>4. \A m \in Range(ms) : Good(m)'
  BY <1>3, GoodStays
<1>5. Fresh({} \cup Range(ms)) /\ Answers
  BY <1>1, <1>2 DEF Fresh, Answers, outside
<1>6. Reach(h, "compensating", ms, queue) /\ Longer(queue, {})
  BY Parts, QueueLonger DEF Compensate, Start
<1>7. "compensating" \in Steps /\ "compensating" # "voided"
  BY DEF Steps
<1>8. \A m \in {} \cup Range(ms) : Good(m)'
  BY <1>4
<1>9. BusInv'
  BY <1>2, <1>3, <1>5, <1>6, <1>7, <1>8, Parts, HandlerKeeps
<1>. QED  BY <1>3, <1>9 DEF IInv

LEMMA FlightFailedKeeps ==
  ASSUME IInv, OnFlightBookingFailed
  PROVE  IInv'
<1> DEFINE h == "FlightBookingFailed"
<1>1. h \in Handlers /\ queue[h] # <<>>
  BY TypesAre DEF OnFlightBookingFailed, Ready
<1>2. PICK c \in Message : /\ c = Current(h) /\ c.type = h /\ Good(c)
                           /\ c.ref \in Booking /\ c.ref \in Bundle
  BY <1>1, Hearing
<1>3. PICK b \in Bundle : b = c.ref /\ Refused(b)
  BY <1>2 DEF Good
<1>4. CASE Compensate(h, b, CancelCommands(b, bundles[b].inbound) \o RefundCommands(b))
  <2> DEFINE cs == CancelCommands(b, bundles[b].inbound)
             rs == RefundCommands(b)
             ms == cs \o rs
  <2>1. /\ cs \in Seq(Message)
        /\ \A m \in Range(cs) : Good(m) /\ m.type = "CancelFlightTickets"
    <3>1. bundles[b].inbound \in Nat /\ "inbound" \in Legs
      BY Parts DEF Rows, Legs
    <3>2. bundles[b].inbound # 0 => Bought(b, "inbound", bundles[b].inbound)
      BY Parts DEF Backed
    <3>. QED  BY <1>3, <3>1, <3>2, CancelsGood
  <2>2. rs \in Seq(Message) /\ \A m \in Range(rs) : Good(m) /\ m.type = "RefundTicket"
    BY <1>3, RefundsGood
  <2>. HIDE DEF cs, rs
  <2>3. ms \in Seq(Message) /\ Range(ms) = Range(cs) \cup Range(rs)
    BY <2>1, <2>2, RangeConcatenation, ConcatProperties
  <2>4. Compensate(h, b, ms)
    BY <1>4 DEF cs, rs
  <2>. HIDE DEF ms
  <2>5. \A m \in Range(ms) : Good(m) /\ m.type \notin Ordering
    BY <2>1, <2>2, <2>3 DEF Ordering
  <2>. QED  BY <1>1, <2>3, <2>4, <2>5, CompensateKeeps
<1>5. CASE Start(h, "sending", <<>>) /\ Others
  <2>1. UNCHANGED <<bundles, sales, outside, announced, lastKey, transport, voided>>
    BY <1>5 DEF Others, outside
  <2>2. TradeInv' /\ Grows
    BY <2>1, Parts, NothingKept DEF outside, TradeInv, WorldOK
  <2>3. "sending" \in Steps /\ "sending" # "voided"
    BY DEF Steps
  <2>4. BusInv'
    BY <1>1, <1>5, <2>1, <2>2, <2>3, Parts, SilentKeeps DEF Start
  <2>. QED  BY <2>2, <2>4 DEF IInv
<1>. QED  BY <1>2, <1>3, <1>4, <1>5 DEF OnFlightBookingFailed

LEMMA TaxiFailedKeeps ==
  ASSUME IInv, OnTaxiBookingFailed
  PROVE  IInv'
<1> DEFINE h == "TaxiBookingFailed"
<1>1. h \in Handlers /\ queue[h] # <<>>
  BY TypesAre DEF OnTaxiBookingFailed, Ready
<1>2. PICK c \in Message : /\ c = Current(h) /\ c.type = h /\ Good(c)
                           /\ c.ref \in Booking /\ c.ref \in Bundle
  BY <1>1, Hearing
<1>3. PICK b \in Bundle : b = c.ref /\ Refused(b)
  BY <1>2 DEF Good
<1> DEFINE rs == RefundCommands(b)
           is == CancelCommands(b, bundles[b].inbound)
           os == CancelCommands(b, bundles[b].return)
           fs == rs \o is
           ms == fs \o os
<1>4. Compensate(h, b, ms)
  BY <1>2, <1>3 DEF OnTaxiBookingFailed
<1>5. rs \in Seq(Message) /\ \A m \in Range(rs) : Good(m) /\ m.type = "RefundTicket"
  BY <1>3, RefundsGood
<1>6. /\ is \in Seq(Message)
      /\ \A m \in Range(is) : Good(m) /\ m.type = "CancelFlightTickets"
  <2>1. bundles[b].inbound \in Nat /\ "inbound" \in Legs
    BY Parts DEF Rows, Legs
  <2>2. bundles[b].inbound # 0 => Bought(b, "inbound", bundles[b].inbound)
    BY Parts DEF Backed
  <2>. QED  BY <1>3, <2>1, <2>2, CancelsGood
<1>7. /\ os \in Seq(Message)
      /\ \A m \in Range(os) : Good(m) /\ m.type = "CancelFlightTickets"
  <2>1. bundles[b].return \in Nat /\ "return" \in Legs
    BY Parts DEF Rows, Legs
  <2>2. bundles[b].return # 0 => Bought(b, "return", bundles[b].return)
    BY Parts DEF Backed
  <2>. QED  BY <1>3, <2>1, <2>2, CancelsGood
<1>. HIDE DEF rs, is, os
<1>8. fs \in Seq(Message) /\ Range(fs) = Range(rs) \cup Range(is)
  BY <1>5, <1>6, RangeConcatenation, ConcatProperties
<1>. HIDE DEF fs
<1>9. ms \in Seq(Message) /\ Range(ms) = Range(fs) \cup Range(os)
  BY <1>7, <1>8, RangeConcatenation, ConcatProperties
<1>. HIDE DEF ms
<1>10. \A m \in Range(ms) : Good(m) /\ m.type \notin Ordering
  BY <1>5, <1>6, <1>7, <1>8, <1>9 DEF Ordering
<1>. QED  BY <1>1, <1>4, <1>9, <1>10, CompensateKeeps

(* The end of a compensation. *)
LEMMA CloseKeeps ==
  ASSUME IInv, NEW h \in {"FlightBookingFailed", "TaxiBookingFailed"}, CloseFailed(h)
  PROVE  IInv'
<1>1. h \in Handlers /\ queue[h] # <<>>
  BY TypesAre, Parts DEF CloseFailed, BusOK
<1>2. PICK c \in Message : /\ c = Current(h) /\ c.type = h /\ Good(c)
                           /\ c.ref \in Booking /\ c.ref \in Bundle
  BY <1>1, Hearing
<1>3. PICK b \in Bundle : b = c.ref /\ b \in Booking /\ Refused(b)
  BY <1>2 DEF Good
<1>4. PICK m : m = Finalized(b, FALSE)
  OBVIOUS
<1>5. m \in Message /\ m.type = "VipBundleFinalizedFailed" /\ m.ref = b
  BY <1>3, <1>4, Fields, TypesAre DEF Finalized
<1>6. PICK row : row = [bundles[b] EXCEPT !.finalized = TRUE, !.failed = TRUE]
  OBVIOUS
<1>7. row \in Rows /\ Backed(b, row) /\ RowGrows(bundles[b], row) /\ row.finalized /\ row.failed
  BY <1>3, <1>6, Parts DEF Backed, Rows, RowGrows
<1>8. TradeInv' /\ Grows /\ bundles'[b] = row
  BY <1>2, <1>3, <1>6, <1>7, Parts, RowKept DEF CloseFailed, Update
<1>9. Good(m)'
  <2>1. Refused(b)'
    BY <1>3, <1>8 DEF Refused, Grows
  <2>. QED  BY <1>3, <1>5, <1>7, <1>8, <2>1 DEF Good, Ordering
<1>10. Fresh({m}) /\ Answers
  BY <1>5, Parts DEF Fresh, Ordering, Answers, CloseFailed, outside
<1>11. Reach(h, "sending", <<m>>, queue)
  BY <1>2, <1>3, <1>4 DEF CloseFailed
<1>12. BusInv'
  BY <1>1, <1>8, <1>9, <1>10, <1>11, Parts, SenderKeeps DEF CloseFailed
<1>. QED  BY <1>8, <1>12 DEF IInv
-----------------------------------------------------------------------------
(* The show tickets are booked, or had been. *)
LEMMA ShowKeeps ==
  ASSUME IInv, BookShowTickets
  PROVE  IInv'
<1> DEFINE h == "BookShowTickets"
<1>1. h \in Handlers /\ queue[h] # <<>>
  BY TypesAre DEF BookShowTickets, Ready
<1>2. PICK c \in Message : /\ c = Current(h) /\ c.type = h
                           /\ c.ref \in Booking /\ c.ref \in Bundle
  BY <1>1, Hearing
<1>3. PICK b \in Bundle : b = c.ref /\ b \in Booking
  BY <1>2
<1>4. UNCHANGED <<bundles, confirmed, outside, announced, lastKey, transport, voided>>
  BY DEF BookShowTickets, outside
<1>5. lastKey' \in Nat /\ lastKey <= lastKey' /\ Answers
  BY <1>4, Parts DEF Answers
<1>6. "sending" \in Steps /\ "sending" # "voided"
  BY DEF Steps
<1>7. CASE Sales!Make(b) /\ Reach(h, "sending", <<>>, Post(queue, About("BookingMade", b)))
  <2>1. PICK m : m = About("BookingMade", b)
    OBVIOUS
  <2>2. m \in Message /\ m.type = "BookingMade" /\ m.ref = b
    BY <1>3, <2>1, Fields, TypesAre
  <2>3. TradeInv' /\ Grows /\ outcome'[b] = "made"
    BY <1>3, <1>4, <1>7, Parts, VerdictKept DEF Sales!Make
  <2>4. Good(m)'
    BY <2>2, <2>3 DEF Good, Ordering
  <2>5. Longer(Post(queue, m), {m})
    BY <2>2, Parts, PostLonger
  <2> DEFINE ms == <<>>
             q == Post(queue, m)
             ps == {m}
  <2>6. ms \in Seq(Message) /\ Range(ms) = {} /\ Reach(h, "sending", ms, q) /\ ms = <<>>
    BY <1>7, <2>1, RangeEmpty
  <2>7. Longer(q, ps)
    BY <2>5
  <2>. HIDE DEF ms, q
  <2>8. Fresh(ps \cup Range(ms)) /\ \A n \in ps \cup Range(ms) : Good(n)'
    <3>1. ps \cup Range(ms) = {m}
      BY <2>6
    <3>2. Fresh({m}) /\ \A n \in {m} : Good(n)'
      BY <1>5, <2>2, <2>4 DEF Fresh, Ordering
    <3>. QED  BY <3>1, <3>2
  <2>. HIDE DEF ps
  <2>9. BusInv'
    BY <1>1, <1>4, <1>5, <1>6, <2>3, <2>6, <2>7, <2>8, Parts, HandlerKeeps
  <2>. QED  BY <2>3, <2>9 DEF IInv
<1>8. CASE outcome[b] = "made" /\ Start(h, "sending", <<>>) /\ UNCHANGED outcome
  <2>1. TradeInv' /\ Grows
    BY <1>4, <1>8, Parts, NothingKept DEF outside, sales, TradeInv, WorldOK
  <2>2. BusInv'
    BY <1>1, <1>4, <1>6, <1>8, <2>1, Parts, SilentKeeps DEF Start
  <2>. QED  BY <2>1, <2>2 DEF IInv
<1>9. CASE /\ Sales!Refuse(b) \/ (outcome[b] = "refused" /\ UNCHANGED outcome)
           /\ Start(h, "sending", <<About("BookingFailed", b)>>)
  <2>1. PICK m : m = About("BookingFailed", b)
    OBVIOUS
  <2>2. m \in Message /\ m.type = "BookingFailed" /\ m.ref = b
    BY <1>3, <2>1, Fields, TypesAre
  <2>3. TradeInv' /\ Grows /\ outcome'[b] = "refused"
    <3>1. CASE Sales!Refuse(b)
      BY <1>3, <1>4, <3>1, Parts, VerdictKept DEF Sales!Refuse
    <3>2. CASE outcome[b] = "refused" /\ UNCHANGED outcome
      BY <1>4, <3>2, Parts, NothingKept DEF outside, sales, TradeInv, WorldOK
    <3>. QED  BY <1>9, <3>1, <3>2
  <2>4. Good(m)'
    BY <2>2, <2>3, <1>3 DEF Good, Ordering
  <2>5. Fresh({m})
    BY <1>5, <2>2 DEF Fresh, Ordering
  <2>6. BusInv'
    BY <1>1, <1>4, <1>5, <1>9, <2>1, <2>3, <2>4, <2>5, Parts, SenderKeeps DEF Start
  <2>. QED  BY <2>3, <2>6 DEF IInv
<1>. QED  BY <1>2, <1>3, <1>7, <1>8, <1>9 DEF BookShowTickets

(* A leg is asked for. *)
LEMMA AskerKeeps ==
  ASSUME IInv, NEW h \in Ordering, h \in Handlers, queue[h] # <<>>,
         NEW c \in Message, c = Current(h), Good(c), c.type = h,
         NEW status \in {"booked", "refused"}, Ask(c, c.leg, status),
         UNCHANGED <<bundles, sales, cancelled, voided, refunds, announced, lastKey>>,
         NEW m \in Message, m.ref = c.ref, m.leg = c.leg,
         \/ /\ status = "booked" /\ m.key = c.key
            /\ m.type = IF h = "BookFlight" THEN "FlightBooked" ELSE "TaxiBooked"
         \/ /\ status = "refused"
            /\ m.type \in {"FlightBookingFailed", "TaxiBookingFailed"},
         Reach(h, "sending", <<m>>, queue)
  PROVE  IInv'
<1>1. c \in Orders
  <2>1. queue[h] \in Seq(Message)
    BY Parts DEF BusOK
  <2>2. c \in Range(queue[h])
    BY <2>1, RangeTail DEF Current
  <2>. QED  BY <2>2 DEF Orders, Held
<1>2. /\ TradeInv' /\ Grows /\ Answers
      /\ \E a \in transport' :
           a.key = c.key /\ a.ref = c.ref /\ a.leg = c.leg /\ a.status = status
  BY <1>1, AskKept
<1>3. Good(c)'
  BY <1>2, GoodStays
<1>4. Good(m)'
  <2>1. CASE /\ status = "booked" /\ m.key = c.key
             /\ m.type = IF h = "BookFlight" THEN "FlightBooked" ELSE "TaxiBooked"
    <3>1. Bought(m.ref, m.leg, m.key)'
      BY <1>2, <2>1 DEF Bought
    <3>2. /\ c.key # 0 /\ Ahead(c.ref, c.leg)' /\ c.ref \in Bundle
          /\ h = "BookFlight" => c.leg \in {"inbound", "return"}
          /\ h = "BookTaxi" => c.leg = "taxi"
      BY <1>3 DEF Good, Ordering
    <3>3. Ahead(m.ref, m.leg)'
      BY <3>2
    <3>. QED  BY <2>1, <3>1, <3>2, <3>3 DEF Good, Ordering
  <2>2. CASE /\ status = "refused"
             /\ m.type \in {"FlightBookingFailed", "TaxiBookingFailed"}
    <3>1. Refused(m.ref)' /\ m.ref \in Bundle
      BY <1>2, <1>3, <2>2 DEF Refused, Good, Ordering
    <3>. QED  BY <2>2, <3>1 DEF Good, Ordering
  <2>. QED  BY <2>1, <2>2
<1>5. Fresh({m})
  BY Parts DEF Fresh, Ordering
<1>6. BusInv'
  BY <1>2, <1>4, <1>5, Parts, SenderKeeps
<1>. QED  BY <1>2, <1>6 DEF IInv

LEMMA BookFlightKeeps ==
  ASSUME IInv, BookFlight
  PROVE  IInv'
<1> DEFINE h == "BookFlight"
<1>1. h \in Handlers /\ queue[h] # <<>> /\ h \in Ordering
  BY TypesAre DEF BookFlight, Ready, Ordering
<1>2. PICK c \in Message : /\ c = Current(h) /\ c.type = h /\ Good(c) /\ c.ref \in Booking
  BY <1>1, Hearing
<1>3. c.leg \in Legs \cup {"none"} /\ c.key \in Nat /\ 0 \in Nat
  BY DEF Message
<1>4. UNCHANGED <<bundles, sales, cancelled, voided, refunds, announced, lastKey>>
  BY DEF BookFlight
<1>5. CASE /\ Ask(c, c.leg, "booked")
           /\ Start(h, "sending", <<Flight("FlightBooked", c.ref, c.leg, c.key)>>)
  <2>1. PICK m : m = Flight("FlightBooked", c.ref, c.leg, c.key)
    OBVIOUS
  <2>2. m \in Message /\ m.type = "FlightBooked" /\ m.ref = c.ref /\ m.leg = c.leg /\ m.key = c.key
    BY <1>2, <1>3, <2>1, Fields, TypesAre
  <2>3. Reach(h, "sending", <<m>>, queue)
    BY <1>5, <2>1 DEF Start
  <2>. QED  BY <1>1, <1>2, <1>4, <1>5, <2>2, <2>3, AskerKeeps
<1>6. CASE /\ Ask(c, c.leg, "refused")
           /\ Start(h, "sending", <<Flight("FlightBookingFailed", c.ref, c.leg, 0)>>)
  <2>1. PICK m : m = Flight("FlightBookingFailed", c.ref, c.leg, 0)
    OBVIOUS
  <2>2. m \in Message /\ m.type = "FlightBookingFailed" /\ m.ref = c.ref /\ m.leg = c.leg
    <3>1. "FlightBookingFailed" \in Types
      BY TypesAre
    <3>. QED  BY <1>2, <1>3, <2>1, <3>1, Fields
  <2>3. Reach(h, "sending", <<m>>, queue)
    BY <1>6, <2>1 DEF Start
  <2>. QED  BY <1>1, <1>2, <1>4, <1>6, <2>2, <2>3, AskerKeeps
<1>. QED  BY <1>2, <1>5, <1>6 DEF BookFlight

LEMMA BookTaxiKeeps ==
  ASSUME IInv, BookTaxi
  PROVE  IInv'
<1> DEFINE h == "BookTaxi"
<1>1. h \in Handlers /\ queue[h] # <<>> /\ h \in Ordering
  BY TypesAre DEF BookTaxi, Ready, Ordering
<1>2. PICK c \in Message : /\ c = Current(h) /\ c.type = h /\ Good(c) /\ c.ref \in Booking
  BY <1>1, Hearing
<1>3. c.leg = "taxi" /\ c.key \in Nat /\ 0 \in Nat
  BY <1>2 DEF Message, Good
<1>4. UNCHANGED <<bundles, sales, cancelled, voided, refunds, announced, lastKey>>
  BY DEF BookTaxi
<1>5. CASE /\ Ask(c, "taxi", "booked")
           /\ Start(h, "sending", <<Taxi("TaxiBooked", c.ref, c.key)>>)
  <2>1. PICK m : m = Taxi("TaxiBooked", c.ref, c.key)
    OBVIOUS
  <2>2. m \in Message /\ m.type = "TaxiBooked" /\ m.ref = c.ref /\ m.leg = c.leg /\ m.key = c.key
    BY <1>2, <1>3, <2>1, Fields, TypesAre
  <2>3. Reach(h, "sending", <<m>>, queue) /\ Ask(c, c.leg, "booked")
    BY <1>3, <1>5, <2>1 DEF Start
  <2>. QED  BY <1>1, <1>2, <1>4, <2>2, <2>3, AskerKeeps
<1>6. CASE /\ Ask(c, "taxi", "refused")
           /\ Start(h, "sending", <<Taxi("TaxiBookingFailed", c.ref, 0)>>)
  <2>1. PICK m : m = Taxi("TaxiBookingFailed", c.ref, 0)
    OBVIOUS
  <2>2. m \in Message /\ m.type = "TaxiBookingFailed" /\ m.ref = c.ref /\ m.leg = c.leg
    BY <1>2, <1>3, <2>1, Fields, TypesAre
  <2>3. Reach(h, "sending", <<m>>, queue) /\ Ask(c, c.leg, "refused")
    BY <1>3, <1>6, <2>1 DEF Start
  <2>. QED  BY <1>1, <1>2, <1>4, <2>2, <2>3, AskerKeeps
<1>. QED  BY <1>2, <1>5, <1>6 DEF BookTaxi

(* Flight tickets are cancelled. *)
LEMMA CancelKeeps ==
  ASSUME IInv, CancelFlightTickets
  PROVE  IInv'
<1> DEFINE h == "CancelFlightTickets"
<1>1. h \in Handlers /\ queue[h] # <<>>
  BY TypesAre DEF CancelFlightTickets, Ready
<1>2. PICK c \in Message : /\ c = Current(h) /\ c.type = h /\ Good(c) /\ c.ref \in Bundle
  BY <1>1, Hearing
<1>3. c.key \in Nat /\ Refused(c.ref) /\ \E leg \in Legs : Bought(c.ref, leg, c.key)
  BY <1>2 DEF Good, Message
<1>4. /\ cancelled' = cancelled \cup {c.key}
      /\ UNCHANGED <<bundles, sales, transport, voided, refunds, announced, lastKey>>
      /\ Reach(h, "sending", <<>>, queue)
  BY <1>2 DEF CancelFlightTickets, Start
<1>5. Grows
  BY <1>4 DEF Grows, RowGrows, sales
<1>6. TradeInv'
  <2>1. BundlesOK' /\ LegsInOrder'
    BY <1>4, Parts DEF TradeInv, BundlesOK, Backed, Bought, LegsInOrder, sales
  <2>2. WorldOK'
    BY <1>3, <1>4, Parts DEF TradeInv, WorldOK, sales
  <2>3. DoneOK'
    BY <1>2, <1>3, <1>4, Parts DEF TradeInv, DoneOK, Refused, Bought, sales
  <2>. QED  BY <2>1, <2>2, <2>3 DEF TradeInv
<1>7. "sending" \in Steps /\ "sending" # "voided"
  BY DEF Steps
<1>8. BusInv'
  BY <1>1, <1>4, <1>5, <1>7, Parts, SilentKeeps
<1>. QED  BY <1>6, <1>8 DEF IInv

(* A receipt is voided, then its ticket is paid back. *)
LEMMA VoidKeeps ==
  ASSUME IInv, VoidReceipt
  PROVE  IInv'
<1> DEFINE h == "RefundTicket"
<1>1. h \in Handlers /\ queue[h] # <<>>
  BY TypesAre DEF VoidReceipt, Ready
<1>2. PICK c \in Message : c = Current(h) /\ c.ref \in Booking
  BY <1>1, Hearing
<1>3. c.ticket \in Nat
  BY DEF Message
<1>4. /\ voided' = voided \cup {<<c.ref, c.ticket>>}
      /\ UNCHANGED <<bundles, sales, transport, cancelled, refunds, announced, lastKey>>
      /\ Reach(h, "voided", <<>>, queue)
  BY <1>2 DEF VoidReceipt, Start
<1>5. voided' \subseteq Booking \X Nat
  BY <1>2, <1>3, <1>4, Parts DEF WorldOK
<1>6. TradeInv' /\ Grows
  BY <1>4, <1>5, Parts, NothingKept
<1>7. "voided" \in Steps /\ <<Current(h).ref, Current(h).ticket>> \in voided'
  BY <1>2, <1>4 DEF Steps
<1>8. BusInv'
  BY <1>1, <1>4, <1>6, <1>7, Parts, SilentKeeps
<1>. QED  BY <1>6, <1>8 DEF IInv

LEMMA PaymentKeeps ==
  ASSUME IInv, RefundPayment
  PROVE  IInv'
<1> DEFINE h == "RefundTicket"
<1>1. h \in Handlers /\ queue[h] # <<>>
  BY TypesAre, Parts DEF RefundPayment, BusOK
<1>2. PICK c \in Message : /\ c = Current(h) /\ c.type = h /\ Good(c)
                           /\ c.ref \in Booking /\ c.ref \in Bundle
  BY <1>1, Hearing
<1>3. /\ c.key \in Nat /\ c.ticket \in Nat /\ 0 \in Nat
      /\ Refused(c.ref) /\ <<c.ref, c.ticket>> \in confirmed
  BY <1>2 DEF Good, Message
<1>4. <<c.ref, c.ticket>> \in voided
  BY <1>2, Parts DEF RefundPayment, BusInv, VoidInv
<1>5. PICK r : r = [ref |-> c.ref, ticket |-> c.ticket, key |-> c.key]
  OBVIOUS
<1>6. r \in [ref : Bundle, ticket : Nat, key : Nat] /\ r.ref = c.ref /\ r.ticket = c.ticket
  BY <1>2, <1>3, <1>5
<1>7. PICK m : m = OfTicket("TicketRefunded", c.ref, c.ticket, 0)
  OBVIOUS
<1>8. m \in Message /\ m.type = "TicketRefunded" /\ m.ref = c.ref
  BY <1>2, <1>3, <1>7, Fields, TypesAre
<1>9. /\ refunds' = refunds \cup {r}
      /\ UNCHANGED <<bundles, sales, transport, cancelled, voided, announced, lastKey>>
      /\ Reach(h, "sending", <<m>>, queue)
  BY <1>2, <1>5, <1>7 DEF RefundPayment
<1>10. Grows
  BY <1>9 DEF Grows, RowGrows, sales
<1>11. TradeInv'
  <2>1. BundlesOK' /\ LegsInOrder'
    BY <1>9, Parts DEF TradeInv, BundlesOK, Backed, Bought, LegsInOrder, sales
  <2>2. WorldOK'
    BY <1>6, <1>9, Parts DEF TradeInv, WorldOK, sales
  <2>3. DoneOK'
    BY <1>3, <1>4, <1>6, <1>9, Parts DEF TradeInv, DoneOK, Refused, Bought, sales
  <2>. QED  BY <2>1, <2>2, <2>3 DEF TradeInv
<1>12. Good(m)'
  BY <1>2, <1>8 DEF Good, Ordering
<1>13. Fresh({m}) /\ Answers
  BY <1>8, <1>9, Parts DEF Fresh, Ordering, Answers
<1>14. BusInv'
  BY <1>1, <1>9, <1>10, <1>12, <1>13, Parts, SenderKeeps
<1>. QED  BY <1>11, <1>14 DEF IInv
-----------------------------------------------------------------------------
LEMMA DeliveryKeeps ==
  ASSUME IInv, NEW h \in Handlers, Deliver(h) \/ Fail(h)
  PROVE  IInv'
<1>1. /\ UNCHANGED <<bundles, sales, transport, cancelled, voided, refunds, lastKey>>
      /\ \/ SendNext(h) /\ announced' \subseteq announced \cup {Head(todo[h])}
         \/ (Ack(h) \/ Retry(h) \/ Crash(h) \/ Claim(h)) /\ UNCHANGED announced
  BY DEF Deliver, Fail, Send, Others, outside
<1>2. TradeInv' /\ Grows
  BY <1>1, Parts, NothingKept DEF WorldOK
<1>3. BusInv'
  BY <1>1, <1>2, Parts, RouterKeeps
<1>. QED  BY <1>2, <1>3 DEF IInv

LEMMA StepIInv ==
  IInv /\ [Next]_vars => IInv'
<1> SUFFICES ASSUME IInv, [Next]_vars PROVE IInv'
  OBVIOUS
<1>1. ASSUME \/ \E b \in Bundle : BookVipBundle(b)
             \/ \E p \in PlainBooking : BookTickets(p)
             \/ DeadNation
      PROVE  IInv'
  BY <1>1, CustomersKeep
<1>2. ASSUME ProcessManager PROVE IInv'
  BY <1>2, InitializedKeeps, MadeKeeps, ConfirmedKeeps, FailedKeeps, FlightKeeps,
     FlightFailedKeeps, TaxiKeeps, TaxiFailedKeeps, CloseKeeps DEF ProcessManager
<1>3. ASSUME CommandHandlers PROVE IInv'
  BY <1>3, ShowKeeps, BookFlightKeeps, BookTaxiKeeps, CancelKeeps, VoidKeeps, PaymentKeeps
  DEF CommandHandlers
<1>4. ASSUME NEW h \in Handlers, Deliver(h) \/ Fail(h) PROVE IInv'
  BY <1>4, DeliveryKeeps
<1>5. ASSUME UNCHANGED vars PROVE IInv'
  <2>1. UNCHANGED <<bundles, outcome, confirmed, transport, cancelled, voided, refunds,
                    announced, lastKey, queue, lost, at, todo, faults>>
    BY <1>5 DEF vars, sales, outside
  <2>2. TradeInv' /\ Grows
    BY <2>1, Parts, NothingKept DEF WorldOK, sales
  <2>3. BusOK' /\ KeysInv' /\ VoidInv' /\ HonestBus'
    BY <2>1, <2>2, Parts, GoodStays
    DEF BusInv, BusOK, KeysInv, Orders, Held, VoidInv, Current, HonestBus
  <2>. QED  BY <2>2, <2>3 DEF IInv, BusInv
<1>. QED  BY <1>1, <1>2, <1>3, <1>4, <1>5 DEF Next

LEMMA Inductive ==
  Spec => []IInv
<1>. QED  BY InitIInv, StepIInv, PTL DEF Spec

(* The variables keep their types: no handler leaves a message, a bundle   *)
(* or an answer of another form behind, whatever fails half-way.           *)
THEOREM TypeCorrect ==
  Spec => []TypeOK
<1>1. IInv => TypeOK
  <2> SUFFICES ASSUME IInv PROVE TypeOK
    OBVIOUS
  <2>1. announced \subseteq Message
    BY DEF IInv, BusInv, HonestBus, Good
  <2>. QED
    BY <2>1 DEF IInv, BusInv, TradeInv, BusOK, BundlesOK, Rows, WorldOK, TypeOK
<1>. QED  BY <1>1, Inductive, PTL

(* OnBookingMade, OnFlightBooked: a leg is asked for only once the bundle  *)
(* has recorded what comes before it.                                      *)
THEOREM LegsFollow ==
  Spec => []LegsInOrder
<1>1. IInv => LegsInOrder
  BY DEF IInv, TradeInv
<1>. QED  BY <1>1, Inductive, PTL

LEMMA Verdicts ==
  ASSUME IInv
  PROVE  VerdictIsBacked
<1> SUFFICES ASSUME NEW b \in Bundle
             PROVE  /\ Succeeded(b) => SuccessIsBacked(b)
                    /\ Failed(b) => FailureIsBacked(b)
  BY DEF VerdictIsBacked
<1>1. b \in Booking /\ Backed(b, bundles[b])
  BY Parts, BundleBookings
<1>2. ASSUME Succeeded(b) PROVE SuccessIsBacked(b)
  <2>1. PICK m : m = Finalized(b, TRUE)
    OBVIOUS
  <2>2. m.type = "VipBundleFinalized" /\ m.ref = b
    BY <1>1, <2>1, Fields, TypesAre DEF Finalized
  <2>3. Good(m)
    BY <1>2, <2>1 DEF Succeeded, IInv, BusInv, HonestBus
  <2>4. /\ bundles[b].finalized /\ bundles[b].bookingMade
        /\ bundles[b].inbound # 0 /\ bundles[b].return # 0 /\ bundles[b].taxi # 0
    BY <2>2, <2>3 DEF Good, Ahead
  <2>. QED  BY <1>1, <2>4 DEF Backed, Bought, SuccessIsBacked, BookedKeys
<1>3. ASSUME Failed(b) PROVE FailureIsBacked(b)
  <2>1. PICK m : m = Finalized(b, FALSE)
    OBVIOUS
  <2>2. m.type = "VipBundleFinalizedFailed" /\ m.ref = b
    BY <1>1, <2>1, Fields, TypesAre DEF Finalized
  <2>3. Good(m)
    BY <1>3, <2>1 DEF Failed, IInv, BusInv, HonestBus
  <2>. QED  BY <2>2, <2>3 DEF Good, Refused, FailureIsBacked, RefusedLegs
<1>. QED  BY <1>2, <1>3

(* OnTaxiBooked, OnBookingFailed, the compensations: a bundle is announced *)
(* as complete or failed only if it is, by what the ticket service and the *)
(* transportation API have answered.                                       *)
THEOREM VerdictsBacked ==
  Spec => []VerdictIsBacked
<1>1. IInv => VerdictIsBacked
  BY Verdicts
<1>. QED  BY <1>1, Inductive, PTL

(* RefundTicket, CancelFlightTickets: only bundles with a refused leg are  *)
(* compensated, and only for what they had.                                *)
THEOREM FailuresOnly ==
  Spec => []CompensatesOnlyFailures
<1>1. IInv => CompensatesOnlyFailures
  <2>1. \A b : Refused(b) => RefusedLegs(b) # {}
    BY DEF Refused, RefusedLegs
  <2>2. \A b, leg, key : leg \in Legs /\ Bought(b, leg, key) => key \in BookedKeys(b, Legs)
    BY DEF Bought, BookedKeys
  <2>. QED  BY <2>1, <2>2 DEF IInv, TradeInv, DoneOK, CompensatesOnlyFailures
<1>. QED  BY <1>1, Inductive, PTL
-----------------------------------------------------------------------------
(* The handlers that order the legs of a bundle, ask for them and          *)
(* compensate.                                                             *)
Chain == {"BookingMade", "BookFlight", "FlightBooked", "BookTaxi",
          "FlightBookingFailed", "TaxiBookingFailed"}
(* A second run of one of these handlers on the same message orders a leg  *)
(* or a refund, or counts a ticket, once more (under another key).         *)
Once == Chain \cup {"TicketBookingConfirmed"}

(* No failure strikes them half-way. *)
OnceOnly == Faulty \cap Once = {}

Failures == {"FlightBookingFailed", "TaxiBookingFailed"}
Compensation == {"CancelFlightTickets", "RefundTicket"}
Flights == {"inbound", "return"}

Distinct(s, f) == \A i, j \in 1 .. Len(s) : f[s[i]] = f[s[j]] => i = j

ByRef == [m \in Message |-> m.ref]

(* A handler of the chain sends one message about the bundle of the one it *)
(* has, or compensates that bundle.                                        *)
ChainOK(h) ==
  /\ lost[h] = <<>>
  /\ Distinct(queue[h], ByRef)
  /\ \A m \in Range(todo[h]) :
       m.ref = Current(h).ref /\ m.type \notin {h, "TicketBookingConfirmed"}
  /\ at[h] # "voided"
  /\ at[h] = "sending" =>
       /\ todo[h] # <<>> /\ Tail(todo[h]) = <<>>
       /\ \A m \in Range(todo[h]) : m.type \notin Compensation
  /\ at[h] = "compensating" =>
       /\ h \in Failures
       /\ \A m \in Range(todo[h]) : m.type \in Compensation

Apart(h, g) == \A m \in Range(queue[h]), n \in Range(queue[g]) : m.ref # n.ref

(* Of each bundle, the chain has one message at most.                      *)
Shape ==
  /\ \A h \in Chain : ChainOK(h) /\ \A g \in Chain \ {h} : Apart(h, g)
  /\ \A h \in Handlers \ Chain : \A m \in Range(todo[h]) :
       m.type \notin Once \cup Compensation

(* What waits behind the message that is being handled, or with it. *)
Rest(h) == IF at[h] = "idle" THEN queue[h] ELSE Tail(queue[h])

Live ==
  {m \in Message : /\ m.type \in Chain
                   /\ \E h \in Chain : m \in Range(Rest(h)) \cup Range(todo[h])}

Owed ==
  {m \in Message : /\ m.type \in Compensation
                   /\ \E h \in Handlers : m \in Held(h) \cup Range(todo[h])}
-----------------------------------------------------------------------------
LEMMA DistinctAppend ==
  ASSUME NEW S, NEW s \in Seq(S), NEW x \in S, NEW f, Distinct(s, f),
         \A y \in Range(s) : f[y] # f[x]
  PROVE  Distinct(Append(s, x), f)
<1> DEFINE t == Append(s, x)
<1>1. /\ Len(t) = Len(s) + 1 /\ t[Len(s) + 1] = x /\ Len(s) \in Nat
      /\ \A i \in 1 .. Len(s) : t[i] = s[i]
  OBVIOUS
<1>2. \A i \in 1 .. Len(s) : f[s[i]] # f[x]
  BY RangeEquality
<1>. HIDE DEF t
<1>3. ASSUME NEW i \in 1 .. Len(t), NEW j \in 1 .. Len(t), f[t[i]] = f[t[j]]
      PROVE  i = j
  <2>1. CASE i \in 1 .. Len(s) /\ j \in 1 .. Len(s)
    BY <1>1, <1>3, <2>1 DEF Distinct
  <2>2. CASE i \notin 1 .. Len(s) \/ j \notin 1 .. Len(s)
    <3>1. i = Len(s) + 1 \/ j = Len(s) + 1
      BY <1>1, <2>2
    <3>2. \A k \in 1 .. Len(t) : k \in 1 .. Len(s) \/ k = Len(s) + 1
      BY <1>1
    <3>. QED  BY <1>1, <1>2, <1>3, <3>1, <3>2
  <2>. QED  BY <2>1, <2>2
<1>. QED  BY <1>3 DEF Distinct, t

LEMMA DistinctTail ==
  ASSUME NEW S, NEW s \in Seq(S), s # <<>>, NEW f, Distinct(s, f)
  PROVE  /\ Distinct(Tail(s), f)
         /\ \A y \in Range(Tail(s)) : f[y] # f[Head(s)]
<1> DEFINE t == Tail(s)
<1>1. /\ t \in Seq(S) /\ Len(s) = Len(t) + 1 /\ Len(t) \in Nat /\ Head(s) = s[1]
      /\ \A i \in 1 .. Len(t) : t[i] = s[i + 1]
  BY HeadTailProperties
<1>2. \A i \in 1 .. Len(t) : i + 1 \in 1 .. Len(s) /\ 1 \in 1 .. Len(s) /\ i + 1 # 1
  BY <1>1
<1>3. Range(t) = {t[i] : i \in 1 .. Len(t)}
  BY <1>1, RangeEquality
<1>. HIDE DEF t
<1>4. Distinct(t, f)
  BY <1>1, <1>2 DEF Distinct
<1>5. \A y \in Range(t) : f[y] # f[Head(s)]
  BY <1>1, <1>2, <1>3 DEF Distinct
<1>. QED  BY <1>4, <1>5 DEF t

(* No two messages in a queue are about the same bundle. *)
LEMMA ChainQueue ==
  ASSUME BusOK, NEW h \in Handlers, Distinct(queue[h], ByRef), queue[h] # <<>>
  PROVE  /\ Tail(queue[h]) \in Seq(Message) /\ Current(h) \in Message
         /\ Range(queue[h]) = Range(Tail(queue[h])) \cup {Current(h)}
         /\ Distinct(Tail(queue[h]), ByRef)
         /\ \A m \in Range(Tail(queue[h])) : m \in Message /\ m.ref # Current(h).ref
<1> DEFINE s == queue[h]
<1>1. s \in Seq(Message) /\ s # <<>> /\ Distinct(s, ByRef)
  BY DEF BusOK
<1>. HIDE DEF s
<1>2. Tail(s) \in Seq(Message) /\ Head(s) \in Message /\ Range(s) = Range(Tail(s)) \cup {Head(s)}
  BY <1>1, RangeTail
<1>3. Distinct(Tail(s), ByRef) /\ \A y \in Range(Tail(s)) : ByRef[y] # ByRef[Head(s)]
  BY <1>1, DistinctTail
<1>4. \A y \in Range(Tail(s)) : y \in Message
  BY <1>2, RangeOfSeq
<1>5. \A y \in Range(Tail(s)) : y.ref # Head(s).ref
  BY <1>2, <1>3, <1>4 DEF ByRef
<1>. QED  BY <1>2, <1>3, <1>4, <1>5 DEF s, Current

LEMMA ChainIs ==
  /\ \A h \in Once : h \in Handlers
  /\ \A h \in Chain : h \in Once
  /\ \A h \in Compensation : h \in Handlers /\ h \notin Once
  /\ \A h \in Failures : h \in Chain
BY DEF Once, Chain, Compensation, Failures, Handlers, Events, Commands

LEMMA QueueMessages ==
  ASSUME BusOK, NEW h \in Handlers
  PROVE  /\ \A m \in Range(queue[h]) : m \in Message
         /\ \A m \in Range(lost[h]) : m \in Message
         /\ \A m \in Range(todo[h]) : m \in Message
         /\ todo[h] = <<>> => Range(todo[h]) = {}
<1>1. queue[h] \in Seq(Message) /\ lost[h] \in Seq(Message) /\ todo[h] \in Seq(Message)
  BY DEF BusOK
<1>. QED  BY <1>1, RangeOfSeq, RangeEmpty

(* The one message of a bundle is the one that is handled, or what the     *)
(* handler makes of it.                                                    *)
LEMMA Alone ==
  ASSUME BusOK, Shape, NEW h \in Chain, queue[h] # <<>>
  PROVE  /\ \A n \in Live : n.ref = Current(h).ref =>
              IF at[h] = "idle" THEN n = Current(h) ELSE n \in Range(todo[h])
         /\ at[h] = "idle" /\ Current(h).type = h => Current(h) \in Live
<1>1. h \in Handlers /\ Distinct(queue[h], ByRef)
  BY ChainIs DEF Shape, ChainOK
<1>2. /\ Current(h) \in Message
      /\ Range(queue[h]) = Range(Tail(queue[h])) \cup {Current(h)}
      /\ \A m \in Range(Tail(queue[h])) : m.ref # Current(h).ref
  BY <1>1, ChainQueue
<1>3. ASSUME NEW g \in Chain, NEW n \in Range(Rest(g)), n.ref = Current(h).ref
      PROVE  at[h] = "idle" /\ n = Current(h)
  <2>1. n \in Range(queue[g])
    <3>1. CASE at[g] = "idle"
      BY <1>3, <3>1 DEF Rest
    <3>2. CASE at[g] # "idle"
      <4>1. queue[g] # <<>> /\ g \in Handlers /\ Distinct(queue[g], ByRef)
        BY <3>2, ChainIs DEF BusOK, Shape, ChainOK
      <4>. QED  BY <1>3, <3>2, <4>1, ChainQueue DEF Rest
    <3>. QED  BY <3>1, <3>2
  <2>2. g = h
    BY <1>2, <1>3, <2>1 DEF Shape, Apart
  <2>. QED  BY <1>2, <1>3, <2>2 DEF Rest
<1>4. ASSUME NEW g \in Chain, NEW n \in Range(todo[g]), n.ref = Current(h).ref
      PROVE  at[h] # "idle" /\ n \in Range(todo[h])
  <2>1. todo[g] # <<>> /\ g \in Handlers
    BY <1>4, ChainIs, QueueMessages
  <2>2. queue[g] # <<>> /\ at[g] # "idle" /\ Distinct(queue[g], ByRef)
    BY <2>1 DEF BusOK, Shape, ChainOK
  <2>3. n.ref = Current(g).ref /\ Current(g) \in Range(queue[g])
    BY <1>4, <2>1, <2>2, ChainQueue DEF Shape, ChainOK
  <2>4. g = h
    BY <1>2, <1>4, <2>3 DEF Shape, Apart
  <2>. QED  BY <1>4, <2>2, <2>4
<1>. QED  BY <1>2, <1>3, <1>4 DEF Live, Rest
-----------------------------------------------------------------------------
LEMMA ReachParts ==
  ASSUME BusOK, NEW g \in Handlers, NEW q \in [Handlers -> Seq(Message)],
         NEW s \in Steps, NEW ms, Reach(g, s, ms, q)
  PROVE  LET over == s = "sending" /\ ms = <<>> /\ ~MayFail(g) IN
         \A h \in Handlers :
           /\ queue'[h] = IF h = g /\ over THEN Tail(q[h]) ELSE q[h]
           /\ at'[h] = IF h # g THEN at[h] ELSE IF over THEN "idle" ELSE s
           /\ todo'[h] = IF h = g THEN ms ELSE todo[h]
           /\ lost'[h] = lost[h]
BY DEF Reach, BusOK

(* The handlers of the chain are left alone. *)
LEMMA StillShape ==
  ASSUME Shape,
         \A h \in Chain : /\ queue'[h] = queue[h] /\ lost'[h] = lost[h]
                         /\ at'[h] = at[h] /\ todo'[h] = todo[h],
         \A h \in Handlers \ Chain : \A m \in Range(todo'[h]) :
           m.type \notin Once \cup Compensation
  PROVE  Shape' /\ Live' = Live
<1>1. \A h \in Chain : ChainOK(h)' /\ \A g \in Chain \ {h} : Apart(h, g)'
  BY DEF Shape, ChainOK, Apart, Current
<1>2. Shape'
  BY <1>1 DEF Shape
<1>3. Live' = Live
  BY DEF Live, Rest
<1>. QED  BY <1>2, <1>3

(* A handler of the chain takes its message, or closes a compensation. *)
LEMMA ChainReaches ==
  ASSUME BusOK, Shape, NEW h \in Chain, ~MayFail(h),
         queue[h] # <<>>, at[h] \in {"idle", "compensating"}, todo[h] = <<>>,
         NEW s \in {"sending", "compensating"}, NEW ms \in Seq(Message),
         Reach(h, s, ms, queue),
         \A m \in Range(ms) :
           m.ref = Current(h).ref /\ m.type \notin {h, "TicketBookingConfirmed"},
         s = "sending" => /\ ms # <<>> /\ Tail(ms) = <<>>
                          /\ \A m \in Range(ms) : m.type \notin Compensation,
         s = "compensating" => h \in Failures /\ \A m \in Range(ms) : m.type \in Compensation
  PROVE  /\ Shape'
         /\ \A n : n \in Live' <=> \/ n \in Live /\ n.ref # Current(h).ref
                                   \/ n \in Range(ms) /\ n.type \in Chain
         /\ Owed' = Owed \cup {m \in Range(ms) : m.type \in Compensation}
         /\ \A g \in Handlers \ {h} : /\ queue'[g] = queue[g] /\ lost'[g] = lost[g]
                                      /\ at'[g] = at[g] /\ todo'[g] = todo[g]
<1>1. h \in Handlers /\ s \in Steps /\ queue \in [Handlers -> Seq(Message)]
  BY ChainIs DEF BusOK, Steps
<1>2. \A g \in Handlers :
        /\ queue'[g] = queue[g] /\ lost'[g] = lost[g]
        /\ at'[g] = IF g # h THEN at[g] ELSE s
        /\ todo'[g] = IF g = h THEN ms ELSE todo[g]
  <2>1. ~(s = "sending" /\ ms = <<>> /\ ~MayFail(h))
    OBVIOUS
  <2>. QED  BY <1>1, <2>1, ReachParts
<1>3. \A g \in Chain : g \in Handlers
  BY ChainIs
<1>4. Shape'
  <2>1. ASSUME NEW g \in Chain PROVE ChainOK(g)'
    <3>1. CASE g = h
      BY <1>2, <1>3, <3>1 DEF Shape, ChainOK, Current
    <3>2. CASE g # h
      BY <1>2, <1>3, <3>2 DEF Shape, ChainOK, Current
    <3>. QED  BY <3>1, <3>2
  <2>2. \A g, k \in Chain : g # k => Apart(g, k)'
    BY <1>2, <1>3 DEF Shape, Apart
  <2>. QED  BY <1>2, <2>1, <2>2 DEF Shape
<1>5. \A n \in Range(ms) : n \in Message
  BY RangeOfSeq
<1>6. ASSUME NEW n
      PROVE  n \in Live' <=> \/ n \in Live /\ n.ref # Current(h).ref
                             \/ n \in Range(ms) /\ n.type \in Chain
  <2>1. Range(todo[h]) = {} /\ Distinct(queue[h], ByRef)
    BY <1>1, QueueMessages DEF Shape, ChainOK
  <2>2. /\ \A m \in Range(Tail(queue[h])) : m.ref # Current(h).ref
        /\ Range(queue[h]) = Range(Tail(queue[h])) \cup {Current(h)}
    BY <1>1, <2>1, ChainQueue
  <2>3. ASSUME n \in Live, n.ref # Current(h).ref PROVE n \in Live'
    <3>1. PICK g \in Chain : n \in Range(Rest(g)) \cup Range(todo[g])
      BY <2>3 DEF Live
    <3>2. n \in Range(Rest(g))' \cup Range(todo[g])'
      BY <1>2, <1>3, <2>1, <2>2, <2>3, <3>1 DEF Rest
    <3>. QED  BY <2>3, <3>2 DEF Live
  <2>4. ASSUME n \in Range(ms), n.type \in Chain PROVE n \in Live'
    BY <1>1, <1>2, <1>5, <2>4 DEF Live
  <2>5. ASSUME n \in Live', n \notin Range(ms) \/ n.type \notin Chain
        PROVE  n \in Live /\ n.ref # Current(h).ref
    <3>1. PICK g \in Chain : n \in Range(Rest(g))' \cup Range(todo[g])'
      BY <2>5 DEF Live
    <3>2. n \in Range(Rest(g)) \cup Range(todo[g])
      BY <1>2, <1>3, <2>2, <2>5, <3>1 DEF Rest, Live
    <3>3. n \in Live
      BY <2>5, <3>2 DEF Live
    <3>4. n.ref # Current(h).ref
      <4>1. CASE g = h
        BY <1>2, <1>3, <2>2, <2>5, <3>1, <4>1 DEF Rest, Live
      <4>2. CASE g # h
        <5>1. Rest(g)' = Rest(g) /\ todo'[g] = todo[g]
          BY <1>2, <1>3, <4>2 DEF Rest
        <5>2. g \in Handlers /\ Distinct(queue[g], ByRef)
          BY <1>3 DEF Shape, ChainOK
        <5>3. queue[g] # <<>> => Current(g) \in Range(queue[g]) /\ Range(Tail(queue[g])) \subseteq Range(queue[g])
          BY <5>2, ChainQueue
        <5>4. at[g] # "idle" => queue[g] # <<>>
          BY <5>2 DEF BusOK
        <5>5. todo[g] # <<>> => at[g] # "idle"
          BY <5>2 DEF BusOK
        <5>6. todo[g] = <<>> => Range(todo[g]) = {}
          BY <5>2, QueueMessages
        <5>7. n \in Range(queue[g]) \/ (queue[g] # <<>> /\ n.ref = Current(g).ref)
          BY <3>1, <5>1, <5>3, <5>4, <5>5, <5>6 DEF Rest, Shape, ChainOK
        <5>. QED  BY <2>2, <4>2, <5>3, <5>7 DEF Shape, Apart
      <4>. QED  BY <4>1, <4>2
    <3>. QED  BY <3>3, <3>4
  <2>. QED  BY <2>3, <2>4, <2>5
<1>7. Owed' = Owed \cup {m \in Range(ms) : m.type \in Compensation}
  <2>1. Range(todo[h]) = {}
    BY <1>1, QueueMessages
  <2>. QED  BY <1>1, <1>2, <1>5, <2>1 DEF Owed, Held
<1>. QED  BY <1>2, <1>4, <1>6, <1>7

(* A handler of the chain sends: what it made of its message goes on, or a *)
(* command of its compensation.                                            *)
LEMMA ChainSends ==
  ASSUME BusOK, Shape, NEW h \in Chain, ~MayFail(h), SendNext(h),
         \A g \in Handlers : \A n \in Held(g) : n.type = g
  PROVE  /\ Shape' /\ Live' = Live /\ Owed' = Owed
         /\ \A g \in Handlers \ Chain :
              /\ lost'[g] = lost[g] /\ at'[g] = at[g] /\ todo'[g] = todo[g]
              /\ g = "TicketBookingConfirmed" => queue'[g] = queue[g]
<1> DEFINE l == todo[h]
<1>1. /\ l \in Seq(Message) /\ l # <<>> /\ h \in Handlers /\ queue[h] # <<>>
      /\ at[h] \in {"sending", "compensating"} /\ at[h] \in Steps
  <2>1. h \in Handlers /\ l # <<>>
    BY ChainIs DEF SendNext
  <2>2. l \in Seq(Message) /\ at[h] \in {"sending", "compensating"} /\ queue[h] # <<>>
    BY <2>1 DEF BusOK
  <2>. QED  BY <2>1, <2>2 DEF Steps
<1>2. PICK m : m = Head(l)
  OBVIOUS
<1>3. m \in Message /\ Range(l) = Range(Tail(l)) \cup {m} /\ Tail(l) \in Seq(Message)
  BY <1>1, <1>2, RangeTail
<1>4. PICK q : q = Post(queue, m)
  OBVIOUS
<1>5. /\ q \in [Handlers -> Seq(Message)]
      /\ \A g \in Handlers : q[g] = IF g = m.type THEN Append(queue[g], m) ELSE queue[g]
  BY <1>3, <1>4 DEF Post, BusOK
<1>6. Reach(h, at[h], Tail(l), q)
  BY <1>2, <1>4 DEF SendNext
<1>7. PICK over \in BOOLEAN : over = (at[h] = "sending" /\ Tail(l) = <<>> /\ ~MayFail(h))
  OBVIOUS
<1>a. PICK ms : ms = Tail(l)
  OBVIOUS
<1>8. \A g \in Handlers :
        /\ queue'[g] = IF g = h /\ over THEN Tail(q[g]) ELSE q[g]
        /\ at'[g] = IF g # h THEN at[g] ELSE IF over THEN "idle" ELSE at[h]
        /\ todo'[g] = IF g = h THEN Tail(l) ELSE todo[g]
        /\ lost'[g] = lost[g]
  <2>1. PICK s \in Steps : s = at[h]
    BY <1>1
  <2>2. Reach(h, s, ms, q)
    BY <1>6, <1>a, <2>1
  <2>4. over <=> s = "sending" /\ ms = <<>> /\ ~MayFail(h)
    BY <1>7, <1>a, <2>1
  <2>3. \A g \in Handlers :
        /\ queue'[g] = IF g = h /\ over THEN Tail(q[g]) ELSE q[g]
        /\ at'[g] = IF g # h THEN at[g] ELSE IF over THEN "idle" ELSE s
        /\ todo'[g] = IF g = h THEN ms ELSE todo[g]
        /\ lost'[g] = lost[g]
    <3>1. LET o == s = "sending" /\ ms = <<>> /\ ~MayFail(h) IN
          \A g \in Handlers :
            /\ queue'[g] = IF g = h /\ o THEN Tail(q[g]) ELSE q[g]
            /\ at'[g] = IF g # h THEN at[g] ELSE IF o THEN "idle" ELSE s
            /\ todo'[g] = IF g = h THEN ms ELSE todo[g]
            /\ lost'[g] = lost[g]
      BY <1>1, <1>5, <2>2, ReachParts
    <3>. QED  BY <2>4, <3>1
  <2>. QED  BY <2>1, <2>3, <1>a
<1>9. /\ m.ref = Current(h).ref /\ m.type # h /\ m.type # "TicketBookingConfirmed"
      /\ at[h] = "sending" => Tail(l) = <<>> /\ m.type \notin Compensation /\ over
      /\ at[h] = "compensating" =>
            h \in Failures /\ ~over /\ \A n \in Range(l) : n.type \in Compensation
  BY <1>3, <1>7 DEF Shape, ChainOK
<1>10. /\ \A n \in Range(Tail(queue[h])) : n \in Message /\ n.ref # Current(h).ref
       /\ Range(queue[h]) = Range(Tail(queue[h])) \cup {Current(h)}
       /\ Distinct(Tail(queue[h]), ByRef) /\ Tail(queue[h]) \in Seq(Message)
       /\ Current(h) \in Message
  <2>1. Distinct(queue[h], ByRef)
    BY DEF Shape, ChainOK
  <2>. QED  BY <1>1, <2>1, ChainQueue
<1>11. \A g \in Chain : g \in Handlers /\ g # "TicketBookingConfirmed"
  BY ChainIs DEF Chain
<1>. HIDE DEF l
<1>12. queue'[h] = IF over THEN Tail(queue[h]) ELSE queue[h]
  BY <1>1, <1>5, <1>8, <1>9
<1>13. ASSUME NEW g \in Handlers, g # h
       PROVE  /\ queue'[g] = IF g = m.type THEN Append(queue[g], m) ELSE queue[g]
              /\ at'[g] = at[g] /\ todo'[g] = todo[g] /\ lost'[g] = lost[g]
  BY <1>5, <1>8, <1>13
<1>14. ASSUME NEW g \in Chain, g # h
       PROVE  /\ \A n \in Range(queue[g]) : n \in Message /\ n.ref # m.ref
              /\ Range(Append(queue[g], m)) = Range(queue[g]) \cup {m}
              /\ Distinct(Append(queue[g], m), ByRef)
              /\ queue[g] # <<>> => Head(Append(queue[g], m)) = Head(queue[g])
              /\ Range(Rest(g)') = IF g = m.type THEN Range(Rest(g)) \cup {m} ELSE Range(Rest(g))
  <2>1. queue[g] \in Seq(Message) /\ g \in Handlers /\ Distinct(queue[g], ByRef)
    BY <1>11 DEF BusOK, Shape, ChainOK
  <2>2. \A n \in Range(queue[g]) : n \in Message /\ n.ref # m.ref
    BY <1>9, <1>10, <1>14, <2>1, QueueMessages DEF Shape, Apart
  <2>3. Range(Append(queue[g], m)) = Range(queue[g]) \cup {m}
    BY <1>3, <2>1, RangeAppend
  <2>4. Distinct(Append(queue[g], m), ByRef)
    <3>1. \A n \in Range(queue[g]) : ByRef[n] # ByRef[m]
      BY <1>3, <2>2 DEF ByRef
    <3>. QED  BY <1>3, <2>1, <3>1, DistinctAppend
  <2>5. queue[g] # <<>> => /\ Head(Append(queue[g], m)) = Head(queue[g])
                           /\ Tail(Append(queue[g], m)) = Append(Tail(queue[g]), m)
                           /\ Tail(queue[g]) \in Seq(Message)
    BY <2>1, HeadTailAppend, HeadTailProperties
  <2>6. queue[g] # <<>> => Range(Append(Tail(queue[g]), m)) = Range(Tail(queue[g])) \cup {m}
    <3> DEFINE t == Tail(queue[g])
    <3>1. queue[g] # <<>> => t \in Seq(Message)
      BY <2>5
    <3>. HIDE DEF t
    <3>2. queue[g] # <<>> => Range(Append(t, m)) = Range(t) \cup {m}
      BY <1>3, <3>1, RangeAppend
    <3>. QED  BY <3>2 DEF t
  <2>7. at[g] # "idle" => queue[g] # <<>>
    BY <2>1 DEF BusOK
  <2>8. Range(Rest(g)') = IF g = m.type THEN Range(Rest(g)) \cup {m} ELSE Range(Rest(g))
    BY <1>13, <1>14, <2>1, <2>3, <2>5, <2>6, <2>7 DEF Rest
  <2>. QED  BY <2>2, <2>3, <2>4, <2>5, <2>8
<1>15. Shape'
  <2>1. ASSUME NEW g \in Chain, g # h PROVE ChainOK(g)'
    <3>1. ChainOK(g) /\ g \in Handlers
      BY <1>11 DEF Shape
    <3>2. todo[g] # <<>> => queue[g] # <<>>
      BY <3>1 DEF BusOK
    <3>3. Range(todo[g]) # {} => Current(g)' = Current(g)
      BY <1>13, <1>14, <2>1, <3>1, <3>2, QueueMessages DEF Current
    <3>4. Distinct(queue'[g], ByRef)
      BY <1>13, <1>14, <2>1, <3>1 DEF ChainOK
    <3>. QED  BY <1>13, <2>1, <3>1, <3>3, <3>4 DEF ChainOK
  <2>2. ChainOK(h)'
    <3>1. todo'[h] = Tail(l) /\ lost'[h] = lost[h] /\ at'[h] = IF over THEN "idle" ELSE at[h]
      BY <1>1, <1>8
    <3>2. \A n \in Range(Tail(l)) : n \in Range(todo[h])
      BY <1>3 DEF l
    <3>3. over => Range(Tail(l)) = {}
      BY <1>7, RangeEmpty
    <3>4. ~over => Current(h)' = Current(h)
      BY <1>12 DEF Current
    <3>5. Distinct(queue'[h], ByRef)
      BY <1>10, <1>12 DEF Shape, ChainOK
    <3>6. ~over => at[h] = "compensating"
      BY <1>1, <1>9
    <3>. QED  BY <1>1, <1>9, <3>1, <3>2, <3>3, <3>4, <3>5, <3>6 DEF Shape, ChainOK
  <2>3. ASSUME NEW g \in Chain, NEW k \in Chain, g # k PROVE Apart(g, k)'
    <3>1. Apart(g, k)
      BY <2>3 DEF Shape
    <3>2. \A n \in Range(queue'[h]) : n \in Range(queue[h]) /\ (over => n.ref # m.ref)
      BY <1>9, <1>10, <1>12
    <3>3. CASE g # h /\ k # h
      <4>1. /\ Range(queue'[g]) \subseteq Range(queue[g]) \cup (IF g = m.type THEN {m} ELSE {})
            /\ Range(queue'[k]) \subseteq Range(queue[k]) \cup (IF k = m.type THEN {m} ELSE {})
        BY <1>11, <1>13, <1>14, <3>3
      <4>2. /\ \A n \in Range(queue[g]) : n.ref # m.ref
            /\ \A n \in Range(queue[k]) : n.ref # m.ref
        BY <1>14, <3>3
      <4>. QED  BY <2>3, <3>1, <4>1, <4>2 DEF Apart
    <3>4. m.type \in Chain => over
      <4>1. at[h] = "compensating" => m.type \in Compensation
        BY <1>3, <1>9
      <4>. QED  BY <1>1, <1>9, <4>1, ChainIs
    <3>5. CASE g = h
      BY <1>11, <1>13, <1>14, <2>3, <3>1, <3>2, <3>4, <3>5 DEF Apart
    <3>6. CASE k = h
      BY <1>11, <1>13, <1>14, <2>3, <3>1, <3>2, <3>4, <3>6 DEF Apart
    <3>. QED  BY <3>3, <3>5, <3>6
  <2>4. \A g \in Handlers \ Chain : g # h /\ todo'[g] = todo[g]
    BY <1>13
  <2>. QED  BY <2>1, <2>2, <2>3, <2>4 DEF Shape
<1>16. Live' = Live
  <2>1. Range(Rest(h)') = Range(Rest(h)) /\ Range(todo'[h]) = Range(Tail(l))
    BY <1>1, <1>8, <1>9, <1>12 DEF Rest
  <2>2. \A g \in Chain : g # h => todo'[g] = todo[g]
    BY <1>11, <1>13
  <2>3. m.type \in Chain => m.type # h
    BY <1>9
  <2>4. Range(todo[h]) = Range(Tail(l)) \cup {m}
    BY <1>3 DEF l
  <2>5. \A n : n \in Live' => n \in Live
    BY <1>14, <2>1, <2>2, <2>4 DEF Live
  <2>6. \A n : n \in Live => n \in Live'
    BY <1>3, <1>14, <2>1, <2>2, <2>3, <2>4 DEF Live
  <2>. QED  BY <2>5, <2>6 DEF Live
<1>17. Owed' = Owed
  <2>1. \A g \in Handlers : g # h => todo'[g] = todo[g] /\ lost'[g] = lost[g]
    BY <1>13
  <2>2. Range(todo[h]) = Range(Tail(l)) \cup {m} /\ todo'[h] = Tail(l) /\ lost'[h] = lost[h]
    BY <1>1, <1>3, <1>8 DEF l
  <2>3. \A g \in Handlers : g # h =>
          Range(queue'[g]) = IF g = m.type THEN Range(queue[g]) \cup {m} ELSE Range(queue[g])
    <3>1. \A g \in Handlers : Range(Append(queue[g], m)) = Range(queue[g]) \cup {m}
      BY <1>3, RangeAppend DEF BusOK
    <3>. QED  BY <1>13, <3>1
  <2>4. /\ Range(queue'[h]) \subseteq Range(queue[h])
        /\ \A n \in Range(queue[h]) : n \in Range(queue'[h]) \/ n = Current(h)
    BY <1>10, <1>12
  <2>5. Current(h).type \notin Compensation
    BY <1>1, <1>10, ChainIs DEF Held
  <2>6. \A n : n \in Owed' => n \in Owed
    BY <1>1, <2>1, <2>2, <2>3, <2>4 DEF Owed, Held
  <2>7. m.type \in Compensation => m.type \in Handlers /\ m.type # h
    BY ChainIs
  <2>8. \A n : n \in Owed => n \in Owed'
    BY <1>1, <1>3, <2>1, <2>2, <2>3, <2>4, <2>5, <2>7 DEF Owed, Held
  <2>. QED  BY <2>6, <2>8
<1>18. "TicketBookingConfirmed" \notin Chain
  BY DEF Chain
<1>. QED  BY <1>9, <1>13, <1>15, <1>16, <1>17, <1>18

Sorted == \A h \in Handlers : \A n \in Held(h) : n.type = h

(* What another handler leaves of the compensations: all, but perhaps the  *)
(* message it is done with.                                                *)
OwedBut(h) ==
  /\ \A n \in Owed' : n \in Owed
  /\ \A n \in Owed : n \in Owed' \/ n = Current(h)

Unheard == LET h == "TicketBookingConfirmed" IN
  queue'[h] = queue[h] /\ lost'[h] = lost[h] /\ at'[h] = at[h]

LEMMA OtherReaches ==
  ASSUME BusOK, Shape, NEW h \in Handlers \ Chain,
         queue[h] # <<>>, todo[h] = <<>>, NEW s \in Steps, NEW ms \in Seq(Message),
         Reach(h, s, ms, queue),
         \A m \in Range(ms) : m.type \notin Once \cup Compensation
  PROVE  /\ Shape' /\ Live' = Live
         /\ OwedBut(h) /\ (s # "sending" \/ ms # <<>> => Owed' = Owed)
         /\ h # "TicketBookingConfirmed" => Unheard
<1>1. h \in Handlers /\ queue \in [Handlers -> Seq(Message)]
  BY DEF BusOK
<1>2. LET over == s = "sending" /\ ms = <<>> /\ ~MayFail(h) IN
      \A g \in Handlers :
        /\ queue'[g] = IF g = h /\ over THEN Tail(queue[g]) ELSE queue[g]
        /\ at'[g] = IF g # h THEN at[g] ELSE IF over THEN "idle" ELSE s
        /\ todo'[g] = IF g = h THEN ms ELSE todo[g]
        /\ lost'[g] = lost[g]
  BY <1>1, ReachParts
<1>3. \A g \in Once : g \in Handlers
  BY ChainIs
<1>4. \A g \in Chain : g \in Handlers /\ g # h
  BY ChainIs
<1>5. \A g \in Handlers \ Chain : \A m \in Range(todo'[g]) : m.type \notin Once \cup Compensation
  BY <1>2 DEF Shape
<1>6. Shape' /\ Live' = Live
  BY <1>2, <1>4, <1>5, StillShape
<1>7. Range(todo[h]) = {} /\ \A n \in Range(ms) : n.type \notin Compensation
  BY <1>1, QueueMessages
<1>8. Range(queue[h]) = Range(Tail(queue[h])) \cup {Current(h)}
  <2>1. queue[h] \in Seq(Message)
    BY <1>1
  <2>. QED  BY <2>1, RangeTail DEF Current
<1>9. OwedBut(h) /\ (s # "sending" \/ ms # <<>> => Owed' = Owed)
  <2>1. \A g \in Handlers : g # h => queue'[g] = queue[g] /\ lost'[g] = lost[g] /\ todo'[g] = todo[g]
    BY <1>2
  <2>2. /\ Range(queue'[h]) \subseteq Range(queue[h])
        /\ \A n \in Range(queue[h]) : n \in Range(queue'[h]) \/ n = Current(h)
        /\ s # "sending" \/ ms # <<>> => queue'[h] = queue[h]
        /\ lost'[h] = lost[h] /\ todo'[h] = ms
    BY <1>1, <1>2, <1>8
  <2>3. \A n \in Owed' : n \in Owed
    BY <1>7, <2>1, <2>2 DEF Owed, Held
  <2>4. \A n \in Owed : n \in Owed' \/ (n = Current(h) /\ s = "sending" /\ ms = <<>>)
    BY <1>7, <2>1, <2>2 DEF Owed, Held
  <2>. QED  BY <2>3, <2>4 DEF OwedBut
<1>10. h # "TicketBookingConfirmed" => Unheard
  <2>1. "TicketBookingConfirmed" \in Handlers
    BY <1>3 DEF Once
  <2>. QED  BY <1>2, <2>1 DEF Unheard
<1>. QED  BY <1>6, <1>9, <1>10

LEMMA OtherDelivers ==
  ASSUME BusOK, Shape, NEW h \in Handlers \ Once,
         SendNext(h) \/ Ack(h) \/ Retry(h) \/ Crash(h) \/ Claim(h)
  PROVE  /\ Shape' /\ Live' = Live /\ Unheard
         /\ OwedBut(h) /\ (at[h] # "sending" => Owed' = Owed)
<1>1. /\ h \in Handlers /\ h \notin Chain /\ h # "TicketBookingConfirmed"
      /\ queue[h] \in Seq(Message) /\ lost[h] \in Seq(Message)
      /\ todo[h] \in Seq(Message) /\ queue \in [Handlers -> Seq(Message)]
      /\ at[h] # "idle" => queue[h] # <<>>
  BY DEF BusOK, Once
<1>2. \A g \in Once : g \in Handlers /\ g # h
  BY ChainIs
<1>3. \A g \in Chain : g \in Handlers /\ g # h /\ g \in Once
  BY ChainIs
<1>4. queue[h] # <<>> => /\ Tail(queue[h]) \in Seq(Message)
                         /\ Range(queue[h]) = Range(Tail(queue[h])) \cup {Current(h)}
                         /\ Current(h) \in Message
  BY <1>1, RangeTail DEF Current
<1>5. \A m \in Range(todo[h]) : m.type \notin Once \cup Compensation
  BY <1>1 DEF Shape
<1>6. "TicketBookingConfirmed" \in Once
  BY DEF Once
<1>7. CASE SendNext(h)
  <2>1. todo[h] # <<>> /\ queue[h] # <<>> /\ at[h] \in {"sending", "compensating"}
    BY <1>1, <1>7 DEF SendNext, BusOK
  <2>2. PICK m : m = Head(todo[h])
    OBVIOUS
  <2>3. PICK ms : ms = Tail(todo[h])
    OBVIOUS
  <2>4. m \in Message /\ ms \in Seq(Message) /\ Range(todo[h]) = Range(ms) \cup {m}
    BY <1>1, <2>1, <2>2, <2>3, RangeTail
  <2>5. PICK q : q = Post(queue, m)
    OBVIOUS
  <2>6. /\ q \in [Handlers -> Seq(Message)]
        /\ \A g \in Handlers : q[g] = IF g = m.type THEN Append(queue[g], m) ELSE queue[g]
    BY <1>1, <2>4, <2>5 DEF Post
  <2>7. PICK s \in Steps : s = at[h]
    BY <2>1 DEF Steps
  <2>8. Reach(h, s, ms, q)
    BY <1>7, <2>2, <2>3, <2>5, <2>7 DEF SendNext
  <2>9. LET over == s = "sending" /\ ms = <<>> /\ ~MayFail(h) IN
        \A g \in Handlers :
          /\ queue'[g] = IF g = h /\ over THEN Tail(q[g]) ELSE q[g]
          /\ at'[g] = IF g # h THEN at[g] ELSE IF over THEN "idle" ELSE s
          /\ todo'[g] = IF g = h THEN ms ELSE todo[g]
          /\ lost'[g] = lost[g]
    BY <1>1, <2>6, <2>8, ReachParts
  <2>10. m.type \notin Once \cup Compensation /\ \A n \in Range(ms) : n.type \notin Once \cup Compensation
    BY <1>5, <2>4
  <2>11. \A g \in Once : /\ queue'[g] = queue[g] /\ lost'[g] = lost[g]
                         /\ at'[g] = at[g] /\ todo'[g] = todo[g]
    BY <1>2, <2>6, <2>9, <2>10
  <2>12. Shape' /\ Live' = Live
    <3>1. \A g \in Handlers \ Chain : \A n \in Range(todo'[g]) : n.type \notin Once \cup Compensation
      BY <2>9, <2>10 DEF Shape
    <3>. QED  BY <1>3, <2>11, <3>1, StillShape
  <2>13. \A g \in Handlers : Range(q[g]) = IF g = m.type THEN Range(queue[g]) \cup {m} ELSE Range(queue[g])
    <3>1. \A g \in Handlers : Range(Append(queue[g], m)) = Range(queue[g]) \cup {m}
      BY <1>1, <2>4, RangeAppend
    <3>. QED  BY <2>6, <3>1
  <2>14. q[h] # <<>> /\ Head(q[h]) = Current(h) /\ Range(q[h]) = Range(Tail(q[h])) \cup {Head(q[h])}
    <3>1. q[h] # <<>> /\ Head(q[h]) = Head(queue[h]) /\ q[h] \in Seq(Message)
      <4>1. Append(queue[h], m) # <<>> /\ Head(Append(queue[h], m)) = Head(queue[h])
        BY <1>1, <2>1, <2>4
      <4>. QED  BY <1>1, <2>1, <2>6, <4>1
    <3>. QED  BY <3>1, RangeTail DEF Current
  <2>15. \A n \in Owed' : n \in Owed
    <3>1. \A g \in Handlers : Range(queue'[g]) \subseteq Range(q[g])
      BY <2>9, <2>14
    <3>. QED  BY <2>4, <2>9, <2>10, <2>13, <3>1 DEF Owed, Held
  <2>16. \A n \in Owed : n \in Owed' \/ (n = Current(h) /\ at[h] = "sending")
    <3>1. \A g \in Handlers : \A n \in Range(q[g]) :
            n \in Range(queue'[g]) \/ (n = Current(h) /\ at[h] = "sending")
      BY <2>7, <2>9, <2>14
    <3>2. \A n \in Owed : \A g \in Handlers :
            /\ n \in Range(queue[g]) => n \in Range(q[g])
            /\ n \in Range(todo[g]) => n \in Range(todo'[g])
      BY <1>5, <2>9, <2>13 DEF Owed
    <3>. QED  BY <2>9, <3>1, <3>2 DEF Owed, Held
  <2>. QED  BY <1>6, <2>11, <2>12, <2>15, <2>16 DEF OwedBut, Unheard
<1>8. CASE Ack(h) \/ Retry(h) \/ Crash(h) \/ Claim(h)
  <2>1. /\ \A g \in Handlers : g # h => /\ queue'[g] = queue[g] /\ lost'[g] = lost[g]
                                        /\ at'[g] = at[g] /\ todo'[g] = todo[g]
        /\ todo'[h] = todo[h] \/ todo'[h] = <<>>
    BY <1>1, <1>8 DEF Ack, Retry, Crash, Claim, BusOK
  <2>2. Shape' /\ Live' = Live
    <3>1. \A g \in Handlers \ Chain : \A n \in Range(todo'[g]) : n.type \notin Once \cup Compensation
      BY <2>1, RangeEmpty DEF Shape
    <3>. QED  BY <1>3, <2>1, <3>1, StillShape
  <2>3. Unheard
    BY <1>2, <1>6, <2>1 DEF Unheard
  <2>4. /\ Held(h)' \subseteq Held(h)
        /\ \A n \in Held(h) : n \in Held(h)' \/ (n = Current(h) /\ at[h] = "sending")
    <3>1. CASE Ack(h)
      BY <1>1, <1>4, <3>1 DEF Ack, Held, BusOK
    <3>2. CASE Retry(h)
      BY <1>1, <3>2 DEF Retry, Held
    <3>3. CASE Crash(h)
      <4>1. Range(Append(lost[h], Current(h))) = Range(lost[h]) \cup {Current(h)}
        BY <1>1, <1>4, <3>3, RangeAppend DEF Crash
      <4>2. queue'[h] = Tail(queue[h]) /\ lost'[h] = Append(lost[h], Current(h)) /\ queue[h] # <<>>
        BY <1>1, <3>3 DEF Crash, BusOK
      <4>. QED  BY <1>4, <4>1, <4>2 DEF Held
    <3>4. CASE Claim(h)
      <4>1. PICK i \in 1 .. Len(lost[h]) :
              /\ queue' = [queue EXCEPT ![h] = <<lost[h][i]>> \o @]
              /\ lost' = [lost EXCEPT ![h] = RemoveAt(@, i)]
        BY <3>4 DEF Claim
      <4>2. /\ lost[h][i] \in Message
            /\ Range(lost[h]) = Range(RemoveAt(lost[h], i)) \cup {lost[h][i]}
        BY <1>1, RangeRemoveAt
      <4> DEFINE x == lost[h][i]
                 r == RemoveAt(lost[h], i)
                 p == <<x>> \o queue[h]
      <4>. HIDE DEF x, r
      <4>3. Range(p) = Range(queue[h]) \cup {x}
        BY <1>1, <4>2, RangePush DEF x
      <4>. HIDE DEF p
      <4>4. queue'[h] = p /\ lost'[h] = r
        BY <1>1, <4>1 DEF p, r, x, BusOK
      <4>. QED  BY <4>2, <4>3, <4>4 DEF Held, x, r
    <3>. QED  BY <1>8, <3>1, <3>2, <3>3, <3>4
  <2>5. \A n \in Owed' : n \in Owed
    BY <1>5, <2>1, <2>4, RangeEmpty DEF Owed, Held
  <2>6. \A n \in Owed : n \in Owed' \/ (n = Current(h) /\ at[h] = "sending")
    <3>1. \A n \in Owed : \A g \in Handlers : n \in Range(todo[g]) => g # h
      BY <1>5 DEF Owed
    <3>. QED  BY <2>1, <2>4, <3>1 DEF Owed, Held
  <2>. QED  BY <2>2, <2>3, <2>5, <2>6 DEF OwedBut
<1>. QED  BY <1>7, <1>8

(* The handlers that must not run twice do not. *)
LEMMA NeverTwice ==
  ASSUME BusOK, Shape, OnceOnly, NEW h \in Chain
  PROVE  ~MayFail(h) /\ ~(Ack(h) \/ Retry(h) \/ Crash(h) \/ Claim(h))
<1>1. h \in Once /\ ChainOK(h)
  BY ChainIs DEF Shape
<1>2. ~MayFail(h)
  BY <1>1 DEF OnceOnly, MayFail
<1>. QED  BY <1>1, <1>2 DEF ChainOK, Ack, Retry, Crash, Claim
-----------------------------------------------------------------------------
(* What was paid back or will be, and what was cancelled or will be. *)
Repaying ==
  {[ref |-> m.ref, ticket |-> m.ticket, key |-> m.key] :
     m \in {n \in Owed : n.type = "RefundTicket"}} \cup refunds

Cancelling ==
  {m.key : m \in {n \in Owed : n.type = "CancelFlightTickets"}} \cup cancelled

After(leg) ==
  IF leg = "inbound" THEN {"return", "taxi"} ELSE IF leg = "return" THEN {"taxi"} ELSE {}

(* The legs the API was not asked for yet, of the bundle m is about. *)
Left(m) ==
  IF m.type = "BookingMade" THEN Legs
  ELSE IF m.type \in Ordering THEN After(m.leg) \cup {m.leg}
  ELSE After(m.leg)

RowKey(b, leg) == IF leg = "inbound" THEN bundles[b].inbound ELSE bundles[b].return

Waits(b) == \E m \in Live : m.ref = b

RefusedFlight(b) ==
  \E a \in transport : a.ref = b /\ a.status = "refused" /\ a.leg \in Flights

(* While the chain of a bundle runs, nothing of it is compensated; and but *)
(* for its last leg everything was booked.                                 *)
Open(m) ==
  /\ \A a \in transport : a.ref = m.ref =>
       /\ m.type \notin Failures => a.status = "booked" /\ a.leg \notin Left(m)
       /\ m.type = "FlightBookingFailed" /\ a.status = "booked" => a.leg = "inbound"
       /\ m.type = "TaxiBookingFailed" /\ a.status = "refused" => a.leg = "taxi"
  /\ \A x \in Repaying : x.ref # m.ref

AllOpen == \A m \in Live : Open(m)

(* The API is asked for a leg once, and for none after it refused one. *)
AskedOnce ==
  \A a, d \in transport : a.ref = d.ref =>
    /\ ~(a.status = "refused" /\ d.leg = "taxi" /\ d.status = "booked")
    /\ a.leg = d.leg => a = d
    /\ a.key # 0

(* A flight that was booked is in the bundle, or on its way there. *)
Recorded ==
  \A a \in transport : a.status = "booked" /\ a.leg \in Flights =>
    \/ RowKey(a.ref, a.leg) = a.key
    \/ \E m \in Live : /\ m.type = "FlightBooked" /\ m.ref = a.ref
                       /\ m.leg = a.leg /\ m.key = a.key

Released ==
  \A b \in Bundle : Refused(b) /\ ~Waits(b) =>
    \A a \in transport :
      a.ref = b /\ a.status = "booked" /\ a.leg \in Flights => a.key \in Cancelling

Repaid ==
  \A b \in Bundle : RefusedFlight(b) /\ ~Waits(b) =>
    \A i \in 1 .. Size[b] : \E x \in Repaying : x.ref = b /\ x.ticket = i

RefundKeys ==
  \A x, y \in Repaying : x.ref = y.ref /\ x.ticket = y.ticket => x.key = y.key

View == AllOpen /\ AskedOnce /\ Recorded /\ Released /\ Repaid /\ RefundKeys
-----------------------------------------------------------------------------
LEMMA ViewSame ==
  ASSUME View, WorldOK, Live' = Live, transport' = transport, Repaying' = Repaying,
         Cancelling \subseteq Cancelling',
         \A b \in Bundle, leg \in Flights : RowKey(b, leg)' = RowKey(b, leg)
  PROVE  View'
<1>0. \A a \in transport : a.ref \in Bundle
  BY DEF WorldOK
<1>1. AllOpen' /\ AskedOnce'
  BY DEF View, AllOpen, Open, AskedOnce
<1>2. Recorded'
  BY <1>0 DEF View, Recorded
<1>3. Released' /\ Repaid' /\ RefundKeys'
  BY DEF View, Released, Repaid, RefundKeys, Refused, RefusedFlight, Waits
<1>. QED  BY <1>1, <1>2, <1>3 DEF View

(* A booking is made. *)
LEMMA ViewMade ==
  ASSUME View, WorldOK, NEW m, m.type = "BookingMade",
         \A a \in transport : a.ref # m.ref, \A x \in Repaying : x.ref # m.ref,
         Live' = Live \cup {m}, transport' = transport, Repaying' = Repaying,
         Cancelling' = Cancelling, bundles' = bundles
  PROVE  View'
<1>1. AllOpen'
  BY DEF View, AllOpen, Open
<1>2. AskedOnce' /\ Recorded'
  BY DEF View, AskedOnce, Recorded, RowKey
<1>3. Released' /\ Repaid' /\ RefundKeys'
  BY DEF View, Released, Repaid, RefundKeys, Refused, RefusedFlight, Waits
<1>. QED  BY <1>1, <1>2, <1>3 DEF View

(* The next leg is ordered. *)
LEMMA ViewOrdered ==
  ASSUME View, WorldOK, NEW c \in Live, NEW m,
         c.type \in {"BookingMade", "FlightBooked"}, m.type \in Ordering,
         m.ref = c.ref, Left(m) = Left(c), \A n \in Live : n.ref = c.ref => n = c,
         \A n : n \in Live' <=> (n \in Live /\ n.ref # c.ref) \/ n = m,
         transport' = transport, Repaying' = Repaying, Cancelling' = Cancelling,
         \A b \in Bundle, leg \in Flights :
           \/ RowKey(b, leg)' = RowKey(b, leg)
           \/ c.type = "FlightBooked" /\ b = c.ref /\ leg = c.leg,
         c.type = "FlightBooked" =>
           /\ c.ref \in Bundle /\ c.leg \in Flights /\ Bought(c.ref, c.leg, c.key)
           /\ RowKey(c.ref, c.leg)' = c.key
  PROVE  View'
<1>0. \A a \in transport : a.ref \in Bundle
  BY DEF WorldOK
<1>1. c.type \notin Failures /\ m.type \notin Failures
  BY DEF Failures, Ordering
<1>2. AllOpen'
  <2>1. \A x \in Repaying : x.ref # m.ref
    BY DEF View, AllOpen, Open
  <2>2. \A a \in transport : a.ref = m.ref => a.status = "booked" /\ a.leg \notin Left(m)
    BY <1>1 DEF View, AllOpen, Open
  <2>3. Open(m)'
    BY <1>1, <2>1, <2>2 DEF Open, Left, Ordering, Failures
  <2>4. \A n \in Live : Open(n) => Open(n)'
    BY DEF Open
  <2>. QED  BY <2>3, <2>4 DEF View, AllOpen
<1>3. AskedOnce'
  BY DEF View, AskedOnce
<1>4. Recorded'
  <2> SUFFICES ASSUME NEW a \in transport, a.status = "booked", a.leg \in Flights
               PROVE  \/ RowKey(a.ref, a.leg)' = a.key
                      \/ \E n \in Live' : /\ n.type = "FlightBooked" /\ n.ref = a.ref
                                          /\ n.leg = a.leg /\ n.key = a.key
    BY DEF Recorded
  <2>1. CASE c.type = "FlightBooked" /\ a.ref = c.ref /\ a.leg = c.leg
    <3>1. PICK d \in transport : d.ref = c.ref /\ d.leg = c.leg /\ d.key = c.key
      BY <2>1 DEF Bought
    <3>2. a = d
      BY <2>1, <3>1 DEF View, AskedOnce
    <3>. QED  BY <2>1, <3>1, <3>2
  <2>2. CASE ~(c.type = "FlightBooked" /\ a.ref = c.ref /\ a.leg = c.leg)
    <3>1. RowKey(a.ref, a.leg)' = RowKey(a.ref, a.leg)
      BY <1>0, <2>2
    <3>2. CASE RowKey(a.ref, a.leg) = a.key
      BY <3>1, <3>2
    <3>3. ASSUME NEW n \in Live, n.type = "FlightBooked", n.ref = a.ref,
                 n.leg = a.leg, n.key = a.key
          PROVE  n \in Live'
      <4>1. n # c
        BY <2>2, <3>3
      <4>. QED  BY <4>1
    <3>. QED  BY <3>2, <3>3 DEF View, Recorded
  <2>. QED  BY <2>1, <2>2
<1>5. \A b : Waits(b)' <=> Waits(b)
  BY DEF Waits
<1>6. Released' /\ Repaid' /\ RefundKeys'
  BY <1>5 DEF View, Released, Repaid, RefundKeys, Refused, RefusedFlight
<1>. QED  BY <1>2, <1>3, <1>4, <1>6 DEF View

(* The API answers; a taxi that is booked ends the chain. *)
LEMMA ViewAnswered ==
  ASSUME View, WorldOK, NEW c \in Live, NEW m, NEW a,
         c.type \in Ordering, c.leg \in Legs, c.key # 0,
         \A n \in Live : n.ref = c.ref => n = c,
         a.ref = c.ref, a.leg = c.leg, a.key = c.key,
         m.ref = c.ref, m.leg = c.leg,
         \/ /\ a.status = "booked" /\ c.leg \in Flights
            /\ m.type = "FlightBooked" /\ m.key = c.key
         \/ a.status = "booked" /\ c.leg = "taxi" /\ m.type = "TaxiBooked"
         \/ a.status = "refused" /\ c.leg \in Flights /\ m.type = "FlightBookingFailed"
         \/ a.status = "refused" /\ c.leg = "taxi" /\ m.type = "TaxiBookingFailed",
         \A n : n \in Live' <=> (n \in Live /\ n.ref # c.ref) \/ (n = m /\ m.type \in Chain),
         transport' = transport \cup {a}, bundles' = bundles,
         Repaying' = Repaying, Cancelling' = Cancelling
  PROVE  View'
<1>0. \A d \in transport : d.ref \in Bundle /\ d.leg \in Legs
  BY DEF WorldOK
<1>1. \A d \in transport : d.ref = c.ref =>
        d.status = "booked" /\ d.leg # c.leg /\ d.leg \notin After(c.leg)
  BY DEF View, AllOpen, Open, Left, Ordering, Failures
<1>2. AllOpen'
  <2>1. \A x \in Repaying : x.ref # m.ref
    BY DEF View, AllOpen, Open
  <2>2. ASSUME m.type \in Chain PROVE Open(m)'
    <3>1. \A d \in transport' : d = a \/ d \in transport
      OBVIOUS
    <3>2. CASE m.type = "FlightBooked"
      BY <1>1, <2>1, <3>1, <3>2 DEF Open, Left, Ordering, Failures, After, Flights
    <3>3. CASE m.type = "FlightBookingFailed"
      BY <1>0, <1>1, <2>1, <3>1, <3>3 DEF Open, Failures, After, Flights, Legs
    <3>4. CASE m.type = "TaxiBookingFailed"
      BY <1>1, <2>1, <3>1, <3>4 DEF Open, Failures
    <3>. QED  BY <2>2, <3>2, <3>3, <3>4 DEF Chain
  <2>3. \A n \in Live : n.ref # c.ref /\ Open(n) => Open(n)'
    BY DEF Open
  <2>. QED  BY <2>2, <2>3 DEF View, AllOpen
<1>3. AskedOnce'
  <2>1. \A d, e \in transport : d.ref = e.ref =>
          /\ ~(d.status = "refused" /\ e.leg = "taxi" /\ e.status = "booked")
          /\ d.leg = e.leg => d = e
          /\ d.key # 0
    BY DEF View, AskedOnce
  <2>2. \A d \in transport : d.ref = a.ref =>
          /\ d.status = "booked" /\ d.leg # a.leg
          /\ d.leg = "taxi" => a.status = "booked"
    BY <1>1 DEF After, Flights, Legs
  <2>. QED  BY <2>1, <2>2 DEF AskedOnce
<1>4. Recorded'
  <2>1. ASSUME a.status = "booked", a.leg \in Flights
        PROVE  \E n \in Live' : /\ n.type = "FlightBooked" /\ n.ref = a.ref
                                /\ n.leg = a.leg /\ n.key = a.key
    <3>1. m.type = "FlightBooked" /\ m.key = c.key
      BY <2>1 DEF Flights
    <3>. QED  BY <3>1 DEF Chain
  <2>2. ASSUME NEW d \in transport, d.status = "booked", d.leg \in Flights
        PROVE  \/ RowKey(d.ref, d.leg)' = d.key
               \/ \E n \in Live' : /\ n.type = "FlightBooked" /\ n.ref = d.ref
                                   /\ n.leg = d.leg /\ n.key = d.key
    <3>1. RowKey(d.ref, d.leg)' = RowKey(d.ref, d.leg)
      BY DEF RowKey
    <3>2. ASSUME NEW n \in Live, n.type = "FlightBooked" PROVE n \in Live'
      BY <3>2 DEF Ordering
    <3>. QED  BY <2>2, <3>1, <3>2 DEF View, Recorded
  <2>. QED  BY <2>1, <2>2 DEF Recorded
<1>5. ASSUME NEW b \in Bundle, ~Waits(b)', Refused(b)'
      PROVE  /\ b # c.ref /\ ~Waits(b) /\ Refused(b)
             /\ RefusedFlight(b)' => RefusedFlight(b)
             /\ \A d \in transport' : d.ref = b => d \in transport
  <2>1. b # c.ref
    <3>1. CASE m.type \in Chain
      BY <1>5, <3>1 DEF Waits
    <3>2. CASE m.type \notin Chain
      <4>1. a.status = "booked"
        BY <3>2 DEF Chain
      <4>. QED  BY <1>1, <1>5, <4>1 DEF Refused
    <3>. QED  BY <3>1, <3>2
  <2>. QED  BY <1>5, <2>1 DEF Waits, Refused, RefusedFlight
<1>6. Released'
  BY <1>5 DEF View, Released
<1>7. Repaid'
  <2>1. \A b : RefusedFlight(b)' => Refused(b)'
    BY DEF RefusedFlight, Refused
  <2>. QED  BY <1>5, <2>1 DEF View, Repaid
<1>8. RefundKeys'
  BY DEF View, RefundKeys
<1>. QED  BY <1>2, <1>3, <1>4, <1>6, <1>7, <1>8 DEF View

(* A bundle is compensated. *)
LEMMA ViewCompensated ==
  ASSUME View, WorldOK, NEW c \in Live, c.type \in Failures,
         \A n \in Live : n.ref = c.ref => n = c,
         \A n : n \in Live' <=> n \in Live /\ n.ref # c.ref,
         transport' = transport, bundles' = bundles,
         Repaying \subseteq Repaying', Cancelling \subseteq Cancelling',
         \A x \in Repaying' : x \in Repaying \/ x.ref = c.ref,
         \A x, y \in Repaying' \ Repaying : x.ticket = y.ticket => x.key = y.key,
         RowKey(c.ref, "inbound") # 0 => RowKey(c.ref, "inbound") \in Cancelling',
         c.type = "TaxiBookingFailed" /\ RowKey(c.ref, "return") # 0 =>
           RowKey(c.ref, "return") \in Cancelling',
         c.type = "FlightBookingFailed" =>
           \A i \in 1 .. Size[c.ref] : \E x \in Repaying' : x.ref = c.ref /\ x.ticket = i
  PROVE  View'
<1>1. c.type \in {"FlightBookingFailed", "TaxiBookingFailed"}
  BY DEF Failures
<1>2. AllOpen'
  <2>1. \A n \in Live : n.ref # c.ref /\ Open(n) => Open(n)'
    BY DEF Open
  <2>. QED  BY <2>1 DEF View, AllOpen
<1>3. AskedOnce'
  BY DEF View, AskedOnce
<1>4. Recorded'
  BY <1>1 DEF View, Recorded, RowKey
<1>5. \A b : Waits(b)' <=> Waits(b) /\ b # c.ref
  BY DEF Waits
<1>6. Released'
  <2> SUFFICES ASSUME NEW b \in Bundle, Refused(b)', ~Waits(b)',
                      NEW a \in transport, a.ref = b, a.status = "booked", a.leg \in Flights
               PROVE  a.key \in Cancelling'
    BY DEF Released
  <2>1. CASE b # c.ref
    BY <1>5, <2>1 DEF View, Released, Refused
  <2>2. CASE b = c.ref
    <3>1. RowKey(a.ref, a.leg) = a.key /\ a.key # 0
      BY <1>1, <2>2 DEF View, Recorded, AskedOnce
    <3>2. c.type = "FlightBookingFailed" => a.leg = "inbound"
      BY <2>2 DEF View, AllOpen, Open
    <3>. QED  BY <1>1, <2>2, <3>1, <3>2 DEF Flights
  <2>. QED  BY <2>1, <2>2
<1>7. Repaid'
  <2> SUFFICES ASSUME NEW b \in Bundle, RefusedFlight(b)', ~Waits(b)', NEW i \in 1 .. Size[b]
               PROVE  \E x \in Repaying' : x.ref = b /\ x.ticket = i
    BY DEF Repaid
  <2>1. CASE b # c.ref
    BY <1>5, <2>1 DEF View, Repaid, RefusedFlight
  <2>2. CASE b = c.ref
    <3>1. c.type # "TaxiBookingFailed"
      BY <2>2 DEF View, AllOpen, Open, RefusedFlight, Flights
    <3>. QED  BY <1>1, <2>2, <3>1
  <2>. QED  BY <2>1, <2>2
<1>8. RefundKeys'
  BY DEF View, RefundKeys, AllOpen, Open
<1>. QED  BY <1>2, <1>3, <1>4, <1>6, <1>7, <1>8 DEF View
-----------------------------------------------------------------------------
(* Once its handler is done with it, a ticket is paid back and a flight is *)
(* cancelled.                                                              *)
Done ==
  /\ at["CancelFlightTickets"] # "idle" => Current("CancelFlightTickets").key \in cancelled
  /\ at["RefundTicket"] = "sending" =>
       LET m == Current("RefundTicket") IN
       [ref |-> m.ref, ticket |-> m.ticket, key |-> m.key] \in refunds

LEMMA DoneKept ==
  ASSUME Done, NEW g, NEW s, Moves(g, s),
         cancelled \subseteq cancelled', refunds \subseteq refunds',
         g = "CancelFlightTickets" => Current(g).key \in cancelled' \/ s = at[g],
         g = "RefundTicket" =>
           \/ s \in {"voided", at[g]}
           \/ [ref |-> Current(g).ref, ticket |-> Current(g).ticket, key |-> Current(g).key]
                \in refunds'
  PROVE  Done'
<1>1. "CancelFlightTickets" \in Handlers /\ "RefundTicket" \in Handlers
  BY TypesAre
<1>. QED  BY <1>1 DEF Done, Moves

LEMMA ReachMoves ==
  ASSUME BusOK, NEW g \in Handlers, queue[g] # <<>>, NEW q, NEW ps, Longer(q, ps),
         NEW ms, NEW s, Reach(g, s, ms, q)
  PROVE  Moves(g, s)
BY DEF Reach, Longer, Moves, Current, BusOK

LEMMA StartMoves ==
  ASSUME BusOK, NEW g \in Handlers, NEW ms, NEW s, Start(g, s, ms)
  PROVE  Moves(g, s)
BY QueueLonger, ReachMoves DEF Start, Ready

LEMMA DoneStep ==
  ASSUME IInv, Done, [Next]_vars
  PROVE  Done'
<1>0. BusOK
  BY Parts
<1>1. ASSUME NEW g, NEW s, Moves(g, s), UNCHANGED <<cancelled, refunds>>,
             g \notin Compensation \/ s = at[g] \/ (g = "RefundTicket" /\ s = "voided")
      PROVE  Done'
  BY <1>1, DoneKept DEF Compensation
<1>2. ASSUME UNCHANGED <<lost, at, todo>>, NEW ns, Longer(queue', ns), UNCHANGED <<cancelled, refunds>>
      PROVE  Done'
  <2>1. Moves("none", "none")
    BY <1>0, <1>2 DEF BusOK, Longer, Moves, Current
  <2>2. "none" \notin Compensation
    BY DEF Compensation
  <2>. QED  BY <1>1, <1>2, <2>1, <2>2
<1>3. ASSUME NEW h \in Handlers \ Compensation, NEW s, NEW ms, Start(h, s, ms),
             UNCHANGED <<cancelled, refunds>>
      PROVE  Done'
  BY <1>0, <1>1, <1>3, StartMoves
<1>4. CASE \/ \E b \in Bundle : BookVipBundle(b)
           \/ \E p \in PlainBooking : BookTickets(p)
           \/ DeadNation
  <2>1. PICK m : m \in Message /\ UNCHANGED <<lost, at, todo, cancelled, refunds>>
                 /\ (queue' = queue \/ queue' = Post(queue, m))
    <3>1. ASSUME NEW b \in Bundle, BookVipBundle(b) PROVE About("VipBundleInitialized", b) \in Message
      BY <3>1, Fields, TypesAre, BundleBookings
    <3>2. ASSUME NEW p \in PlainBooking, BookTickets(p) PROVE About("BookingMade", p) \in Message
      BY <3>2, Fields, TypesAre DEF Booking
    <3>3. ASSUME NEW k \in Booking, NEW i \in 1 .. Size[k], ConfirmTicket(k, i)
          PROVE  OfTicket("TicketBookingConfirmed", k, i, 0) \in Message
      <4>1. i \in Nat /\ 0 \in Nat
        BY BookingAssumption
      <4>. QED  BY <4>1, Fields, TypesAre
    <3>. QED  BY <1>4, <3>1, <3>2, <3>3 DEF BookVipBundle, BookTickets, DeadNation, ConfirmTicket, outside
  <2>2. Longer(queue', {m})
    <3>1. Longer(queue, {m})
      BY <1>0 DEF Longer, BusOK
    <3>. QED  BY <1>0, <2>1, <3>1, PostLonger
  <2>. QED  BY <1>2, <2>1, <2>2
<1>5. CASE ProcessManager
  <2>1. \A h \in Events : h \in Handlers \ Compensation
    BY DEF Handlers, Events, Compensation
  <2>2. UNCHANGED <<cancelled, refunds>>
    BY <1>5 DEF ProcessManager, OnVipBundleInitialized, OnBookingMade, OnTicketBookingConfirmed,
         OnBookingFailed, OnFlightBooked, OnFlightBookingFailed, OnTaxiBooked, OnTaxiBookingFailed,
         CloseFailed, Compensate, Others, outside
  <2>3. \/ \E h \in Events : \E s, ms : Start(h, s, ms)
        \/ \E h \in Events : at[h] = "compensating" /\ \E s, ms : Reach(h, s, ms, queue)
    BY <1>5 DEF ProcessManager, OnVipBundleInitialized, OnBookingMade, OnTicketBookingConfirmed,
         OnBookingFailed, OnFlightBooked, OnFlightBookingFailed, OnTaxiBooked, OnTaxiBookingFailed,
         CloseFailed, Compensate, Events
  <2>4. ASSUME NEW h \in Events, at[h] = "compensating", NEW s, NEW ms, Reach(h, s, ms, queue)
        PROVE  Done'
    <3>1. queue[h] # <<>> /\ h \in Handlers \ Compensation
      BY <1>0, <2>1, <2>4 DEF BusOK
    <3>2. Moves(h, s)
      BY <1>0, <2>4, <3>1, QueueLonger, ReachMoves
    <3>. QED  BY <1>1, <2>2, <3>1, <3>2
  <2>. QED  BY <1>3, <2>1, <2>2, <2>3, <2>4
<1>6. CASE BookShowTickets
  <2>1. UNCHANGED <<cancelled, refunds>> /\ queue["BookShowTickets"] # <<>>
    BY <1>6 DEF BookShowTickets, outside, Ready
  <2>2. "BookShowTickets" \in Handlers \ Compensation
    BY DEF Handlers, Commands, Compensation
  <2>3. PICK b \in Booking : b = Current("BookShowTickets").ref
    BY <2>1, <2>2, Hearing
  <2>4. Longer(Post(queue, About("BookingMade", b)), {About("BookingMade", b)})
    BY <1>0, Fields, TypesAre, PostLonger
  <2>5. \/ Reach("BookShowTickets", "sending", <<>>, Post(queue, About("BookingMade", b)))
        \/ \E s, ms : Start("BookShowTickets", s, ms)
    BY <1>6, <2>3 DEF BookShowTickets
  <2>6. Moves("BookShowTickets", "sending") \/ \E s : Moves("BookShowTickets", s)
    BY <1>0, <2>1, <2>2, <2>4, <2>5, ReachMoves, StartMoves
  <2>. QED  BY <1>1, <2>1, <2>2, <2>6
<1>7. CASE BookFlight \/ BookTaxi
  <2>1. PICK h \in {"BookFlight", "BookTaxi"} : \E s, ms : Start(h, s, ms)
    BY <1>7 DEF BookFlight, BookTaxi
  <2>2. h \in Handlers \ Compensation
    BY DEF Handlers, Commands, Compensation
  <2>. QED  BY <1>3, <1>7, <2>1, <2>2 DEF BookFlight, BookTaxi
<1>8. CASE CancelFlightTickets
  <2>1. Moves("CancelFlightTickets", "sending")
    BY <1>0, <1>8, StartMoves, TypesAre DEF CancelFlightTickets
  <2>. QED  BY <1>8, <2>1, DoneKept DEF CancelFlightTickets
<1>9. CASE VoidReceipt
  <2>1. Moves("RefundTicket", "voided")
    BY <1>0, <1>9, StartMoves, TypesAre DEF VoidReceipt
  <2>. QED  BY <1>1, <1>9, <2>1 DEF VoidReceipt
<1>10. CASE RefundPayment
  <2>1. "RefundTicket" \in Handlers /\ queue["RefundTicket"] # <<>>
    BY <1>0, <1>10, TypesAre DEF RefundPayment, BusOK
  <2>2. Moves("RefundTicket", "sending")
    BY <1>0, <1>10, <2>1, QueueLonger, ReachMoves DEF RefundPayment
  <2>. QED  BY <1>10, <2>2, DoneKept DEF RefundPayment
<1>11. ASSUME NEW h \in Handlers, Deliver(h) \/ Fail(h) PROVE Done'
  <2>1. Moves(h, at[h])
    BY <1>0, <1>11, SendNextAdds, BusAddsNothing DEF Deliver, Fail, Send
  <2>. QED  BY <1>1, <1>11, <2>1 DEF Deliver, Fail, Send, Others, outside
<1>12. CASE UNCHANGED vars
  BY <1>12 DEF vars, outside, Done, Current
<1>. QED
  BY <1>4, <1>5, <1>6, <1>7, <1>8, <1>9, <1>10, <1>11, <1>12 DEF Next, CommandHandlers
-----------------------------------------------------------------------------
LEMMA Sorting ==
  ASSUME IInv
  PROVE  Sorted
BY DEF IInv, BusInv, HonestBus, Sorted

(* The handler of a command that is done with it has seen to it. *)
LEMMA Paid ==
  ASSUME IInv, Done, NEW h \in Handlers, queue[h] # <<>>, OwedBut(h),
         at[h] # "sending" => Owed' = Owed, UNCHANGED <<cancelled, refunds>>
  PROVE  Repaying' = Repaying /\ Cancelling' = Cancelling
<1> DEFINE Due(m) == [ref |-> m.ref, ticket |-> m.ticket, key |-> m.key]
<1>1. Current(h).type = h
  BY CurrentMessage, Parts DEF BusInv
<1>2. \A n \in Owed : n \in Owed' \/ (n = Current(h) /\ at[h] = "sending")
  BY DEF OwedBut
<1>3. \A n \in Owed : n.type = "RefundTicket" => n \in Owed' \/ Due(n) \in refunds
  BY <1>1, <1>2 DEF Done
<1>4. \A n \in Owed : n.type = "CancelFlightTickets" => n \in Owed' \/ n.key \in cancelled
  BY <1>1, <1>2 DEF Done
<1>5. \A n \in Owed' : n \in Owed
  BY DEF OwedBut
<1>6. Repaying' = Repaying
  BY <1>3, <1>5 DEF Repaying
<1>7. Cancelling' = Cancelling
  BY <1>4, <1>5 DEF Cancelling
<1>. QED  BY <1>6, <1>7

LEMMA SameDues ==
  ASSUME Owed' = Owed, refunds' = refunds
  PROVE  Repaying' = Repaying
BY DEF Repaying

LEMMA MoreCancelled ==
  ASSUME Owed' = Owed, cancelled \subseteq cancelled'
  PROVE  Cancelling \subseteq Cancelling'
BY DEF Cancelling

(* A message is published by a customer, or by BookShowTickets with the    *)
(* booking it makes.                                                       *)
LEMMA Published ==
  ASSUME IInv, IInv', Shape, NEW m \in Message,
         m.type \in Handlers \ (Once \cup Compensation) \/ m.type = "BookingMade",
         NEW g \in Handlers \ (Once \cup Compensation),
         \A h \in Handlers \ {g} : /\ queue'[h] = Post(queue, m)[h] /\ lost'[h] = lost[h]
                                   /\ at'[h] = at[h] /\ todo'[h] = todo[h],
         todo'[g] \in {<<>>, todo[g]},
         m.type = "BookingMade" => \A h \in Chain : \A n \in Range(queue[h]) : n.ref # m.ref
  PROVE  /\ Shape' /\ Owed' = Owed /\ Unheard
         /\ Live' = IF m.type = "BookingMade" THEN Live \cup {m} ELSE Live
<1>0. BusOK /\ BusOK' /\ Sorted /\ Sorted'
  <2>1. Sorted'
    BY DEF IInv, BusInv, HonestBus, Sorted
  <2>. QED  BY <2>1, Parts, Sorting DEF IInv, BusInv
<1>1. \A h \in Chain : h \in Handlers \ {g} /\ h \in Once
  BY ChainIs
<1>2. \A h \in Handlers \ {g} :
        queue'[h] = IF h = m.type THEN Append(queue[h], m) ELSE queue[h]
  BY DEF Post
<1>3. ASSUME NEW h \in Chain, h # m.type \/ m.type # "BookingMade"
      PROVE  /\ queue'[h] = queue[h] /\ lost'[h] = lost[h]
             /\ at'[h] = at[h] /\ todo'[h] = todo[h]
  BY <1>1, <1>2, <1>3
<1>4. "BookingMade" \in Chain /\ "TicketBookingConfirmed" \in Handlers \ {g}
      /\ "TicketBookingConfirmed" \in Once
  BY ChainIs DEF Chain, Once
<1>5. Unheard
  BY <1>2, <1>4 DEF Unheard, Chain
<1>6. \A h \in Handlers \ Chain : \A n \in Range(todo'[h]) : n.type \notin Once \cup Compensation
  <2>1. \A h \in Handlers \ Chain : todo'[h] = todo[h] \/ todo'[h] = <<>>
    OBVIOUS
  <2>. QED  BY <2>1, RangeEmpty DEF Shape
<1>7. Owed' = Owed
  <2>1. \A h \in Compensation : h \in Handlers \ {g}
    BY ChainIs
  <2>2. \A h \in Compensation : Held(h)' = Held(h)
    BY <1>2, <1>4, <2>1, ChainIs DEF Held
  <2>3. \A h \in Handlers : \A n : n.type \in Compensation =>
          /\ n \in Held(h) => h = n.type
          /\ n \in Held(h)' => h = n.type
    BY <1>0 DEF Sorted
  <2>4. \A h \in Handlers : \A n : n.type \in Compensation =>
          (n \in Range(todo'[h]) <=> n \in Range(todo[h]))
    <3>1. \A n \in Range(todo[g]) : n.type \notin Compensation
      BY ChainIs DEF Shape
    <3>2. \A n \in Range(todo'[g]) : n.type \notin Compensation
      BY <1>6, ChainIs
    <3>. QED  BY <3>1, <3>2
  <2>. QED  BY <2>2, <2>3, <2>4 DEF Owed
<1>8. CASE m.type # "BookingMade"
  BY <1>3, <1>5, <1>6, <1>7, <1>8, StillShape
<1>9. CASE m.type = "BookingMade"
  <2> DEFINE k == "BookingMade"
  <2>1. /\ k \in Chain /\ k \in Handlers /\ queue[k] \in Seq(Message)
        /\ queue'[k] = Append(queue[k], m) /\ lost'[k] = lost[k]
        /\ at'[k] = at[k] /\ todo'[k] = todo[k]
    BY <1>0, <1>1, <1>2, <1>4, <1>9 DEF BusOK
  <2>2. Range(queue'[k]) = Range(queue[k]) \cup {m}
    BY <2>1, RangeAppend
  <2>3. Distinct(queue'[k], ByRef)
    <3>1. Distinct(queue[k], ByRef)
      BY <2>1 DEF Shape, ChainOK
    <3>2. \A n \in Range(queue[k]) : ByRef[n] # ByRef[m]
      BY <1>0, <1>9, <2>1, QueueMessages DEF ByRef
    <3>. QED  BY <2>1, <3>1, <3>2, DistinctAppend
  <2>4. queue[k] # <<>> => /\ Head(queue'[k]) = Head(queue[k])
                           /\ Range(Tail(queue'[k])) = Range(Tail(queue[k])) \cup {m}
    <3> DEFINE s == queue[k]
               t == Tail(s)
    <3>1. s # <<>> => Head(Append(s, m)) = Head(s) /\ Tail(Append(s, m)) = Append(t, m)
                      /\ t \in Seq(Message)
      BY <2>1, HeadTailAppend, HeadTailProperties
    <3>. HIDE DEF t
    <3>2. s # <<>> => Range(Append(t, m)) = Range(t) \cup {m}
      BY <3>1, RangeAppend
    <3>. QED  BY <2>1, <3>1, <3>2 DEF t
  <2>5. at[k] # "idle" => queue[k] # <<>>
    BY <1>0, <2>1 DEF BusOK
  <2>6. todo[k] # <<>> => at[k] # "idle"
    BY <1>0, <2>1 DEF BusOK
  <2>7. todo[k] = <<>> => Range(todo[k]) = {}
    BY RangeEmpty
  <2>8. ChainOK(k)'
    <3>1. at'[k] = "compensating" => at[k] = "compensating"
      BY <2>1
    <3>2. Range(todo[k]) # {} => Current(k)' = Current(k)
      BY <2>4, <2>5, <2>6, <2>7 DEF Current
    <3>3. ChainOK(k)
      BY <2>1 DEF Shape
    <3>. QED  BY <2>1, <2>3, <3>2, <3>3 DEF ChainOK
  <2>9. \A h \in Chain \ {k} : ChainOK(h)' /\ Rest(h)' = Rest(h)
    <3>1. ASSUME NEW h \in Chain \ {k} PROVE ChainOK(h)' /\ Rest(h)' = Rest(h)
      <4>1. /\ queue'[h] = queue[h] /\ lost'[h] = lost[h]
            /\ at'[h] = at[h] /\ todo'[h] = todo[h]
        BY <1>3, <1>9
      <4>2. ChainOK(h)
        BY DEF Shape
      <4>. QED  BY <4>1, <4>2 DEF ChainOK, Rest, Current
    <3>. QED  BY <3>1
  <2>10. \A h, j \in Chain : h # j => Apart(h, j)'
    <3>1. \A h \in Chain : \A n \in Range(queue'[h]) : n \in Range(queue[h]) \/ (h = k /\ n = m)
      BY <1>3, <1>9, <2>2
    <3>2. \A h \in Chain : \A n \in Range(queue[h]) : n.ref # m.ref
      BY <1>9
    <3>. QED  BY <3>1, <3>2 DEF Shape, Apart
  <2>11. Shape'
    BY <1>6, <2>8, <2>9, <2>10 DEF Shape
  <2>12. Range(Rest(k)') = Range(Rest(k)) \cup {m}
    BY <2>1, <2>2, <2>4, <2>5 DEF Rest
  <2>13. \A h \in Chain : todo'[h] = todo[h]
    BY <1>1
  <2>14. Live' = Live \cup {m}
    <3>1. \A n : n \in Live' => n \in Live \/ n = m
      BY <2>9, <2>12, <2>13 DEF Live
    <3>2. \A n : n \in Live \/ n = m => n \in Live'
      BY <1>9, <2>1, <2>9, <2>12, <2>13 DEF Live
    <3>. QED  BY <3>1, <3>2
  <2>. QED  BY <1>5, <1>7, <1>9, <2>11, <2>14
<1>. QED  BY <1>8, <1>9
-----------------------------------------------------------------------------
ByTicket == [m \in Message |-> <<m.ref, m.ticket>>]

Itself == [i \in Nat |-> i]

(* A ticket is counted once. *)
Counted == LET h == "TicketBookingConfirmed" IN
  /\ at[h] = "idle" /\ lost[h] = <<>>
  /\ Distinct(queue[h], ByTicket)
  /\ \A m \in Range(queue[h]) :
       m.ref \in Bundle => m.ticket \notin Range(bundles[m.ref].tickets)
  /\ \A b \in Bundle : Distinct(bundles[b].tickets, Itself)
  /\ \A k \in Booking, i \in Nat : <<k, i>> \in confirmed => i \in 1 .. Size[k]

TInv == Shape /\ View /\ Done /\ Counted

LEMMA CountedSame ==
  ASSUME Counted, Unheard, UNCHANGED confirmed,
         \A b \in Bundle : bundles'[b].tickets = bundles[b].tickets
  PROVE  Counted'
BY DEF Counted, Unheard

(* Nothing of a bundle changes that its chain or its tickets depend on. *)
LEMMA Aside ==
  ASSUME IInv, TInv, Shape', Live' = Live, Unheard, Owed' = Owed,
         UNCHANGED <<transport, refunds, confirmed>>, cancelled \subseteq cancelled',
         \A b \in Bundle : /\ bundles'[b].inbound = bundles[b].inbound
                           /\ bundles'[b].return = bundles[b].return
                           /\ bundles'[b].tickets = bundles[b].tickets
  PROVE  Shape' /\ View' /\ Counted'
<1>1. Repaying' = Repaying /\ Cancelling \subseteq Cancelling'
  BY SameDues, MoreCancelled
<1>2. \A b \in Bundle, leg \in Flights : RowKey(b, leg)' = RowKey(b, leg)
  BY DEF RowKey
<1>3. View'
  BY <1>1, <1>2, Parts, ViewSame DEF TInv
<1>4. Counted'
  BY CountedSame DEF TInv
<1>. QED  BY <1>3, <1>4

LEMMA OtherSends ==
  ASSUME IInv, TInv, NEW h \in Handlers \ Once, queue[h] # <<>>, todo[h] = <<>>,
         NEW m \in Message, m.type \notin Once \cup Compensation,
         Reach(h, "sending", <<m>>, queue)
  PROVE  Shape' /\ Live' = Live /\ Owed' = Owed /\ Unheard
<1> DEFINE ms == <<m>>
<1>1. ms \in Seq(Message) /\ Range(ms) = {m} /\ ms # <<>>
  BY RangeSingle
<1>2. Reach(h, "sending", ms, queue)
  OBVIOUS
<1>. HIDE DEF ms
<1>3. h \in Handlers \ Chain /\ h # "TicketBookingConfirmed"
  BY ChainIs DEF Once
<1>4. PICK s \in Steps : s = "sending"
  BY DEF Steps
<1>5. \A n \in Range(ms) : n.type \notin Once \cup Compensation
  BY <1>1
<1>6. Reach(h, s, ms, queue) /\ BusOK /\ Shape
  BY <1>2, <1>4, Parts DEF TInv
<1>. QED  BY <1>1, <1>3, <1>5, <1>6, OtherReaches

(* Of an open booking nothing was asked or paid back. *)
LEMMA NotAsked ==
  ASSUME IInv, NEW k \in Booking, outcome[k] = "open"
  PROVE  /\ \A a \in transport : a.ref # k
         /\ \A x \in Repaying : x.ref # k
         /\ \A h \in Chain : \A n \in Range(queue[h]) : n.ref # k
<1>1. \A b \in Bundle : bundles[b].bookingMade => outcome[b] # "open"
  BY Parts DEF Backed
<1>2. \A a \in transport : a.ref # k
  BY <1>1 DEF IInv, TradeInv, WorldOK, LegsInOrder
<1>3. ~Refused(k)
  BY <1>2 DEF Refused
<1>4. \A n \in Owed : n.type = "RefundTicket" => Refused(n.ref)
  BY DEF IInv, BusInv, HonestBus, Owed, Good
<1>5. \A x \in Repaying : x.ref # k
  <2>1. \A r \in refunds : Refused(r.ref)
    BY DEF IInv, TradeInv, DoneOK
  <2>2. \A x \in Repaying : Refused(x.ref)
    BY <1>4, <2>1 DEF Repaying
  <2>. QED  BY <1>3, <2>2
<1>6. ASSUME NEW h \in Chain, NEW n \in Range(queue[h]) PROVE n.ref # k
  <2>1. n.type = h /\ Good(n)
    BY ChainIs DEF IInv, BusInv, HonestBus, Held
  <2>2. CASE h = "BookingMade"
    BY <2>1, <2>2 DEF Good
  <2>3. CASE h \in Failures
    BY <1>3, <2>1, <2>3 DEF Good, Failures
  <2>4. CASE h \in {"BookFlight", "BookTaxi", "FlightBooked"}
    BY <1>1, <2>1, <2>4 DEF Good, Ahead, Ordering
  <2>. QED  BY <2>2, <2>3, <2>4 DEF Chain, Failures
<1>. QED  BY <1>2, <1>5, <1>6

(* A booking is made: its chain begins. *)
LEMMA Begins ==
  ASSUME IInv, IInv', TInv, NEW m \in Message, m.type = "BookingMade", outcome[m.ref] = "open",
         NEW g \in Handlers \ (Once \cup Compensation),
         \A h \in Handlers \ {g} : /\ queue'[h] = Post(queue, m)[h] /\ lost'[h] = lost[h]
                                   /\ at'[h] = at[h] /\ todo'[h] = todo[h],
         todo'[g] \in {<<>>, todo[g]},
         UNCHANGED <<bundles, confirmed, outside>>
  PROVE  Shape' /\ View' /\ Counted'
<1>1. m.ref \in Booking
  BY DEF Message
<1>2. Shape' /\ Owed' = Owed /\ Unheard /\ Live' = Live \cup {m}
  <2>1. \A h \in Chain : \A n \in Range(queue[h]) : n.ref # m.ref
    BY <1>1, NotAsked
  <2>. QED  BY <2>1, Published DEF TInv
<1>3. Repaying' = Repaying /\ Cancelling' = Cancelling /\ transport' = transport
  BY <1>2 DEF Repaying, Cancelling, outside
<1>4. View'
  <2>1. (\A a \in transport : a.ref # m.ref) /\ \A x \in Repaying : x.ref # m.ref
    BY <1>1, NotAsked
  <2>. QED  BY <1>2, <1>3, <2>1, Parts, ViewMade DEF TInv
<1>5. Counted'
  BY <1>2, CountedSame DEF TInv
<1>. QED  BY <1>2, <1>4, <1>5

LEMMA CommandsAside ==
  /\ "BookShowTickets" \in Handlers \ (Once \cup Compensation)
  /\ "VipBundleInitialized" \in Handlers \ (Once \cup Compensation)
BY DEF Handlers, Events, Commands, Once, Chain, Compensation

LEMMA CustomersOnce ==
  ASSUME IInv, IInv', TInv,
         \/ \E b \in Bundle : BookVipBundle(b)
         \/ \E p \in PlainBooking : BookTickets(p)
  PROVE  Shape' /\ View' /\ Counted'
<1> DEFINE g == "BookShowTickets"
<1>1. ASSUME NEW b \in Bundle, BookVipBundle(b) PROVE Shape' /\ View' /\ Counted'
  <2>1. PICK m : m = About("VipBundleInitialized", b)
    OBVIOUS
  <2>2. m \in Message /\ m.type = "VipBundleInitialized"
    BY <2>1, Fields, TypesAre, BundleBookings
  <2>3. queue' = Post(queue, m) /\ UNCHANGED <<lost, at, todo, confirmed, outside>>
    BY <1>1, <2>1 DEF BookVipBundle, sales
  <2>4. Shape' /\ Owed' = Owed /\ Unheard /\ Live' = Live
    BY <2>2, <2>3, CommandsAside, Published DEF TInv
  <2>5. \A c \in Bundle : /\ bundles'[c].inbound = bundles[c].inbound
                          /\ bundles'[c].return = bundles[c].return
                          /\ bundles'[c].tickets = bundles[c].tickets
    <3>1. PICK ids \in SUBSET Misnamed :
            bundles' = [bundles EXCEPT ![b] = [bundles[b] EXCEPT !.created = TRUE, !.wrong = ids]]
      BY <1>1 DEF BookVipBundle
    <3>2. bundles \in [Bundle -> Rows] /\ bundles[b] \in Rows
      BY Parts
    <3>. QED  BY <3>1, <3>2 DEF Rows
  <2>. QED  BY <2>3, <2>4, <2>5, Aside DEF outside
<1>2. ASSUME NEW p \in PlainBooking, BookTickets(p) PROVE Shape' /\ View' /\ Counted'
  <2>1. PICK m : m = About("BookingMade", p)
    OBVIOUS
  <2>2. m \in Message /\ m.type = "BookingMade" /\ m.ref = p
    BY <2>1, Fields, TypesAre DEF Booking
  <2>3. queue' = Post(queue, m) /\ UNCHANGED <<lost, at, todo, bundles, confirmed, outside>>
    BY <1>2, <2>1 DEF BookTickets
  <2>4. outcome[m.ref] = "open"
    BY <1>2, <2>2 DEF BookTickets, Sales!Make
  <2>. QED  BY <2>2, <2>3, <2>4, CommandsAside, Begins
<1>. QED  BY <1>1, <1>2
-----------------------------------------------------------------------------
(* A queue that holds no compensation may change. *)
LEMMA OwedAside ==
  ASSUME Sorted, Sorted', NEW g \in Handlers \ Compensation,
         \A h \in Handlers \ {g} : queue'[h] = queue[h] /\ lost'[h] = lost[h],
         \A h \in Handlers : \A n \in Range(todo[h]) \cup Range(todo'[h]) :
           n.type \in Compensation => n \in Range(todo[h]) /\ n \in Range(todo'[h])
  PROVE  Owed' = Owed
<1>1. \A h \in Handlers : \A n : n.type \in Compensation => (n \in Held(h)' <=> n \in Held(h))
  BY DEF Sorted, Held
<1>. QED  BY <1>1 DEF Owed

LEMMA ConfirmOnce ==
  ASSUME IInv, IInv', TInv, DeadNation
  PROVE  Shape' /\ View' /\ Counted'
<1> DEFINE h == "TicketBookingConfirmed"
<1>a. PICK k \in Booking : \E i \in 1 .. Size[k] : ConfirmTicket(k, i)
  BY DEF DeadNation
<1>1. PICK i \in 1 .. Size[k] : ConfirmTicket(k, i)
  BY <1>a
<1>2. i \in Nat /\ 0 \in Nat
  BY BookingAssumption
<1>3. PICK m : m = OfTicket("TicketBookingConfirmed", k, i, 0)
  OBVIOUS
<1>4. m \in Message /\ m.type = h /\ m.ref = k /\ m.ticket = i
  BY <1>2, <1>3, Fields, TypesAre
<1>5. /\ h \in Handlers \ Compensation /\ h \in Handlers \ Chain
      /\ queue[h] \in Seq(Message)
      /\ queue' = queue \/ (queue' = Post(queue, m))
      /\ UNCHANGED <<lost, at, todo, bundles, outside>>
      /\ confirmed' = confirmed \cup {<<k, i>>} /\ <<k, i>> \notin confirmed
  BY <1>1, <1>3, Parts DEF ConfirmTicket, Handlers, Events, Compensation, Chain, BusOK
<1>6. /\ \A g \in Handlers \ {h} : queue'[g] = queue[g]
      /\ queue'[h] = queue[h] \/ queue'[h] = Append(queue[h], m)
  BY <1>4, <1>5 DEF Post
<1>7. Shape' /\ Live' = Live
  <2>1. \A g \in Chain : g \in Handlers \ {h}
    BY <1>5, ChainIs
  <2>2. \A g \in Handlers \ Chain : \A n \in Range(todo'[g]) : n.type \notin Once \cup Compensation
    BY <1>5 DEF TInv, Shape
  <2>. QED  BY <1>5, <1>6, <2>1, <2>2, StillShape DEF TInv
<1>8. Owed' = Owed
  <2>1. Sorted'
    BY DEF IInv, BusInv, HonestBus, Sorted
  <2>. QED  BY <1>5, <1>6, <2>1, Sorting, OwedAside
<1>9. View'
  <2>1. Repaying' = Repaying /\ Cancelling \subseteq Cancelling' /\ transport' = transport
    BY <1>5, <1>8 DEF Repaying, Cancelling, outside
  <2>2. \A b \in Bundle, leg \in Flights : RowKey(b, leg)' = RowKey(b, leg)
    BY <1>5 DEF RowKey
  <2>. QED  BY <1>7, <2>1, <2>2, Parts, ViewSame DEF TInv
<1>10. Counted'
  <2>0. /\ at[h] = "idle" /\ lost[h] = <<>> /\ Distinct(queue[h], ByTicket)
        /\ \A n \in Range(queue[h]) :
             n.ref \in Bundle => n.ticket \notin Range(bundles[n.ref].tickets)
        /\ \A b \in Bundle : Distinct(bundles[b].tickets, Itself)
        /\ \A c \in Booking, j \in Nat : <<c, j>> \in confirmed => j \in 1 .. Size[c]
    BY DEF TInv, Counted
  <2>1. \A n \in Range(queue[h]) : n \in Message /\ <<n.ref, n.ticket>> \in confirmed
    <3>1. \A n \in Range(queue[h]) : n.type = h /\ Good(n)
      BY <1>5 DEF IInv, BusInv, HonestBus, Held
    <3>. QED  BY <3>1 DEF Good
  <2>2. Distinct(Append(queue[h], m), ByTicket)
    <3>1. \A n \in Range(queue[h]) : ByTicket[n] # ByTicket[m]
      BY <1>4, <1>5, <2>1 DEF ByTicket
    <3>. QED  BY <1>4, <1>5, <2>0, <3>1, DistinctAppend
  <2>3. Range(Append(queue[h], m)) = Range(queue[h]) \cup {m}
    BY <1>4, <1>5, RangeAppend
  <2>4. m.ref \in Bundle => m.ticket \notin Range(bundles[m.ref].tickets)
    <3> SUFFICES ASSUME k \in Bundle PROVE i \notin Range(bundles[k].tickets)
      BY <1>4
    <3> DEFINE t == bundles[k].tickets
    <3>1. t \in Seq(Nat) /\ \A j \in 1 .. Len(t) : <<k, t[j]>> \in confirmed
      BY Parts DEF Backed, Rows
    <3>. HIDE DEF t
    <3>2. \A x \in Range(t) : <<k, x>> \in confirmed
      BY <3>1, RangeEquality
    <3>. QED  BY <1>5, <3>2 DEF t
  <2>5. at'[h] = "idle" /\ lost'[h] = <<>> /\ bundles' = bundles
    BY <1>5, <2>0
  <2>6. Distinct(queue'[h], ByTicket)
    BY <1>6, <2>0, <2>2
  <2>7. \A n \in Range(queue'[h]) : n \in Range(queue[h]) \/ n = m
    BY <1>6, <2>3
  <2>8. \A n \in Range(queue'[h]) :
          n.ref \in Bundle => n.ticket \notin Range(bundles[n.ref].tickets)
    BY <2>0, <2>4, <2>7
  <2>9. \A c \in Booking, j \in Nat : <<c, j>> \in confirmed' => j \in 1 .. Size[c]
    BY <1>5, <2>0
  <2>. QED  BY <2>0, <2>5, <2>6, <2>8, <2>9 DEF Counted
<1>. QED  BY <1>7, <1>9, <1>10

(* A confirmation is added to its bundle, and acknowledged with that. *)
LEMMA CountOnce ==
  ASSUME IInv, IInv', TInv, OnceOnly, OnTicketBookingConfirmed
  PROVE  Shape' /\ View' /\ Counted'
<1> DEFINE h == "TicketBookingConfirmed"
<1>1. /\ h \in Handlers \ Compensation /\ h \in Handlers \ Chain /\ h \in Once
      /\ queue[h] \in Seq(Message) /\ queue[h] # <<>>
      /\ at[h] = "idle" /\ todo[h] = <<>> /\ BusOK
  BY Parts DEF OnTicketBookingConfirmed, Handlers, Events, Compensation, Chain, Once,
               BusOK, Ready, Idle
<1>2. PICK c \in Message : c = Current(h) /\ c.type = h /\ Good(c)
  BY <1>1, Hearing
<1>3. PICK b \in Bundle : /\ b = c.ref
                          /\ bundles' = [bundles EXCEPT ![b] = [bundles[b] EXCEPT !.tickets = Append(@, c.ticket)]]
  BY <1>2 DEF OnTicketBookingConfirmed, Found, Update
<1>4. UNCHANGED <<transport, cancelled, refunds, confirmed>>
  BY DEF OnTicketBookingConfirmed, outside, sales
<1>5. ~MayFail(h)
  BY <1>1 DEF OnceOnly, MayFail
<1>6. \A g \in Handlers :
        /\ queue'[g] = IF g = h THEN Tail(queue[g]) ELSE queue[g]
        /\ at'[g] = at[g] /\ lost'[g] = lost[g] /\ todo'[g] = IF g = h THEN <<>> ELSE todo[g]
  BY <1>1, <1>5 DEF OnTicketBookingConfirmed, Start, Reach, BusOK
<1>7. Shape' /\ Live' = Live
  <2>1. \A g \in Chain : g \in Handlers \ {h}
    BY <1>1, ChainIs
  <2>2. \A g \in Handlers \ Chain : \A n \in Range(todo'[g]) : n.type \notin Once \cup Compensation
    BY <1>6, RangeEmpty DEF TInv, Shape
  <2>. QED  BY <1>6, <2>1, <2>2, StillShape DEF TInv
<1>8. Owed' = Owed
  <2>1. Sorted'
    BY DEF IInv, BusInv, HonestBus, Sorted
  <2>2. \A g \in Handlers : todo'[g] = todo[g]
    BY <1>1, <1>6
  <2>. QED  BY <1>1, <1>6, <2>1, <2>2, Sorting, OwedAside
<1>9. /\ \A a \in Bundle : /\ bundles'[a].inbound = bundles[a].inbound
                           /\ bundles'[a].return = bundles[a].return
                           /\ a # b => bundles'[a].tickets = bundles[a].tickets
      /\ bundles'[b].tickets = Append(bundles[b].tickets, c.ticket)
  BY <1>3, Parts DEF Rows
<1>10. View'
  <2>1. Repaying' = Repaying /\ Cancelling \subseteq Cancelling'
    BY <1>4, <1>8 DEF Repaying, Cancelling
  <2>2. \A a \in Bundle, leg \in Flights : RowKey(a, leg)' = RowKey(a, leg)
    BY <1>9 DEF RowKey
  <2>. QED  BY <1>4, <1>7, <2>1, <2>2, Parts, ViewSame DEF TInv
<1>11. Counted'
  <2>0. /\ at[h] = "idle" /\ lost[h] = <<>> /\ Distinct(queue[h], ByTicket)
        /\ \A n \in Range(queue[h]) :
             n.ref \in Bundle => n.ticket \notin Range(bundles[n.ref].tickets)
        /\ \A a \in Bundle : Distinct(bundles[a].tickets, Itself)
        /\ \A a \in Booking, j \in Nat : <<a, j>> \in confirmed => j \in 1 .. Size[a]
    BY DEF TInv, Counted
  <2> DEFINE s == queue[h]
             t == bundles[b].tickets
  <2>1. s \in Seq(Message) /\ s # <<>> /\ Distinct(s, ByTicket) /\ Head(s) = c
    BY <1>1, <1>2, <2>0 DEF Current
  <2>2. t \in Seq(Nat) /\ c.ticket \in Nat /\ Distinct(t, Itself)
    BY <1>2, <2>0, Parts DEF Rows, Message
  <2>3. /\ \A n \in Range(s) :
             n.ref \in Bundle => n.ticket \notin Range(bundles[n.ref].tickets)
        /\ queue'[h] = Tail(s) /\ bundles'[b].tickets = Append(t, c.ticket)
    <3>1. queue'[h] = Tail(s)
      BY <1>1, <1>6
    <3>2. bundles'[b].tickets = Append(t, c.ticket)
      BY <1>9
    <3>. QED  BY <2>0, <3>1, <3>2
  <2>. HIDE DEF s
  <2>4. /\ Distinct(Tail(s), ByTicket) /\ Tail(s) \in Seq(Message)
        /\ \A n \in Range(Tail(s)) : ByTicket[n] # ByTicket[Head(s)]
        /\ Range(s) = Range(Tail(s)) \cup {Head(s)}
    BY <2>1, DistinctTail, RangeTail
  <2>5. \A n \in Range(Tail(s)) : n \in Message
    BY <2>4, RangeOfSeq
  <2>6. \A n \in Range(Tail(s)) : n.ref # c.ref \/ n.ticket # c.ticket
    BY <2>1, <2>4, <2>5 DEF ByTicket
  <2>7. c.ticket \notin Range(t)
    BY <1>3, <2>1, <2>3, <2>4
  <2>. HIDE DEF t
  <2>8. Range(Append(t, c.ticket)) = Range(t) \cup {c.ticket}
    BY <2>2, RangeAppend
  <2>9. Distinct(Append(t, c.ticket), Itself)
    <3>1. \A x \in Range(t) : x \in Nat
      BY <2>2, RangeOfSeq
    <3>2. \A x \in Range(t) : Itself[x] # Itself[c.ticket]
      BY <2>2, <2>7, <3>1 DEF Itself
    <3>. QED  BY <2>2, <3>2, DistinctAppend
  <2>10. \A a \in Bundle : Distinct(bundles'[a].tickets, Itself)
    BY <1>9, <2>0, <2>3, <2>9
  <2>11. ASSUME NEW n \in Range(Tail(s)), n.ref \in Bundle
         PROVE  n.ticket \notin Range(bundles'[n.ref].tickets)
    <3>1. n.ticket \notin Range(bundles[n.ref].tickets)
      BY <2>3, <2>4, <2>11
    <3>2. CASE n.ref # b
      BY <1>9, <2>11, <3>1, <3>2
    <3>3. CASE n.ref = b
      BY <1>3, <2>3, <2>6, <2>8, <2>11, <3>1, <3>3 DEF t
    <3>. QED  BY <3>2, <3>3
  <2>12. at'[h] = "idle" /\ lost'[h] = <<>> /\ confirmed' = confirmed
    BY <1>1, <1>4, <1>6, <2>0
  <2>. QED  BY <2>0, <2>3, <2>4, <2>10, <2>11, <2>12 DEF Counted
<1>. QED  BY <1>7, <1>10, <1>11
-----------------------------------------------------------------------------
(* The handlers before and after the chain of a bundle. *)
LEMMA EndsOnce ==
  ASSUME IInv, IInv', TInv, OnVipBundleInitialized \/ OnBookingFailed \/ OnTaxiBooked
  PROVE  Shape' /\ View' /\ Counted'
<1>1. PICK h \in {"VipBundleInitialized", "BookingFailed", "TaxiBooked"} :
        /\ Ready(h)
        /\ \E m : /\ m \in {About("BookShowTickets", Current(h).ref),
                            Finalized(Current(h).ref, FALSE), Finalized(Current(h).ref, TRUE)}
                  /\ Reach(h, "sending", <<m>>, queue)
  BY DEF OnVipBundleInitialized, OnBookingFailed, OnTaxiBooked, Start
<1>2. /\ h \in Handlers \ Once /\ queue[h] # <<>> /\ todo[h] = <<>>
  BY <1>1, Parts DEF Ready, Idle, BusOK, Handlers, Events, Once, Chain
<1>3. Current(h).ref \in Booking
  BY <1>2, Hearing
<1>4. PICK m : /\ m \in {About("BookShowTickets", Current(h).ref),
                        Finalized(Current(h).ref, FALSE), Finalized(Current(h).ref, TRUE)}
               /\ Reach(h, "sending", <<m>>, queue)
  BY <1>1
<1>5. m \in Message /\ m.type \in {"BookShowTickets", "VipBundleFinalizedFailed", "VipBundleFinalized"}
  BY <1>3, <1>4, Fields, TypesAre DEF Finalized
<1>6. m.type \notin Once \cup Compensation
  BY <1>5 DEF Once, Chain, Compensation
<1>7. Shape' /\ Live' = Live /\ Owed' = Owed /\ Unheard
  BY <1>2, <1>4, <1>5, <1>6, OtherSends
<1>8. UNCHANGED <<transport, refunds, confirmed, cancelled>>
  BY DEF OnVipBundleInitialized, OnBookingFailed, OnTaxiBooked, outside, sales
<1>9. \A c \in Bundle : /\ bundles'[c].inbound = bundles[c].inbound
                        /\ bundles'[c].return = bundles[c].return
                        /\ bundles'[c].tickets = bundles[c].tickets
  <2>1. CASE OnVipBundleInitialized
    BY <2>1 DEF OnVipBundleInitialized
  <2>2. CASE OnBookingFailed
    <3>1. PICK b : b = Current("BookingFailed").ref
      OBVIOUS
    <3>2. /\ b \in Bundle
          /\ bundles' = [bundles EXCEPT ![b] = [bundles[b] EXCEPT !.finalized = TRUE, !.failed = TRUE]]
      BY <2>2, <3>1 DEF OnBookingFailed, Found, Update
    <3>. QED  BY <3>2, Parts DEF Rows
  <2>3. CASE OnTaxiBooked
    <3>1. PICK c : c = Current("TaxiBooked") /\ c.ref \in Bundle
      BY <2>3, Hearing, TypesAre DEF OnTaxiBooked, Ready
    <3>2. bundles' = [bundles EXCEPT ![c.ref] = [bundles[c.ref] EXCEPT !.taxi = c.key, !.finalized = TRUE]]
      BY <2>3, <3>1 DEF OnTaxiBooked, Update
    <3>. QED  BY <3>1, <3>2, Parts DEF Rows
  <2>. QED  BY <2>1, <2>2, <2>3
<1>. QED  BY <1>7, <1>8, <1>9, Aside

(* A handler of the chain passes it on. *)
LEMMA ChainPasses ==
  ASSUME IInv, TInv, OnceOnly, NEW h \in Chain, Ready(h),
         NEW m \in Message, m.ref = Current(h).ref,
         m.type \notin {h, "TicketBookingConfirmed"} \cup Compensation,
         Reach(h, "sending", <<m>>, queue)
  PROVE  /\ Shape' /\ Owed' = Owed /\ Unheard
         /\ Current(h) \in Live /\ \A n \in Live : n.ref = Current(h).ref => n = Current(h)
         /\ \A n : n \in Live' <=> \/ n \in Live /\ n.ref # Current(h).ref
                                   \/ n = m /\ m.type \in Chain
<1>1. /\ h \in Handlers /\ queue[h] # <<>> /\ at[h] = "idle" /\ todo[h] = <<>>
      /\ BusOK /\ Shape /\ h \in Once
  BY ChainIs, Parts DEF Ready, Idle, BusOK, TInv
<1>2. ~MayFail(h)
  BY <1>1, NeverTwice
<1> DEFINE ms == <<m>>
<1>3. ms \in Seq(Message) /\ Range(ms) = {m} /\ ms # <<>> /\ Tail(ms) = <<>>
  BY RangeSingle
<1>4. Reach(h, "sending", ms, queue)
  OBVIOUS
<1>. HIDE DEF ms
<1>5. PICK s \in {"sending", "compensating"} : s = "sending"
  OBVIOUS
<1>6. /\ Reach(h, s, ms, queue)
      /\ \A n \in Range(ms) : n.ref = Current(h).ref /\ n.type \notin {h, "TicketBookingConfirmed"}
      /\ s = "sending" => /\ ms # <<>> /\ Tail(ms) = <<>>
                          /\ \A n \in Range(ms) : n.type \notin Compensation
      /\ s = "compensating" => h \in Failures /\ \A n \in Range(ms) : n.type \in Compensation
  BY <1>3, <1>4, <1>5
<1>7. /\ Shape'
      /\ \A n : n \in Live' <=> \/ n \in Live /\ n.ref # Current(h).ref
                                \/ n \in Range(ms) /\ n.type \in Chain
      /\ Owed' = Owed \cup {n \in Range(ms) : n.type \in Compensation}
      /\ \A g \in Handlers \ {h} : /\ queue'[g] = queue[g] /\ lost'[g] = lost[g]
                                   /\ at'[g] = at[g] /\ todo'[g] = todo[g]
  BY <1>1, <1>2, <1>3, <1>6, ChainReaches
<1>8. "TicketBookingConfirmed" \in Handlers \ {h}
  BY TypesAre DEF Chain
<1>9. Unheard
  BY <1>7, <1>8 DEF Unheard
<1>10. Current(h) \in Live /\ \A n \in Live : n.ref = Current(h).ref => n = Current(h)
  <2>1. Current(h).type = h
    BY <1>1, CurrentMessage, Parts DEF BusInv
  <2>. QED  BY <1>1, <2>1, Alone
<1>11. Owed' = Owed
  BY <1>3, <1>7
<1>12. \A n : n \in Live' <=> \/ n \in Live /\ n.ref # Current(h).ref
                              \/ n = m /\ m.type \in Chain
  BY <1>3, <1>7
<1>. QED  BY <1>7, <1>9, <1>10, <1>11, <1>12

(* The booking is made, or a flight booked: the next leg is ordered. *)
LEMMA OrderOnce ==
  ASSUME IInv, IInv', TInv, OnceOnly, OnBookingMade \/ OnFlightBooked
  PROVE  Shape' /\ View' /\ Counted'
<1>1. PICK h \in {"BookingMade", "FlightBooked"} :
        \/ h = "BookingMade" /\ OnBookingMade
        \/ h = "FlightBooked" /\ OnFlightBooked
  OBVIOUS
<1>2. h \in Chain /\ h \in Handlers /\ Ready(h) /\ queue[h] # <<>>
  BY <1>1, TypesAre DEF OnBookingMade, OnFlightBooked, Chain, Ready
<1>3. PICK c \in Message : c = Current(h) /\ c.type = h /\ Good(c) /\ c.ref \in Booking
  BY <1>2, Hearing
<1>4. c.ref \in Bundle /\ c.key \in Nat
  BY <1>1, <1>3 DEF OnBookingMade, Found, Good, Message
<1>5. PICK key \in Nat : key = lastKey'
  BY Parts DEF IInv, TradeInv, WorldOK
<1>6. /\ UNCHANGED <<transport, refunds, cancelled, confirmed>>
  BY DEF OnBookingMade, OnFlightBooked, outside, sales
<1>7. h = "FlightBooked" => c.leg \in Flights /\ Bought(c.ref, c.leg, c.key)
  BY <1>3 DEF Good, Flights
<1>8. PICK m : /\ Reach(h, "sending", <<m>>, queue)
               /\ \/ h = "BookingMade" /\ m = Flight("BookFlight", c.ref, "inbound", key)
                  \/ h = "FlightBooked" /\ c.leg = "inbound" /\ m = Flight("BookFlight", c.ref, "return", key)
                  \/ h = "FlightBooked" /\ c.leg = "return" /\ m = Taxi("BookTaxi", c.ref, key)
  BY <1>1, <1>3, <1>5 DEF OnBookingMade, OnFlightBooked, Start
<1>9. /\ m \in Message /\ m.ref = c.ref /\ m.type \in Ordering
      /\ m.leg = IF h = "BookingMade" THEN "inbound" ELSE IF c.leg = "inbound" THEN "return" ELSE "taxi"
  BY <1>3, <1>8, Fields, TypesAre DEF Ordering
<1>10. Left(m) = Left(c)
  BY <1>3, <1>7, <1>9 DEF Left, After, Ordering, Legs, Flights
<1>11. m.type \notin {h, "TicketBookingConfirmed"} \cup Compensation /\ m.type \in Chain
  BY <1>9 DEF Ordering, Compensation, Chain
<1>12. /\ Shape' /\ Owed' = Owed /\ Unheard
       /\ c \in Live /\ \A n \in Live : n.ref = c.ref => n = c
       /\ \A n : n \in Live' <=> (n \in Live /\ n.ref # c.ref) \/ n = m
  BY <1>2, <1>3, <1>8, <1>9, <1>11, ChainPasses
<1>13. /\ \A b \in Bundle : bundles'[b].tickets = bundles[b].tickets
       /\ \A b \in Bundle, leg \in Flights :
            RowKey(b, leg)' = IF h = "FlightBooked" /\ b = c.ref /\ leg = c.leg THEN c.key
                              ELSE RowKey(b, leg)
  <2>1. CASE h = "BookingMade"
    <3>1. bundles' = [bundles EXCEPT ![c.ref] = [bundles[c.ref] EXCEPT !.bookingMade = TRUE]]
      BY <1>1, <1>3, <2>1 DEF OnBookingMade, Update
    <3>2. \A b \in Bundle : /\ bundles'[b].tickets = bundles[b].tickets
                            /\ bundles'[b].inbound = bundles[b].inbound
                            /\ bundles'[b].return = bundles[b].return
      BY <1>4, <3>1, Parts DEF Rows
    <3>. QED  BY <2>1, <3>2 DEF RowKey
  <2>2. CASE h = "FlightBooked" /\ c.leg = "inbound"
    <3>1. bundles' = [bundles EXCEPT ![c.ref] = [bundles[c.ref] EXCEPT !.inbound = c.key]]
      BY <1>1, <1>3, <2>2 DEF OnFlightBooked, Update
    <3>2. \A b \in Bundle :
            /\ bundles'[b].tickets = bundles[b].tickets
            /\ bundles'[b].inbound = IF b = c.ref THEN c.key ELSE bundles[b].inbound
            /\ bundles'[b].return = bundles[b].return
      BY <1>4, <3>1, Parts DEF Rows
    <3>. QED  BY <2>2, <3>2 DEF RowKey, Flights
  <2>3. CASE h = "FlightBooked" /\ c.leg = "return"
    <3>1. bundles' = [bundles EXCEPT ![c.ref] = [bundles[c.ref] EXCEPT !.return = c.key]]
      BY <1>1, <1>3, <2>3 DEF OnFlightBooked, Update
    <3>2. \A b \in Bundle :
            /\ bundles'[b].tickets = bundles[b].tickets
            /\ bundles'[b].inbound = bundles[b].inbound
            /\ bundles'[b].return = IF b = c.ref THEN c.key ELSE bundles[b].return
      BY <1>4, <3>1, Parts DEF Rows
    <3>. QED  BY <2>3, <3>2 DEF RowKey, Flights
  <2>. QED  BY <1>7, <2>1, <2>2, <2>3 DEF Flights
<1>14. View'
  <2>1. Repaying' = Repaying /\ Cancelling' = Cancelling
    BY <1>6, <1>12 DEF Repaying, Cancelling
  <2>2. \A b \in Bundle, leg \in Flights :
          \/ RowKey(b, leg)' = RowKey(b, leg)
          \/ c.type = "FlightBooked" /\ b = c.ref /\ leg = c.leg
    BY <1>3, <1>13
  <2>3. c.type = "FlightBooked" =>
          /\ c.ref \in Bundle /\ c.leg \in Flights /\ Bought(c.ref, c.leg, c.key)
          /\ RowKey(c.ref, c.leg)' = c.key
    BY <1>3, <1>4, <1>7, <1>13
  <2>4. View /\ WorldOK /\ c.type \in {"BookingMade", "FlightBooked"}
    BY <1>3, Parts DEF TInv
  <2>. QED  BY <1>6, <1>9, <1>10, <1>12, <2>1, <2>2, <2>3, <2>4, ViewOrdered
<1>15. Counted'
  BY <1>6, <1>12, <1>13, CountedSame DEF TInv
<1>. QED  BY <1>12, <1>14, <1>15
-----------------------------------------------------------------------------
(* The API is asked for a leg: it was not before. *)
LEMMA AskOnce ==
  ASSUME IInv, IInv', TInv, OnceOnly, BookFlight \/ BookTaxi
  PROVE  Shape' /\ View' /\ Counted'
<1>1. PICK h \in {"BookFlight", "BookTaxi"} :
        \/ h = "BookFlight" /\ BookFlight
        \/ h = "BookTaxi" /\ BookTaxi
  OBVIOUS
<1>2. h \in Chain /\ h \in Ordering /\ h \in Handlers /\ Ready(h) /\ queue[h] # <<>>
  BY <1>1, TypesAre DEF BookFlight, BookTaxi, Chain, Ready, Ordering
<1>3. PICK c \in Message : c = Current(h) /\ c.type = h /\ Good(c) /\ c.ref \in Booking
  BY <1>2, Hearing
<1>4. /\ c.key \in Nat /\ c.key # 0 /\ 0 \in Nat /\ c.leg \in Legs
      /\ h = "BookFlight" => c.leg \in Flights
      /\ h = "BookTaxi" => c.leg = "taxi"
  BY <1>1, <1>3 DEF Good, Message, Legs, Flights, Ordering
<1>5. UNCHANGED <<bundles, refunds, cancelled, confirmed>>
  BY DEF BookFlight, BookTaxi, sales
<1>6. PICK m, status :
        /\ Ask(c, c.leg, status) /\ Reach(h, "sending", <<m>>, queue)
        /\ \/ h = "BookFlight" /\ status = "booked" /\ m = Flight("FlightBooked", c.ref, c.leg, c.key)
           \/ h = "BookFlight" /\ status = "refused" /\ m = Flight("FlightBookingFailed", c.ref, c.leg, 0)
           \/ h = "BookTaxi" /\ status = "booked" /\ m = Taxi("TaxiBooked", c.ref, c.key)
           \/ h = "BookTaxi" /\ status = "refused" /\ m = Taxi("TaxiBookingFailed", c.ref, 0)
  BY <1>1, <1>3, <1>4 DEF BookFlight, BookTaxi, Start
<1>7. /\ m \in Message /\ m.ref = c.ref /\ m.leg = c.leg
      /\ \/ /\ status = "booked" /\ c.leg \in Flights
            /\ m.type = "FlightBooked" /\ m.key = c.key
         \/ status = "booked" /\ c.leg = "taxi" /\ m.type = "TaxiBooked"
         \/ status = "refused" /\ c.leg \in Flights /\ m.type = "FlightBookingFailed"
         \/ status = "refused" /\ c.leg = "taxi" /\ m.type = "TaxiBookingFailed"
  <2>1. CASE h = "BookFlight" /\ status = "booked" /\ m = Flight("FlightBooked", c.ref, c.leg, c.key)
    BY <1>3, <1>4, <2>1, Fields, TypesAre
  <2>2. CASE h = "BookFlight" /\ status = "refused" /\ m = Flight("FlightBookingFailed", c.ref, c.leg, 0)
    BY <1>3, <1>4, <2>2, Fields, TypesAre
  <2>3. CASE h = "BookTaxi" /\ status = "booked" /\ m = Taxi("TaxiBooked", c.ref, c.key)
    BY <1>3, <1>4, <2>3, Fields, TypesAre
  <2>4. CASE h = "BookTaxi" /\ status = "refused" /\ m = Taxi("TaxiBookingFailed", c.ref, 0)
    BY <1>3, <1>4, <2>4, Fields, TypesAre
  <2>. QED  BY <1>6, <2>1, <2>2, <2>3, <2>4
<1>8. m.type \notin {h, "TicketBookingConfirmed"} \cup Compensation
  BY <1>2, <1>7 DEF Ordering, Compensation
<1>9. /\ Shape' /\ Owed' = Owed /\ Unheard
      /\ c \in Live /\ \A n \in Live : n.ref = c.ref => n = c
      /\ \A n : n \in Live' <=> (n \in Live /\ n.ref # c.ref) \/ (n = m /\ m.type \in Chain)
  BY <1>2, <1>3, <1>6, <1>7, <1>8, ChainPasses
<1>10. transport' = transport \cup {Answer(c.key, c.ref, c.leg, status)}
  <2>1. c \in Orders
    BY <1>2, <1>3, RangeTail, Parts DEF Orders, Held, Current, BusOK
  <2>2. Open(c) /\ c.leg \in Left(c)
    BY <1>2, <1>3, <1>9 DEF TInv, View, AllOpen, Left, Ordering
  <2>3. ASSUME NEW a \in transport, a.key = c.key PROVE FALSE
    <3>1. a.ref = c.ref /\ a.leg = c.leg
      BY <2>1, <2>3, Parts DEF BusInv, KeysInv
    <3>. QED  BY <1>2, <1>3, <2>2, <3>1 DEF Open, Failures, Ordering
  <2>. QED  BY <1>6, <2>3 DEF Ask
<1>11. PICK a : a = Answer(c.key, c.ref, c.leg, status)
  OBVIOUS
<1>12. a.ref = c.ref /\ a.leg = c.leg /\ a.key = c.key /\ a.status = status
  BY <1>11 DEF Answer
<1>13. View'
  <2>1. Repaying' = Repaying /\ Cancelling' = Cancelling
    BY <1>5, <1>9 DEF Repaying, Cancelling
  <2>2. View /\ WorldOK /\ c.type \in Ordering /\ transport' = transport \cup {a} /\ bundles' = bundles
    BY <1>2, <1>3, <1>5, <1>10, <1>11, Parts DEF TInv
  <2>3. \/ /\ a.status = "booked" /\ c.leg \in Flights
           /\ m.type = "FlightBooked" /\ m.key = c.key
        \/ a.status = "booked" /\ c.leg = "taxi" /\ m.type = "TaxiBooked"
        \/ a.status = "refused" /\ c.leg \in Flights /\ m.type = "FlightBookingFailed"
        \/ a.status = "refused" /\ c.leg = "taxi" /\ m.type = "TaxiBookingFailed"
    BY <1>7, <1>12
  <2>. QED  BY <1>4, <1>7, <1>9, <1>12, <2>1, <2>2, <2>3, ViewAnswered
<1>14. Counted'
  BY <1>5, <1>9, CountedSame DEF TInv
<1>. QED  BY <1>9, <1>13, <1>14
-----------------------------------------------------------------------------
(* What a compensation sends: the flight that is recorded, and each ticket *)
(* that was counted.                                                       *)
LEMMA CancelsSent ==
  ASSUME IInv, NEW b \in Bundle, NEW key \in Nat
  PROVE  /\ CancelCommands(b, key) \in Seq(Message)
         /\ \A m \in Range(CancelCommands(b, key)) :
              m.type = "CancelFlightTickets" /\ m.ref = b
         /\ key # 0 => \E m \in Range(CancelCommands(b, key)) : m.key = key
<1>1. CASE key = 0
  BY <1>1, RangeEmpty DEF CancelCommands
<1>2. CASE key # 0
  <2>0. b \in Booking /\ "CancelFlightTickets" \in Types /\ "none" \in Legs \cup {"none"}
    BY BundleBookings, TypesAre
  <2>1. PICK m : m = Flight("CancelFlightTickets", b, "none", key)
    OBVIOUS
  <2>2. m \in Message /\ m.type = "CancelFlightTickets" /\ m.ref = b /\ m.key = key
    BY <2>0, <2>1, Fields
  <2>3. <<m>> \in Seq(Message) /\ Range(<<m>>) = {m} /\ CancelCommands(b, key) = <<m>>
    BY <1>2, <2>1, <2>2, RangeSingle DEF CancelCommands
  <2>. QED  BY <2>2, <2>3
<1>. QED  BY <1>1, <1>2

LEMMA RefundsSent ==
  ASSUME IInv, Counted, NEW b \in Bundle
  PROVE  /\ RefundCommands(b) \in Seq(Message)
         /\ \A m \in Range(RefundCommands(b)) : m.type = "RefundTicket" /\ m.ref = b
         /\ \A m, n \in Range(RefundCommands(b)) : m.ticket = n.ticket => m = n
         /\ \A i \in Range(bundles[b].tickets) :
              \E m \in Range(RefundCommands(b)) : m.ticket = i
<1> DEFINE old == bundles[b].tickets
           ms == RefundCommands(b)
<1>1. old \in Seq(Nat) /\ Distinct(old, Itself)
  BY Parts DEF Rows, Counted
<1>2. ms = [i \in 1 .. Len(old) |-> OfTicket("RefundTicket", b, old[i], lastKey + i)]
  BY DEF RefundCommands
<1>. HIDE DEF old, ms
<1>3. ASSUME NEW i \in 1 .. Len(old)
      PROVE  ms[i] \in Message /\ ms[i].type = "RefundTicket" /\ ms[i].ref = b /\ ms[i].ticket = old[i]
  <2>1. old[i] \in Nat /\ lastKey + i \in Nat /\ b \in Booking
    BY <1>1, Parts, BundleBookings
  <2>2. PICK m : m = ms[i]
    OBVIOUS
  <2>3. m \in Message /\ m.type = "RefundTicket" /\ m.ref = b /\ m.ticket = old[i]
    BY <1>2, <2>1, <2>2, Fields, TypesAre
  <2>. QED  BY <2>2, <2>3
<1>4. ms \in Seq(Message) /\ Len(ms) = Len(old)
  BY <1>1, <1>2, <1>3
<1>5. /\ Range(ms) = {ms[i] : i \in 1 .. Len(ms)}
      /\ Range(old) = {old[i] : i \in 1 .. Len(old)}
  BY <1>1, <1>4, RangeEquality
<1>6. \A i, j \in 1 .. Len(old) : old[i] = old[j] => i = j
  <2>1. \A i \in 1 .. Len(old) : Itself[old[i]] = old[i]
    BY <1>1 DEF Itself
  <2>. QED  BY <1>1, <2>1 DEF Distinct
<1>7. \A m \in Range(ms) : m.type = "RefundTicket" /\ m.ref = b
  BY <1>3, <1>4, <1>5
<1>8. \A m, n \in Range(ms) : m.ticket = n.ticket => m = n
  BY <1>3, <1>4, <1>5, <1>6
<1>9. \A i \in Range(old) : \E m \in Range(ms) : m.ticket = i
  BY <1>3, <1>4, <1>5
<1>. QED  BY <1>4, <1>7, <1>8, <1>9 DEF ms, old

(* As many tickets as the booking has are all its tickets. *)
LEMMA AllTickets ==
  ASSUME NEW N \in Nat, NEW s \in Seq(Nat), Distinct(s, Itself), Len(s) = N,
         \A i \in 1 .. Len(s) : s[i] \in 1 .. N
  PROVE  Range(s) = 1 .. N
<1> DEFINE S == 1 .. N
           f == [i \in S |-> s[i]]
<1>1. IsFiniteSet(S) /\ Cardinality(S) = N
  BY FS_Interval
<1>2. f \in Injection(S, S)
  <2>1. f \in [S -> S]
    OBVIOUS
  <2>2. \A i, j \in S : f[i] = f[j] => i = j
    BY DEF Distinct, Itself
  <2>. QED  BY <2>1, <2>2 DEF Injection, IsInjective
<1>. HIDE DEF S
<1>3. f \in Surjection(S, S)
  BY <1>1, <1>2, FS_Injection
<1>4. \A i \in S : \E j \in S : f[j] = i
  BY <1>3 DEF Surjection
<1>5. Range(s) = {s[j] : j \in S} /\ \A j \in S : s[j] \in S
  BY RangeEquality DEF S
<1>. QED  BY <1>4, <1>5 DEF S

LEMMA CompensateOnce ==
  ASSUME IInv, IInv', TInv, OnceOnly, NEW h \in Failures, Ready(h),
         NEW b \in Bundle, b = Current(h).ref, NEW ms \in Seq(Message),
         Compensate(h, b, ms),
         \A m \in Range(ms) : m.type \in Compensation /\ m.ref = b,
         \A m, n \in Range(ms) :
           m.type = "RefundTicket" /\ n.type = "RefundTicket" /\ m.ticket = n.ticket => m = n,
         h = "FlightBookingFailed" => \A i \in 1 .. Size[b] : \E m \in Range(ms) :
           m.type = "RefundTicket" /\ m.ticket = i,
         \A leg \in Flights :
           RowKey(b, leg) # 0 /\ (leg = "inbound" \/ h = "TaxiBookingFailed") =>
             \E m \in Range(ms) : m.type = "CancelFlightTickets" /\ m.key = RowKey(b, leg)
  PROVE  Shape' /\ View' /\ Counted'
<1>1. /\ h \in Chain /\ h \in Handlers /\ queue[h] # <<>> /\ at[h] = "idle" /\ todo[h] = <<>>
      /\ BusOK /\ Shape
  BY ChainIs, Parts DEF Ready, Idle, BusOK, TInv
<1>2. ~MayFail(h)
  BY <1>1, NeverTwice
<1>3. PICK c \in Message : c = Current(h) /\ c.type = h /\ c.ref = b
  BY <1>1, Hearing
<1>4. PICK s \in {"sending", "compensating"} : s = "compensating"
  OBVIOUS
<1>5. Reach(h, s, ms, queue) /\ UNCHANGED <<bundles, sales, outside>>
  BY <1>4 DEF Compensate, Start
<1>6. \A m \in Range(ms) : m.type \notin {h, "TicketBookingConfirmed"} /\ m.type \notin Chain
  BY <1>1, ChainIs DEF Once
<1>7. /\ Shape'
      /\ \A n : n \in Live' <=> \/ n \in Live /\ n.ref # Current(h).ref
                                \/ n \in Range(ms) /\ n.type \in Chain
      /\ Owed' = Owed \cup {m \in Range(ms) : m.type \in Compensation}
      /\ \A g \in Handlers \ {h} : /\ queue'[g] = queue[g] /\ lost'[g] = lost[g]
                                   /\ at'[g] = at[g] /\ todo'[g] = todo[g]
  BY <1>1, <1>2, <1>4, <1>5, <1>6, ChainReaches
<1>8. "TicketBookingConfirmed" \in Handlers \ {h}
  BY TypesAre DEF Failures
<1>9. Unheard
  BY <1>7, <1>8 DEF Unheard
<1>10. c \in Live /\ \A n \in Live : n.ref = c.ref => n = c
  BY <1>1, <1>3, Alone
<1>11. \A n : n \in Live' <=> n \in Live /\ n.ref # c.ref
  BY <1>3, <1>6, <1>7
<1>12. Owed' = Owed \cup Range(ms)
  BY <1>7
<1>13. /\ Repaying \subseteq Repaying' /\ Cancelling \subseteq Cancelling'
       /\ \A x \in Repaying' : x \in Repaying \/ \E m \in Range(ms) :
            m.type = "RefundTicket" /\ x = [ref |-> m.ref, ticket |-> m.ticket, key |-> m.key]
       /\ \A m \in Range(ms) : m.type = "RefundTicket" =>
            [ref |-> m.ref, ticket |-> m.ticket, key |-> m.key] \in Repaying'
       /\ \A m \in Range(ms) : m.type = "CancelFlightTickets" => m.key \in Cancelling'
  BY <1>5, <1>12 DEF Repaying, Cancelling, outside
<1>14. View'
  <2>1. View /\ WorldOK /\ c.type \in Failures /\ transport' = transport /\ bundles' = bundles
    BY <1>3, <1>5, Parts DEF TInv, outside
  <2>2. \A x \in Repaying' : x \in Repaying \/ x.ref = c.ref
    BY <1>3, <1>13
  <2>3. \A x, y \in Repaying' \ Repaying : x.ticket = y.ticket => x.key = y.key
    BY <1>13
  <2>4. RowKey(c.ref, "inbound") # 0 => RowKey(c.ref, "inbound") \in Cancelling'
    BY <1>3, <1>13 DEF Flights
  <2>5. c.type = "TaxiBookingFailed" /\ RowKey(c.ref, "return") # 0 =>
          RowKey(c.ref, "return") \in Cancelling'
    BY <1>3, <1>13 DEF Flights
  <2>6. c.type = "FlightBookingFailed" =>
          \A i \in 1 .. Size[c.ref] : \E x \in Repaying' : x.ref = c.ref /\ x.ticket = i
    <3> SUFFICES ASSUME h = "FlightBookingFailed", NEW i \in 1 .. Size[b]
                 PROVE  \E x \in Repaying' : x.ref = b /\ x.ticket = i
      BY <1>3
    <3>1. PICK m \in Range(ms) : m.type = "RefundTicket" /\ m.ticket = i
      OBVIOUS
    <3>2. PICK x : x = [ref |-> m.ref, ticket |-> m.ticket, key |-> m.key]
      OBVIOUS
    <3>3. x \in Repaying' /\ x.ref = b /\ x.ticket = i
      BY <1>13, <3>1, <3>2
    <3>. QED  BY <3>3
  <2>. QED  BY <1>10, <1>11, <1>13, <2>1, <2>2, <2>3, <2>4, <2>5, <2>6, ViewCompensated
<1>15. Counted'
  BY <1>5, <1>9, CountedSame DEF TInv, sales
<1>. QED  BY <1>7, <1>14, <1>15

(* A flight is refused: every ticket was counted. *)
LEMMA FlightFailedOnce ==
  ASSUME IInv, IInv', TInv, OnceOnly, OnFlightBookingFailed
  PROVE  Shape' /\ View' /\ Counted'
<1> DEFINE h == "FlightBookingFailed"
<1>1. h \in Handlers /\ h \in Failures /\ Ready(h) /\ queue[h] # <<>>
  BY TypesAre DEF OnFlightBookingFailed, Ready, Failures
<1>2. PICK c \in Message : /\ c = Current(h) /\ c.type = h /\ Good(c) /\ c.ref \in Bundle
  BY <1>1, Hearing
<1>3. PICK b \in Bundle : b = c.ref /\ Refused(b)
  BY <1>2 DEF Good
<1>4. bundles[b].bookingMade
  BY <1>3 DEF Refused, IInv, TradeInv, LegsInOrder
<1> DEFINE cs == CancelCommands(b, bundles[b].inbound)
           rs == RefundCommands(b)
           ms == cs \o rs
<1>5. /\ Len(bundles[b].tickets) = Size[b] /\ Compensate(h, b, ms)
  BY <1>2, <1>3, <1>4 DEF OnFlightBookingFailed
<1>6. Range(bundles[b].tickets) = 1 .. Size[b]
  <2> DEFINE t == bundles[b].tickets
  <2>1. /\ t \in Seq(Nat) /\ Distinct(t, Itself) /\ Size[b] \in Nat
        /\ \A j \in 1 .. Len(t) : t[j] \in Nat /\ <<b, t[j]>> \in confirmed
    BY Parts, BookingAssumption, BundleBookings DEF Backed, Rows, TInv, Counted
  <2>2. Len(t) = Size[b]
    BY <1>5
  <2>. HIDE DEF t
  <2>3. \A j \in 1 .. Len(t) : t[j] \in 1 .. Size[b]
    BY <2>1, BundleBookings DEF TInv, Counted
  <2>4. Range(t) = 1 .. Size[b]
    BY <2>1, <2>2, <2>3, AllTickets
  <2>. QED  BY <2>4 DEF t
<1>7. /\ cs \in Seq(Message)
      /\ \A m \in Range(cs) : m.type = "CancelFlightTickets" /\ m.ref = b
      /\ bundles[b].inbound # 0 => \E m \in Range(cs) : m.key = bundles[b].inbound
  <2>1. PICK key \in Nat : key = bundles[b].inbound
    BY Parts DEF Rows
  <2>2. PICK l : l = CancelCommands(b, key)
    OBVIOUS
  <2>3. /\ l \in Seq(Message)
        /\ \A m \in Range(l) : m.type = "CancelFlightTickets" /\ m.ref = b
        /\ key # 0 => \E m \in Range(l) : m.key = key
    BY <2>2, CancelsSent
  <2>. QED  BY <2>1, <2>2, <2>3
<1>8. /\ rs \in Seq(Message)
      /\ \A m \in Range(rs) : m.type = "RefundTicket" /\ m.ref = b
      /\ \A m, n \in Range(rs) : m.ticket = n.ticket => m = n
      /\ \A i \in 1 .. Size[b] : \E m \in Range(rs) : m.ticket = i
  BY <1>6, RefundsSent DEF TInv
<1>. HIDE DEF cs, rs
<1>9. ms \in Seq(Message) /\ Range(ms) = Range(cs) \cup Range(rs)
  BY <1>7, <1>8, RangeConcatenation, ConcatProperties
<1>. HIDE DEF ms
<1>10. \A m \in Range(ms) : m.type \in Compensation /\ m.ref = b
  BY <1>7, <1>8, <1>9 DEF Compensation
<1>11. \A m, n \in Range(ms) :
         m.type = "RefundTicket" /\ n.type = "RefundTicket" /\ m.ticket = n.ticket => m = n
  BY <1>7, <1>8, <1>9
<1>12. \A i \in 1 .. Size[b] : \E m \in Range(ms) : m.type = "RefundTicket" /\ m.ticket = i
  BY <1>8, <1>9
<1>13. RowKey(b, "inbound") # 0 => \E m \in Range(ms) :
         m.type = "CancelFlightTickets" /\ m.key = RowKey(b, "inbound")
  BY <1>7, <1>9 DEF RowKey
<1>. QED  BY <1>1, <1>2, <1>3, <1>5, <1>9, <1>10, <1>11, <1>12, <1>13, CompensateOnce

(* The taxi is refused: both flights are cancelled. *)
LEMMA TaxiFailedOnce ==
  ASSUME IInv, IInv', TInv, OnceOnly, OnTaxiBookingFailed
  PROVE  Shape' /\ View' /\ Counted'
<1> DEFINE h == "TaxiBookingFailed"
<1>1. h \in Handlers /\ h \in Failures /\ Ready(h) /\ queue[h] # <<>>
  BY TypesAre DEF OnTaxiBookingFailed, Ready, Failures
<1>2. PICK c \in Message : /\ c = Current(h) /\ c.type = h /\ c.ref \in Bundle
  BY <1>1, Hearing
<1>3. PICK b \in Bundle : b = c.ref
  BY <1>2
<1> DEFINE rs == RefundCommands(b)
           is == CancelCommands(b, bundles[b].inbound)
           os == CancelCommands(b, bundles[b].return)
           fs == rs \o is
           ms == fs \o os
<1>4. Compensate(h, b, ms)
  BY <1>2, <1>3 DEF OnTaxiBookingFailed
<1>5. bundles[b].inbound \in Nat /\ bundles[b].return \in Nat
  BY Parts DEF Rows
<1>6. /\ is \in Seq(Message)
      /\ \A m \in Range(is) : m.type = "CancelFlightTickets" /\ m.ref = b
      /\ bundles[b].inbound # 0 => \E m \in Range(is) : m.key = bundles[b].inbound
  <2>1. PICK key \in Nat : key = bundles[b].inbound
    BY <1>5
  <2>2. PICK l : l = CancelCommands(b, key)
    OBVIOUS
  <2>3. /\ l \in Seq(Message)
        /\ \A m \in Range(l) : m.type = "CancelFlightTickets" /\ m.ref = b
        /\ key # 0 => \E m \in Range(l) : m.key = key
    BY <2>2, CancelsSent
  <2>. QED  BY <2>1, <2>2, <2>3
<1>7. /\ os \in Seq(Message)
      /\ \A m \in Range(os) : m.type = "CancelFlightTickets" /\ m.ref = b
      /\ bundles[b].return # 0 => \E m \in Range(os) : m.key = bundles[b].return
  <2>1. PICK key \in Nat : key = bundles[b].return
    BY <1>5
  <2>2. PICK l : l = CancelCommands(b, key)
    OBVIOUS
  <2>3. /\ l \in Seq(Message)
        /\ \A m \in Range(l) : m.type = "CancelFlightTickets" /\ m.ref = b
        /\ key # 0 => \E m \in Range(l) : m.key = key
    BY <2>2, CancelsSent
  <2>. QED  BY <2>1, <2>2, <2>3
<1>8. /\ rs \in Seq(Message)
      /\ \A m \in Range(rs) : m.type = "RefundTicket" /\ m.ref = b
      /\ \A m, n \in Range(rs) : m.ticket = n.ticket => m = n
  BY RefundsSent DEF TInv
<1>. HIDE DEF is, os, rs
<1>9. fs \in Seq(Message) /\ Range(fs) = Range(rs) \cup Range(is)
  BY <1>6, <1>8, RangeConcatenation, ConcatProperties
<1>. HIDE DEF fs
<1>10. ms \in Seq(Message) /\ Range(ms) = Range(fs) \cup Range(os)
  BY <1>7, <1>9, RangeConcatenation, ConcatProperties
<1>. HIDE DEF ms
<1>11. Range(ms) = Range(rs) \cup Range(is) \cup Range(os)
  BY <1>9, <1>10
<1>12. \A m \in Range(ms) : m.type \in Compensation /\ m.ref = b
  BY <1>6, <1>7, <1>8, <1>11 DEF Compensation
<1>13. \A m, n \in Range(ms) :
         m.type = "RefundTicket" /\ n.type = "RefundTicket" /\ m.ticket = n.ticket => m = n
  BY <1>6, <1>7, <1>8, <1>11
<1>14. \A leg \in Flights : RowKey(b, leg) # 0 => \E m \in Range(ms) :
         m.type = "CancelFlightTickets" /\ m.key = RowKey(b, leg)
  BY <1>6, <1>7, <1>11 DEF RowKey, Flights
<1>. QED  BY <1>1, <1>2, <1>3, <1>4, <1>10, <1>12, <1>13, <1>14, CompensateOnce
-----------------------------------------------------------------------------
(* The end of a compensation. *)
LEMMA CloseOnce ==
  ASSUME IInv, IInv', TInv, OnceOnly, NEW h \in Failures, CloseFailed(h)
  PROVE  Shape' /\ View' /\ Counted'
<1>1. /\ h \in Chain /\ h \in Handlers /\ queue[h] # <<>> /\ todo[h] = <<>>
      /\ at[h] = "compensating" /\ BusOK /\ Shape
  BY ChainIs, Parts DEF CloseFailed, BusOK, TInv
<1>2. ~MayFail(h)
  BY <1>1, NeverTwice
<1>3. PICK c \in Message : c = Current(h) /\ c.ref \in Booking /\ c.ref \in Bundle
  BY <1>1, Hearing DEF Failures
<1>4. PICK m : m = Finalized(c.ref, FALSE)
  OBVIOUS
<1>5. m \in Message /\ m.type = "VipBundleFinalizedFailed" /\ m.ref = c.ref
  BY <1>3, <1>4, Fields, TypesAre DEF Finalized
<1>6. m.type \notin Once \cup Compensation /\ m.type # h
  BY <1>1, <1>5, ChainIs DEF Once, Chain, Compensation
<1> DEFINE ms == <<m>>
<1>7. ms \in Seq(Message) /\ Range(ms) = {m} /\ ms # <<>> /\ Tail(ms) = <<>>
  BY <1>5, RangeSingle
<1>8. Reach(h, "sending", ms, queue)
  BY <1>3, <1>4 DEF CloseFailed
<1>. HIDE DEF ms
<1>9. PICK s \in {"sending", "compensating"} : s = "sending"
  OBVIOUS
<1>10. /\ Reach(h, s, ms, queue) /\ at[h] \in {"idle", "compensating"}
       /\ \A n \in Range(ms) : n.ref = Current(h).ref /\ n.type \notin {h, "TicketBookingConfirmed"}
       /\ s = "sending" => /\ ms # <<>> /\ Tail(ms) = <<>>
                           /\ \A n \in Range(ms) : n.type \notin Compensation
       /\ s = "compensating" => h \in Failures /\ \A n \in Range(ms) : n.type \in Compensation
  BY <1>1, <1>3, <1>5, <1>6, <1>7, <1>8, <1>9 DEF Once
<1>11. /\ Shape'
       /\ \A n : n \in Live' <=> \/ n \in Live /\ n.ref # Current(h).ref
                                 \/ n \in Range(ms) /\ n.type \in Chain
       /\ Owed' = Owed \cup {n \in Range(ms) : n.type \in Compensation}
       /\ \A g \in Handlers \ {h} : /\ queue'[g] = queue[g] /\ lost'[g] = lost[g]
                                    /\ at'[g] = at[g] /\ todo'[g] = todo[g]
  BY <1>1, <1>2, <1>7, <1>10, ChainReaches
<1>12. "TicketBookingConfirmed" \in Handlers \ {h}
  BY TypesAre DEF Failures
<1>13. Unheard
  BY <1>11, <1>12 DEF Unheard
<1>14. \A n \in Live : n.ref # Current(h).ref
  <2>1. Range(todo[h]) = {}
    BY <1>1, RangeEmpty
  <2>. QED  BY <1>1, <2>1, Alone
<1>15. Live' = Live
  BY <1>6, <1>7, <1>11, <1>14 DEF Once
<1>16. Owed' = Owed
  BY <1>6, <1>7, <1>11
<1>17. /\ UNCHANGED <<transport, refunds, confirmed, cancelled>>
       /\ bundles' = [bundles EXCEPT ![c.ref] = [bundles[c.ref] EXCEPT !.finalized = TRUE, !.failed = TRUE]]
  BY <1>3 DEF CloseFailed, Update, outside, sales
<1>18. \A b \in Bundle : /\ bundles'[b].inbound = bundles[b].inbound
                         /\ bundles'[b].return = bundles[b].return
                         /\ bundles'[b].tickets = bundles[b].tickets
  BY <1>3, <1>17, Parts DEF Rows
<1>. QED  BY <1>11, <1>13, <1>15, <1>16, <1>17, <1>18, Aside
-----------------------------------------------------------------------------
(* A handler outside the chain that sends nothing. *)
LEMMA OtherSilent ==
  ASSUME IInv, TInv, NEW h \in Handlers \ Once, queue[h] # <<>>, todo[h] = <<>>,
         NEW s \in Steps, Reach(h, s, <<>>, queue)
  PROVE  /\ Shape' /\ Live' = Live /\ Unheard
         /\ OwedBut(h) /\ (s # "sending" => Owed' = Owed)
<1> DEFINE ms == <<>>
<1>1. ms \in Seq(Message) /\ Range(ms) = {} /\ Reach(h, s, ms, queue)
  BY RangeEmpty
<1>. HIDE DEF ms
<1>2. h \in Handlers \ Chain /\ h # "TicketBookingConfirmed"
  BY ChainIs DEF Once
<1>3. \A n \in Range(ms) : n.type \notin Once \cup Compensation
  BY <1>1
<1>4. BusOK /\ Shape
  BY Parts DEF TInv
<1>. QED  BY <1>1, <1>2, <1>3, <1>4, OtherReaches

LEMMA ShowOnce ==
  ASSUME IInv, IInv', TInv, BookShowTickets
  PROVE  Shape' /\ View' /\ Counted'
<1> DEFINE h == "BookShowTickets"
<1>1. /\ h \in Handlers \ (Once \cup Compensation) /\ queue[h] # <<>> /\ todo[h] = <<>>
      /\ h \in Handlers /\ BusOK
  BY CommandsAside, Parts DEF BookShowTickets, Ready, Idle, BusOK
<1>2. PICK c \in Message : c = Current(h) /\ c.type = h /\ c.ref \in Booking
  BY <1>1, Hearing
<1>3. UNCHANGED <<bundles, confirmed, outside>> /\ UNCHANGED <<transport, refunds, cancelled>>
  BY DEF BookShowTickets, outside
<1>4. CASE Sales!Make(c.ref) /\ Reach(h, "sending", <<>>, Post(queue, About("BookingMade", c.ref)))
  <2>1. PICK m : m = About("BookingMade", c.ref)
    OBVIOUS
  <2>2. m \in Message /\ m.type = "BookingMade" /\ m.ref = c.ref
    BY <1>2, <2>1, Fields, TypesAre
  <2>3. PICK q : q = Post(queue, m)
    OBVIOUS
  <2>4. q \in [Handlers -> Seq(Message)]
    BY <1>1, <2>2, <2>3 DEF Post, BusOK
  <2>5. PICK s \in Steps : s = "sending"
    BY DEF Steps
  <2> DEFINE ms == <<>>
  <2>6. Reach(h, s, ms, q) /\ ms = <<>>
    BY <1>4, <2>1, <2>3, <2>5
  <2>. HIDE DEF ms
  <2>7. LET over == s = "sending" /\ ms = <<>> /\ ~MayFail(h) IN
        \A g \in Handlers :
          /\ queue'[g] = IF g = h /\ over THEN Tail(q[g]) ELSE q[g]
          /\ at'[g] = IF g # h THEN at[g] ELSE IF over THEN "idle" ELSE s
          /\ todo'[g] = IF g = h THEN ms ELSE todo[g]
          /\ lost'[g] = lost[g]
    BY <1>1, <2>4, <2>6, ReachParts
  <2>8. \A g \in Handlers \ {h} : /\ queue'[g] = Post(queue, m)[g] /\ lost'[g] = lost[g]
                                  /\ at'[g] = at[g] /\ todo'[g] = todo[g]
    BY <2>3, <2>7
  <2>9. todo'[h] \in {<<>>, todo[h]}
    BY <1>1, <2>6, <2>7
  <2>10. outcome[m.ref] = "open"
    BY <1>4, <2>2 DEF Sales!Make
  <2>. QED  BY <1>1, <1>3, <2>2, <2>8, <2>9, <2>10, Begins
<1>5. CASE Start(h, "sending", <<>>)
  <2>1. "sending" \in Steps /\ Reach(h, "sending", <<>>, queue) /\ h \in Handlers \ Once
    BY <1>1, <1>5 DEF Steps, Start
  <2>2. Shape' /\ Live' = Live /\ Unheard /\ OwedBut(h)
    BY <1>1, <2>1, OtherSilent
  <2>3. c.type \notin Compensation
    BY <1>1, <1>2
  <2>4. Owed' = Owed
    BY <1>2, <2>2, <2>3 DEF OwedBut, Owed
  <2>. QED  BY <1>3, <2>2, <2>4, Aside
<1>6. CASE Start(h, "sending", <<About("BookingFailed", c.ref)>>)
  <2>1. PICK m : m = About("BookingFailed", c.ref)
    OBVIOUS
  <2>2. m \in Message /\ m.type = "BookingFailed"
    BY <1>2, <2>1, Fields, TypesAre
  <2>3. m.type \notin Once \cup Compensation
    BY <2>2 DEF Once, Chain, Compensation
  <2>4. Reach(h, "sending", <<m>>, queue) /\ h \in Handlers \ Once
    BY <1>1, <1>6, <2>1 DEF Start
  <2>5. Shape' /\ Live' = Live /\ Owed' = Owed /\ Unheard
    BY <1>1, <2>2, <2>3, <2>4, OtherSends
  <2>. QED  BY <1>3, <2>5, Aside
<1>. QED  BY <1>2, <1>4, <1>5, <1>6 DEF BookShowTickets

(* The compensations. *)
LEMMA CommandsOnce ==
  ASSUME IInv, IInv', TInv, CancelFlightTickets \/ VoidReceipt \/ RefundPayment
  PROVE  Shape' /\ View' /\ Counted'
<1>1. ASSUME NEW h \in Compensation PROVE h \in Handlers \ Once /\ h \in Handlers
  BY ChainIs
<1>2. bundles' = bundles /\ UNCHANGED <<transport, confirmed>> /\ BusOK
  BY Parts DEF CancelFlightTickets, VoidReceipt, RefundPayment, sales
<1>3. /\ \A b \in Bundle : /\ bundles'[b].inbound = bundles[b].inbound
                           /\ bundles'[b].return = bundles[b].return
                           /\ bundles'[b].tickets = bundles[b].tickets
      /\ \A b \in Bundle, leg \in Flights : RowKey(b, leg)' = RowKey(b, leg)
  BY <1>2 DEF RowKey
<1>4. CASE CancelFlightTickets
  <2> DEFINE h == "CancelFlightTickets"
  <2>1. /\ h \in Handlers \ Once /\ h \in Handlers /\ queue[h] # <<>> /\ todo[h] = <<>>
        /\ Reach(h, "sending", <<>>, queue) /\ "sending" \in Steps
        /\ cancelled' = cancelled \cup {Current(h).key} /\ refunds' = refunds
    BY <1>1, <1>2, <1>4 DEF CancelFlightTickets, Start, Ready, Idle, BusOK, Steps, Compensation
  <2>2. Shape' /\ Live' = Live /\ Unheard /\ OwedBut(h)
    BY <2>1, OtherSilent
  <2>3. Current(h).type = h
    BY <2>1, CurrentMessage, Parts DEF BusInv
  <2>4. Repaying' = Repaying
    <3>1. \A n : n.type = "RefundTicket" => (n \in Owed' <=> n \in Owed)
      BY <2>2, <2>3 DEF OwedBut
    <3>. QED  BY <2>1, <3>1 DEF Repaying
  <2>5. Cancelling \subseteq Cancelling'
    BY <2>1, <2>2 DEF Cancelling, OwedBut
  <2>6. View'
    BY <1>2, <1>3, <2>2, <2>4, <2>5, Parts, ViewSame DEF TInv
  <2>7. Counted'
    BY <1>2, <1>3, <2>2, CountedSame DEF TInv
  <2>. QED  BY <2>2, <2>6, <2>7
<1>5. CASE VoidReceipt
  <2> DEFINE h == "RefundTicket"
  <2>1. /\ h \in Handlers \ Once /\ queue[h] # <<>> /\ todo[h] = <<>>
        /\ Reach(h, "voided", <<>>, queue) /\ "voided" \in Steps /\ "voided" # "sending"
        /\ UNCHANGED <<cancelled, refunds>>
    BY <1>1, <1>2, <1>5 DEF VoidReceipt, Start, Ready, Idle, BusOK, Steps, Compensation
  <2>2. Shape' /\ Live' = Live /\ Unheard /\ Owed' = Owed
    BY <2>1, OtherSilent
  <2>. QED  BY <1>2, <1>3, <2>1, <2>2, Aside
<1>6. CASE RefundPayment
  <2> DEFINE h == "RefundTicket"
  <2>1. h \in Handlers \ Once /\ h \in Handlers /\ queue[h] # <<>> /\ todo[h] = <<>>
    <3>1. at[h] = "voided" /\ h \in Compensation
      BY <1>6 DEF RefundPayment, Compensation
    <3>. QED  BY <1>1, <1>2, <3>1 DEF BusOK
  <2>2. PICK c \in Message : c = Current(h) /\ c.type = h /\ c.ref \in Booking /\ c.ref \in Bundle
    BY <2>1, Hearing
  <2>3. PICK m : m = OfTicket("TicketRefunded", c.ref, c.ticket, 0)
    OBVIOUS
  <2>4. m \in Message /\ m.type = "TicketRefunded"
    <3>1. c.ticket \in Nat /\ 0 \in Nat
      BY DEF Message
    <3>. QED  BY <2>2, <2>3, <3>1, Fields, TypesAre
  <2>5. m.type \notin Once \cup Compensation
    BY <2>4 DEF Once, Chain, Compensation
  <2>6. /\ Reach(h, "sending", <<m>>, queue) /\ cancelled' = cancelled
        /\ refunds' = refunds \cup {[ref |-> c.ref, ticket |-> c.ticket, key |-> c.key]}
    BY <1>6, <2>2, <2>3 DEF RefundPayment
  <2>7. Shape' /\ Live' = Live /\ Owed' = Owed /\ Unheard
    BY <2>1, <2>4, <2>5, <2>6, OtherSends
  <2>8. Repaying' = Repaying
    <3>1. c \in Owed
      BY <1>2, <2>1, <2>2, RangeTail DEF Owed, Held, Current, BusOK, Compensation
    <3>. QED  BY <2>2, <2>6, <2>7, <3>1 DEF Repaying
  <2>9. Cancelling \subseteq Cancelling'
    BY <2>6, <2>7 DEF Cancelling
  <2>10. View'
    BY <1>2, <1>3, <2>7, <2>8, <2>9, Parts, ViewSame DEF TInv
  <2>11. Counted'
    BY <1>2, <1>3, <2>7, CountedSame DEF TInv
  <2>. QED  BY <2>7, <2>10, <2>11
<1>. QED  BY <1>4, <1>5, <1>6
-----------------------------------------------------------------------------
(* What a handler sends, and the end, failure or resumption of its turn. *)
LEMMA DeliverOnce ==
  ASSUME IInv, IInv', TInv, OnceOnly, NEW h \in Handlers, Deliver(h) \/ Fail(h)
  PROVE  Shape' /\ View' /\ Counted'
<1>1. /\ SendNext(h) \/ Ack(h) \/ Retry(h) \/ Crash(h) \/ Claim(h)
      /\ UNCHANGED <<bundles, transport, cancelled, refunds, confirmed>>
      /\ BusOK /\ Shape
  <2>1. SendNext(h) \/ Ack(h) \/ Retry(h) \/ Crash(h) \/ Claim(h)
    BY DEF Deliver, Fail, Send
  <2>2. UNCHANGED <<bundles, sales, outside>>
    BY DEF Deliver, Fail, Send, Others
  <2>. QED  BY <2>1, <2>2, Parts DEF TInv, sales, outside
<1>2. /\ \A b \in Bundle : /\ bundles'[b].inbound = bundles[b].inbound
                           /\ bundles'[b].return = bundles[b].return
                           /\ bundles'[b].tickets = bundles[b].tickets
      /\ \A b \in Bundle, leg \in Flights : RowKey(b, leg)' = RowKey(b, leg)
  BY <1>1 DEF RowKey
<1>3. CASE h \in Chain
  <2>1. ~MayFail(h) /\ SendNext(h)
    BY <1>1, <1>3, NeverTwice
  <2>2. "TicketBookingConfirmed" \in Handlers \ Chain
    BY ChainIs DEF Once, Chain
  <2>3. /\ Shape' /\ Live' = Live /\ Owed' = Owed
        /\ \A g \in Handlers \ Chain :
             /\ lost'[g] = lost[g] /\ at'[g] = at[g] /\ todo'[g] = todo[g]
             /\ g = "TicketBookingConfirmed" => queue'[g] = queue[g]
    BY <1>1, <1>3, <2>1, Sorting, ChainSends DEF Sorted
  <2>4. Unheard
    BY <2>2, <2>3 DEF Unheard
  <2>. QED  BY <1>1, <1>2, <2>3, <2>4, Aside
<1>4. ASSUME h = "TicketBookingConfirmed" PROVE FALSE
  <2>1. at[h] = "idle" /\ lost[h] = <<>> /\ h \in Once
    BY <1>4 DEF TInv, Counted, Once
  <2>2. todo[h] = <<>> /\ ~MayFail(h)
    BY <1>1, <2>1 DEF BusOK, OnceOnly, MayFail
  <2>3. ~SendNext(h) /\ ~Ack(h) /\ ~Retry(h) /\ ~Crash(h)
    BY <2>1, <2>2 DEF SendNext, Ack, Retry, Crash
  <2>4. ~Claim(h)
    BY <2>1 DEF Claim
  <2>. QED  BY <1>1, <2>3, <2>4
<1>5. CASE h \notin Once
  <2>1. /\ Shape' /\ Live' = Live /\ Unheard
        /\ OwedBut(h) /\ (at[h] # "sending" => Owed' = Owed)
    BY <1>1, <1>5, OtherDelivers
  <2>2. Repaying' = Repaying /\ Cancelling' = Cancelling
    <3>1. CASE queue[h] # <<>>
      BY <1>1, <2>1, <3>1, Paid DEF TInv
    <3>2. CASE queue[h] = <<>>
      <4>1. at[h] # "sending"
        BY <1>1, <3>2 DEF BusOK
      <4>. QED  BY <1>1, <2>1, <4>1 DEF Repaying, Cancelling
    <3>. QED  BY <3>1, <3>2
  <2>3. View'
    BY <1>1, <1>2, <2>1, <2>2, Parts, ViewSame DEF TInv
  <2>4. Counted'
    BY <1>1, <1>2, <2>1, CountedSame DEF TInv
  <2>. QED  BY <2>1, <2>3, <2>4
<1>. QED  BY <1>3, <1>4, <1>5 DEF Once

LEMMA StutterOnce ==
  ASSUME TInv, UNCHANGED vars
  PROVE  TInv'
<1>1. UNCHANGED <<queue, lost, at, todo, bundles, transport, cancelled, refunds, confirmed>>
  BY DEF vars, sales, outside
<1>2. Live' = Live /\ Owed' = Owed /\ Shape'
  BY <1>1 DEF TInv, Live, Owed, Shape, ChainOK, Apart, Rest, Held, Current
<1>3. Repaying' = Repaying /\ Cancelling' = Cancelling
  BY <1>1, <1>2 DEF Repaying, Cancelling
<1>4. View'
  <2>1. AllOpen' /\ AskedOnce' /\ RefundKeys'
    BY <1>1, <1>2, <1>3 DEF TInv, View, AllOpen, Open, AskedOnce, RefundKeys
  <2>2. Recorded' /\ Released' /\ Repaid'
    BY <1>1, <1>2, <1>3 DEF TInv, View, Recorded, Released, Repaid, Waits, RowKey,
                            Refused, RefusedFlight
  <2>. QED  BY <2>1, <2>2 DEF View
<1>5. Done' /\ Counted'
  BY <1>1 DEF TInv, Done, Counted, Current
<1>. QED  BY <1>2, <1>4, <1>5 DEF TInv

LEMMA InitOnce ==
  ASSUME Init
  PROVE  TInv
<1>1. \A h \in Handlers : /\ queue[h] = <<>> /\ lost[h] = <<>>
                          /\ at[h] = "idle" /\ todo[h] = <<>>
  BY DEF Init, BusInit
<1>2. \A h \in Handlers : Range(queue[h]) = {} /\ Range(lost[h]) = {} /\ Range(todo[h]) = {}
  BY <1>1, RangeEmpty
<1>3. Shape
  <2>1. \A f : Distinct(<<>>, f)
    BY DEF Distinct
  <2>2. ASSUME NEW h \in Chain PROVE ChainOK(h) /\ \A g \in Chain : Apart(h, g)
    <3>1. \A g \in Chain : g \in Handlers
      BY ChainIs
    <3>2. /\ queue[h] = <<>> /\ lost[h] = <<>> /\ at[h] = "idle"
          /\ Range(queue[h]) = {} /\ Range(todo[h]) = {}
      BY <1>1, <1>2, <3>1
    <3>. QED  BY <2>1, <3>2 DEF ChainOK, Apart
  <2>. QED  BY <1>2, <2>2 DEF Shape
<1>4. Live = {} /\ Owed = {}
  BY <1>1, <1>2, ChainIs DEF Live, Owed, Rest, Held
<1>5. transport = {} /\ refunds = {} /\ cancelled = {} /\ confirmed = {}
  BY DEF Init
<1>6. View
  <2>1. Repaying = {}
    BY <1>4, <1>5 DEF Repaying
  <2>. QED  BY <1>4, <1>5, <2>1 DEF View, AllOpen, AskedOnce, Recorded, Released, Repaid,
                                    RefundKeys, Refused, RefusedFlight
<1>7. Done
  BY <1>1, ChainIs DEF Done, Compensation
<1>8. Counted
  <2>1. "TicketBookingConfirmed" \in Handlers
    BY ChainIs DEF Once
  <2>2. \A b \in Bundle : bundles[b].tickets = <<>>
    BY DEF Init, NoBundle
  <2>3. \A f : Distinct(<<>>, f)
    BY DEF Distinct
  <2>4. \A m \in Range(queue["TicketBookingConfirmed"]) : FALSE
    BY <1>2, <2>1
  <2>. QED  BY <1>1, <1>5, <2>1, <2>2, <2>3, <2>4 DEF Counted
<1>. QED  BY <1>3, <1>6, <1>7, <1>8 DEF TInv

LEMMA StepOnce ==
  ASSUME OnceOnly, IInv, TInv, [Next]_vars
  PROVE  TInv'
<1>1. IInv'
  BY StepIInv
<1>2. Done'
  BY DoneStep DEF TInv
<1>3. CASE UNCHANGED vars
  BY <1>3, StutterOnce
<1>4. SUFFICES ASSUME Next PROVE Shape' /\ View' /\ Counted'
  BY <1>2, <1>3 DEF TInv
<1>5. CASE \E b \in Bundle : BookVipBundle(b)
  BY <1>1, <1>5, CustomersOnce
<1>6. CASE \E p \in PlainBooking : BookTickets(p)
  BY <1>1, <1>6, CustomersOnce
<1>7. CASE DeadNation
  BY <1>1, <1>7, ConfirmOnce
<1>8. CASE ProcessManager
  <2>1. CASE OnVipBundleInitialized \/ OnBookingFailed \/ OnTaxiBooked
    BY <1>1, <2>1, EndsOnce
  <2>2. CASE OnBookingMade \/ OnFlightBooked
    BY <1>1, <2>2, OrderOnce
  <2>3. CASE OnTicketBookingConfirmed
    BY <1>1, <2>3, CountOnce
  <2>4. CASE OnFlightBookingFailed
    BY <1>1, <2>4, FlightFailedOnce
  <2>5. CASE OnTaxiBookingFailed
    BY <1>1, <2>5, TaxiFailedOnce
  <2>6. ASSUME NEW h \in {"FlightBookingFailed", "TaxiBookingFailed"}, CloseFailed(h)
        PROVE  Shape' /\ View' /\ Counted'
    BY <1>1, <2>6, CloseOnce DEF Failures
  <2>. QED  BY <1>8, <2>1, <2>2, <2>3, <2>4, <2>5, <2>6 DEF ProcessManager
<1>9. CASE CommandHandlers
  BY <1>1, <1>9, ShowOnce, AskOnce, CommandsOnce DEF CommandHandlers
<1>10. CASE \E h \in Handlers : Deliver(h) \/ Fail(h)
  BY <1>1, <1>10, DeliverOnce
<1>. QED  BY <1>4, <1>5, <1>6, <1>7, <1>8, <1>9, <1>10 DEF Next

LEMMA InductiveOnce ==
  ASSUME OnceOnly
  PROVE  Spec => [](IInv /\ TInv)
<1>1. Init => TInv
  BY InitOnce
<1>2. IInv /\ TInv /\ [Next]_vars => TInv'
  BY StepOnce
<1>3. Spec => []IInv
  BY Inductive
<1>. QED  BY <1>1, <1>2, <1>3, PTL DEF Spec
-----------------------------------------------------------------------------
(* Once nothing is under way, nothing is owed and no chain runs. *)
LEMMA QuietIs ==
  ASSUME IInv, Quiet
  PROVE  /\ \A b : ~Waits(b)
         /\ Repaying = refunds /\ Cancelling = cancelled
<1>1. BusOK
  BY Parts
<1>2. \A h \in Handlers : /\ queue[h] = <<>> /\ lost[h] = <<>>
                          /\ at[h] = "idle" /\ todo[h] = <<>>
  BY <1>1 DEF Quiet, BusOK
<1>3. \A h \in Handlers : Range(queue[h]) = {} /\ Range(lost[h]) = {} /\ Range(todo[h]) = {}
  BY <1>2, RangeEmpty
<1>4. Live = {} /\ Owed = {}
  BY <1>2, <1>3, ChainIs DEF Live, Owed, Rest, Held
<1>. QED  BY <1>4 DEF Waits, Repaying, Cancelling

(* OnTaxiBooked, OnBookingFailed, the compensations: no bundle is announced*)
(* both as complete and as failed.                                         *)
THEOREM VerdictIsFinal ==
  ASSUME OnceOnly
  PROVE  Spec => []OneVerdict
<1>1. IInv /\ TInv => OneVerdict
  <2> SUFFICES ASSUME IInv, TInv, NEW b \in Bundle, Succeeded(b), Failed(b)
               PROVE  FALSE
    BY DEF OneVerdict
  <2>1. SuccessIsBacked(b) /\ FailureIsBacked(b)
    BY Verdicts DEF VerdictIsBacked
  <2>2. PICK d \in transport : d.ref = b /\ d.leg = "taxi" /\ d.status = "booked"
    BY <2>1 DEF SuccessIsBacked, BookedKeys
  <2>3. outcome[b] # "refused"
    BY <2>1 DEF SuccessIsBacked
  <2>4. PICK a \in transport : a.ref = b /\ a.status = "refused"
    BY <2>1, <2>3 DEF FailureIsBacked, RefusedLegs
  <2>. QED  BY <2>2, <2>4 DEF TInv, View, AskedOnce
<1>. QED  BY <1>1, InductiveOnce, PTL

(* OnFlightBookingFailed, OnTaxiBookingFailed, RefundPayment: no ticket is *)
(* paid back twice.                                                        *)
THEOREM PaidBackOnce ==
  ASSUME OnceOnly
  PROVE  Spec => []NoDoubleRefund
<1>1. IInv /\ TInv => NoDoubleRefund
  <2> SUFFICES ASSUME IInv, TInv, NEW r \in refunds, NEW q \in refunds,
                      r.ref = q.ref, r.ticket = q.ticket
               PROVE  r = q
    BY DEF NoDoubleRefund
  <2>1. r \in Repaying /\ q \in Repaying
    BY DEF Repaying
  <2>2. r.key = q.key
    BY <2>1 DEF TInv, View, RefundKeys
  <2>3. /\ r \in [ref : Bundle, ticket : Nat, key : Nat]
        /\ q \in [ref : Bundle, ticket : Nat, key : Nat]
    BY Parts DEF WorldOK
  <2>. QED  BY <2>2, <2>3
<1>. QED  BY <1>1, InductiveOnce, PTL

(* The compensations, CancelFlightTickets: once nothing is under way, a    *)
(* failed bundle holds no flight tickets.                                  *)
THEOREM FlightsAreReleased ==
  ASSUME OnceOnly
  PROVE  Spec => []FlightsReleased
<1>1. IInv /\ TInv => FlightsReleased
  <2> SUFFICES ASSUME IInv, TInv, Quiet, NEW b \in Bundle, Failed(b)
               PROVE  BookedKeys(b, {"inbound", "return"}) \subseteq cancelled
    BY DEF FlightsReleased
  <2> SUFFICES ASSUME NEW a \in transport, a.ref = b, a.status = "booked", a.leg \in Flights
               PROVE  a.key \in cancelled
    BY DEF BookedKeys, Flights
  <2>1. FailureIsBacked(b)
    BY Verdicts DEF VerdictIsBacked
  <2>2. outcome[b] # "refused"
    BY Parts DEF IInv, TradeInv, LegsInOrder, Backed
  <2>3. Refused(b)
    BY <2>1, <2>2 DEF FailureIsBacked, RefusedLegs, Refused
  <2>. QED  BY <2>3, QuietIs DEF TInv, View, Released
<1>. QED  BY <1>1, InductiveOnce, PTL

(* OnFlightBookingFailed: once nothing is under way, every ticket of a     *)
(* bundle that failed for a flight was paid back.                          *)
THEOREM AllPaidBack ==
  ASSUME OnceOnly
  PROVE  Spec => []FlightFailureRefundsAll
<1>1. IInv /\ TInv => FlightFailureRefundsAll
  <2> SUFFICES ASSUME IInv, TInv, Quiet, NEW b \in Bundle,
                      RefusedLegs(b) \cap {"inbound", "return"} # {},
                      NEW i \in 1 .. Size[b]
               PROVE  \E r \in refunds : r.ref = b /\ r.ticket = i
    BY DEF FlightFailureRefundsAll
  <2>1. RefusedFlight(b)
    BY DEF RefusedLegs, RefusedFlight, Flights
  <2>. QED  BY <2>1, QuietIs DEF TInv, View, Repaid
<1>. QED  BY <1>1, InductiveOnce, PTL
=============================================================================
