---------------------------- MODULE TicketsProofs ----------------------------
(***************************************************************************)
(* Proofs about Tickets, for any tickets, requests, refunds and number of  *)
(* failures: money is returned as it was asked for, and a ticket has one   *)
(* receipt if one request confirms it.                                     *)
(*                                                                         *)
(* The invariant follows the messages: whoever sends one has seen to what  *)
(* it says (Good), and no queue, failure or repetition changes it          *)
(* (HonestBus).                                                            *)
(*                                                                         *)
(* The second part proves that every event has its effects.  A message is  *)
(* due to a group until the handler has done what it asks for (Due); the   *)
(* effects of what was published and is due no more are there (EffectInv,  *)
(* MarkInv), and so are those of a handler that has only to send on what   *)
(* it did (AppendedInv, SentInv).                                          *)
(***************************************************************************)
EXTENDS Tickets, SequenceTheorems, FiniteSetTheorems, TLAPS

Keys == {r[2] : r \in RefundRequest}

(* A request confirms a ticket. *)
Says(p, t) == [ticket |-> t, status |-> "confirmed"] \in Range(Body[p])

(* What a message says is so. *)
Good(m) ==
  /\ m.type # "BookingMade" => m.ticket \in Ticket
  /\ m.type = "TicketBookingConfirmed" =>
       \E p \in Request : m.key = <<p, m.ticket>> /\ Says(p, m.ticket)
  /\ m.type = "RefundTicket" =>
       \E a \in asked : a.ticket = m.ticket /\ a.key = m.key
  /\ m.type = "TicketRefunded" => \E r \in refunds : r.ticket = m.ticket

Held(g) == Range(queue[g]) \cup Range(lost[g])

HonestBus ==
  \A g \in Groups :
    /\ \A m \in Held(g) : m.type = Subscribed(g) /\ Good(m)
    /\ \A m \in Range(todo[g]) : Good(m)

(* The types of the bus; who is in the middle of a message has one. *)
BusOK ==
  /\ queue \in [Groups -> Seq(Message)]
  /\ lost \in [Groups -> Seq(Message)]
  /\ at \in [Groups -> {"idle", "sending", "appended", "voided"}]
  /\ todo \in [Groups -> Seq(Message)]
  /\ faults \in 0 .. MaxFaults
  /\ \A g \in Groups :
       /\ at[g] # "idle" => queue[g] # <<>>
       /\ todo[g] # <<>> => at[g] = "sending"

Entries == Seq([ticket : Ticket, status : Statuses])

RequestsOK ==
  /\ booking \in {"no", "made", "told"}
  /\ left \in [Request -> Entries]
  /\ \A p \in Request : Range(left[p]) \subseteq Range(Body[p])
  /\ reply \in [Request -> {"unsent", "running", "200", "400"}]
  /\ published \subseteq {"TicketBookingConfirmed", "TicketBookingCanceled"} \X Ticket
  /\ asked \subseteq [ticket : Ticket, key : Keys, listed : BOOLEAN]

TicketsOK ==
  /\ tickets \in [Ticket -> [stored : BOOLEAN, refunded : BOOLEAN, deleted : BOOLEAN]]
  /\ \A t \in Ticket : tickets[t].refunded \/ tickets[t].deleted => tickets[t].stored

ApisOK ==
  /\ receipts \subseteq [ticket : Ticket, key : Request \X Ticket]
  /\ \A r \in receipts : \E p \in Request : r.key = <<p, r.ticket>> /\ Says(p, r.ticket)
  /\ rows \in [Sheets -> [Ticket -> 0 .. MaxRows]]
  /\ files \subseteq Ticket
  /\ voided \subseteq Ticket
  /\ refunds \subseteq Refunded

(* A refund is paid for the ticket whose receipt is void. *)
VoidInv == at["RefundTicket"] = "voided" => Current("RefundTicket").ticket \in voided

IInv ==
  /\ BusOK /\ HonestBus /\ RequestsOK /\ TicketsOK /\ ApisOK
  /\ VoidInv /\ PaidAsAsked
-----------------------------------------------------------------------------
(* What the operations on a queue do to the set of its messages. *)

LEMMA RangeSingle ==
  ASSUME NEW S, NEW x \in S
  PROVE  <<x>> \in Seq(S) /\ Range(<<x>>) = {x}
BY DEF Range

LEMMA RangeShift ==
  ASSUME NEW S, NEW s \in Seq(S), NEW t \in Seq(S),
         Len(t) = Len(s) + 1, \A i \in 1 .. Len(s) : t[i + 1] = s[i]
  PROVE  Range(t) = Range(s) \cup {t[1]}
<1>1. \A i \in 1 .. Len(t) : i = 1 \/ (i - 1 \in 1 .. Len(s) /\ t[i] = s[i - 1])
  OBVIOUS
<1>2. 1 \in 1 .. Len(t) /\ \A i \in 1 .. Len(s) : i + 1 \in 1 .. Len(t)
  OBVIOUS
<1>3. Range(s) = {s[i] : i \in 1 .. Len(s)} /\ Range(t) = {t[i] : i \in 1 .. Len(t)}
  BY RangeEquality
<1>. QED  BY <1>1, <1>2, <1>3

LEMMA RangePush ==
  ASSUME NEW S, NEW s \in Seq(S), NEW x \in S
  PROVE  <<x>> \o s \in Seq(S) /\ Range(<<x>> \o s) = Range(s) \cup {x}
<1> DEFINE t == <<x>> \o s
<1>1. /\ t \in Seq(S) /\ Len(t) = Len(s) + 1 /\ t[1] = x
      /\ \A i \in 1 .. Len(s) : t[i + 1] = s[i]
  OBVIOUS
<1>. HIDE DEF t
<1>2. Range(t) = Range(s) \cup {t[1]}
  BY <1>1, RangeShift
<1>. QED  BY <1>1, <1>2 DEF t

LEMMA RangeAppend ==
  ASSUME NEW S, NEW s \in Seq(S), NEW x \in S
  PROVE  Append(s, x) \in Seq(S) /\ Range(Append(s, x)) = Range(s) \cup {x}
<1>1. <<x>> \in Seq(S) /\ Range(<<x>>) = {x}
  BY RangeSingle
<1>2. Append(s, x) = s \o <<x>>
  BY AppendIsConcat
<1>3. Range(s \o <<x>>) = Range(s) \cup Range(<<x>>)
  BY <1>1, RangeConcatenation
<1>. QED  BY <1>1, <1>2, <1>3

LEMMA RangeTail ==
  ASSUME NEW S, NEW s \in Seq(S), s # <<>>
  PROVE  /\ Tail(s) \in Seq(S) /\ Head(s) \in S
         /\ Range(s) = Range(Tail(s)) \cup {Head(s)}
<1>1. Tail(s) \in Seq(S) /\ Head(s) \in S
  BY HeadTailProperties
<1>2. Range(s) = Range(Tail(s)) \cup {s[1]}
  <2>1. Len(s) = Len(Tail(s)) + 1 /\ \A i \in 1 .. Len(Tail(s)) : s[i + 1] = Tail(s)[i]
    BY HeadTailProperties
  <2>. QED  BY <1>1, <2>1, RangeShift
<1>. QED  BY <1>1, <1>2

LEMMA RangeWithout ==
  ASSUME NEW S, NEW s \in Seq(S), NEW i \in 1 .. Len(s)
  PROVE  LET t == SubSeq(s, 1, i - 1) \o SubSeq(s, i + 1, Len(s))
         IN  t \in Seq(S) /\ s[i] \in S /\ Range(s) = Range(t) \cup {s[i]}
<1> DEFINE a == SubSeq(s, 1, i - 1)
           b == SubSeq(s, i + 1, Len(s))
           c == SubSeq(s, i, Len(s))
<1>1. /\ a \in Seq(S) /\ b \in Seq(S) /\ c \in Seq(S)
      /\ s[i] \in S /\ i \in Nat \ {0} /\ Len(s) \in Nat /\ i <= Len(s)
  OBVIOUS
<1>2. s = a \o c
  <2>1. a \o c = SubSeq(s, 1, Len(s))
    <3>1. 1 \in 1 .. Len(s) + 1 /\ i - 1 \in 1 - 1 .. Len(s) /\ Len(s) \in i - 1 .. Len(s)
      BY <1>1
    <3>2. (i - 1) + 1 = i
      BY <1>1
    <3>3. SubSeq(s, 1, i - 1) \o SubSeq(s, (i - 1) + 1, Len(s)) = SubSeq(s, 1, Len(s))
      BY <3>1, ConcatAdjacentSubSeq
    <3>. QED  BY <3>2, <3>3
  <2>. QED  BY <2>1, SubSeqFull
<1>3. c = <<s[i]>> \o b
  <2>1. Len(s) \in i .. Len(s)
    BY <1>1
  <2>. QED  BY <2>1, SubSeqRecursiveFirst
<1>4. Range(c) = Range(b) \cup {s[i]}
  <2>1. Range(<<s[i]>> \o b) = Range(b) \cup {s[i]}
    BY <1>1, RangePush
  <2>. QED  BY <1>3, <2>1
<1>5. Range(s) = Range(a) \cup Range(c)
  <2>1. Range(a \o c) = Range(a) \cup Range(c)
    <3>. HIDE DEF a, c
    <3>. QED  BY <1>1, RangeConcatenation
  <2>. QED  BY <1>2, <2>1
<1>6. a \o b \in Seq(S) /\ Range(a \o b) = Range(a) \cup Range(b)
  <2>. HIDE DEF a, b
  <2>. QED  BY <1>1, ConcatProperties, RangeConcatenation
<1>. QED
  BY <1>1, <1>4, <1>5, <1>6
-----------------------------------------------------------------------------
LEMMA RangeRemoveAt ==
  ASSUME NEW S, NEW s \in Seq(S), NEW i \in 1 .. Len(s)
  PROVE  /\ RemoveAt(s, i) \in Seq(S) /\ s[i] \in S
         /\ Range(s) = Range(RemoveAt(s, i)) \cup {s[i]}
BY RangeWithout DEF RemoveAt

LEMMA CurrentMessage ==
  ASSUME BusOK, HonestBus, NEW g \in Groups, queue[g] # <<>>
  PROVE  /\ Current(g) \in Message /\ Current(g) \in Held(g)
         /\ Current(g).type = Subscribed(g) /\ Good(Current(g))
         /\ g # "BookingMade" => Current(g).ticket \in Ticket
<1>1. queue[g] \in Seq(Message)
  BY DEF BusOK
<1>2. Current(g) \in Message /\ Current(g) \in Range(queue[g])
  BY <1>1, RangeTail DEF Current
<1>3. Current(g).type = Subscribed(g) /\ Good(Current(g))
  BY <1>2 DEF HonestBus, Held
<1>4. g # "BookingMade" => Subscribed(g) # "BookingMade"
  BY DEF Groups, Subscribed
<1>. QED  BY <1>2, <1>3, <1>4 DEF Good, Held

(* No queue and no handler has a message but those there were, and ms.     *)
Adds(ms) ==
  \A h \in Groups :
    /\ \A m \in Held(h)' : m \in Held(h) \/ (m \in ms /\ m.type = Subscribed(h))
    /\ \A m \in Range(todo[h])' : m \in Range(todo[h]) \/ m \in ms

(* Messages stay good, since nobody takes back what was asked and paid.    *)
LEMMA HonestStays ==
  ASSUME HonestBus, NEW ms, Adds(ms), \A m \in ms : Good(m)',
         asked \subseteq asked', refunds \subseteq refunds'
  PROVE  HonestBus'
<1>1. ASSUME NEW m, Good(m) PROVE Good(m)'
  BY <1>1 DEF Good
<1>. QED  BY <1>1 DEF HonestBus, Adds

(* A message is published: what it does to the queues. *)
LEMMA PostTo ==
  ASSUME BusOK, NEW m \in Message
  PROVE  LET q == Post(queue, m) IN
         /\ q \in [Groups -> Seq(Message)]
         /\ \A g \in Groups :
              /\ Range(q[g]) \subseteq Range(queue[g]) \cup {m}
              /\ Subscribed(g) # m.type => q[g] = queue[g]
              /\ queue[g] # <<>> => q[g] # <<>> /\ Head(q[g]) = Head(queue[g])
<1> DEFINE q == Post(queue, m)
<1>1. \A g \in Groups :
        q[g] = IF Subscribed(g) = m.type THEN Append(queue[g], m) ELSE queue[g]
  BY DEF Post
<1>2. q \in [Groups -> Seq(Message)]
  BY <1>1 DEF Post, BusOK
<1>. HIDE DEF q
<1>3. ASSUME NEW g \in Groups
      PROVE  /\ Range(q[g]) \subseteq Range(queue[g]) \cup {m}
             /\ Subscribed(g) # m.type => q[g] = queue[g]
  <2>1. Range(Append(queue[g], m)) = Range(queue[g]) \cup {m}
    BY RangeAppend DEF BusOK
  <2>. QED  BY <1>1, <2>1
<1>4. ASSUME NEW g \in Groups, queue[g] # <<>>
      PROVE  q[g] # <<>> /\ Head(q[g]) = Head(queue[g])
  <2>1. queue[g] \in Seq(Message)
    BY DEF BusOK
  <2>2. Append(queue[g], m) # <<>> /\ Head(Append(queue[g], m)) = Head(queue[g])
    BY <1>4, <2>1
  <2>. QED  BY <1>1, <1>4, <2>2
<1>. QED  BY <1>2, <1>3, <1>4 DEF q

LEMMA PostAdds ==
  ASSUME BusOK, NEW m \in Message, queue' = Post(queue, m), UNCHANGED <<lost, at, todo>>,
         faults' \in 0 .. MaxFaults
  PROVE  /\ BusOK' /\ Adds({m})
         /\ \A g \in Groups : queue[g] # <<>> => Current(g)' = Current(g)
<1>1. /\ queue' \in [Groups -> Seq(Message)]
      /\ \A g \in Groups :
           /\ Range(queue'[g]) \subseteq Range(queue[g]) \cup {m}
           /\ Subscribed(g) # m.type => queue'[g] = queue[g]
           /\ queue[g] # <<>> => queue'[g] # <<>> /\ Head(queue'[g]) = Head(queue[g])
  BY PostTo
<1>2. BusOK'
  BY <1>1 DEF BusOK
<1>3. Adds({m})
  BY <1>1 DEF Adds, Held
<1>. QED  BY <1>1, <1>2, <1>3 DEF Current

(* A handler reaches a step, and its message may be acknowledged. *)
LEMMA ReachAdds ==
  ASSUME BusOK, NEW g \in Groups, queue[g] # <<>>, NEW ms \in Seq(Message),
         NEW s \in {"sending", "appended", "voided"}, s # "sending" => ms = <<>>,
         Reach(g, s, ms, queue)
  PROVE  /\ BusOK' /\ Adds(Range(ms))
         /\ \A h \in Groups \ {g} : at'[h] = at[h] /\ queue'[h] = queue[h]
         /\ \/ at'[g] = s /\ queue'[g] = queue[g]
            \/ at'[g] = "idle" /\ s = "sending"
<1>1. Tail(queue[g]) \in Seq(Message) /\ Range(Tail(queue[g])) \subseteq Range(queue[g])
  BY RangeTail DEF BusOK
<1>2. /\ lost' = lost /\ faults' = faults
      /\ todo' = [todo EXCEPT ![g] = ms]
      /\ \/ queue' = [queue EXCEPT ![g] = Tail(@)] /\ at' = [at EXCEPT ![g] = "idle"]
            /\ s = "sending" /\ ms = <<>>
         \/ queue' = queue /\ at' = [at EXCEPT ![g] = s]
  BY DEF Reach
<1>3. BusOK'
  BY <1>1, <1>2 DEF BusOK
<1>4. \A h \in Groups : Range(queue'[h]) \subseteq Range(queue[h])
  BY <1>1, <1>2 DEF BusOK
<1>5. \A h \in Groups : todo'[h] = IF h = g THEN ms ELSE todo[h]
  BY <1>2 DEF BusOK
<1>6. Adds(Range(ms))
  BY <1>2, <1>4, <1>5 DEF Adds, Held
<1>. QED  BY <1>2, <1>3, <1>6 DEF BusOK

(* A handler sends the next of its messages. *)
LEMMA SendNextAdds ==
  ASSUME BusOK, NEW g \in Groups, SendNext(g)
  PROVE  /\ BusOK' /\ \E m \in Range(todo[g]) : Adds({m})
         /\ \A h \in Groups : at'[h] # "idle" => at'[h] = at[h] /\ Current(h)' = Current(h)
<1> DEFINE m == Head(todo[g])
           q == Post(queue, m)
<1>1. /\ m \in Message /\ m \in Range(todo[g])
      /\ Tail(todo[g]) \in Seq(Message) /\ Range(Tail(todo[g])) \subseteq Range(todo[g])
  <2>1. todo[g] \in Seq(Message) /\ todo[g] # <<>>
    BY DEF BusOK, SendNext
  <2>. QED  BY <2>1, RangeTail
<1>2. at[g] = "sending" /\ Reach(g, "sending", Tail(todo[g]), q)
  BY DEF BusOK, SendNext
<1>. HIDE DEF m
<1>3. /\ q \in [Groups -> Seq(Message)]
      /\ \A h \in Groups :
           /\ Range(q[h]) \subseteq Range(queue[h]) \cup {m}
           /\ Subscribed(h) # m.type => q[h] = queue[h]
           /\ queue[h] # <<>> => q[h] # <<>> /\ Head(q[h]) = Head(queue[h])
  BY <1>1, PostTo
<1>4. q[g] # <<>>
  BY <1>2, <1>3 DEF BusOK
<1>. HIDE DEF q
<1>5. Tail(q[g]) \in Seq(Message) /\ Range(Tail(q[g])) \subseteq Range(q[g])
  BY <1>3, <1>4, RangeTail
<1>6. /\ lost' = lost /\ faults' = faults
      /\ todo' = [todo EXCEPT ![g] = Tail(todo[g])]
      /\ \/ queue' = [q EXCEPT ![g] = Tail(@)] /\ at' = [at EXCEPT ![g] = "idle"]
            /\ Tail(todo[g]) = <<>>
         \/ queue' = q /\ at' = [at EXCEPT ![g] = "sending"]
  BY <1>2 DEF Reach
<1>7. BusOK'
  BY <1>1, <1>2, <1>3, <1>5, <1>6 DEF BusOK
<1>8. \A h \in Groups : Range(queue'[h]) \subseteq Range(q[h])
  BY <1>3, <1>5, <1>6
<1>9. \A h \in Groups : Subscribed(h) # m.type => Range(queue'[h]) \subseteq Range(queue[h])
  BY <1>3, <1>8
<1>10. \A h \in Groups : Range(todo'[h]) \subseteq Range(todo[h])
  BY <1>1, <1>6 DEF BusOK
<1>11. Adds({m})
  BY <1>3, <1>6, <1>8, <1>9, <1>10 DEF Adds, Held
<1>12. \A h \in Groups : at'[h] # "idle" => at'[h] = at[h] /\ Current(h)' = Current(h)
  BY <1>2, <1>3, <1>6 DEF BusOK, Current
<1>. QED  BY <1>1, <1>7, <1>11, <1>12

(* The end of a handler's run, a failure, and a message that is claimed.   *)
LEMMA BusAddsNothing ==
  ASSUME BusOK, NEW g \in Groups, Ack(g) \/ Retry(g) \/ Crash(g) \/ Claim(g)
  PROVE  /\ BusOK' /\ Adds({})
         /\ \A h \in Groups : at'[h] # "idle" => at'[h] = at[h] /\ Current(h)' = Current(h)
<1>0. queue[g] \in Seq(Message) /\ lost[g] \in Seq(Message)
  BY DEF BusOK
<1>a. ASSUME queue[g] # <<>>
      PROVE  /\ Tail(queue[g]) \in Seq(Message) /\ Current(g) \in Message
             /\ Range(queue[g]) = Range(Tail(queue[g])) \cup {Current(g)}
  BY <1>0, <1>a, RangeTail DEF Current
<1>f. ASSUME MayFail(g) PROVE faults + 1 \in 0 .. MaxFaults
  BY <1>f, BoundAssumption DEF MayFail, BusOK
<1>1. CASE Ack(g)
  <2>1. queue[g] # <<>>
    BY <1>1 DEF Ack, BusOK
  <2>2. BusOK'
    BY <1>1, <1>a, <2>1 DEF BusOK, Ack
  <2>3. Adds({})
    BY <1>1, <1>a, <2>1 DEF BusOK, Ack, Adds, Held
  <2>. QED  BY <1>1, <2>2, <2>3 DEF BusOK, Ack, Current
<1>2. CASE Retry(g)
  <2>1. BusOK'
    BY <1>2, <1>f DEF BusOK, Retry
  <2>2. Range(<<>>) = {}
    BY DEF Range
  <2>3. Adds({})
    BY <1>2, <2>2 DEF BusOK, Retry, Adds, Held
  <2>. QED  BY <1>2, <2>1, <2>3 DEF BusOK, Retry, Current
<1>3. CASE Crash(g)
  <2>1. /\ Append(lost[g], Current(g)) \in Seq(Message)
        /\ Range(Append(lost[g], Current(g))) = Range(lost[g]) \cup {Current(g)}
    <3>1. Current(g) \in Message
      BY <1>3, <1>a DEF Crash
    <3>. QED  BY <1>0, <3>1, RangeAppend
  <2>2. BusOK'
    BY <1>3, <1>f, <1>a, <2>1 DEF BusOK, Crash
  <2>3. Range(<<>>) = {}
    BY DEF Range
  <2>4. \A h \in Groups : Held(h)' = Held(h)
    BY <1>3, <1>a, <2>1 DEF BusOK, Crash, Held
  <2>5. Adds({})
    BY <1>3, <2>3, <2>4 DEF BusOK, Crash, Adds
  <2>. QED  BY <1>3, <2>2, <2>5 DEF BusOK, Crash, Current
<1>4. CASE Claim(g)
  <2>1. PICK i \in 1 .. Len(lost[g]) :
          /\ queue' = [queue EXCEPT ![g] = <<lost[g][i]>> \o @]
          /\ lost' = [lost EXCEPT ![g] = RemoveAt(@, i)]
    BY <1>4 DEF Claim
  <2>2. /\ RemoveAt(lost[g], i) \in Seq(Message) /\ lost[g][i] \in Message
        /\ Range(lost[g]) = Range(RemoveAt(lost[g], i)) \cup {lost[g][i]}
    BY <1>0, RangeRemoveAt
  <2> DEFINE x == lost[g][i]
             r == RemoveAt(lost[g], i)
             p == <<x>> \o queue[g]
  <2>. HIDE DEF x, r
  <2>3. p \in Seq(Message) /\ Range(p) = Range(queue[g]) \cup {x}
    BY <1>0, <2>2, RangePush DEF x
  <2>. HIDE DEF p
  <2>4. queue' = [queue EXCEPT ![g] = p] /\ lost' = [lost EXCEPT ![g] = r]
    BY <2>1 DEF p, r, x
  <2>5. UNCHANGED <<at, todo, faults>> /\ at[g] = "idle"
    BY <1>4 DEF Claim, Idle
  <2>6. BusOK'
    BY <2>2, <2>3, <2>4, <2>5 DEF BusOK, r
  <2>7. \A h \in Groups : Held(h)' = Held(h)
    BY <2>2, <2>3, <2>4 DEF BusOK, Held, x, r
  <2>8. Adds({})
    BY <2>5, <2>7 DEF Adds
  <2>. QED  BY <2>4, <2>5, <2>6, <2>8 DEF BusOK, Current
<1>. QED  BY <1>1, <1>2, <1>3, <1>4

(* The bus is left as it should be by whatever a handler does, if its      *)
(* messages are good by then.                                              *)
Grows ==
  /\ asked \subseteq asked' /\ refunds \subseteq refunds' /\ voided \subseteq voided'

LEMMA HandlerKeepsBus ==
  ASSUME BusOK, HonestBus, VoidInv, Grows,
         NEW g \in Groups, queue[g] # <<>>, NEW ms \in Seq(Message),
         NEW s \in {"sending", "appended", "voided"}, s # "sending" => ms = <<>>,
         Reach(g, s, ms, queue),
         \A m \in Range(ms) : Good(m)',
         s = "voided" => Current(g).ticket \in voided'
  PROVE  BusOK' /\ HonestBus' /\ VoidInv'
<1>1. /\ BusOK' /\ Adds(Range(ms))
      /\ \A h \in Groups \ {g} : at'[h] = at[h] /\ queue'[h] = queue[h]
      /\ \/ at'[g] = s /\ queue'[g] = queue[g]
         \/ at'[g] = "idle" /\ s = "sending"
  BY ReachAdds
<1>2. HonestBus'
  BY <1>1, HonestStays DEF Grows
<1>3. VoidInv'
  BY <1>1 DEF VoidInv, Current, Grows, Groups
<1>. QED  BY <1>1, <1>2, <1>3

LEMMA RouterKeepsBus ==
  ASSUME BusOK, HonestBus, VoidInv, Grows,
         NEW g \in Groups, SendNext(g) \/ Ack(g) \/ Claim(g) \/ Retry(g) \/ Crash(g),
         UNCHANGED <<asked, refunds>>
  PROVE  BusOK' /\ HonestBus' /\ VoidInv'
<1>1. \E ms : /\ BusOK' /\ Adds(ms) /\ \A m \in ms : Good(m)
              /\ \A h \in Groups : at'[h] # "idle" => at'[h] = at[h] /\ Current(h)' = Current(h)
  <2>1. CASE SendNext(g)
    <3>1. PICK m \in Range(todo[g]) : Adds({m})
      BY <2>1, SendNextAdds
    <3>2. \A n \in {m} : Good(n)
      BY <3>1 DEF HonestBus
    <3>. QED  BY <2>1, <3>1, <3>2, SendNextAdds
  <2>2. CASE ~SendNext(g)
    <3>1. \A m \in {} : Good(m)
      OBVIOUS
    <3>. QED  BY <2>2, <3>1, BusAddsNothing
  <2>. QED  BY <2>1, <2>2
<1>2. PICK ms : /\ BusOK' /\ Adds(ms) /\ \A m \in ms : Good(m)
                /\ \A h \in Groups : at'[h] # "idle" => at'[h] = at[h] /\ Current(h)' = Current(h)
  BY <1>1
<1>3. \A m \in ms : Good(m)'
  BY <1>2 DEF Good
<1>4. HonestBus'
  BY <1>2, <1>3, HonestStays DEF Grows
<1>5. VoidInv'
  BY <1>2 DEF VoidInv, Grows, Groups
<1>. QED  BY <1>2, <1>4, <1>5

(* A request publishes one message. *)
LEMMA PublisherKeepsBus ==
  ASSUME BusOK, HonestBus, VoidInv, Grows,
         NEW m \in Message, Good(m)',
         queue' = Post(queue, m), UNCHANGED <<lost, at, todo>>, faults' \in 0 .. MaxFaults
  PROVE  BusOK' /\ HonestBus' /\ VoidInv'
<1>1. /\ BusOK' /\ Adds({m})
      /\ \A g \in Groups : queue[g] # <<>> => Current(g)' = Current(g)
  BY PostAdds
<1>2. HonestBus'
  BY <1>1, HonestStays DEF Grows
<1>3. VoidInv'
  BY <1>1 DEF VoidInv, Grows, Groups, BusOK
<1>. QED  BY <1>1, <1>2, <1>3
-----------------------------------------------------------------------------

LEMMA NoEntries ==
  <<>> \in Entries
BY DEF Entries

LEMMA InitIInv ==
  Init => IInv
<1> SUFFICES ASSUME Init PROVE IInv
  OBVIOUS
<1>1. Range(<<>>) = {}
  BY DEF Range
<1>2. BusOK
  BY BoundAssumption DEF Init, BusInit, BusOK
<1>3. HonestBus
  BY <1>1 DEF Init, BusInit, HonestBus, Held
<1>4. RequestsOK
  BY <1>1, NoEntries DEF Init, RequestsOK
<1>5. TicketsOK /\ PaidAsAsked
  BY DEF Init, TicketsOK, PaidAsAsked
<1>6. ApisOK
  BY BoundAssumption DEF Init, ApisOK
<1>7. VoidInv
  BY DEF Init, BusInit, VoidInv, Groups
<1>. QED  BY <1>2, <1>3, <1>4, <1>5, <1>6, <1>7 DEF IInv

(* What a message of each kind has to be. *)
LEMMA Messages ==
  ASSUME NEW t \in Ticket
  PROVE  /\ Msg("TicketPrinted", t, Nobody) \in Message
         /\ Msg("TicketRefunded", t, Nobody) \in Message
         /\ \A k \in Keys : Msg("RefundTicket", t, k) \in Message
         /\ \A k \in Request \X Ticket :
              /\ Msg("TicketReceiptIssued", t, k) \in Message
              /\ Msg("TicketBookingConfirmed", t, k) \in Message
              /\ Msg("TicketBookingCanceled", t, k) \in Message
<1>1. {"BookingMade", "TicketRefunded", "RefundTicket", "TicketBookingConfirmed",
       "TicketBookingCanceled"} \subseteq {Subscribed(g) : g \in Groups}
  <2>1. /\ Subscribed("BookingMade") = "BookingMade"
        /\ Subscribed("UpdateRefundedTicket") = "TicketRefunded"
        /\ Subscribed("RefundTicket") = "RefundTicket"
        /\ Subscribed("StoreTicket") = "TicketBookingConfirmed"
        /\ Subscribed("CancelTicket") = "TicketBookingCanceled"
    BY DEF Subscribed
  <2>2. {"BookingMade", "UpdateRefundedTicket", "RefundTicket", "StoreTicket",
         "CancelTicket"} \subseteq Groups
    BY DEF Groups
  <2>. QED  BY <2>1, <2>2
<1>. QED  BY <1>1 DEF Message, Msg, Keys

LEMMA Told ==
  Msg("BookingMade", Nobody, Nobody) \in Message
<1>1. "BookingMade" \in Groups /\ Subscribed("BookingMade") = "BookingMade"
  BY DEF Groups, Subscribed
<1>. QED  BY <1>1 DEF Message, Msg

(* The requests. *)
LEMMA RequestsKeep ==
  ASSUME IInv,
         BookTickets \/ HttpServer
           \/ (\E p \in Request : PostTicketsConfirmation(p) \/ PostAgain(p))
           \/ (\E r \in RefundRequest : PutTicketRefund(r[1], r[2]))
  PROVE  IInv'
<1>. USE DEF IInv
<1>1. CASE BookTickets
  <2>1. Good(Msg("BookingMade", Nobody, Nobody))'
    BY DEF Good, Msg
  <2>2. BusOK' /\ HonestBus' /\ VoidInv'
    <3>1. Grows /\ UNCHANGED <<lost, at, todo>> /\ faults' \in 0 .. MaxFaults
      BY <1>1 DEF BookTickets, Grows, apis, BusOK
    <3>. QED  BY <1>1, <2>1, <3>1, Told, PublisherKeepsBus DEF BookTickets
  <2>. QED
    BY <1>1, <2>2 DEF BookTickets, RequestsOK, TicketsOK, ApisOK, PaidAsAsked, apis
<1>2. ASSUME NEW p \in Request, PostTicketsConfirmation(p) PROVE IInv'
  <2>1. RequestsOK'
    BY <1>2, BodyAssumption DEF PostTicketsConfirmation, RequestsOK, Entries
  <2>2. BusOK' /\ HonestBus' /\ VoidInv'
    BY <1>2 DEF PostTicketsConfirmation, BusOK, HonestBus, Held, VoidInv, Good, Current,
                bus, apis
  <2>. QED
    BY <1>2, <2>1, <2>2 DEF PostTicketsConfirmation, TicketsOK, ApisOK, PaidAsAsked, apis
<1>3. ASSUME NEW p \in Request, PostAgain(p) PROVE IInv'
  <2>1. RequestsOK'
    <3>1. Range(<<>>) = {}
      BY DEF Range
    <3>2. \A q \in Request : left'[q] = IF q = p THEN <<>> ELSE left[q]
      BY <1>3 DEF PostAgain, RequestsOK
    <3>3. left' \in [Request -> Entries]
      BY <1>3, NoEntries DEF PostAgain, RequestsOK
    <3>4. \A q \in Request : Range(left'[q]) \subseteq Range(Body[q])
      BY <3>1, <3>2 DEF RequestsOK
    <3>5. reply' \in [Request -> {"unsent", "running", "200", "400"}]
      BY <1>3 DEF PostAgain, RequestsOK
    <3>. QED  BY <1>3, <3>3, <3>4, <3>5 DEF PostAgain, RequestsOK
  <2>2. BusOK' /\ HonestBus' /\ VoidInv'
    BY <1>3, BoundAssumption
    DEF PostAgain, BusOK, HonestBus, Held, VoidInv, Good, Current, apis, MayGoWrong
  <2>. QED
    BY <1>3, <2>1, <2>2 DEF PostAgain, TicketsOK, ApisOK, PaidAsAsked, apis
<1>4. ASSUME NEW p \in Request, PublishStatus(p) PROVE IInv'
  <2>0. PICK e, m : e = Head(left[p]) /\ m = EventOf(e, p)
    OBVIOUS
  <2>1. /\ Tail(left[p]) \in Entries
        /\ Range(Tail(left[p])) \subseteq Range(Body[p])
        /\ e \in [ticket : Ticket, status : Statuses] /\ e \in Range(Body[p])
    <3> DEFINE R == [ticket : Ticket, status : Statuses]
               l == left[p]
    <3>1. l \in Seq(R) /\ l # <<>> /\ Range(l) \subseteq Range(Body[p])
      BY <1>4 DEF PublishStatus, RequestsOK, Entries
    <3>2. e = Head(l)
      BY <2>0
    <3>. HIDE DEF l, R
    <3>3. /\ Tail(l) \in Seq(R) /\ Range(Tail(l)) \subseteq Range(Body[p])
          /\ e \in R /\ e \in Range(Body[p])
      BY <3>1, <3>2, RangeTail
    <3>. QED  BY <3>3 DEF l, R, Entries
  <2>2. /\ left' = [left EXCEPT ![p] = Tail(@)]
        /\ UNCHANGED <<booking, reply, asked, tickets, apis, lost, at, todo>>
        /\ \/ /\ queue' = Post(queue, m)
              /\ published' = published \cup {<<m.type, m.ticket>>}
              /\ faults' = faults
           \/ queue' = queue /\ published' = published /\ MayGoWrong("Publish")
              /\ faults' = faults + 1
    BY <1>4, <2>0 DEF PublishStatus
  <2>3. /\ m.ticket = e.ticket /\ m.key = <<p, e.ticket>>
        /\ m.type = IF e.status = "confirmed" THEN "TicketBookingConfirmed"
                                              ELSE "TicketBookingCanceled"
        /\ m = Msg(m.type, m.ticket, m.key)
    BY <2>0 DEF EventOf, Msg
  <2>4. m \in Message
    <3>1. e.ticket \in Ticket /\ <<p, e.ticket>> \in Request \X Ticket
      BY <2>1
    <3>. QED  BY <2>3, <3>1, Messages
  <2>5. e.status = "confirmed" => Says(p, e.ticket)
    <3>1. e.status = "confirmed" => e = [ticket |-> e.ticket, status |-> "confirmed"]
      BY <2>1
    <3>. QED  BY <2>1, <3>1 DEF Says
  <2>6. Good(m)'
    <3>1. e.ticket \in Ticket
      BY <2>1
    <3>. QED  BY <2>3, <2>5, <3>1 DEF Good
  <2>7. RequestsOK'
    <3>1. left' \in [Request -> Entries]
      BY <2>1, <2>2 DEF RequestsOK
    <3>2. \A q \in Request : Range(left'[q]) \subseteq Range(Body[q])
      BY <2>1, <2>2 DEF RequestsOK
    <3>3. published' \subseteq {"TicketBookingConfirmed", "TicketBookingCanceled"} \X Ticket
      <4>1. e.ticket \in Ticket
        BY <2>1
      <4>. QED  BY <2>2, <2>3, <4>1 DEF RequestsOK
    <3>. QED  BY <2>2, <3>1, <3>2, <3>3 DEF RequestsOK
  <2>8. BusOK' /\ HonestBus' /\ VoidInv'
    <3>1. Grows
      BY <2>2 DEF Grows, apis
    <3>2. CASE queue' = Post(queue, m) /\ faults' = faults
      <4>1. faults' \in 0 .. MaxFaults
        BY <3>2 DEF BusOK
      <4>2. UNCHANGED <<lost, at, todo>>
        BY <2>2
      <4>. QED  BY <2>4, <2>6, <3>1, <3>2, <4>1, <4>2, PublisherKeepsBus
    <3>3. CASE queue' = queue /\ MayGoWrong("Publish") /\ faults' = faults + 1
      BY <2>2, <3>3, BoundAssumption
      DEF BusOK, HonestBus, Held, VoidInv, Good, Current, apis, MayGoWrong
    <3>. QED  BY <2>2, <3>2, <3>3
  <2>. QED
    BY <2>2, <2>7, <2>8 DEF TicketsOK, ApisOK, PaidAsAsked, apis
<1>5. ASSUME NEW p \in Request, AnswerStatus(p) PROVE IInv'
  <2>1. RequestsOK'
    <3>1. Range(<<>>) = {}
      BY DEF Range
    <3>2. \A q \in Request : left'[q] = IF q = p THEN <<>> ELSE left[q]
      BY <1>5 DEF AnswerStatus, RequestsOK
    <3>3. left' \in [Request -> Entries]
      BY <1>5, NoEntries DEF AnswerStatus, RequestsOK
    <3>4. \A q \in Request : Range(left'[q]) \subseteq Range(Body[q])
      BY <3>1, <3>2 DEF RequestsOK
    <3>5. reply' \in [Request -> {"unsent", "running", "200", "400"}]
      BY <1>5 DEF AnswerStatus, RequestsOK
    <3>. QED  BY <1>5, <3>3, <3>4, <3>5 DEF AnswerStatus, RequestsOK
  <2>2. BusOK' /\ HonestBus' /\ VoidInv'
    BY <1>5
    DEF AnswerStatus, BusOK, HonestBus, Held, VoidInv, Good, Current, apis, bus
  <2>. QED
    BY <1>5, <2>1, <2>2 DEF AnswerStatus, TicketsOK, ApisOK, PaidAsAsked, apis
<1>6. ASSUME NEW r \in RefundRequest, PutTicketRefund(r[1], r[2]) PROVE IInv'
  <2> DEFINE t == r[1]
             k == r[2]
             a == [ticket |-> t, key |-> k, listed |-> tickets[t].stored]
             m == Msg("RefundTicket", t, k)
  <2>1. /\ t \in Ticket /\ k \in Keys
        /\ a \in [ticket : Ticket, key : Keys, listed : BOOLEAN]
    BY RefundAssumption DEF TicketsOK, Keys
  <2>2. /\ asked' = asked \cup {a} /\ queue' = Post(queue, m)
        /\ UNCHANGED <<booking, left, reply, published, tickets, apis, lost, at, todo>>
        /\ faults' = faults \/ (MayGoWrong("Put") /\ faults' = faults + 1)
    BY <1>6 DEF PutTicketRefund
  <2>3. a.ticket = t /\ a.key = k /\ m.ticket = t /\ m.key = k /\ m.type = "RefundTicket"
    BY DEF Msg
  <2>4. m \in Message
    BY <2>1, Messages
  <2>. HIDE DEF a, m, t, k
  <2>5. Good(m)'
    BY <2>1, <2>2, <2>3 DEF Good
  <2>6. BusOK' /\ HonestBus' /\ VoidInv'
    <3>1. faults' \in 0 .. MaxFaults
      BY <2>2, BoundAssumption DEF MayGoWrong, BusOK
    <3>2. Grows
      BY <2>2 DEF Grows, apis
    <3>. QED  BY <2>2, <2>4, <2>5, <3>1, <3>2, PublisherKeepsBus
  <2>7. RequestsOK'
    BY <2>1, <2>2 DEF RequestsOK
  <2>. QED
    BY <2>2, <2>6, <2>7 DEF TicketsOK, ApisOK, PaidAsAsked, apis
<1>. QED  BY <1>1, <1>2, <1>3, <1>4, <1>5, <1>6 DEF HttpServer

(* A row of table tickets is inserted or deleted: nothing is marked. *)
LEMMA RowKeeps ==
  ASSUME TicketsOK, NEW t \in Ticket, Add(t) \/ SoftDelete(t)
  PROVE  TicketsOK' /\ \A u \in Ticket : tickets'[u].refunded = tickets[u].refunded
<1>1. CASE Add(t)
  BY <1>1 DEF Add, TicketsOK
<1>2. CASE SoftDelete(t)
  BY <1>2 DEF SoftDelete, TicketsOK
<1>. QED  BY <1>1, <1>2

(* A row more, up to the bound. *)
LEMMA AppendRowType ==
  ASSUME rows \in [Sheets -> [Ticket -> 0 .. MaxRows]],
         NEW sheet \in Sheets, NEW t \in Ticket, AppendRow(sheet, t)
  PROVE  rows' \in [Sheets -> [Ticket -> 0 .. MaxRows]]
BY BoundAssumption DEF AppendRow

(* The handlers of a confirmation. *)
LEMMA ConfirmedKeeps ==
  ASSUME IInv, StoreTicket \/ IssueReceipt \/ AppendToTracker \/ StoreTicketFile
  PROVE  IInv'
<1>. USE DEF IInv
<1>0. <<>> \in Seq(Message) /\ Range(<<>>) = {}
  BY DEF Range
<1>1. CASE StoreTicket
  <2>1. PICK t \in Ticket : /\ t = Current("StoreTicket").ticket /\ Add(t)
    BY <1>1, CurrentMessage DEF StoreTicket, Ready, Groups
  <2>2. TicketsOK' /\ PaidAsAsked'
    BY <1>1, <2>1, RowKeeps DEF StoreTicket, PaidAsAsked, requests, apis
  <2>3. BusOK' /\ HonestBus' /\ VoidInv'
    <3>1. /\ "StoreTicket" \in Groups /\ queue["StoreTicket"] # <<>>
          /\ Reach("StoreTicket", "sending", <<>>, queue) /\ Grows
      BY <1>1 DEF StoreTicket, Start, Ready, Groups, Grows, requests, apis
    <3>. QED  BY <1>0, <3>1, HandlerKeepsBus
  <2>. QED
    BY <1>1, <2>2, <2>3 DEF StoreTicket, RequestsOK, ApisOK, requests, apis
<1>2. CASE IssueReceipt
  <2>1. PICK m \in Message :
          /\ m = Current("IssueReceipt") /\ m.ticket \in Ticket
          /\ \E p \in Request : m.key = <<p, m.ticket>> /\ Says(p, m.ticket)
    BY <1>2, CurrentMessage DEF IssueReceipt, Ready, Groups, Subscribed, Good
  <2>2. m.key \in Request \X Ticket
    BY <2>1
  <2>3. PICK n, r : /\ n = Msg("TicketReceiptIssued", m.ticket, m.key)
                    /\ r = [ticket |-> m.ticket, key |-> m.key]
    OBVIOUS
  <2>4. ApisOK'
    BY <1>2, <2>1, <2>2, <2>3 DEF IssueReceipt, ApisOK
  <2>5. n \in Message /\ Good(n)'
    BY <2>1, <2>2, <2>3, Messages DEF Good, Msg
  <2>6. BusOK' /\ HonestBus' /\ VoidInv'
    <3>1. /\ "IssueReceipt" \in Groups /\ queue["IssueReceipt"] # <<>>
          /\ Reach("IssueReceipt", "sending", <<n>>, queue) /\ Grows
      BY <1>2, <2>1, <2>3 DEF IssueReceipt, Start, Ready, Groups, Grows, requests
    <3>2. <<n>> \in Seq(Message) /\ Range(<<n>>) = {n}
      BY <2>5, RangeSingle
    <3>. QED  BY <2>5, <3>1, <3>2, HandlerKeepsBus
  <2>. QED
    BY <1>2, <2>4, <2>6 DEF IssueReceipt, RequestsOK, TicketsOK, PaidAsAsked, requests
<1>3. CASE AppendToTracker
  <2>1. PICK t \in Ticket : t = Current("AppendToTracker").ticket
    BY <1>3, CurrentMessage DEF AppendToTracker, Ready, Groups
  <2>2. ApisOK'
    BY <1>3, <2>1, AppendRowType DEF AppendToTracker, ApisOK, Sheets
  <2>3. BusOK' /\ HonestBus' /\ VoidInv'
    <3>1. /\ "AppendToTracker" \in Groups /\ queue["AppendToTracker"] # <<>>
          /\ Reach("AppendToTracker", "sending", <<>>, queue) /\ Grows
      BY <1>3 DEF AppendToTracker, Start, Ready, Groups, Grows, requests
    <3>. QED  BY <1>0, <3>1, HandlerKeepsBus
  <2>. QED
    BY <1>3, <2>2, <2>3 DEF AppendToTracker, RequestsOK, TicketsOK, PaidAsAsked, requests
<1>4. CASE StoreTicketFile
  <2>1. PICK t \in Ticket : t = Current("StoreTicketFile").ticket
    BY <1>4, CurrentMessage DEF StoreTicketFile, Ready, Groups
  <2>2. ApisOK'
    BY <1>4, <2>1 DEF StoreTicketFile, ApisOK
  <2>3. PICK n : n = Msg("TicketPrinted", t, Nobody)
    OBVIOUS
  <2>4. n \in Message /\ Good(n)'
    BY <2>1, <2>3, Messages DEF Good, Msg
  <2>5. BusOK' /\ HonestBus' /\ VoidInv'
    <3>1. /\ "StoreTicketFile" \in Groups /\ queue["StoreTicketFile"] # <<>>
          /\ Reach("StoreTicketFile", "sending", <<n>>, queue) /\ Grows
      BY <1>4, <2>1, <2>3 DEF StoreTicketFile, Start, Ready, Groups, Grows, requests
    <3>2. <<n>> \in Seq(Message) /\ Range(<<n>>) = {n}
      BY <2>4, RangeSingle
    <3>. QED  BY <2>4, <3>1, <3>2, HandlerKeepsBus
  <2>. QED
    BY <1>4, <2>2, <2>5 DEF StoreTicketFile, RequestsOK, TicketsOK, PaidAsAsked, requests
<1>. QED  BY <1>1, <1>2, <1>3, <1>4

(* The handlers of a cancellation. *)
LEMMA CanceledKeeps ==
  ASSUME IInv, CancelTicketAppend \/ CancelTicketDelete \/ RemoveCanceledTicket
  PROVE  IInv'
<1>. USE DEF IInv
<1>0. <<>> \in Seq(Message) /\ Range(<<>>) = {}
  BY DEF Range
<1>1. CASE CancelTicketAppend
  <2>1. PICK t \in Ticket : t = Current("CancelTicket").ticket
    BY <1>1, CurrentMessage DEF CancelTicketAppend, Ready, Groups
  <2>2. ApisOK'
    BY <1>1, <2>1, AppendRowType DEF CancelTicketAppend, ApisOK, Sheets
  <2>3. BusOK' /\ HonestBus' /\ VoidInv'
    <3>1. /\ "CancelTicket" \in Groups /\ queue["CancelTicket"] # <<>>
          /\ Reach("CancelTicket", "appended", <<>>, queue) /\ Grows
      BY <1>1 DEF CancelTicketAppend, Start, Ready, Groups, Grows, requests
    <3>. QED  BY <1>0, <3>1, HandlerKeepsBus
  <2>. QED
    BY <1>1, <2>2, <2>3 DEF CancelTicketAppend, RequestsOK, TicketsOK, PaidAsAsked, requests
<1>2. CASE CancelTicketDelete
  <2>0. "CancelTicket" \in Groups /\ queue["CancelTicket"] # <<>> /\ Grows
    BY <1>2 DEF CancelTicketDelete, BusOK, Groups, Grows, requests, apis
  <2>1. PICK t \in Ticket : t = Current("CancelTicket").ticket
    BY <2>0, CurrentMessage
  <2>2. CASE SoftDelete(t) /\ Reach("CancelTicket", "sending", <<>>, queue)
    <3>1. BusOK' /\ HonestBus' /\ VoidInv'
      BY <1>0, <2>0, <2>2, HandlerKeepsBus
    <3>2. TicketsOK' /\ PaidAsAsked'
      BY <1>2, <2>2, RowKeeps DEF CancelTicketDelete, PaidAsAsked, requests, apis
    <3>. QED
      BY <1>2, <3>1, <3>2 DEF CancelTicketDelete, RequestsOK, ApisOK, requests, apis
  <2>3. CASE UNCHANGED tickets /\ ReturnError("CancelTicket")
    <3>1. todo["CancelTicket"] = <<>>
      BY <1>2, <2>0 DEF CancelTicketDelete, BusOK
    <3>2. /\ at' = [at EXCEPT !["CancelTicket"] = "idle"]
          /\ UNCHANGED <<queue, lost, todo, faults, asked, refunds, voided>>
      BY <1>2, <2>3 DEF CancelTicketDelete, ReturnError, requests, apis
    <3>3. BusOK'
      BY <3>1, <3>2 DEF BusOK
    <3>4. HonestBus'
      BY <3>2 DEF HonestBus, Held, Good
    <3>5. VoidInv'
      BY <2>0, <3>2 DEF VoidInv, Current, BusOK, Groups
    <3>. QED
      BY <1>2, <2>3, <3>3, <3>4, <3>5
      DEF CancelTicketDelete, RequestsOK, TicketsOK, ApisOK, PaidAsAsked, requests, apis
  <2>. QED  BY <1>2, <2>1, <2>2, <2>3 DEF CancelTicketDelete
<1>3. CASE RemoveCanceledTicket
  <2>1. PICK t \in Ticket : t = Current("RemoveCancledTicket").ticket
    BY <1>3, CurrentMessage DEF RemoveCanceledTicket, Ready, Groups
  <2>2. TicketsOK' /\ PaidAsAsked'
    BY <1>3, <2>1, RowKeeps DEF RemoveCanceledTicket, PaidAsAsked, requests, apis
  <2>3. BusOK' /\ HonestBus' /\ VoidInv'
    <3>1. /\ "RemoveCancledTicket" \in Groups /\ queue["RemoveCancledTicket"] # <<>>
          /\ Reach("RemoveCancledTicket", "sending", <<>>, queue) /\ Grows
      BY <1>3 DEF RemoveCanceledTicket, Start, Ready, Groups, Grows, requests, apis
    <3>. QED  BY <1>0, <3>1, HandlerKeepsBus
  <2>. QED
    BY <1>3, <2>2, <2>3 DEF RemoveCanceledTicket, RequestsOK, ApisOK, requests, apis
<1>. QED  BY <1>1, <1>2, <1>3

(* The handlers of a refund and of a booking. *)
LEMMA RefundKeeps ==
  ASSUME IInv, VoidReceipt \/ RefundPayment \/ UpdateRefundedTicket \/ BookingMadeUpdate
  PROVE  IInv'
<1>. USE DEF IInv
<1>0. <<>> \in Seq(Message) /\ Range(<<>>) = {}
  BY DEF Range
<1>1. CASE VoidReceipt
  <2>1. PICK t \in Ticket : t = Current("RefundTicket").ticket
    BY <1>1, CurrentMessage DEF VoidReceipt, Ready, Groups
  <2>2. voided' = voided \cup {t} /\ UNCHANGED <<requests, tickets, receipts, rows, files, refunds>>
    BY <1>1, <2>1 DEF VoidReceipt
  <2>3. ApisOK' /\ PaidAsAsked'
    BY <2>2 DEF ApisOK, PaidAsAsked, requests
  <2>4. BusOK' /\ HonestBus' /\ VoidInv'
    <3>1. /\ "RefundTicket" \in Groups /\ queue["RefundTicket"] # <<>>
          /\ Reach("RefundTicket", "voided", <<>>, queue)
          /\ Grows /\ Current("RefundTicket").ticket \in voided'
      BY <1>1, <2>1, <2>2 DEF VoidReceipt, Start, Ready, Groups, Grows, requests
    <3>. QED  BY <1>0, <3>1, HandlerKeepsBus
  <2>. QED
    BY <2>2, <2>3, <2>4 DEF RequestsOK, TicketsOK, requests
<1>2. CASE RefundPayment
  <2>0. "RefundTicket" \in Groups /\ queue["RefundTicket"] # <<>>
    BY <1>2 DEF RefundPayment, BusOK, Groups
  <2>1. PICK m \in Message :
          /\ m = Current("RefundTicket") /\ m.ticket \in Ticket
          /\ \E a \in asked : a.ticket = m.ticket /\ a.key = m.key
    BY <2>0, CurrentMessage DEF Groups, Subscribed, Good
  <2>2. m.ticket \in voided
    BY <1>2, <2>1 DEF RefundPayment, VoidInv
  <2>3. m.key \in Keys
    BY <2>1 DEF RequestsOK
  <2>4. PICK n, r : /\ n = Msg("TicketRefunded", m.ticket, Nobody)
                    /\ r = [ticket |-> m.ticket, key |-> m.key]
    OBVIOUS
  <2>5. /\ refunds' = refunds \cup {r}
        /\ UNCHANGED <<requests, tickets, receipts, rows, files, voided>>
        /\ Reach("RefundTicket", "sending", <<n>>, queue)
    BY <1>2, <2>1, <2>4 DEF RefundPayment
  <2>6. r \in Refunded /\ r.ticket = m.ticket /\ r.key = m.key
    BY <2>1, <2>3, <2>4 DEF Refunded, Keys
  <2>7. ApisOK'
    BY <2>5, <2>6 DEF ApisOK
  <2>8. PaidAsAsked'
    BY <2>1, <2>2, <2>5, <2>6 DEF PaidAsAsked, requests
  <2>9. n \in Message /\ Good(n)'
    <3>1. r \in refunds'
      BY <2>5
    <3>. QED  BY <2>1, <2>4, <2>6, <3>1, Messages DEF Good, Msg
  <2>10. BusOK' /\ HonestBus' /\ VoidInv'
    <3>1. Grows
      BY <2>5 DEF Grows, requests
    <3>2. <<n>> \in Seq(Message) /\ Range(<<n>>) = {n}
      BY <2>9, RangeSingle
    <3>. QED  BY <2>0, <2>5, <2>9, <3>1, <3>2, HandlerKeepsBus
  <2>. QED
    BY <2>5, <2>7, <2>8, <2>10 DEF RequestsOK, TicketsOK, requests
<1>3. CASE UpdateRefundedTicket
  <2>0. "UpdateRefundedTicket" \in Groups /\ queue["UpdateRefundedTicket"] # <<>>
    BY <1>3 DEF UpdateRefundedTicket, Ready, Groups
  <2>1. PICK t \in Ticket : /\ t = Current("UpdateRefundedTicket").ticket
                            /\ \E r \in refunds : r.ticket = t
    BY <2>0, CurrentMessage DEF Groups, Subscribed, Good
  <2>2. TicketsOK' /\ PaidAsAsked'
    BY <1>3, <2>1
    DEF UpdateRefundedTicket, UpdateRefundedAt, TicketsOK, PaidAsAsked, requests, apis
  <2>3. BusOK' /\ HonestBus' /\ VoidInv'
    <3>1. Reach("UpdateRefundedTicket", "sending", <<>>, queue) /\ Grows
      BY <1>3 DEF UpdateRefundedTicket, Start, Grows, requests, apis
    <3>. QED  BY <1>0, <2>0, <3>1, HandlerKeepsBus
  <2>. QED
    BY <1>3, <2>2, <2>3 DEF UpdateRefundedTicket, RequestsOK, ApisOK, requests, apis
<1>4. CASE BookingMadeUpdate
  <2>1. BusOK' /\ HonestBus' /\ VoidInv'
    <3>1. /\ "BookingMade" \in Groups /\ queue["BookingMade"] # <<>>
          /\ Reach("BookingMade", "sending", <<>>, queue) /\ Grows
      BY <1>4 DEF BookingMadeUpdate, Start, Ready, Groups, Grows, apis
    <3>. QED  BY <1>0, <3>1, HandlerKeepsBus
  <2>. QED
    BY <1>4, <2>1
    DEF BookingMadeUpdate, RequestsOK, TicketsOK, ApisOK, PaidAsAsked, apis
<1>. QED  BY <1>1, <1>2, <1>3, <1>4
-----------------------------------------------------------------------------
LEMMA RouterKeeps ==
  ASSUME IInv, NEW g \in Groups, UNCHANGED <<requests, tickets, apis>>,
         SendNext(g) \/ Ack(g) \/ Claim(g) \/ Retry(g) \/ Crash(g)
  PROVE  IInv'
<1>. USE DEF IInv
<1>1. BusOK' /\ HonestBus' /\ VoidInv'
  <2>1. Grows /\ UNCHANGED <<asked, refunds>>
    BY DEF Grows, requests, apis
  <2>. QED  BY <2>1, RouterKeepsBus
<1>. QED
  BY <1>1 DEF RequestsOK, TicketsOK, ApisOK, PaidAsAsked, requests, apis

LEMMA StepIInv ==
  IInv /\ [Next]_vars => IInv'
<1> SUFFICES ASSUME IInv, [Next]_vars PROVE IInv'
  OBVIOUS
<1>1. ASSUME NEW g \in Groups, Handler(g) PROVE IInv'
  BY <1>1, ConfirmedKeeps, CanceledKeeps, RefundKeeps, RouterKeeps DEF Handler
<1>2. ASSUME NEW g \in Groups, Fail(g) PROVE IInv'
  BY <1>2, RouterKeeps DEF Fail
<1>3. CASE UNCHANGED vars
  BY <1>3 DEF IInv, BusOK, HonestBus, Held, Good, RequestsOK, TicketsOK, ApisOK, VoidInv,
              PaidAsAsked, Current, vars, requests, apis, bus
<1>. QED  BY <1>1, <1>2, <1>3, RequestsKeep DEF Next

LEMMA Inductive ==
  Spec => []IInv
<1>. QED  BY InitIInv, StepIInv, PTL DEF Spec

(* The variables keep their types; in particular nothing is refunded or    *)
(* deleted in table tickets that StoreTicket did not store.                *)
THEOREM TypeCorrect ==
  Spec => []TypeOK
<1>1. IInv => TypeOK
  BY DEF IInv, BusOK, RequestsOK, Entries, TicketsOK, ApisOK, TypeOK, Keys
<1>. QED  BY <1>1, Inductive, PTL

(* RefundTicket, UpdateRefundedTicket: whatever fails, is repeated or is   *)
(* overtaken, money is returned only for a request of the customer, under  *)
(* its key and after the receipt is void; and a ticket is marked only then.*)
THEOREM MoneyAsAsked ==
  Spec => []PaidAsAsked
<1>1. IInv => PaidAsAsked
  BY DEF IInv
<1>. QED  BY <1>1, Inductive, PTL

(* IssueReceipt: the key of a receipt is that of the request and of the    *)
(* ticket, so a ticket that one request confirms has one receipt.          *)
THEOREM OneReceiptEach ==
  ASSUME \A p, q \in Request, t \in Ticket : Says(p, t) /\ Says(q, t) => p = q
  PROVE  Spec => []OneReceipt
<1>1. IInv => OneReceipt
  <2> SUFFICES ASSUME IInv, NEW r \in receipts, NEW q \in receipts, r.ticket = q.ticket
               PROVE  r = q
    BY DEF OneReceipt
  <2>1. receipts \subseteq [ticket : Ticket, key : Request \X Ticket]
    BY DEF IInv, ApisOK
  <2>2. r.key = q.key
    BY <2>1 DEF IInv, ApisOK
  <2>. QED  BY <2>1, <2>2
<1>. QED  BY <1>1, Inductive, PTL

-----------------------------------------------------------------------------

(* The handler of g has done what its message asks for. *)
Through(g) == at[g] = "sending" /\ (g = "RefundTicket" => todo[g] = <<>>)

(* The messages of g that are still to be handled. *)
Due(g) ==
  (IF Through(g) THEN Range(Tail(queue[g])) ELSE Range(queue[g])) \cup Range(lost[g])

(* A message about ticket t is due to g. *)
DueFor(g, t) == \E m \in Due(g) : m.ticket = t

(* A step that takes no message off any group. *)
StillDue == \A h \in Groups : \A m \in Due(h) : m \in Due(h)'

LEMMA EmptyRange ==
  <<>> \in Seq(Message) /\ Range(<<>>) = {}
BY DEF Range

LEMMA PostDue ==
  ASSUME BusOK, NEW m \in Message, queue' = Post(queue, m), UNCHANGED <<lost, at, todo>>
  PROVE  StillDue /\ \A h \in Groups : Subscribed(h) = m.type => m \in Due(h)'
<1>1. ASSUME NEW h \in Groups
      PROVE  /\ \A n \in Due(h) : n \in Due(h)'
             /\ Subscribed(h) = m.type => m \in Due(h)'
  <2>1. queue'[h] = IF Subscribed(h) = m.type THEN Append(queue[h], m) ELSE queue[h]
    BY DEF Post
  <2>2. queue[h] \in Seq(Message) /\ (Through(h) => queue[h] # <<>>)
    BY DEF BusOK, Through
  <2>3. Through(h)' <=> Through(h)
    BY DEF Through
  <2>4. Range(Append(queue[h], m)) = Range(queue[h]) \cup {m}
    BY <2>2, RangeAppend
  <2>5. queue[h] # <<>> => Range(Tail(Append(queue[h], m))) = Range(Tail(queue[h])) \cup {m}
    <3> DEFINE s == queue[h]
               t == Tail(s)
    <3>1. s # <<>> => Tail(Append(s, m)) = Append(t, m) /\ t \in Seq(Message)
      BY <2>2
    <3>. HIDE DEF t
    <3>2. s # <<>> => Range(Append(t, m)) = Range(t) \cup {m}
      BY <3>1, RangeAppend
    <3>. QED  BY <3>1, <3>2 DEF t
  <2>. QED  BY <2>1, <2>2, <2>3, <2>4, <2>5 DEF Due
<1>. QED  BY <1>1 DEF StillDue

(* A handler reaches a step: of what was due, it may have done its message. *)
LEMMA ReachDue ==
  ASSUME BusOK, NEW g \in Groups, queue[g] # <<>>, at[g] # "sending", NEW ms \in Seq(Message),
         NEW s \in {"sending", "appended", "voided"}, Reach(g, s, ms, queue)
  PROVE  \A h \in Groups : \A m \in Due(h) :
           \/ m \in Due(h)'
           \/ h = g /\ m = Current(g) /\ s = "sending" /\ (g = "RefundTicket" => ms = <<>>)
<1>1. /\ Tail(queue[g]) \in Seq(Message)
      /\ Range(queue[g]) = Range(Tail(queue[g])) \cup {Current(g)}
  BY RangeTail DEF BusOK, Current
<1>2. /\ lost' = lost
      /\ \A h \in Groups : todo'[h] = IF h = g THEN ms ELSE todo[h]
      /\ \A h \in Groups \ {g} : at'[h] = at[h] /\ queue'[h] = queue[h]
      /\ \/ at'[g] = s /\ queue'[g] = queue[g]
         \/ at'[g] = "idle" /\ queue'[g] = Tail(queue[g]) /\ s = "sending" /\ ms = <<>>
  BY DEF Reach, BusOK
<1>3. ASSUME NEW h \in Groups \ {g} PROVE Due(h)' = Due(h)
  BY <1>2 DEF Due, Through
<1>4. ASSUME NEW m \in Due(g)
      PROVE  \/ m \in Due(g)'
             \/ m = Current(g) /\ s = "sending" /\ (g = "RefundTicket" => ms = <<>>)
  <2>1. m \in Range(Tail(queue[g])) \cup {Current(g)} \cup Range(lost[g])
    BY <1>1 DEF Due, Through
  <2>2. CASE at'[g] = s /\ queue'[g] = queue[g]
    BY <1>1, <1>2, <2>1, <2>2 DEF Due, Through
  <2>3. CASE at'[g] = "idle" /\ queue'[g] = Tail(queue[g]) /\ s = "sending" /\ ms = <<>>
    BY <1>2, <2>1, <2>3 DEF Due, Through
  <2>. QED  BY <1>2, <2>2, <2>3
<1>. QED  BY <1>3, <1>4

(* The end of a handler's run, a failure, and a message that is claimed.   *)
LEMMA RouterDue ==
  ASSUME BusOK, NEW g \in Groups, Ack(g) \/ Retry(g) \/ Crash(g) \/ Claim(g)
  PROVE  StillDue
<1>0. queue[g] \in Seq(Message) /\ lost[g] \in Seq(Message)
  BY DEF BusOK
<1>a. ASSUME queue[g] # <<>>
      PROVE  /\ Tail(queue[g]) \in Seq(Message) /\ Current(g) \in Message
             /\ Range(queue[g]) = Range(Tail(queue[g])) \cup {Current(g)}
  BY <1>0, <1>a, RangeTail DEF Current
<1>1. CASE Ack(g)
  <2>1. Through(g)
    BY <1>1 DEF Ack, Through
  <2>2. ASSUME NEW h \in Groups PROVE Due(h)' = Due(h)
    BY <1>1, <2>1 DEF Ack, BusOK, Due, Through
  <2>. QED  BY <2>2 DEF StillDue
<1>2. CASE Retry(g)
  <2>1. queue[g] # <<>>
    BY <1>2 DEF Retry, Idle, BusOK
  <2>2. ASSUME NEW h \in Groups, NEW m \in Due(h) PROVE m \in Due(h)'
    <3>1. CASE h = g
      BY <1>2, <1>a, <2>1, <3>1 DEF Retry, BusOK, Due, Through
    <3>2. CASE h # g
      BY <1>2, <3>2 DEF Retry, BusOK, Due, Through
    <3>. QED  BY <3>1, <3>2
  <2>. QED  BY <2>2 DEF StillDue
<1>3. CASE Crash(g)
  <2>1. Range(Append(lost[g], Current(g))) = Range(lost[g]) \cup {Current(g)}
    <3>1. Current(g) \in Message
      BY <1>3, <1>a DEF Crash
    <3>. QED  BY <1>0, <3>1, RangeAppend
  <2>2. ASSUME NEW h \in Groups, NEW m \in Due(h) PROVE m \in Due(h)'
    <3>1. CASE h = g
      BY <1>3, <1>a, <2>1, <3>1 DEF Crash, BusOK, Due, Through
    <3>2. CASE h # g
      BY <1>3, <3>2 DEF Crash, BusOK, Due, Through
    <3>. QED  BY <3>1, <3>2
  <2>. QED  BY <2>2 DEF StillDue
<1>4. CASE Claim(g)
  <2>1. PICK i \in 1 .. Len(lost[g]) :
          /\ queue' = [queue EXCEPT ![g] = <<lost[g][i]>> \o @]
          /\ lost' = [lost EXCEPT ![g] = RemoveAt(@, i)]
    BY <1>4 DEF Claim
  <2>2. /\ lost[g][i] \in Message
        /\ Range(lost[g]) = Range(RemoveAt(lost[g], i)) \cup {lost[g][i]}
    BY <1>0, RangeRemoveAt
  <2> DEFINE x == lost[g][i]
             r == RemoveAt(lost[g], i)
             p == <<x>> \o queue[g]
  <2>. HIDE DEF x, r
  <2>3. Range(p) = Range(queue[g]) \cup {x}
    BY <1>0, <2>2, RangePush DEF x
  <2>. HIDE DEF p
  <2>4. queue' = [queue EXCEPT ![g] = p] /\ lost' = [lost EXCEPT ![g] = r]
    BY <2>1 DEF p, r, x
  <2>5. UNCHANGED <<at, todo>> /\ at[g] = "idle"
    BY <1>4 DEF Claim, Idle
  <2>6. ASSUME NEW h \in Groups, NEW m \in Due(h) PROVE m \in Due(h)'
    <3>1. CASE h = g
      BY <2>2, <2>3, <2>4, <2>5, <3>1 DEF BusOK, Due, Through, x, r
    <3>2. CASE h # g
      BY <2>4, <2>5, <3>2 DEF BusOK, Due, Through
    <3>. QED  BY <3>1, <3>2
  <2>. QED  BY <2>6 DEF StillDue
<1>. QED  BY <1>1, <1>2, <1>3, <1>4

(* A message is sent: its consumers have it to handle. *)
LEMMA SendDue ==
  ASSUME BusOK, NEW g \in Groups, SendNext(g)
  PROVE  /\ \A h \in Groups : \A n \in Due(h) :
              \/ n \in Due(h)'
              \/ h = g /\ n = Current(g) /\ g = "RefundTicket"
         /\ \A h \in Groups \ {g} : Subscribed(h) = Head(todo[g]).type => Head(todo[g]) \in Due(h)'
<1> DEFINE m == Head(todo[g])
           q == Post(queue, m)
<1>1. m \in Message /\ Tail(todo[g]) \in Seq(Message)
  <2>1. todo[g] \in Seq(Message) /\ todo[g] # <<>>
    BY DEF BusOK, SendNext
  <2>. QED  BY <2>1, RangeTail
<1>2. at[g] = "sending" /\ Reach(g, "sending", Tail(todo[g]), q) /\ queue[g] # <<>>
  BY DEF BusOK, SendNext
<1>. HIDE DEF m
<1>3. \A h \in Groups : q[h] = IF Subscribed(h) = m.type THEN Append(queue[h], m) ELSE queue[h]
  BY DEF Post
<1>4. q \in [Groups -> Seq(Message)] /\ q[g] # <<>>
  BY <1>1, <1>2, PostTo
<1>. HIDE DEF q
<1>5. /\ lost' = lost
      /\ \A h \in Groups : todo'[h] = IF h = g THEN Tail(todo[g]) ELSE todo[h]
      /\ \A h \in Groups \ {g} : at'[h] = at[h] /\ queue'[h] = q[h]
      /\ \/ at'[g] = "sending" /\ queue'[g] = q[g]
         \/ at'[g] = "idle" /\ queue'[g] = Tail(q[g]) /\ Tail(todo[g]) = <<>>
  BY <1>2, <1>4 DEF Reach, BusOK
<1>6. ASSUME NEW h \in Groups
      PROVE  /\ Range(q[h]) = Range(queue[h]) \cup {n \in {m} : Subscribed(h) = m.type}
             /\ queue[h] # <<>> =>
                  Range(Tail(q[h])) = Range(Tail(queue[h])) \cup {n \in {m} : Subscribed(h) = m.type}
  <2> DEFINE s == queue[h]
             t == Tail(s)
  <2>1. s \in Seq(Message)
    BY DEF BusOK
  <2>2. Range(Append(s, m)) = Range(s) \cup {m}
    BY <1>1, <2>1, RangeAppend
  <2>3. s # <<>> => Tail(Append(s, m)) = Append(t, m) /\ t \in Seq(Message)
    BY <1>1, <2>1
  <2>. HIDE DEF t
  <2>4. s # <<>> => Range(Append(t, m)) = Range(t) \cup {m}
    BY <1>1, <2>3, RangeAppend
  <2>5. CASE Subscribed(h) = m.type
    BY <1>3, <2>2, <2>3, <2>4, <2>5 DEF t
  <2>6. CASE Subscribed(h) # m.type
    BY <1>3, <2>6
  <2>. QED  BY <2>5, <2>6
<1>7. ASSUME NEW h \in Groups \ {g}
      PROVE  /\ \A n \in Due(h) : n \in Due(h)'
             /\ Subscribed(h) = m.type => m \in Due(h)'
  <2>1. Through(h)' <=> Through(h)
    BY <1>5 DEF Through
  <2>2. Through(h) => queue[h] # <<>>
    BY DEF Through, BusOK
  <2>. QED  BY <1>5, <1>6, <2>1, <2>2 DEF Due
<1>8. ASSUME NEW n \in Due(g)
      PROVE  n \in Due(g)' \/ (n = Current(g) /\ g = "RefundTicket")
  <2>1. Range(queue[g]) = Range(Tail(queue[g])) \cup {Current(g)}
    BY <1>2, RangeTail DEF BusOK, Current
  <2>2. n \in Range(Tail(queue[g])) \cup Range(lost[g]) \/ (n = Current(g) /\ g = "RefundTicket")
    BY <1>2, <2>1 DEF Due, Through
  <2>3. CASE n \in Range(Tail(queue[g])) \cup Range(lost[g])
    <3>1. Range(Tail(q[g])) \subseteq Range(q[g])
      BY <1>4, RangeTail
    <3>2. n \in Range(Tail(q[g])) \cup Range(lost[g])
      BY <1>2, <1>6, <2>3
    <3>3. n \in Due(g)'
      BY <1>5, <3>1, <3>2 DEF Due, Through
    <3>. QED  BY <3>3
  <2>. QED  BY <2>2, <2>3
<1>. QED  BY <1>7, <1>8 DEF m

-----------------------------------------------------------------------------

(* The groups that answer a confirmation, and the one that withdraws a     *)
(* cancelled ticket.                                                       *)
Doers == {"StoreTicket", "IssueReceipt", "AppendToTracker", "StoreTicketFile", "CancelTicket"}

(* What g does for ticket t is done. *)
Seen(g, t) ==
  /\ g = "StoreTicket" => tickets[t].stored
  /\ g = "IssueReceipt" => \E r \in receipts : r.ticket = t
  /\ g = "AppendToTracker" => rows["tickets-to-print"][t] > 0
  /\ g = "StoreTicketFile" => t \in files
  /\ g = "CancelTicket" => CanceledIsWithdrawn(t)

(* An event has had its effect, or is still to be handled. *)
EffectInv ==
  \A g \in Doers, t \in Ticket :
    <<Subscribed(g), t>> \in published => DueFor(g, t) \/ Seen(g, t)

(* A refund asked for a stored ticket is marked, or will be. *)
MarkInv ==
  \A a \in asked : a.listed =>
    /\ tickets[a.ticket].stored
    /\ \/ tickets[a.ticket].refunded
       \/ DueFor("RefundTicket", a.ticket)
       \/ DueFor("UpdateRefundedTicket", a.ticket)

(* CancelTicket appends its row before it deletes the ticket. *)
AppendedInv ==
  at["CancelTicket"] = "appended" =>
    rows["tickets-to-refund"][Current("CancelTicket").ticket] > 0

(* RefundTicket announces the ticket of its command. *)
SentInv ==
  \A m \in Range(todo["RefundTicket"]) :
    m.type = "TicketRefunded" /\ m.ticket = Current("RefundTicket").ticket

TInv == EffectInv /\ MarkInv /\ AppendedInv /\ SentInv

(* What was done stays done. *)
Lasting ==
  /\ \A t \in Ticket :
       /\ tickets[t].stored => tickets'[t].stored
       /\ tickets[t].deleted => tickets'[t].deleted
       /\ tickets[t].refunded => tickets'[t].refunded
       /\ \A s \in Sheets : rows[s][t] > 0 => rows'[s][t] > 0
  /\ receipts \subseteq receipts' /\ files \subseteq files'

LEMMA SeenStays ==
  ASSUME Lasting, NEW g, NEW t \in Ticket, Seen(g, t)
  PROVE  Seen(g, t)'
<1>1. "tickets-to-print" \in Sheets /\ "tickets-to-refund" \in Sheets
  BY DEF Sheets
<1>. QED  BY <1>1 DEF Lasting, Seen, CanceledIsWithdrawn

LEMMA DoersAre ==
  /\ \A g \in Doers : g \in Groups /\ g # "RefundTicket" /\ g # "UpdateRefundedTicket"
  /\ {"RefundTicket", "UpdateRefundedTicket"} \subseteq Groups
  /\ Subscribed("UpdateRefundedTicket") = "TicketRefunded"
  /\ Subscribed("RefundTicket") = "RefundTicket"
  /\ \A g \in Doers : Subscribed(g) = IF g = "CancelTicket" THEN "TicketBookingCanceled"
                                      ELSE "TicketBookingConfirmed"
BY DEF Doers, Groups, Subscribed

(* A step after which every message is due that was, but for one that was  *)
(* done; and the events it published are due.                              *)
LEMMA EffectsKept ==
  ASSUME EffectInv, Lasting,
         \A g \in Doers : \A m \in Due(g) : m \in Due(g)' \/ Seen(g, m.ticket)',
         \A g \in Doers, t \in Ticket :
           <<Subscribed(g), t>> \in published' =>
             <<Subscribed(g), t>> \in published \/ DueFor(g, t)'
  PROVE  EffectInv'
<1> SUFFICES ASSUME NEW g \in Doers, NEW t \in Ticket, <<Subscribed(g), t>> \in published'
             PROVE  DueFor(g, t)' \/ Seen(g, t)'
  BY DEF EffectInv
<1>1. CASE <<Subscribed(g), t>> \in published
  <2>1. DueFor(g, t) \/ Seen(g, t)
    BY <1>1 DEF EffectInv
  <2>2. DueFor(g, t) => DueFor(g, t)' \/ Seen(g, t)'
    BY DEF DueFor
  <2>. QED  BY <2>1, <2>2, SeenStays
<1>2. CASE DueFor(g, t)'
  BY <1>2
<1>. QED  BY <1>1, <1>2

LEMMA MarksKept ==
  ASSUME MarkInv, Lasting, asked \subseteq [ticket : Ticket, key : Keys, listed : BOOLEAN],
         \A m \in Due("RefundTicket") :
           m \in Due("RefundTicket")' \/ DueFor("UpdateRefundedTicket", m.ticket)',
         \A m \in Due("UpdateRefundedTicket") :
           \/ m \in Due("UpdateRefundedTicket")'
           \/ tickets[m.ticket].stored => tickets'[m.ticket].refunded,
         \A a \in asked' : a \in asked \/
           (a.listed => tickets'[a.ticket].stored /\ DueFor("RefundTicket", a.ticket)')
  PROVE  MarkInv'
<1> SUFFICES ASSUME NEW a \in asked', a.listed
             PROVE  /\ tickets'[a.ticket].stored
                    /\ \/ tickets'[a.ticket].refunded
                       \/ DueFor("RefundTicket", a.ticket)'
                       \/ DueFor("UpdateRefundedTicket", a.ticket)'
  BY DEF MarkInv
<1>1. CASE a \in asked
  <2>1. PICK t \in Ticket : t = a.ticket
    BY <1>1
  <2>2. /\ tickets[t].stored
        /\ tickets[t].refunded \/ DueFor("RefundTicket", t) \/ DueFor("UpdateRefundedTicket", t)
    BY <1>1, <2>1 DEF MarkInv
  <2>3. /\ tickets'[t].stored
        /\ tickets[t].refunded => tickets'[t].refunded
    BY <2>2 DEF Lasting
  <2>4. CASE DueFor("RefundTicket", t)
    BY <2>1, <2>3, <2>4 DEF DueFor
  <2>5. CASE DueFor("UpdateRefundedTicket", t)
    BY <2>1, <2>2, <2>3, <2>5 DEF DueFor
  <2>. QED  BY <2>1, <2>2, <2>3, <2>4, <2>5
<1>2. CASE a \notin asked
  BY <1>2
<1>. QED  BY <1>1, <1>2

LEMMA NothingDone ==
  ASSUME IInv, TInv, StillDue, UNCHANGED <<tickets, receipts, rows, files, asked, published>>
  PROVE  EffectInv' /\ MarkInv' /\ Lasting
<1>1. Lasting
  BY DEF Lasting
<1>2. \A g \in Doers : \A m \in Due(g) : m \in Due(g)'
  BY DoersAre DEF StillDue
<1>3. EffectInv'
  BY <1>1, <1>2, EffectsKept DEF TInv
<1>4. /\ \A m \in Due("RefundTicket") : m \in Due("RefundTicket")'
      /\ \A m \in Due("UpdateRefundedTicket") : m \in Due("UpdateRefundedTicket")'
  BY DoersAre DEF StillDue
<1>5. MarkInv'
  BY <1>1, <1>4, MarksKept DEF TInv, IInv, RequestsOK
<1>. QED  BY <1>1, <1>3, <1>5

(* Both are about the message a handler has in hand. *)
LEMMA InHand ==
  ASSUME TInv, Lasting, IInv,
         at'["CancelTicket"] = "appended" => at["CancelTicket"] = "appended",
         Range(todo["RefundTicket"])' \subseteq Range(todo["RefundTicket"]),
         \A g \in Groups : queue[g] # <<>> /\ at'[g] # "idle" => Current(g)' = Current(g),
         BusOK'
  PROVE  AppendedInv' /\ SentInv'
<1>1. "CancelTicket" \in Groups /\ "RefundTicket" \in Groups
  BY DEF Groups
<1>2. ASSUME at'["CancelTicket"] = "appended"
      PROVE  rows'["tickets-to-refund"][Current("CancelTicket").ticket'] > 0
  <2>1. at["CancelTicket"] = "appended" /\ queue["CancelTicket"] # <<>>
    BY <1>1, <1>2 DEF IInv, BusOK
  <2>2. PICK t \in Ticket : t = Current("CancelTicket").ticket
    BY <1>1, <2>1, CurrentMessage DEF IInv
  <2>3. rows["tickets-to-refund"][t] > 0
    BY <2>1, <2>2 DEF TInv, AppendedInv
  <2>4. rows'["tickets-to-refund"][t] > 0
    BY <2>3 DEF Lasting, Sheets
  <2>5. Current("CancelTicket")' = Current("CancelTicket")
    BY <1>1, <1>2, <2>1
  <2>. QED  BY <2>2, <2>4, <2>5
<1>3. SentInv'
  <2>1. CASE todo'["RefundTicket"] = <<>>
    BY <2>1, EmptyRange DEF SentInv
  <2>2. CASE todo["RefundTicket"] = <<>>
    BY <2>2, EmptyRange DEF SentInv
  <2>3. CASE todo'["RefundTicket"] # <<>> /\ todo["RefundTicket"] # <<>>
    <3>1. at'["RefundTicket"] # "idle" /\ queue["RefundTicket"] # <<>>
      BY <1>1, <2>3 DEF IInv, BusOK
    <3>2. Current("RefundTicket")' = Current("RefundTicket")
      BY <1>1, <3>1
    <3>. QED  BY <3>2 DEF SentInv, TInv
  <2>. QED  BY <2>1, <2>2, <2>3
<1>. QED  BY <1>2, <1>3 DEF AppendedInv

-----------------------------------------------------------------------------

LEMMA RouterEffects ==
  ASSUME IInv, IInv', TInv, NEW g \in Groups, UNCHANGED <<requests, tickets, apis>>,
         SendNext(g) \/ Ack(g) \/ Claim(g) \/ Retry(g) \/ Crash(g)
  PROVE  TInv'
<1>1. /\ UNCHANGED <<tickets, receipts, rows, files, asked, published>>
      /\ BusOK /\ BusOK' /\ Lasting
  BY DEF requests, apis, IInv, Lasting
<1>2. \A h \in Groups : at'[h] # "idle" => at'[h] = at[h] /\ Current(h)' = Current(h)
  BY <1>1, SendNextAdds, BusAddsNothing
<1>3. AppendedInv' /\ SentInv'
  <2>1. Range(todo["RefundTicket"])' \subseteq Range(todo["RefundTicket"])
    <3>0. "RefundTicket" \in Groups
      BY DoersAre
    <3>1. CASE todo'["RefundTicket"] \in {todo["RefundTicket"], <<>>}
      BY <3>1, EmptyRange
    <3>2. CASE SendNext(g) /\ g = "RefundTicket"
      <4>1. todo[g] \in Seq(Message) /\ todo[g] # <<>> /\ todo'[g] = Tail(todo[g])
        BY <1>1, <3>2 DEF SendNext, Reach, BusOK
      <4>. QED  BY <3>2, <4>1, RangeTail
    <3>. QED
      BY <1>1, <3>0, <3>1, <3>2 DEF SendNext, Reach, Ack, Claim, Retry, Crash, BusOK
  <2>2. at'["CancelTicket"] = "appended" => at["CancelTicket"] = "appended"
    BY <1>2, DoersAre DEF Doers
  <2>. QED  BY <1>1, <1>2, <2>1, <2>2, InHand
<1>4. CASE ~SendNext(g)
  <2>1. StillDue
    BY <1>1, <1>4, RouterDue
  <2>. QED  BY <1>1, <1>3, <2>1, NothingDone DEF TInv
<1>5. CASE SendNext(g)
  <2>1. /\ \A h \in Groups : \A n \in Due(h) :
             \/ n \in Due(h)'
             \/ h = g /\ n = Current(g) /\ g = "RefundTicket"
        /\ \A h \in Groups \ {g} : Subscribed(h) = Head(todo[g]).type => Head(todo[g]) \in Due(h)'
    BY <1>1, <1>5, SendDue
  <2>2. EffectInv'
    <3>1. \A h \in Doers : \A n \in Due(h) : n \in Due(h)'
      BY <2>1, DoersAre
    <3>. QED  BY <1>1, <3>1, EffectsKept DEF TInv
  <2>3. MarkInv'
    <3>1. ASSUME NEW n \in Due("RefundTicket"), n \notin Due("RefundTicket")'
          PROVE  DueFor("UpdateRefundedTicket", n.ticket)'
      <4>1. g = "RefundTicket" /\ n = Current(g)
        BY <2>1, <3>1, DoersAre
      <4>2. Head(todo[g]) \in Range(todo[g])
        BY <1>1, <1>5, RangeTail DEF SendNext, BusOK
      <4>3. Head(todo[g]).type = "TicketRefunded" /\ Head(todo[g]).ticket = n.ticket
        BY <4>1, <4>2 DEF TInv, SentInv
      <4>4. Head(todo[g]) \in Due("UpdateRefundedTicket")'
        BY <2>1, <4>1, <4>3, DoersAre
      <4>. QED  BY <4>3, <4>4 DEF DueFor
    <3>2. \A n \in Due("UpdateRefundedTicket") : n \in Due("UpdateRefundedTicket")'
      BY <2>1, DoersAre
    <3>. QED  BY <1>1, <3>1, <3>2, MarksKept DEF TInv, IInv, RequestsOK
  <2>. QED  BY <1>3, <2>2, <2>3 DEF TInv
<1>. QED  BY <1>4, <1>5

(* A handler takes a step; when it is the last one it has done its message.*)
LEMMA HandlerEffects ==
  ASSUME IInv, IInv', TInv, NEW g \in Groups, queue[g] # <<>>, at[g] # "sending",
         NEW ms \in Seq(Message), NEW s \in {"sending", "appended", "voided"},
         Reach(g, s, ms, queue), Lasting, UNCHANGED <<asked, published>>,
         NEW t, t = Current(g).ticket,
         g \in Doers /\ s = "sending" => Seen(g, t)',
         g = "UpdateRefundedTicket" => (tickets[t].stored => tickets'[t].refunded),
         g = "RefundTicket" =>
           /\ s = "sending" => ms # <<>>
           /\ \A m \in Range(ms) : m.type = "TicketRefunded" /\ m.ticket = t,
         s = "appended" /\ g = "CancelTicket" => rows'["tickets-to-refund"][t] > 0
  PROVE  TInv'
<1>1. \A h \in Groups : \A m \in Due(h) :
        \/ m \in Due(h)'
        \/ h = g /\ m = Current(g) /\ s = "sending" /\ (g = "RefundTicket" => ms = <<>>)
  BY ReachDue DEF IInv
<1>2. EffectInv'
  <2>1. ASSUME NEW h \in Doers, NEW m \in Due(h)
        PROVE  m \in Due(h)' \/ Seen(h, m.ticket)'
    <3>1. h \in Groups /\ h # "RefundTicket"
      BY DoersAre
    <3>2. m \in Due(h)' \/ (h = g /\ m.ticket = t /\ s = "sending")
      BY <1>1, <3>1
    <3>. QED  BY <3>2
  <2>. QED  BY <2>1, EffectsKept DEF TInv
<1>3. MarkInv'
  <2>1. \A m \in Due("RefundTicket") : m \in Due("RefundTicket")'
    BY <1>1, DoersAre
  <2>2. \A m \in Due("UpdateRefundedTicket") :
          \/ m \in Due("UpdateRefundedTicket")'
          \/ tickets[m.ticket].stored => tickets'[m.ticket].refunded
    BY <1>1, DoersAre
  <2>. QED  BY <2>1, <2>2, MarksKept DEF TInv, IInv, RequestsOK
<1>4. /\ \A h \in Groups : todo'[h] = IF h = g THEN ms ELSE todo[h]
      /\ \A h \in Groups \ {g} : at'[h] = at[h] /\ queue'[h] = queue[h]
      /\ \/ at'[g] = s /\ queue'[g] = queue[g]
         \/ at'[g] = "idle" /\ ms = <<>>
  BY DEF Reach, IInv, BusOK
<1>5. CASE g \in {"CancelTicket", "RefundTicket"}
  <2>1. AppendedInv'
    <3>1. ASSUME at'["CancelTicket"] = "appended"
          PROVE  rows'["tickets-to-refund"][Current("CancelTicket").ticket'] > 0
      <4>1. CASE g = "CancelTicket"
        BY <1>4, <3>1, <4>1 DEF Current
      <4>2. CASE g # "CancelTicket"
        <5> DEFINE h == "CancelTicket"
        <5>1. h \in Groups /\ at[h] = "appended" /\ queue[h] # <<>> /\ queue'[h] = queue[h]
          BY <1>4, <3>1, <4>2, DoersAre DEF IInv, BusOK, Doers
        <5>2. PICK u \in Ticket : u = Current(h).ticket
          BY <5>1, CurrentMessage DEF IInv
        <5>3. rows["tickets-to-refund"][u] > 0
          BY <5>1, <5>2 DEF TInv, AppendedInv
        <5>4. rows'["tickets-to-refund"][u] > 0
          BY <5>3 DEF Lasting, Sheets
        <5>. QED  BY <5>1, <5>2, <5>4 DEF Current
      <4>. QED  BY <4>1, <4>2
    <3>. QED  BY <3>1 DEF AppendedInv
  <2>2. SentInv'
    <3>1. CASE g = "RefundTicket"
      <4>1. CASE ms = <<>>
        BY <1>4, <3>1, <4>1, EmptyRange DEF SentInv
      <4>2. CASE ms # <<>>
        BY <1>4, <3>1, <4>2 DEF SentInv, Current
      <4>. QED  BY <4>1, <4>2
    <3>2. CASE g # "RefundTicket"
      BY <1>4, <3>2, DoersAre DEF TInv, SentInv, Current
    <3>. QED  BY <3>1, <3>2
  <2>. QED  BY <1>2, <1>3, <2>1, <2>2 DEF TInv
<1>6. CASE g \notin {"CancelTicket", "RefundTicket"}
  <2>1. "CancelTicket" \in Groups \ {g} /\ "RefundTicket" \in Groups \ {g}
    BY <1>6, DoersAre DEF Doers
  <2>2. AppendedInv'
    <3> DEFINE h == "CancelTicket"
    <3>1. ASSUME at'[h] = "appended"
          PROVE  rows'["tickets-to-refund"][Current(h).ticket'] > 0
      <4>1. h \in Groups /\ at[h] = "appended" /\ queue[h] # <<>> /\ queue'[h] = queue[h]
        BY <1>4, <2>1, <3>1 DEF IInv, BusOK
      <4>2. PICK u \in Ticket : u = Current(h).ticket
        BY <4>1, CurrentMessage DEF IInv
      <4>3. rows["tickets-to-refund"][u] > 0
        BY <4>1, <4>2 DEF TInv, AppendedInv
      <4>4. rows'["tickets-to-refund"][u] > 0
        BY <4>3 DEF Lasting, Sheets
      <4>. QED  BY <4>1, <4>2, <4>4 DEF Current
    <3>. QED  BY <3>1 DEF AppendedInv
  <2>3. SentInv'
    BY <1>4, <2>1 DEF TInv, SentInv, Current
  <2>. QED  BY <1>2, <1>3, <2>2, <2>3 DEF TInv
<1>. QED  BY <1>5, <1>6

LEMMA ConfirmedEffects ==
  ASSUME IInv, IInv', TInv, StoreTicket \/ IssueReceipt \/ AppendToTracker \/ StoreTicketFile
  PROVE  TInv'
<1>. USE DEF IInv
<1>0. <<>> \in Seq(Message) /\ \A g \in Doers : g \in Groups
  BY EmptyRange, DoersAre
<1>1. CASE StoreTicket
  <2> DEFINE g == "StoreTicket"
  <2>1. /\ g \in Doers /\ queue[g] # <<>> /\ at[g] # "sending"
        /\ Reach(g, "sending", <<>>, queue) /\ UNCHANGED <<asked, published>>
        /\ UNCHANGED <<receipts, rows, files>>
    BY <1>1 DEF StoreTicket, Start, Ready, Idle, Doers, requests, apis
  <2>2. PICK t \in Ticket : /\ t = Current(g).ticket /\ Add(t)
    BY <1>0, <1>1, <2>1, CurrentMessage DEF StoreTicket, Groups
  <2>3. \A u \in Ticket : tickets'[u] = IF u = t THEN [tickets[t] EXCEPT !.stored = TRUE] ELSE tickets[u]
    BY <2>2 DEF Add, TicketsOK
  <2>4. Lasting /\ Seen(g, t)'
    BY <2>1, <2>2, <2>3 DEF Lasting, Seen, TicketsOK
  <2>. QED  BY <1>0, <2>1, <2>2, <2>4, HandlerEffects
<1>2. CASE IssueReceipt
  <2> DEFINE g == "IssueReceipt"
  <2>0. g \in Doers /\ g \in Groups /\ queue[g] # <<>> /\ at[g] # "sending"
    BY <1>2, DoersAre DEF IssueReceipt, Ready, Idle, Doers
  <2>1. PICK m \in Message :
          /\ m = Current(g) /\ m.ticket \in Ticket
          /\ \E p \in Request : m.key = <<p, m.ticket>> /\ Says(p, m.ticket)
    BY <2>0, CurrentMessage DEF Subscribed, Good
  <2>2. PICK n : n = Msg("TicketReceiptIssued", m.ticket, m.key)
    OBVIOUS
  <2>3. n \in Message /\ <<n>> \in Seq(Message)
    BY <2>1, <2>2, Messages, RangeSingle
  <2>4. /\ Reach(g, "sending", <<n>>, queue) /\ UNCHANGED <<asked, published>>
        /\ UNCHANGED <<tickets, rows, files>>
        /\ receipts' = receipts \cup {[ticket |-> m.ticket, key |-> m.key]}
    BY <1>2, <2>1, <2>2 DEF IssueReceipt, Start, requests
  <2>5. PICK r : r = [ticket |-> m.ticket, key |-> m.key]
    OBVIOUS
  <2>6. r \in receipts' /\ r.ticket = m.ticket
    BY <2>4, <2>5
  <2>7. Lasting
    BY <2>4 DEF Lasting
  <2>8. PICK t : t = m.ticket
    OBVIOUS
  <2>9. Seen(g, t)'
    BY <2>6, <2>8 DEF Seen
  <2>. QED  BY <2>0, <2>1, <2>3, <2>4, <2>7, <2>8, <2>9, HandlerEffects
<1>3. CASE AppendToTracker
  <2> DEFINE g == "AppendToTracker"
  <2>1. /\ g \in Doers /\ g \in Groups /\ queue[g] # <<>> /\ at[g] # "sending"
        /\ Reach(g, "sending", <<>>, queue) /\ UNCHANGED <<asked, published>>
        /\ UNCHANGED <<tickets, receipts, files>>
    BY <1>3, DoersAre DEF AppendToTracker, Start, Ready, Idle, Doers, requests
  <2>2. PICK t \in Ticket : t = Current(g).ticket
    BY <2>1, CurrentMessage
  <2>3. AppendRow("tickets-to-print", t)
    BY <1>3, <2>2 DEF AppendToTracker
  <2>4. /\ \A s \in Sheets, u \in Ticket : rows[s][u] > 0 => rows'[s][u] > 0
        /\ rows'["tickets-to-print"][t] > 0
    BY <2>3, BoundAssumption DEF AppendRow, ApisOK, Sheets
  <2>5. Lasting /\ Seen(g, t)'
    BY <2>1, <2>4 DEF Lasting, Seen
  <2>. QED  BY <1>0, <2>1, <2>2, <2>5, HandlerEffects
<1>4. CASE StoreTicketFile
  <2> DEFINE g == "StoreTicketFile"
  <2>0. g \in Doers /\ g \in Groups /\ queue[g] # <<>> /\ at[g] # "sending"
    BY <1>4, DoersAre DEF StoreTicketFile, Ready, Idle, Doers
  <2>1. PICK t \in Ticket : t = Current(g).ticket
    BY <2>0, CurrentMessage
  <2>2. PICK n : n = Msg("TicketPrinted", t, Nobody)
    OBVIOUS
  <2>3. n \in Message /\ <<n>> \in Seq(Message)
    BY <2>1, <2>2, Messages, RangeSingle
  <2>4. /\ Reach(g, "sending", <<n>>, queue) /\ UNCHANGED <<asked, published>>
        /\ UNCHANGED <<tickets, receipts, rows>> /\ files' = files \cup {t}
    BY <1>4, <2>1, <2>2 DEF StoreTicketFile, Start, requests
  <2>5. Lasting /\ Seen(g, t)'
    BY <2>4 DEF Lasting, Seen
  <2>. QED  BY <2>0, <2>1, <2>3, <2>4, <2>5, HandlerEffects
<1>. QED  BY <1>1, <1>2, <1>3, <1>4

LEMMA CanceledEffects ==
  ASSUME IInv, IInv', TInv, CancelTicketAppend \/ CancelTicketDelete \/ RemoveCanceledTicket
  PROVE  TInv'
<1>. USE DEF IInv
<1>0. <<>> \in Seq(Message) /\ "CancelTicket" \in Groups /\ "CancelTicket" \in Doers
  BY EmptyRange, DoersAre DEF Doers
<1>1. CASE CancelTicketAppend
  <2> DEFINE g == "CancelTicket"
  <2>1. /\ queue[g] # <<>> /\ at[g] # "sending"
        /\ Reach(g, "appended", <<>>, queue) /\ UNCHANGED <<asked, published>>
        /\ UNCHANGED <<tickets, receipts, files>>
    BY <1>1 DEF CancelTicketAppend, Start, Ready, Idle, requests
  <2>2. PICK t \in Ticket : t = Current(g).ticket
    BY <1>0, <2>1, CurrentMessage
  <2>3. AppendRow("tickets-to-refund", t)
    BY <1>1, <2>2 DEF CancelTicketAppend
  <2>4. /\ \A s \in Sheets, u \in Ticket : rows[s][u] > 0 => rows'[s][u] > 0
        /\ rows'["tickets-to-refund"][t] > 0
    BY <2>3, BoundAssumption DEF AppendRow, ApisOK, Sheets
  <2>5. Lasting
    BY <2>1, <2>4 DEF Lasting
  <2>. QED  BY <1>0, <2>1, <2>2, <2>4, <2>5, HandlerEffects
<1>2. CASE CancelTicketDelete
  <2> DEFINE g == "CancelTicket"
  <2>0. /\ queue[g] # <<>> /\ at[g] = "appended" /\ at[g] # "sending" /\ todo[g] = <<>>
        /\ UNCHANGED <<asked, published>> /\ UNCHANGED <<receipts, rows, files>>
    BY <1>0, <1>2 DEF CancelTicketDelete, BusOK, requests, apis
  <2>1. PICK t \in Ticket : t = Current(g).ticket
    BY <1>0, <2>0, CurrentMessage
  <2>2. CASE SoftDelete(t) /\ Reach(g, "sending", <<>>, queue)
    <3>1. \A u \in Ticket :
            tickets'[u] = IF u = t THEN [tickets[t] EXCEPT !.deleted = TRUE] ELSE tickets[u]
      BY <2>2 DEF SoftDelete, TicketsOK
    <3>2. rows["tickets-to-refund"][t] > 0
      BY <2>0, <2>1 DEF TInv, AppendedInv
    <3>3. Lasting /\ tickets'[t].deleted
      BY <2>0, <3>1 DEF Lasting, TicketsOK
    <3>4. Seen(g, t)'
      BY <2>0, <3>2, <3>3 DEF Seen, CanceledIsWithdrawn
    <3>. QED  BY <1>0, <2>0, <2>1, <2>2, <3>3, <3>4, HandlerEffects
  <2>3. CASE UNCHANGED tickets /\ ReturnError(g)
    <3>1. /\ at' = [at EXCEPT ![g] = "idle"] /\ UNCHANGED <<queue, lost, todo>>
      BY <2>3 DEF ReturnError
    <3>2. StillDue
      <4>1. \A h \in Groups : Through(h)' <=> Through(h)
        BY <1>0, <2>0, <3>1 DEF Through, BusOK
      <4>2. \A h \in Groups : Due(h)' = Due(h)
        BY <3>1, <4>1 DEF Due
      <4>. QED  BY <4>2 DEF StillDue
    <3>3. EffectInv' /\ MarkInv' /\ Lasting
      BY <2>0, <2>3, <3>2, NothingDone
    <3>4. AppendedInv' /\ SentInv'
      <4>1. at'[g] = "idle"
        BY <1>0, <3>1 DEF BusOK
      <4>2. \A h \in Groups : Current(h)' = Current(h)
        BY <3>1 DEF Current
      <4>3. Range(todo["RefundTicket"])' \subseteq Range(todo["RefundTicket"])
        BY <3>1
      <4>. QED  BY <3>3, <4>1, <4>2, <4>3, InHand
    <3>. QED  BY <3>3, <3>4 DEF TInv
  <2>. QED  BY <1>2, <2>1, <2>2, <2>3 DEF CancelTicketDelete
<1>3. CASE RemoveCanceledTicket
  <2> DEFINE g == "RemoveCancledTicket"
  <2>1. /\ g \in Groups /\ g \notin Doers /\ queue[g] # <<>> /\ at[g] # "sending"
        /\ Reach(g, "sending", <<>>, queue) /\ UNCHANGED <<asked, published>>
        /\ UNCHANGED <<receipts, rows, files>>
    BY <1>3 DEF RemoveCanceledTicket, Start, Ready, Idle, Groups, Doers, requests, apis
  <2>2. PICK t \in Ticket : t = Current(g).ticket /\ SoftDelete(t)
    BY <1>3, <2>1, CurrentMessage DEF RemoveCanceledTicket
  <2>3. \A u \in Ticket :
          tickets'[u] = IF u = t THEN [tickets[t] EXCEPT !.deleted = TRUE] ELSE tickets[u]
    BY <2>2 DEF SoftDelete, TicketsOK
  <2>4. Lasting
    BY <2>1, <2>3 DEF Lasting, TicketsOK
  <2>. QED  BY <1>0, <2>1, <2>4, HandlerEffects
<1>. QED  BY <1>1, <1>2, <1>3

LEMMA RefundEffects ==
  ASSUME IInv, IInv', TInv,
         VoidReceipt \/ RefundPayment \/ UpdateRefundedTicket \/ BookingMadeUpdate
  PROVE  TInv'
<1>. USE DEF IInv
<1>0. /\ <<>> \in Seq(Message) /\ Range(<<>>) = {}
      /\ \A g \in {"RefundTicket", "UpdateRefundedTicket", "BookingMade"} :
           g \in Groups /\ g \notin Doers
  BY EmptyRange DEF Groups, Doers
<1>1. CASE VoidReceipt
  <2> DEFINE g == "RefundTicket"
  <2>1. /\ queue[g] # <<>> /\ at[g] # "sending" /\ Reach(g, "voided", <<>>, queue)
        /\ UNCHANGED <<asked, published>> /\ UNCHANGED <<tickets, receipts, rows, files>>
    BY <1>1 DEF VoidReceipt, Start, Ready, Idle, requests
  <2>2. Lasting
    BY <2>1 DEF Lasting
  <2>. QED  BY <1>0, <2>1, <2>2, HandlerEffects
<1>2. CASE RefundPayment
  <2> DEFINE g == "RefundTicket"
  <2>1. /\ queue[g] # <<>> /\ at[g] # "sending"
        /\ UNCHANGED <<asked, published>> /\ UNCHANGED <<tickets, receipts, rows, files>>
    BY <1>0, <1>2 DEF RefundPayment, BusOK, requests
  <2>2. PICK m \in Message : m = Current(g) /\ m.ticket \in Ticket
    BY <1>0, <2>1, CurrentMessage
  <2>3. PICK n : n = Msg("TicketRefunded", m.ticket, Nobody)
    OBVIOUS
  <2>4. n \in Message /\ n.type = "TicketRefunded" /\ n.ticket = m.ticket
    BY <2>2, <2>3, Messages DEF Msg
  <2>5. Reach(g, "sending", <<n>>, queue)
    BY <1>2, <2>2, <2>3 DEF RefundPayment
  <2>6. <<n>> \in Seq(Message) /\ Range(<<n>>) = {n} /\ <<n>> # <<>>
    BY <2>4, RangeSingle
  <2>7. Lasting
    BY <2>1 DEF Lasting
  <2>. QED  BY <1>0, <2>1, <2>2, <2>4, <2>5, <2>6, <2>7, HandlerEffects
<1>3. CASE UpdateRefundedTicket
  <2> DEFINE g == "UpdateRefundedTicket"
  <2>1. /\ queue[g] # <<>> /\ at[g] # "sending" /\ Reach(g, "sending", <<>>, queue)
        /\ UNCHANGED <<asked, published>> /\ UNCHANGED <<receipts, rows, files>>
    BY <1>3 DEF UpdateRefundedTicket, Start, Ready, Idle, requests, apis
  <2>2. PICK t \in Ticket : t = Current(g).ticket /\ UpdateRefundedAt(t)
    BY <1>0, <1>3, <2>1, CurrentMessage DEF UpdateRefundedTicket
  <2>3. /\ \A u \in Ticket :
             /\ tickets'[u].stored = tickets[u].stored
             /\ tickets'[u].deleted = tickets[u].deleted
             /\ tickets[u].refunded => tickets'[u].refunded
        /\ tickets[t].stored => tickets'[t].refunded
    BY <2>2 DEF UpdateRefundedAt, TicketsOK
  <2>4. Lasting
    BY <2>1, <2>3 DEF Lasting
  <2>. QED  BY <1>0, <2>1, <2>2, <2>3, <2>4, HandlerEffects
<1>4. CASE BookingMadeUpdate
  <2> DEFINE g == "BookingMade"
  <2>1. /\ queue[g] # <<>> /\ at[g] # "sending" /\ Reach(g, "sending", <<>>, queue)
        /\ UNCHANGED <<asked, published>> /\ UNCHANGED <<tickets, receipts, rows, files>>
    BY <1>4 DEF BookingMadeUpdate, Start, Ready, Idle, apis
  <2>2. Lasting
    BY <2>1 DEF Lasting
  <2>. QED  BY <1>0, <2>1, <2>2, HandlerEffects
<1>. QED  BY <1>1, <1>2, <1>3, <1>4

-----------------------------------------------------------------------------

(* A request publishes one message, and waits for it. *)
LEMMA PublisherEffects ==
  ASSUME IInv, IInv', TInv, NEW m \in Message, queue' = Post(queue, m),
         UNCHANGED <<lost, at, todo, tickets, receipts, rows, files>>,
         \A x \in published' : x \in published \/ x = <<m.type, m.ticket>>,
         \A a \in asked' : a \in asked \/
           (a.listed => tickets[a.ticket].stored /\ m.type = "RefundTicket" /\ m.ticket = a.ticket)
  PROVE  TInv'
<1>1. /\ \A h \in Groups : \A n \in Due(h) : n \in Due(h)'
      /\ \A h \in Groups : Subscribed(h) = m.type => m \in Due(h)'
  BY PostDue DEF IInv, StillDue
<1>2. Lasting
  BY DEF Lasting
<1>3. EffectInv'
  <2>1. ASSUME NEW g \in Doers, NEW t \in Ticket, <<Subscribed(g), t>> \in published',
               <<Subscribed(g), t>> \notin published
        PROVE  DueFor(g, t)'
    <3>1. g \in Groups /\ Subscribed(g) = m.type /\ t = m.ticket
      BY <2>1, DoersAre
    <3>. QED  BY <1>1, <3>1 DEF DueFor
  <2>2. \A g \in Doers : \A n \in Due(g) : n \in Due(g)'
    BY <1>1, DoersAre
  <2>. QED  BY <1>2, <2>1, <2>2, EffectsKept DEF TInv
<1>4. MarkInv'
  <2>1. ASSUME NEW a \in asked', a \notin asked, a.listed
        PROVE  tickets'[a.ticket].stored /\ DueFor("RefundTicket", a.ticket)'
    BY <1>1, <2>1, DoersAre DEF DueFor
  <2>2. /\ \A n \in Due("RefundTicket") : n \in Due("RefundTicket")'
        /\ \A n \in Due("UpdateRefundedTicket") : n \in Due("UpdateRefundedTicket")'
    BY <1>1, DoersAre
  <2>. QED  BY <1>2, <2>1, <2>2, MarksKept DEF TInv, IInv, RequestsOK
<1>5. AppendedInv' /\ SentInv'
  <2>1. \A g \in Groups : queue[g] # <<>> => Current(g)' = Current(g)
    <3>1. faults' \in 0 .. MaxFaults
      BY DEF IInv, BusOK
    <3>. QED  BY <3>1, PostAdds DEF IInv
  <2>2. Range(todo["RefundTicket"])' \subseteq Range(todo["RefundTicket"])
    OBVIOUS
  <2>3. BusOK'
    BY DEF IInv
  <2>. QED  BY <1>2, <2>1, <2>2, <2>3, InHand
<1>. QED  BY <1>3, <1>4, <1>5 DEF TInv

LEMMA NoEffect ==
  ASSUME IInv, IInv', TInv, UNCHANGED <<queue, lost, at, todo>>,
         UNCHANGED <<tickets, receipts, rows, files, asked, published>>
  PROVE  TInv'
<1>1. StillDue
  BY DEF StillDue, Due, Through
<1>2. EffectInv' /\ MarkInv' /\ Lasting
  BY <1>1, NothingDone
<1>3. BusOK' /\ \A g \in Groups : Current(g)' = Current(g)
  BY DEF Current, IInv
<1>4. AppendedInv' /\ SentInv'
  BY <1>2, <1>3, InHand
<1>. QED  BY <1>2, <1>4 DEF TInv

LEMMA RequestsEffects ==
  ASSUME IInv, IInv', TInv,
         BookTickets \/ HttpServer
           \/ (\E p \in Request : PostTicketsConfirmation(p) \/ PostAgain(p))
           \/ (\E r \in RefundRequest : PutTicketRefund(r[1], r[2]))
  PROVE  TInv'
<1>1. CASE BookTickets
  <2>1. PICK m \in Message : m = Msg("BookingMade", Nobody, Nobody)
    BY Told
  <2>2. queue' = Post(queue, m) /\ UNCHANGED <<published, asked, tickets, apis, lost, at, todo>>
    BY <1>1, <2>1 DEF BookTickets
  <2>. QED  BY <2>2, PublisherEffects DEF apis
<1>2. ASSUME NEW p \in Request, PostTicketsConfirmation(p) \/ PostAgain(p) \/ AnswerStatus(p)
      PROVE  TInv'
  BY <1>2, NoEffect DEF PostTicketsConfirmation, PostAgain, AnswerStatus, bus, apis
<1>3. ASSUME NEW p \in Request, PublishStatus(p) PROVE TInv'
  <2>0. PICK e, m : e = Head(left[p]) /\ m = EventOf(e, p)
    OBVIOUS
  <2>1. e.ticket \in Ticket
    <3> DEFINE R == [ticket : Ticket, status : Statuses]
               l == left[p]
    <3>1. l \in Seq(R) /\ l # <<>>
      BY <1>3 DEF PublishStatus, IInv, RequestsOK, Entries
    <3>. HIDE DEF l
    <3>2. Head(l) \in R
      BY <3>1, RangeTail
    <3>. QED  BY <2>0, <3>2 DEF l
  <2>2. /\ UNCHANGED <<asked, tickets, apis, lost, at, todo>>
        /\ \/ queue' = Post(queue, m) /\ published' = published \cup {<<m.type, m.ticket>>}
           \/ UNCHANGED <<queue, published>>
    BY <1>3, <2>0 DEF PublishStatus
  <2>3. m \in Message
    <3>1. <<p, e.ticket>> \in Request \X Ticket
      BY <2>1
    <3>. QED  BY <2>0, <2>1, <3>1, Messages DEF EventOf
  <2>4. CASE queue' = Post(queue, m) /\ published' = published \cup {<<m.type, m.ticket>>}
    BY <2>2, <2>3, <2>4, PublisherEffects DEF apis
  <2>5. CASE UNCHANGED <<queue, published>>
    BY <2>2, <2>5, NoEffect DEF apis
  <2>. QED  BY <2>2, <2>4, <2>5
<1>4. ASSUME NEW r \in RefundRequest, PutTicketRefund(r[1], r[2]) PROVE TInv'
  <2>1. PICK t \in Ticket, k \in Keys : t = r[1] /\ k = r[2]
    BY RefundAssumption DEF Keys
  <2>2. PICK a, m : /\ a = [ticket |-> t, key |-> k, listed |-> tickets[t].stored]
                    /\ m = Msg("RefundTicket", t, k)
    OBVIOUS
  <2>3. m \in Message /\ m.type = "RefundTicket" /\ m.ticket = t
    BY <2>2, Messages DEF Msg
  <2>4. asked' = asked \cup {a} /\ queue' = Post(queue, m)
        /\ UNCHANGED <<published, tickets, apis, lost, at, todo>>
    BY <1>4, <2>1, <2>2 DEF PutTicketRefund
  <2>5. a.ticket = t /\ (a.listed => tickets[t].stored)
    BY <2>2
  <2>. QED  BY <2>3, <2>4, <2>5, PublisherEffects DEF apis
<1>. QED  BY <1>1, <1>2, <1>3, <1>4 DEF HttpServer

LEMMA StepEffects ==
  IInv /\ TInv /\ [Next]_vars => TInv'
<1> SUFFICES ASSUME IInv, TInv, [Next]_vars PROVE TInv'
  OBVIOUS
<1>0. IInv'
  BY StepIInv
<1>1. ASSUME NEW g \in Groups, Handler(g) PROVE TInv'
  BY <1>0, <1>1, ConfirmedEffects, CanceledEffects, RefundEffects, RouterEffects DEF Handler
<1>2. ASSUME NEW g \in Groups, Fail(g) PROVE TInv'
  BY <1>0, <1>2, RouterEffects DEF Fail
<1>3. CASE UNCHANGED vars
  BY <1>0, <1>3, NoEffect DEF vars, requests, apis, bus
<1>. QED  BY <1>0, <1>1, <1>2, <1>3, RequestsEffects DEF Next

LEMMA InitEffects ==
  Init => TInv
<1> SUFFICES ASSUME Init PROVE TInv
  OBVIOUS
<1>1. published = {} /\ asked = {}
  BY DEF Init
<1>2. todo["RefundTicket"] = <<>> /\ at["CancelTicket"] = "idle"
  BY DoersAre DEF Init, BusInit, Doers
<1>. QED  BY <1>1, <1>2, EmptyRange DEF TInv, EffectInv, MarkInv, AppendedInv, SentInv

(* PostTicketsConfirmation, PutTicketRefund and the seven groups they set  *)
(* to work: once nothing is under way, every event that was published has  *)
(* had its effect, and a refund asked for a ticket that was stored is      *)
(* marked.                                                                 *)
THEOREM EffectsComplete ==
  Spec => []EventsHaveEffect
<1>1. IInv /\ TInv => EventsHaveEffect
  <2> SUFFICES ASSUME IInv, TInv, Quiet
               PROVE  /\ \A t \in Ticket :
                           /\ <<"TicketBookingConfirmed", t>> \in published =>
                                ConfirmedIsProcessed(t)
                           /\ <<"TicketBookingCanceled", t>> \in published =>
                                CanceledIsWithdrawn(t)
                      /\ RefundsAreMarked
    BY DEF EventsHaveEffect
  <2>1. \A g \in Groups : Due(g) = {}
    <3>1. \A g \in Groups : /\ queue[g] = <<>> /\ lost[g] = <<>> /\ at[g] = "idle"
      BY DEF Quiet, IInv, BusOK
    <3>2. Range(<<>>) = {}
      BY DEF Range
    <3>. QED  BY <3>1, <3>2 DEF Due, Through
  <2>2. \A g \in Groups : \A t : ~DueFor(g, t)
    BY <2>1 DEF DueFor
  <2>3. \A g \in Doers, t \in Ticket : <<Subscribed(g), t>> \in published => Seen(g, t)
    BY <2>2, DoersAre DEF TInv, EffectInv
  <2>4. ASSUME NEW t \in Ticket, <<"TicketBookingConfirmed", t>> \in published
        PROVE  ConfirmedIsProcessed(t)
    <3>1. \A g \in Doers \ {"CancelTicket"} : Seen(g, t)
      BY <2>3, <2>4, DoersAre
    <3>. QED  BY <3>1 DEF Seen, Doers, ConfirmedIsProcessed
  <2>5. ASSUME NEW t \in Ticket, <<"TicketBookingCanceled", t>> \in published
        PROVE  CanceledIsWithdrawn(t)
    <3>1. Seen("CancelTicket", t)
      BY <2>3, <2>5, DoersAre DEF Doers
    <3>. QED  BY <3>1 DEF Seen
  <2>6. RefundsAreMarked
    BY <2>2, DoersAre DEF TInv, MarkInv, RefundsAreMarked
  <2>. QED  BY <2>4, <2>5, <2>6
<1>2. Spec => [](IInv /\ TInv)
  BY InitIInv, StepIInv, InitEffects, StepEffects, PTL DEF Spec
<1>. QED  BY <1>1, <1>2, PTL
=============================================================================
