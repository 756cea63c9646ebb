---------------------------- MODULE ServiceProofs ----------------------------
(***************************************************************************)
(* The routers of the service: how they deliver events (EventDelivery), and*)
(* how they are started and stopped (ServiceRun, at the end).              *)
(*                                                                         *)
(* For every set of events, types and handlers, and any number of failures *)
(* and crashes: an event is never lost on its way (IInv), and no handler is*)
(* run for it more often than failures struck, and once (DupInv).          *)
(*                                                                         *)
(* DupInv counts the messages that can still make a handler run for an     *)
(* event (Total): each step of the way moves one of them to the next group *)
(* or turns it into a run, and a failure brings back one that was done.    *)
(***************************************************************************)
EXTENDS EventDelivery, ServiceRun, SequenceTheorems, FiniteSetTheorems, TLAPS

(* The types of the bus; a handler at rest has nothing to send, and one     *)
(* that is not at rest has a message in hand.                              *)
BusOK ==
  /\ queue \in [Group -> Seq(Message)]
  /\ lost \in [Group -> Seq(Message)]
  /\ at \in [Group -> {"idle", "sending"}]
  /\ todo \in [Group -> Seq(Message)]
  /\ faults \in Nat
  /\ \A g \in Group : /\ at[g] = "idle" => todo[g] = <<>>
                      /\ at[g] = "sending" => queue[g] # <<>>

Takers(e) == {c \in Consumer : Subscribes[c] = TypeOf[e]}
Stored(e) == e \in stored \/ Owes("event_store", e)
Handled(c, e) == e \in Range(runs[c]) \/ Owes(c, e)

(* Group g has done its part for e: those behind it have the event, or     *)
(* have passed it on in turn.                                              *)
Delivered(g, e) ==
  CASE g = "forwarder" ->
         Stored(e) /\ \A c \in Takers(e) : Handled(c, e) \/ Owes("events_splitter", e)
    [] g = "events_splitter" -> \A c \in Takers(e) : Handled(c, e)
    [] g = "event_store" -> e \in stored
    [] OTHER -> e \in Range(runs[g])

Outgoing(g) ==
  Msg(IF g = "forwarder" THEN "events" ELSE TypeOf[EventAt(g)], EventAt(g))

(* A message is acknowledged only after it was delivered. *)
SendInv(g) ==
  at[g] = "sending" =>
    \/ todo[g] = <<>> /\ Delivered(g, EventAt(g))
    \/ todo[g] = <<Outgoing(g)>> /\ g \in {"forwarder", "events_splitter"}

IInv == TypeOK /\ BusOK /\ (\A g \in Group : SendInv(g)) /\ NothingLost
-----------------------------------------------------------------------------
(* What the operations on a queue do to the set of its messages, and to the*)
(* number of copies of one.                                                *)

LEMMA RangeSingle ==
  ASSUME NEW S, NEW x \in S
  PROVE  <<x>> \in Seq(S) /\ Range(<<x>>) = {x}
BY DEF Range

LEMMA RangeShift ==
  ASSUME NEW S, NEW s \in Seq(S), NEW t \in Seq(S),
         Len(t) = Len(s) + 1, \A i \in 1 .. Len(s) : t[i + 1] = s[i]
  PROVE  Range(t) = Range(s) \cup {t[1]}
<1>1. \A i \in 1 .. Len(t) : i = 1 \/ (i - 1 \in 1 .. Len(s) /\ t[i] = s[i - 1])
  OBVIOUS
<1>2. 1 \in 1 .. Len(t) /\ \A i \in 1 .. Len(s) : i + 1 \in 1 .. Len(t)
  OBVIOUS
<1>3. Range(s) = {s[i] : i \in 1 .. Len(s)} /\ Range(t) = {t[i] : i \in 1 .. Len(t)}
  BY RangeEquality
<1>. QED  BY <1>1, <1>2, <1>3

LEMMA RangePush ==
  ASSUME NEW S, NEW s \in Seq(S), NEW x \in S
  PROVE  <<x>> \o s \in Seq(S) /\ Range(<<x>> \o s) = Range(s) \cup {x}
<1> DEFINE t == <<x>> \o s
<1>1. /\ t \in Seq(S) /\ Len(t) = Len(s) + 1 /\ t[1] = x
      /\ \A i \in 1 .. Len(s) : t[i + 1] = s[i]
  OBVIOUS
<1>. HIDE DEF t
<1>2. Range(t) = Range(s) \cup {t[1]}
  BY <1>1, RangeShift
<1>. QED  BY <1>1, <1>2 DEF t

LEMMA RangeAppend ==
  ASSUME NEW S, NEW s \in Seq(S), NEW x \in S
  PROVE  Append(s, x) \in Seq(S) /\ Range(Append(s, x)) = Range(s) \cup {x}
<1>1. <<x>> \in Seq(S) /\ Range(<<x>>) = {x}
  BY RangeSingle
<1>2. Append(s, x) = s \o <<x>>
  BY AppendIsConcat
<1>3. Range(s \o <<x>>) = Range(s) \cup Range(<<x>>)
  BY <1>1, RangeConcatenation
<1>. QED  BY <1>1, <1>2, <1>3

LEMMA RangeTail ==
  ASSUME NEW S, NEW s \in Seq(S), s # <<>>
  PROVE  /\ Tail(s) \in Seq(S) /\ Head(s) \in S
         /\ Range(s) = Range(Tail(s)) \cup {Head(s)}
<1>1. Tail(s) \in Seq(S) /\ Head(s) \in S
  BY HeadTailProperties
<1>2. Range(s) = Range(Tail(s)) \cup {s[1]}
  <2>1. Len(s) = Len(Tail(s)) + 1 /\ \A i \in 1 .. Len(Tail(s)) : s[i + 1] = Tail(s)[i]
    BY HeadTailProperties
  <2>. QED  BY <1>1, <2>1, RangeShift
<1>. QED  BY <1>1, <1>2

LEMMA RangeWithout ==
  ASSUME NEW S, NEW s \in Seq(S), NEW i \in 1 .. Len(s)
  PROVE  LET t == SubSeq(s, 1, i - 1) \o SubSeq(s, i + 1, Len(s))
         IN  t \in Seq(S) /\ s[i] \in S /\ Range(s) = Range(t) \cup {s[i]}
<1> DEFINE a == SubSeq(s, 1, i - 1)
           b == SubSeq(s, i + 1, Len(s))
           c == SubSeq(s, i, Len(s))
<1>1. /\ a \in Seq(S) /\ b \in Seq(S) /\ c \in Seq(S)
      /\ s[i] \in S /\ i \in Nat \ {0} /\ Len(s) \in Nat /\ i <= Len(s)
  OBVIOUS
<1>2. s = a \o c
  <2>1. a \o c = SubSeq(s, 1, Len(s))
    <3>1. 1 \in 1 .. Len(s) + 1 /\ i - 1 \in 1 - 1 .. Len(s) /\ Len(s) \in i - 1 .. Len(s)
      BY <1>1
    <3>2. (i - 1) + 1 = i
      BY <1>1
    <3>3. SubSeq(s, 1, i - 1) \o SubSeq(s, (i - 1) + 1, Len(s)) = SubSeq(s, 1, Len(s))
      BY <3>1, ConcatAdjacentSubSeq
    <3>. QED  BY <3>2, <3>3
  <2>. QED  BY <2>1, SubSeqFull
<1>3. c = <<s[i]>> \o b
  <2>1. Len(s) \in i .. Len(s)
    BY <1>1
  <2>. QED  BY <2>1, SubSeqRecursiveFirst
<1>4. Range(c) = Range(b) \cup {s[i]}
  <2>1. Range(<<s[i]>> \o b) = Range(b) \cup {s[i]}
    BY <1>1, RangePush
  <2>. QED  BY <1>3, <2>1
<1>5. Range(s) = Range(a) \cup Range(c)
  <2>1. Range(a \o c) = Range(a) \cup Range(c)
    <3>. HIDE DEF a, c
    <3>. QED  BY <1>1, RangeConcatenation
  <2>. QED  BY <1>2, <2>1
<1>6. a \o b \in Seq(S) /\ Range(a \o b) = Range(a) \cup Range(b)
  <2>. HIDE DEF a, b
  <2>. QED  BY <1>1, ConcatProperties, RangeConcatenation
<1>. QED
  BY <1>1, <1>4, <1>5, <1>6

(* How many copies of x a sequence has. *)
Count(s, x) == Cardinality({i \in DOMAIN s : s[i] = x})

LEMMA CountFinite ==
  ASSUME NEW S, NEW s \in Seq(S), NEW x
  PROVE  /\ IsFiniteSet({i \in DOMAIN s : s[i] = x})
         /\ Count(s, x) \in Nat
<1>1. DOMAIN s = 1 .. Len(s) /\ Len(s) \in Nat
  OBVIOUS
<1>2. IsFiniteSet(1 .. Len(s))
  BY <1>1, FS_Interval
<1>3. {i \in DOMAIN s : s[i] = x} \in SUBSET (1 .. Len(s))
  BY <1>1
<1>4. IsFiniteSet({i \in DOMAIN s : s[i] = x})
  BY <1>2, <1>3, FS_Subset
<1>. QED  BY <1>4, FS_CardinalityType DEF Count

(* t is s without its i-th element. *)
Without(s, i, t) ==
  /\ i \in 1 .. Len(s) /\ Len(s) = Len(t) + 1
  /\ \A k \in 1 .. Len(t) : t[k] = s[IF k < i THEN k ELSE k + 1]

LEMMA CountWithout ==
  ASSUME NEW S, NEW s \in Seq(S), NEW t \in Seq(S), NEW i, Without(s, i, t), NEW x
  PROVE  Count(s, x) = Count(t, x) + (IF x = s[i] THEN 1 ELSE 0)
<1> DEFINE A == {k \in DOMAIN t : t[k] = x}
           B == {k \in DOMAIN s : s[k] = x}
           C == B \ {i}
           f == [k \in A |-> IF k < i THEN k ELSE k + 1]
<1>1. /\ DOMAIN s = 1 .. Len(t) + 1 /\ DOMAIN t = 1 .. Len(t) /\ Len(t) \in Nat
      /\ i \in 1 .. Len(t) + 1
      /\ \A k \in 1 .. Len(t) : t[k] = s[IF k < i THEN k ELSE k + 1]
  BY DEF Without
<1>2. /\ IsFiniteSet(A) /\ Count(t, x) = Cardinality(A) /\ Count(t, x) \in Nat
      /\ Count(s, x) = Cardinality(B)
  BY CountFinite DEF Count
<1>3. f \in Bijection(A, C)
  <2>1. \A k \in A : f[k] \in C
    BY <1>1
  <2>2. \A k, l \in A : f[k] = f[l] => k = l
    BY <1>1
  <2>3. \A l \in C : \E k \in A : f[k] = l
    <3> SUFFICES ASSUME NEW l \in C PROVE \E k \in A : f[k] = l
      OBVIOUS
    <3>1. CASE l < i
      <4>1. l \in A /\ f[l] = l
        BY <1>1, <3>1
      <4>. QED  BY <4>1
    <3>2. CASE l > i
      <4>1. l - 1 \in A /\ f[l - 1] = l
        BY <1>1, <3>2
      <4>. QED  BY <4>1
    <3>3. l \in Int /\ i \in Int /\ l # i
      BY <1>1
    <3>. QED  BY <3>1, <3>2, <3>3
  <2>4. f \in [A -> C]
    BY <2>1
  <2>. QED  BY <2>2, <2>3, <2>4 DEF Bijection, Injection, Surjection, IsInjective
<1>4. Cardinality(C) = Cardinality(A) /\ IsFiniteSet(C)
  <2>. HIDE DEF A, C, f
  <2>1. ExistsBijection(A, C)
    BY <1>3 DEF ExistsBijection
  <2>. QED  BY <1>2, <2>1, FS_Bijection
<1>5. ASSUME x = s[i] PROVE Cardinality(B) = Cardinality(A) + 1
  <2>1. B = C \cup {i} /\ i \notin C
    BY <1>1, <1>5
  <2>. HIDE DEF A, B, C
  <2>. QED  BY <1>4, <2>1, FS_AddElement
<1>6. ASSUME x # s[i] PROVE Cardinality(B) = Cardinality(A)
  <2>1. B = C
    BY <1>1, <1>6
  <2>. QED  BY <1>4, <2>1
<1>. HIDE DEF A, B
<1>. QED  BY <1>2, <1>5, <1>6

LEMMA CountAppend ==
  ASSUME NEW S, NEW s \in Seq(S), NEW x, NEW y \in S
  PROVE  Count(Append(s, y), x) = Count(s, x) + (IF x = y THEN 1 ELSE 0)
<1> DEFINE t == Append(s, y)
           n == Len(s) + 1
<1>1. t \in Seq(S) /\ t[n] = y /\ Without(t, n, s)
  BY DEF Without
<1>. HIDE DEF t, n
<1>2. Count(t, x) = Count(s, x) + (IF x = t[n] THEN 1 ELSE 0)
  BY <1>1, CountWithout
<1>. QED  BY <1>1, <1>2 DEF t

LEMMA CountTail ==
  ASSUME NEW S, NEW s \in Seq(S), s # <<>>, NEW x
  PROVE  Count(s, x) = Count(Tail(s), x) + (IF x = Head(s) THEN 1 ELSE 0)
<1> DEFINE t == Tail(s)
<1>1. t \in Seq(S) /\ s[1] = Head(s) /\ Without(s, 1, t)
  BY DEF Without
<1>. HIDE DEF t
<1>2. Count(s, x) = Count(t, x) + (IF x = s[1] THEN 1 ELSE 0)
  BY <1>1, CountWithout
<1>. QED  BY <1>1, <1>2 DEF t

LEMMA CountPush ==
  ASSUME NEW S, NEW s \in Seq(S), NEW x, NEW y \in S
  PROVE  Count(<<y>> \o s, x) = Count(s, x) + (IF x = y THEN 1 ELSE 0)
<1> DEFINE t == <<y>> \o s
<1>1. t \in Seq(S) /\ t[1] = y /\ Without(t, 1, s)
  BY DEF Without
<1>. HIDE DEF t
<1>2. Count(t, x) = Count(s, x) + (IF x = t[1] THEN 1 ELSE 0)
  BY <1>1, CountWithout
<1>. QED  BY <1>1, <1>2 DEF t

LEMMA CountRemove ==
  ASSUME NEW S, NEW s \in Seq(S), NEW i \in 1 .. Len(s), NEW x
  PROVE  LET t == SubSeq(s, 1, i - 1) \o SubSeq(s, i + 1, Len(s))
         IN  Count(s, x) = Count(t, x) + (IF x = s[i] THEN 1 ELSE 0)
<1> DEFINE a == SubSeq(s, 1, i - 1)
           b == SubSeq(s, i + 1, Len(s))
           t == a \o b
<1>1. /\ i \in Nat \ {0} /\ Len(s) \in Nat /\ i <= Len(s)
      /\ a \in Seq(S) /\ Len(a) = i - 1 /\ \A k \in 1 .. i - 1 : a[k] = s[k]
      /\ b \in Seq(S) /\ Len(b) = Len(s) - i /\ \A k \in 1 .. Len(s) - i : b[k] = s[k + i]
  OBVIOUS
<1>. HIDE DEF a, b
<1>2. /\ t \in Seq(S) /\ Len(s) = Len(t) + 1
      /\ \A k \in 1 .. i - 1 : t[k] = a[k]
      /\ \A k \in i .. Len(t) : t[k] = b[k - i + 1]
  <2>1. /\ t \in Seq(S) /\ Len(t) = Len(a) + Len(b)
        /\ \A k \in 1 .. Len(a) + Len(b) :
             t[k] = IF k <= Len(a) THEN a[k] ELSE b[k - Len(a)]
    BY ONLY <1>1, ConcatProperties DEF t
  <2>2. Len(s) = Len(t) + 1
    BY <1>1, <2>1
  <2>3. ASSUME NEW k \in 1 .. i - 1 PROVE t[k] = a[k]
    BY <1>1, <2>1, <2>3
  <2>4. ASSUME NEW k \in i .. Len(t) PROVE t[k] = b[k - i + 1]
    <3>1. k - Len(a) = k - i + 1 /\ ~(k <= Len(a)) /\ k \in 1 .. Len(a) + Len(b)
      BY <1>1, <2>1, <2>4
    <3>. QED  BY <2>1, <3>1
  <2>. QED  BY <2>1, <2>2, <2>3, <2>4
<1>3. \A k \in 1 .. Len(t) : t[k] = s[IF k < i THEN k ELSE k + 1]
  <2>1. ASSUME NEW k \in 1 .. Len(t), k < i PROVE t[k] = s[k]
    <3>1. k \in 1 .. i - 1
      BY <1>1, <2>1
    <3>2. t[k] = a[k] /\ a[k] = s[k]
      BY ONLY <1>1, <1>2, <3>1
    <3>. QED  BY <3>2
  <2>2. ASSUME NEW k \in 1 .. Len(t), ~(k < i) PROVE t[k] = s[k + 1]
    <3>1. k - i + 1 \in 1 .. Len(s) - i /\ (k - i + 1) + i = k + 1 /\ k \in i .. Len(t)
      BY <1>1, <1>2, <2>2
    <3>2. t[k] = b[k - i + 1] /\ b[k - i + 1] = s[k + 1]
      BY ONLY <1>1, <1>2, <3>1
    <3>. QED  BY <3>2
  <2>. QED  BY <2>1, <2>2
<1>. HIDE DEF t
<1>4. Without(s, i, t)
  BY <1>2, <1>3 DEF Without
<1>5. Count(s, x) = Count(t, x) + (IF x = s[i] THEN 1 ELSE 0)
  BY <1>2, <1>4, CountWithout
<1>. QED  BY <1>5 DEF t, a, b
-----------------------------------------------------------------------------
LEMMA RangeRemoveAt ==
  ASSUME NEW S, NEW s \in Seq(S), NEW i \in 1 .. Len(s)
  PROVE  /\ RemoveAt(s, i) \in Seq(S) /\ s[i] \in S
         /\ Range(s) = Range(RemoveAt(s, i)) \cup {s[i]}
BY RangeWithout DEF RemoveAt

(* Publishing adds a message to the queues of its topic, at the end. *)
LEMMA PostAdds ==
  ASSUME NEW q \in [Group -> Seq(Message)], NEW m \in Message
  PROVE  /\ Post(q, m) \in [Group -> Seq(Message)]
         /\ \A g \in Group :
              /\ Range(q[g]) \subseteq Range(Post(q, m)[g])
              /\ Topic[g] = m.type => m \in Range(Post(q, m)[g])
              /\ Topic[g] # m.type => Post(q, m)[g] = q[g]
              /\ q[g] # <<>> => Post(q, m)[g] # <<>> /\ Head(Post(q, m)[g]) = Head(q[g])
<1>1. \A g \in Group :
        Post(q, m)[g] = IF Topic[g] = m.type THEN Append(q[g], m) ELSE q[g]
  BY DEF Post
<1>2. \A g \in Group : Append(q[g], m) \in Seq(Message)
  OBVIOUS
<1>3. Post(q, m) \in [Group -> Seq(Message)]
  BY <1>2 DEF Post
<1>4. ASSUME NEW g \in Group
      PROVE  /\ Range(q[g]) \subseteq Range(Post(q, m)[g])
             /\ Topic[g] = m.type => m \in Range(Post(q, m)[g])
  <2>1. Range(Append(q[g], m)) = Range(q[g]) \cup {m}
    BY RangeAppend
  <2>. QED  BY <1>1, <2>1
<1>5. ASSUME NEW g \in Group, q[g] # <<>>
      PROVE  Post(q, m)[g] # <<>> /\ Head(Post(q, m)[g]) = Head(q[g])
  <2>1. q[g] \in Seq(Message)
    OBVIOUS
  <2>2. Append(q[g], m) # <<>> /\ Head(Append(q[g], m)) = Head(q[g])
    BY <1>5, <2>1
  <2>. QED  BY <1>1, <1>5, <2>2
<1>. QED  BY <1>1, <1>3, <1>4, <1>5

(* A handler that reaches a step has sent nothing else, and is at most done. *)
LEMMA ReachStep ==
  ASSUME BusOK, NEW g \in Group, NEW q \in [Group -> Seq(Message)],
         \A h \in Group : queue[h] # <<>> => q[h] # <<>>,
         NEW ms \in Seq(Message), q[g] # <<>>, Reach(g, "sending", ms, q)
  PROVE  /\ BusOK' /\ lost' = lost
         /\ \A h \in Group \ {g} :
              queue'[h] = q[h] /\ at'[h] = at[h] /\ todo'[h] = todo[h]
         /\ todo'[g] = ms
         /\ \/ queue'[g] = q[g] /\ at'[g] = "sending"
            \/ queue'[g] = Tail(q[g]) /\ at'[g] = "idle" /\ ms = <<>>
<1>1. Tail(q[g]) \in Seq(Message)
  BY HeadTailProperties
<1>. QED  BY <1>1 DEF BusOK, Reach

(* The other ends of a handler's run, and the start of the next. *)
LEMMA BusKeepsTypes ==
  ASSUME BusOK, NEW g \in Group, Ack(g) \/ Retry(g) \/ Crash(g) \/ Claim(g)
  PROVE  BusOK'
<1>1. CASE Ack(g)
  <2>1. ASSUME queue[g] # <<>> PROVE Tail(queue[g]) \in Seq(Message)
    BY <2>1, HeadTailProperties DEF BusOK
  <2>. QED  BY <1>1, <2>1 DEF BusOK, Ack
<1>2. CASE Retry(g)
  BY <1>2 DEF BusOK, Retry
<1>3. CASE Crash(g)
  <2>1. Tail(queue[g]) \in Seq(Message) /\ Current(g) \in Message
    BY <1>3, HeadTailProperties DEF BusOK, Crash, Current
  <2>. QED  BY <1>3, <2>1 DEF BusOK, Crash
<1>4. CASE Claim(g)
  <2>1. PICK i \in 1 .. Len(lost[g]) :
          /\ queue' = [queue EXCEPT ![g] = <<lost[g][i]>> \o @]
          /\ lost' = [lost EXCEPT ![g] = RemoveAt(@, i)]
    BY <1>4 DEF Claim
  <2>2. lost[g] \in Seq(Message) /\ queue[g] \in Seq(Message)
    BY DEF BusOK
  <2>3. RemoveAt(lost[g], i) \in Seq(Message) /\ lost[g][i] \in Message
    BY <2>2, RangeRemoveAt
  <2>4. <<lost[g][i]>> \o queue[g] \in Seq(Message)
    BY <2>2, <2>3, RangePush
  <2>. QED  BY <1>4, <2>1, <2>3, <2>4 DEF BusOK, Claim
<1>. QED  BY <1>1, <1>2, <1>3, <1>4

LEMMA MsgType ==
  ASSUME NEW t \in EventType \cup {"events_to_forward", "events"}, NEW e \in Event
  PROVE  Msg(t, e) \in Message /\ Msg(t, e).type = t /\ Msg(t, e).event = e
BY DEF Msg, Message

LEMMA CurrentType ==
  ASSUME BusOK, NEW g \in Group, queue[g] # <<>>
  PROVE  Current(g) \in Message /\ EventAt(g) \in Event /\ TypeOf[EventAt(g)] \in EventType
<1>1. Current(g) \in Message
  BY HeadTailProperties DEF BusOK, Current
<1>. QED  BY <1>1, EventAssumption DEF Message, EventAt

(* Who sends what to whom. *)
LEMMA Topics ==
  /\ Relays \subseteq Group /\ Consumer \subseteq Group
  /\ Topic["forwarder"] = "events_to_forward"
  /\ Topic["events_splitter"] = "events" /\ Topic["event_store"] = "events"
  /\ \A c \in Consumer : Topic[c] = Subscribes[c] /\ c \notin Relays
  /\ \A t \in EventType : t # "events_to_forward" /\ t # "events"
BY ConsumerAssumption, TopicAssumption DEF Topic, Group, Relays

-----------------------------------------------------------------------------
(* What the event store and the handlers have done stays done, and a group *)
(* lets go only of what it has delivered.                                  *)
Progress ==
  /\ stored \subseteq stored'
  /\ \A c \in Consumer : Range(runs[c]) \subseteq Range(runs'[c])
  /\ \A g \in Group : \A e \in Event :
       Owes(g, e) => Owes(g, e)' \/ Delivered(g, e) \/ Delivered(g, e)'

LEMMA DeliveredStays ==
  ASSUME Progress, NEW g \in Group, NEW e \in Event, Delivered(g, e)
  PROVE  Delivered(g, e)'
<1>1. \A c \in Consumer : c \in Group /\ c \notin Relays
  BY Topics
<1>2. ASSUME e \in stored PROVE e \in stored'
  BY <1>2 DEF Progress
<1>3. ASSUME NEW c \in Consumer, e \in Range(runs[c]) PROVE e \in Range(runs'[c])
  BY <1>3 DEF Progress
<1>4. ASSUME Stored(e) PROVE Stored(e)'
  <2>1. Owes("event_store", e) => Owes("event_store", e)' \/ e \in stored \/ e \in stored'
    BY Topics DEF Progress, Delivered, Relays
  <2>. QED  BY <1>2, <1>4, <2>1 DEF Stored
<1>5. ASSUME NEW c \in Consumer, Handled(c, e) PROVE Handled(c, e)'
  <2>1. Owes(c, e) => Owes(c, e)' \/ e \in Range(runs[c]) \/ e \in Range(runs'[c])
    BY <1>1 DEF Progress, Delivered, Relays
  <2>. QED  BY <1>3, <1>5, <2>1 DEF Handled
<1>6. Takers(e)' = Takers(e) /\ Takers(e) \subseteq Consumer
  BY DEF Takers
<1>7. ASSUME NEW c \in Takers(e), Handled(c, e) \/ Owes("events_splitter", e)
      PROVE  (Handled(c, e) \/ Owes("events_splitter", e))'
  <2>1. Owes("events_splitter", e) =>
          Owes("events_splitter", e)' \/ Handled(c, e) \/ Handled(c, e)'
    BY <1>6, Topics DEF Progress, Delivered, Relays
  <2>. QED  BY <1>5, <1>6, <1>7, <2>1
<1>8. CASE g = "forwarder"
  BY <1>4, <1>6, <1>7, <1>8 DEF Delivered
<1>9. CASE g = "events_splitter"
  BY <1>5, <1>6, <1>9 DEF Delivered
<1>10. CASE g = "event_store"
  BY <1>2, <1>10 DEF Delivered
<1>11. CASE g \in Consumer
  BY <1>1, <1>3, <1>11 DEF Delivered, Relays
<1>. QED  BY <1>8, <1>9, <1>10, <1>11 DEF Group, Relays

(* An event is lost to nobody as long as the forwarder owes it or has      *)
(* delivered it.                                                           *)
LEMMA NothingLostForwarder ==
  NothingLost <=> \A e \in accepted : Owes("forwarder", e) \/ Delivered("forwarder", e)
BY DEF NothingLost, Delivered, Stored, Handled, Takers

(* Groups that take no part in a step keep what they promise. *)
LEMMA OthersKeep ==
  ASSUME BusOK, Progress, NEW h \in Group, SendInv(h),
         at'[h] = at[h], todo'[h] = todo[h],
         queue[h] # <<>> => Head(queue'[h]) = Head(queue[h])
  PROVE  SendInv(h)'
<1>. SUFFICES ASSUME at[h] = "sending" PROVE SendInv(h)'
  BY DEF SendInv
<1>1. queue[h] # <<>> /\ EventAt(h)' = EventAt(h) /\ EventAt(h) \in Event
  BY CurrentType DEF BusOK, EventAt, Current
<1>2. Outgoing(h)' = Outgoing(h)
  BY <1>1 DEF Outgoing
<1>3. Delivered(h, EventAt(h)) => Delivered(h, EventAt(h))'
  <2>1. Delivered(h, EventAt(h)) => \A e \in Event : e = EventAt(h) => Delivered(h, e)'
    BY DeliveredStays
  <2>. QED  BY <1>1, <2>1
<1>. QED  BY <1>2, <1>3 DEF SendInv

(* What is left to show of a step in which only g takes part. *)
LEMMA StepKeeps ==
  ASSUME IInv, Progress, accepted' = accepted, NEW g \in Group, SendInv(g)',
         \A h \in Group \ {g} :
           /\ at'[h] = at[h] /\ todo'[h] = todo[h]
           /\ queue[h] # <<>> => Head(queue'[h]) = Head(queue[h])
  PROVE  (\A h \in Group : SendInv(h)') /\ NothingLost'
<1>1. ASSUME NEW h \in Group PROVE SendInv(h)'
  BY OthersKeep DEF IInv
<1>2. ASSUME NEW e \in accepted
      PROVE  (Owes("forwarder", e) \/ Delivered("forwarder", e))'
  <2>1. e \in Event /\ "forwarder" \in Group
    BY Topics DEF IInv, TypeOK, Relays
  <2>2. Owes("forwarder", e) \/ Delivered("forwarder", e)
    BY NothingLostForwarder DEF IInv
  <2>3. Owes("forwarder", e)' \/ Delivered("forwarder", e) \/ Delivered("forwarder", e)'
    BY <2>1, <2>2 DEF Progress
  <2>. QED  BY <2>1, <2>3, DeliveredStays
<1>3. NothingLost' <=> \A e \in accepted' : (Owes("forwarder", e) \/ Delivered("forwarder", e))'
  BY DEF NothingLost, Delivered, Stored, Handled, Takers
<1>. QED  BY <1>1, <1>2, <1>3

(* To owe is to have a message of the event, waiting or pending. *)
LEMMA OwesGrows ==
  ASSUME NEW g \in Group, NEW e \in Event, Owes(g, e),
         Range(queue[g]) \cup Range(lost[g]) \subseteq Range(queue'[g]) \cup Range(lost'[g])
  PROVE  Owes(g, e)'
BY DEF Owes

LEMMA OwesDone ==
  ASSUME BusOK, NEW g \in Group, NEW e \in Event, Owes(g, e), queue[g] # <<>>,
         queue'[g] = Tail(queue[g]), lost'[g] = lost[g]
  PROVE  Owes(g, e)' \/ e = EventAt(g)
<1>1. Range(queue[g]) = Range(Tail(queue[g])) \cup {Current(g)}
  BY RangeTail DEF BusOK, Current
<1>. QED  BY <1>1 DEF Owes, EventAt

(* The first step of a handler: of all that is owed, only its own message  *)
(* can be done with.                                                       *)
LEMMA StartStep ==
  ASSUME BusOK, NEW g \in Group, NEW ms \in Seq(Message), Start(g, "sending", ms)
  PROVE  /\ BusOK' /\ todo'[g] = ms /\ queue[g] # <<>>
         /\ \A h \in Group \ {g} :
              queue'[h] = queue[h] /\ at'[h] = at[h] /\ todo'[h] = todo[h]
         /\ \A h \in Group : \A e \in Event :
              Owes(h, e) => Owes(h, e)' \/ (h = g /\ ms = <<>> /\ e = EventAt(g))
         /\ at'[g] = "sending" => queue'[g] = queue[g]
<1>1. queue[g] # <<>> /\ Reach(g, "sending", ms, queue) /\ queue \in [Group -> Seq(Message)]
  BY DEF Start, Ready, BusOK
<1>2. /\ BusOK' /\ lost' = lost
      /\ \A h \in Group \ {g} :
           queue'[h] = queue[h] /\ at'[h] = at[h] /\ todo'[h] = todo[h]
      /\ todo'[g] = ms
      /\ \/ queue'[g] = queue[g] /\ at'[g] = "sending"
         \/ queue'[g] = Tail(queue[g]) /\ at'[g] = "idle" /\ ms = <<>>
  BY <1>1, ReachStep
<1>3. ASSUME NEW h \in Group, NEW e \in Event, Owes(h, e)
      PROVE  Owes(h, e)' \/ (h = g /\ ms = <<>> /\ e = EventAt(g))
  <2>1. CASE queue'[h] = queue[h]
    BY <1>2, <1>3, <2>1, OwesGrows
  <2>2. CASE h = g /\ queue'[g] = Tail(queue[g]) /\ ms = <<>>
    BY <1>1, <1>2, <1>3, <2>2, OwesDone
  <2>. QED  BY <1>2, <2>1, <2>2
<1>. QED  BY <1>1, <1>2, <1>3

-----------------------------------------------------------------------------
THEOREM InitEstablishes == Init => IInv
<1>. SUFFICES ASSUME Init PROVE IInv
  OBVIOUS
<1>1. TypeOK
  BY DEF Init, BusInit, TypeOK
<1>2. BusOK
  BY DEF Init, BusInit, BusOK
<1>3. \A g \in Group : SendInv(g)
  BY DEF Init, BusInit, SendInv
<1>4. NothingLost
  BY DEF Init, NothingLost
<1>. QED  BY <1>1, <1>2, <1>3, <1>4 DEF IInv

(* A new event is added to the queues of its topic, and to nothing else. *)
LEMMA NewEvent ==
  ASSUME IInv, NEW e \in Event, NEW t \in {"events_to_forward", "events"},
         accepted' = accepted \cup {e},
         queue' = Post(queue, Msg(t, e)),
         UNCHANGED <<stored, runs, lost, at, todo, faults>>
  PROVE  BusOK' /\ (\A g \in Group : SendInv(g)') /\ NothingLost'
<1> DEFINE m == Msg(t, e)
<1>1. m \in Message /\ m.type = t /\ m.event = e
  BY MsgType
<1>. HIDE DEF m
<1>2. /\ queue' \in [Group -> Seq(Message)]
      /\ \A g \in Group :
           /\ Range(queue[g]) \subseteq Range(queue'[g])
           /\ Topic[g] = t => m \in Range(queue'[g])
           /\ queue[g] # <<>> => queue'[g] # <<>> /\ Head(queue'[g]) = Head(queue[g])
  <2>1. queue \in [Group -> Seq(Message)] /\ queue' = Post(queue, m)
    BY DEF IInv, BusOK, m
  <2>2. /\ Post(queue, m) \in [Group -> Seq(Message)]
        /\ \A g \in Group :
             /\ Range(queue[g]) \subseteq Range(Post(queue, m)[g])
             /\ Topic[g] = m.type => m \in Range(Post(queue, m)[g])
             /\ queue[g] # <<>> =>
                  Post(queue, m)[g] # <<>> /\ Head(Post(queue, m)[g]) = Head(queue[g])
    BY <1>1, <2>1, PostAdds
  <2>. QED  BY <1>1, <2>1, <2>2
<1>3. BusOK'
  BY <1>2 DEF IInv, BusOK
<1>4. \A g \in Group : \A f \in Event : Owes(g, f) => Owes(g, f)'
  BY <1>2, OwesGrows
<1>5. Progress
  BY <1>4 DEF Progress
<1>6. \A g \in Group : SendInv(g)'
  BY <1>2, <1>5, OthersKeep DEF IInv
<1>7. \A g \in Group : Topic[g] = t => Owes(g, e)'
  BY <1>1, <1>2 DEF Owes
<1>8. Owes("forwarder", e)' \/ Delivered("forwarder", e)'
  <2>1. CASE t = "events_to_forward"
    BY <1>7, <2>1, Topics DEF Relays
  <2>2. CASE t = "events"
    <3>1. Owes("event_store", e)' /\ Owes("events_splitter", e)'
      BY <1>7, <2>2, Topics DEF Relays
    <3>. QED  BY <3>1 DEF Delivered, Stored
  <2>. QED  BY <2>1, <2>2
<1>9. ASSUME NEW f \in accepted PROVE Owes("forwarder", f)' \/ Delivered("forwarder", f)'
  <2>1. f \in Event /\ "forwarder" \in Group
    BY Topics DEF IInv, TypeOK, Relays
  <2>2. Owes("forwarder", f) \/ Delivered("forwarder", f)
    BY NothingLostForwarder DEF IInv
  <2>. QED  BY <1>4, <1>5, <2>1, <2>2, DeliveredStays
<1>10. NothingLost' <=> \A f \in accepted' : (Owes("forwarder", f) \/ Delivered("forwarder", f))'
  BY DEF NothingLost, Delivered, Stored, Handled, Takers
<1>. QED  BY <1>3, <1>6, <1>8, <1>9, <1>10

(* A relay takes an event and is about to pass it on. *)
LEMMA RelayStep ==
  ASSUME IInv, NEW g \in {"forwarder", "events_splitter"},
         Start(g, "sending", <<Outgoing(g)>>),
         UNCHANGED <<accepted, stream, stored, runs>>
  PROVE  BusOK' /\ (\A h \in Group : SendInv(h)') /\ NothingLost'
<1>1. g \in Group /\ queue[g] # <<>> /\ BusOK
  BY Topics DEF Relays, Start, Ready, IInv
<1>2. Outgoing(g) \in Message
  BY <1>1, CurrentType, MsgType DEF Outgoing
<1>3. <<Outgoing(g)>> \in Seq(Message) /\ <<Outgoing(g)>> # <<>>
  BY <1>2
<1>4. /\ BusOK' /\ todo'[g] = <<Outgoing(g)>>
      /\ \A h \in Group \ {g} :
           queue'[h] = queue[h] /\ at'[h] = at[h] /\ todo'[h] = todo[h]
      /\ \A h \in Group : \A e \in Event : Owes(h, e) => Owes(h, e)'
      /\ at'[g] = "sending" => queue'[g] = queue[g]
  BY <1>1, <1>3, StartStep
<1>5. Progress
  BY <1>4 DEF Progress
<1>6. SendInv(g)'
  <2>1. at'[g] = "sending" => Outgoing(g)' = Outgoing(g)
    BY <1>4 DEF Outgoing, EventAt, Current
  <2>. QED  BY <1>4, <2>1 DEF SendInv
<1>. QED  BY <1>1, <1>4, <1>5, <1>6, StepKeeps

(* A handler, or the event store, is done with an event in one step. *)
LEMMA DoneStep ==
  ASSUME IInv, NEW g \in Group, Start(g, "sending", <<>>), accepted' = accepted,
         stored \subseteq stored',
         \A c \in Consumer : Range(runs[c]) \subseteq Range(runs'[c]),
         \A e \in Event : e = EventAt(g) => Delivered(g, e)'
  PROVE  BusOK' /\ (\A h \in Group : SendInv(h)') /\ NothingLost'
<1>1. BusOK
  BY DEF IInv
<1>2. /\ BusOK' /\ todo'[g] = <<>>
      /\ \A h \in Group \ {g} :
           queue'[h] = queue[h] /\ at'[h] = at[h] /\ todo'[h] = todo[h]
      /\ \A h \in Group : \A e \in Event :
           Owes(h, e) => Owes(h, e)' \/ (h = g /\ e = EventAt(g))
      /\ at'[g] = "sending" => queue'[g] = queue[g]
  <2>1. <<>> \in Seq(Message)
    OBVIOUS
  <2>. QED  BY <1>1, <2>1, StartStep
<1>3. Progress
  BY <1>2 DEF Progress
<1>4. SendInv(g)'
  <2>1. EventAt(g) \in Event
    BY <1>1, CurrentType DEF Start, Ready
  <2>2. at'[g] = "sending" => EventAt(g)' = EventAt(g)
    BY <1>2 DEF EventAt, Current
  <2>3. at'[g] = "sending" => Delivered(g, EventAt(g))'
    BY <2>1, <2>2
  <2>. QED  BY <1>2, <2>3 DEF SendInv
<1>. QED  BY <1>2, <1>3, <1>4, StepKeeps

(* A relay passes its event on, to everyone behind it. *)
LEMMA SendStep ==
  ASSUME IInv, NEW g \in Group, Send(g)
  PROVE  BusOK' /\ (\A h \in Group : SendInv(h)') /\ NothingLost'
<1> DEFINE m == Outgoing(g)
           q == Post(queue, m)
<1>1. BusOK /\ SendInv(g)
  BY DEF IInv
<1>2. at[g] = "sending" /\ queue[g] # <<>>
  BY <1>1 DEF BusOK, Send, SendNext
<1>3. todo[g] = <<m>> /\ g \in {"forwarder", "events_splitter"}
  BY <1>1, <1>2 DEF SendInv, Send, SendNext
<1>4. PICK e \in Event : e = EventAt(g) /\ TypeOf[e] \in EventType
  BY <1>1, <1>2, CurrentType
<1>5. /\ m \in Message /\ m.event = e
      /\ m.type = IF g = "forwarder" THEN "events" ELSE TypeOf[e]
  BY <1>4, MsgType DEF Outgoing
<1>6. Head(todo[g]) = m /\ Tail(todo[g]) = <<>>
  BY <1>3
<1>. HIDE DEF m
<1>7. /\ q \in [Group -> Seq(Message)]
      /\ \A h \in Group :
           /\ Range(queue[h]) \subseteq Range(q[h])
           /\ Topic[h] = m.type => m \in Range(q[h])
           /\ Topic[h] # m.type => q[h] = queue[h]
           /\ queue[h] # <<>> => q[h] # <<>> /\ Head(q[h]) = Head(queue[h])
  <2>1. queue \in [Group -> Seq(Message)]
    BY <1>1 DEF BusOK
  <2>. QED  BY <1>5, <2>1, PostAdds
<1>8. Reach(g, "sending", <<>>, q) /\ UNCHANGED <<accepted, stored, runs>>
  BY <1>2, <1>6 DEF Send, SendNext
<1>. HIDE DEF q
<1>9. /\ BusOK' /\ lost' = lost
      /\ \A h \in Group \ {g} :
           queue'[h] = q[h] /\ at'[h] = at[h] /\ todo'[h] = todo[h]
      /\ todo'[g] = <<>>
      /\ \/ queue'[g] = q[g] /\ at'[g] = "sending"
         \/ queue'[g] = Tail(q[g]) /\ at'[g] = "idle"
  <2>1. <<>> \in Seq(Message)
    OBVIOUS
  <2>. QED  BY <1>1, <1>2, <1>7, <1>8, <2>1, ReachStep
<1>10. q[g] = queue[g]
  BY <1>3, <1>4, <1>5, <1>7, Topics
<1>11. \A h \in Group \ {g} : Topic[h] = m.type => Owes(h, e)'
  BY <1>5, <1>7, <1>9 DEF Owes
<1>12. Delivered(g, e)'
  <2>1. CASE g = "forwarder"
    <3>1. Owes("event_store", e)' /\ Owes("events_splitter", e)'
      BY <1>5, <1>11, <2>1, Topics DEF Relays
    <3>. QED  BY <2>1, <3>1 DEF Delivered, Stored
  <2>2. CASE g = "events_splitter"
    <3>1. \A c \in Takers(e) : Owes(c, e)'
      BY <1>5, <1>11, <2>2, Topics DEF Takers, Relays
    <3>. QED  BY <2>2, <3>1 DEF Delivered, Handled, Takers
  <2>. QED  BY <1>3, <2>1, <2>2
<1>13. ASSUME NEW h \in Group, NEW f \in Event, Owes(h, f)
       PROVE  Owes(h, f)' \/ Delivered(h, f)'
  <2>1. CASE h # g
    BY <1>7, <1>9, <1>13, <2>1, OwesGrows
  <2>2. CASE h = g /\ queue'[g] = queue[g]
    BY <1>9, <1>13, <2>2, OwesGrows
  <2>3. CASE h = g /\ queue'[g] = Tail(queue[g])
    <3>1. Owes(g, f)' \/ f = EventAt(g)
      BY <1>1, <1>2, <1>9, <1>13, <2>3, OwesDone
    <3>. QED  BY <1>4, <1>12, <2>3, <3>1
  <2>. QED  BY <1>9, <1>10, <2>1, <2>2, <2>3
<1>14. Progress
  BY <1>8, <1>13 DEF Progress
<1>15. SendInv(g)'
  <2>1. at'[g] = "sending" => EventAt(g)' = e
    BY <1>4, <1>9, <1>10 DEF EventAt, Current
  <2>2. at'[g] = "sending" => Delivered(g, EventAt(g))'
    BY <1>12, <2>1
  <2>. QED  BY <1>9, <2>2 DEF SendInv
<1>. QED  BY <1>7, <1>8, <1>9, <1>14, <1>15, StepKeeps

(* Acknowledgement, failure, crash and claim: nothing owed is given up. *)
LEMMA EndStep ==
  ASSUME IInv, NEW g \in Group, Ack(g) \/ Retry(g) \/ Crash(g) \/ Claim(g), Others
  PROVE  BusOK' /\ (\A h \in Group : SendInv(h)') /\ NothingLost'
<1>1. BusOK /\ SendInv(g)
  BY DEF IInv
<1>2. BusOK'
  BY <1>1, BusKeepsTypes
<1>3. /\ \A h \in Group \ {g} :
           /\ queue'[h] = queue[h] /\ lost'[h] = lost[h]
           /\ at'[h] = at[h] /\ todo'[h] = todo[h]
      /\ at'[g] = "idle"
  BY <1>1 DEF BusOK, Ack, Retry, Crash, Claim, Idle
<1>4. ASSUME NEW e \in Event, Owes(g, e)
      PROVE  Owes(g, e)' \/ Delivered(g, e)
  <2>1. CASE Ack(g)
    <3>1. queue[g] # <<>> /\ queue'[g] = Tail(queue[g]) /\ lost'[g] = lost[g]
      BY <1>1, <2>1 DEF BusOK, Ack
    <3>2. Delivered(g, EventAt(g))
      BY <1>1, <2>1 DEF Ack, SendInv
    <3>3. Owes(g, e)' \/ e = EventAt(g)
      BY <1>1, <1>4, <3>1, OwesDone
    <3>. QED  BY <3>2, <3>3
  <2>2. CASE Retry(g)
    BY <1>4, <2>2, OwesGrows DEF Retry
  <2>3. CASE Crash(g)
    <3>1. /\ queue[g] # <<>> /\ queue[g] \in Seq(Message) /\ lost[g] \in Seq(Message)
          /\ queue'[g] = Tail(queue[g]) /\ lost'[g] = Append(lost[g], Current(g))
      BY <1>1, <2>3 DEF BusOK, Crash
    <3>2. /\ Range(queue[g]) = Range(queue'[g]) \cup {Current(g)}
          /\ Current(g) \in Message
      BY <3>1, RangeTail DEF Current
    <3>3. Range(lost'[g]) = Range(lost[g]) \cup {Current(g)}
      BY <3>1, <3>2, RangeAppend
    <3>. QED  BY <1>4, <3>2, <3>3, OwesGrows
  <2>4. CASE Claim(g)
    <3>1. PICK i \in 1 .. Len(lost[g]) :
            /\ queue'[g] = <<lost[g][i]>> \o queue[g]
            /\ lost'[g] = RemoveAt(lost[g], i)
      BY <1>1, <2>4 DEF BusOK, Claim
    <3>2. queue[g] \in Seq(Message) /\ lost[g] \in Seq(Message)
      BY <1>1 DEF BusOK
    <3>3. /\ Range(lost[g]) = Range(lost'[g]) \cup {lost[g][i]}
          /\ lost[g][i] \in Message
      BY <3>1, <3>2, RangeRemoveAt
    <3>4. Range(queue'[g]) = Range(queue[g]) \cup {lost[g][i]}
      BY <3>1, <3>2, <3>3, RangePush
    <3>. QED  BY <1>4, <3>3, <3>4, OwesGrows
  <2>. QED  BY <2>1, <2>2, <2>3, <2>4
<1>5. \A h \in Group \ {g} : \A e \in Event : Owes(h, e) => Owes(h, e)'
  BY <1>3, OwesGrows
<1>6. Progress
  BY <1>4, <1>5 DEF Progress, Others
<1>7. SendInv(g)'
  BY <1>3 DEF SendInv
<1>. QED  BY <1>2, <1>3, <1>6, <1>7, StepKeeps DEF Others

(* The variables that are not on the bus. *)
LEMMA StepKeepsTypes ==
  ASSUME IInv, [Next]_vars, BusOK'
  PROVE  TypeOK'
<1> DEFINE Typed == /\ accepted' \subseteq Event /\ stream' \in Seq(Event)
                    /\ stored' \subseteq Event /\ runs' \in [Consumer -> Seq(Event)]
<1>1. TypeOK /\ BusOK
  BY DEF IInv
<1>2. ASSUME NEW g \in Group, queue[g] # <<>> PROVE EventAt(g) \in Event
  BY <1>1, <1>2, CurrentType
<1>3. Typed
  <2>1. ASSUME NEW e \in Event, Commit(e) \/ Publish(e) PROVE Typed
    <3>1. Append(stream, e) \in Seq(Event)
      BY <1>1 DEF TypeOK
    <3>. QED  BY <1>1, <2>1, <3>1 DEF TypeOK, Commit, Publish
  <2>2. CASE Forward \/ Split
    BY <1>1, <2>2 DEF TypeOK, Forward, Split
  <2>3. CASE SaveEventInEventStore
    <3>1. EventAt("event_store") \in Event
      BY <1>2, <2>3, Topics DEF SaveEventInEventStore, Start, Ready, Relays
    <3>. QED  BY <1>1, <2>3, <3>1 DEF TypeOK, SaveEventInEventStore
  <2>4. ASSUME NEW c \in Consumer, Handle(c) PROVE Typed
    <3>1. EventAt(c) \in Event
      BY <1>2, <2>4, Topics DEF Handle, Start, Ready
    <3>. QED  BY <1>1, <2>4, <3>1 DEF TypeOK, Handle
  <2>5. ASSUME NEW g \in Group, Send(g) PROVE Typed
    <3>1. Head(todo[g]) \in Message
      BY <1>1, <2>5, HeadTailProperties DEF BusOK, Send, SendNext
    <3>2. Head(todo[g]).event \in Event
      BY <3>1 DEF Message
    <3>. QED  BY <1>1, <2>5, <3>2 DEF TypeOK, Send
  <2>6. ASSUME NEW g \in Group, Finish(g) \/ ClaimPending(g) \/ Fail(g) PROVE Typed
    BY <1>1, <2>6 DEF TypeOK, Finish, ClaimPending, Fail, Others
  <2>7. CASE UNCHANGED vars
    BY <1>1, <2>7 DEF TypeOK, vars
  <2>. QED  BY <2>1, <2>2, <2>3, <2>4, <2>5, <2>6, <2>7 DEF Next
<1>. QED  BY <1>3 DEF TypeOK, BusOK

THEOREM StepKeepsInvariant == IInv /\ [Next]_vars => IInv'
<1>. SUFFICES ASSUME IInv, [Next]_vars PROVE IInv'
  OBVIOUS
<1> DEFINE Kept == BusOK' /\ (\A g \in Group : SendInv(g)') /\ NothingLost'
<1>1. ASSUME NEW e \in Event, Commit(e) PROVE Kept
  BY <1>1, NewEvent DEF Commit
<1>2. ASSUME NEW e \in Event, Publish(e) PROVE Kept
  BY <1>2, NewEvent DEF Publish
<1>3. ASSUME Forward PROVE Kept
  <2>1. Outgoing("forwarder") = Msg("events", EventAt("forwarder"))
    BY DEF Outgoing
  <2>. QED  BY <1>3, <2>1, RelayStep DEF Forward
<1>4. ASSUME Split PROVE Kept
  <2>1. Outgoing("events_splitter") =
          Msg(TypeOf[EventAt("events_splitter")], EventAt("events_splitter"))
    BY DEF Outgoing
  <2>. QED  BY <1>4, <2>1, RelayStep DEF Split
<1>5. ASSUME SaveEventInEventStore PROVE Kept
  <2>1. \A e \in Event : e = EventAt("event_store") => Delivered("event_store", e)'
    BY <1>5 DEF SaveEventInEventStore, Delivered
  <2>2. stored \subseteq stored'
    BY <1>5 DEF SaveEventInEventStore
  <2>. QED  BY <1>5, <2>1, <2>2, DoneStep, Topics DEF SaveEventInEventStore, Relays
<1>6. ASSUME NEW c \in Consumer, Handle(c) PROVE Kept
  <2>1. c \in Group /\ c \notin Relays
    BY Topics
  <2>2. EventAt(c) \in Event
    BY <1>6, <2>1, CurrentType DEF Handle, Start, Ready, IInv
  <2>3. /\ runs' = [runs EXCEPT ![c] = Append(@, EventAt(c))]
        /\ runs \in [Consumer -> Seq(Event)]
    BY <1>6 DEF Handle, IInv, TypeOK
  <2>4. /\ Range(runs'[c]) = Range(runs[c]) \cup {EventAt(c)}
        /\ \A d \in Consumer \ {c} : runs'[d] = runs[d]
    BY <2>2, <2>3, RangeAppend
  <2>5. \A e \in Event : e = EventAt(c) => Delivered(c, e)'
    BY <2>1, <2>4 DEF Delivered, Relays
  <2>6. \A d \in Consumer : Range(runs[d]) \subseteq Range(runs'[d])
    BY <2>4
  <2>. QED  BY <1>6, <2>1, <2>5, <2>6, DoneStep DEF Handle
<1>7. ASSUME NEW g \in Group, Send(g) PROVE Kept
  BY <1>7, SendStep
<1>8. ASSUME NEW g \in Group, Finish(g) \/ ClaimPending(g) \/ Fail(g) PROVE Kept
  BY <1>8, EndStep DEF Finish, ClaimPending, Fail
<1>9. ASSUME UNCHANGED vars PROVE Kept
  <2>1. BusOK'
    BY <1>9 DEF IInv, BusOK, vars
  <2>2. \A g \in Group : SendInv(g)'
    BY <1>9 DEF IInv, SendInv, Delivered, Stored, Handled, Takers, Owes, Outgoing,
                EventAt, Current, vars
  <2>3. NothingLost'
    BY <1>9 DEF IInv, NothingLost, Owes, vars
  <2>. QED  BY <2>1, <2>2, <2>3
<1>10. Kept
  BY <1>1, <1>2, <1>3, <1>4, <1>5, <1>6, <1>7, <1>8, <1>9 DEF Next
<1>. QED  BY <1>10, StepKeepsTypes DEF IInv

-----------------------------------------------------------------------------
(* The variables keep their types. *)
THEOREM TypeCorrect == Spec => []TypeOK
<1>1. IInv => TypeOK
  BY DEF IInv
<1>. QED  BY <1>1, InitEstablishes, StepKeepsInvariant, PTL DEF Spec

(* Whatever fails on the way, and however often: an event that was accepted*)
(* has reached the event store and its handlers, or is still owed to them. *)
THEOREM NoEventLost == Spec => []NothingLost
<1>1. IInv => NothingLost
  BY DEF IInv
<1>. QED  BY <1>1, InitEstablishes, StepKeepsInvariant, PTL DEF Spec
-----------------------------------------------------------------------------
(* The handler of g has done all its work, and has only to be acknowledged. *)
Through(g) == at[g] = "sending" /\ todo[g] = <<>>

(* The messages x for which the handler of g still has to do its work.     *)
Due(g, x) ==
  Count(queue[g], x) + Count(lost[g], x) - (IF Through(g) /\ Current(g) = x THEN 1 ELSE 0)

(* The runs handler c has had and can still get for e. *)
Total(c, e) ==
  (IF e \in accepted THEN 0 ELSE 1)
    + Due("forwarder", Msg("events_to_forward", e))
    + Due("events_splitter", Msg("events", e))
    + Due(c, Msg(Subscribes[c], e)) + Count(runs[c], e)

Own(g) == \A m \in Range(queue[g]) \cup Range(lost[g]) : m.type = Topic[g]
OwnMessages == \A g \in Group : Own(g)

DupInv ==
  /\ OwnMessages
  /\ \A c \in Consumer : \A e \in Event : Total(c, e) <= 1 + faults

LEMMA DueInt ==
  ASSUME BusOK, NEW g \in Group, NEW x
  PROVE  Due(g, x) \in Int /\ Due(g, x) >= 0
<1>1. Count(queue[g], x) \in Nat /\ Count(lost[g], x) \in Nat
  BY CountFinite DEF BusOK
<1>2. ASSUME Through(g), Current(g) = x PROVE Count(queue[g], x) >= 1
  <2>1. queue[g] \in Seq(Message) /\ queue[g] # <<>> /\ Tail(queue[g]) \in Seq(Message)
    BY <1>2, HeadTailProperties DEF BusOK, Through
  <2>2. Count(queue[g], x) = Count(Tail(queue[g]), x) + (IF x = Head(queue[g]) THEN 1 ELSE 0)
    BY <2>1, CountTail
  <2>3. Count(Tail(queue[g]), x) \in Nat
    BY <2>1, CountFinite
  <2>. QED  BY <1>2, <2>2, <2>3 DEF Current
<1>. QED  BY <1>1, <1>2 DEF Due

(* The message in hand of a handler is an event of its topic. *)
LEMMA InHand ==
  ASSUME BusOK, OwnMessages, NEW g \in Group, queue[g] # <<>>
  PROVE  Current(g) = Msg(Topic[g], EventAt(g)) /\ EventAt(g) \in Event
<1>1. Current(g) \in Message /\ EventAt(g) \in Event
  BY CurrentType
<1>2. Current(g) \in Range(queue[g])
  BY RangeTail DEF Current, BusOK
<1>3. Current(g).type = Topic[g]
  BY <1>2 DEF OwnMessages, Own
<1>. QED  BY <1>1, <1>3 DEF Message, Msg, EventAt

LEMMA MsgEqual ==
  ASSUME NEW t, NEW u, NEW e, NEW f
  PROVE  Msg(t, e) = Msg(u, f) <=> t = u /\ e = f
BY DEF Msg

(* A group that takes no part in a step. *)
LEMMA DueSame ==
  ASSUME NEW g \in Group, NEW x, queue'[g] = queue[g], lost'[g] = lost[g],
         at'[g] = at[g], todo'[g] = todo[g]
  PROVE  Due(g, x)' = Due(g, x)
BY DEF Due, Through, Current

(* A group to which a message may have been published. *)
LEMMA DuePosted ==
  ASSUME BusOK, NEW g \in Group, NEW x, NEW m \in Message,
         queue'[g] = Post(queue, m)[g], lost'[g] = lost[g],
         at'[g] = at[g], todo'[g] = todo[g]
  PROVE  Due(g, x)' = Due(g, x) + (IF Topic[g] = m.type /\ x = m THEN 1 ELSE 0)
<1>0. queue[g] \in Seq(Message) /\ lost[g] \in Seq(Message)
  BY DEF BusOK
<1>1. CASE Topic[g] # m.type
  <2>1. queue'[g] = queue[g]
    BY <1>1 DEF Post
  <2>2. Due(g, x)' = Due(g, x)
    BY <2>1, DueSame
  <2>. QED  BY <1>1, <2>2, DueInt
<1>2. CASE Topic[g] = m.type
  <2>1. queue'[g] = Append(queue[g], m)
    BY <1>2 DEF Post
  <2>2. Count(queue'[g], x) = Count(queue[g], x) + (IF x = m THEN 1 ELSE 0)
    BY <1>0, <2>1, CountAppend
  <2>3. Through(g)' = Through(g) /\ (Through(g) => Current(g)' = Current(g))
    <3>1. queue[g] # <<>> => Head(Append(queue[g], m)) = Head(queue[g])
      BY <1>0
    <3>. QED  BY <2>1, <3>1 DEF Through, Current, BusOK
  <2>4. Count(queue[g], x) \in Nat /\ Count(lost[g], x) \in Nat
    BY <1>0, CountFinite
  <2>5. (Through(g) /\ Current(g) = x)' = (Through(g) /\ Current(g) = x)
    BY <2>3
  <2>. QED  BY <1>2, <2>2, <2>4, <2>5 DEF Due
<1>. QED  BY <1>1, <1>2

(* A handler that has done the last of its work. *)
LEMMA DueDone ==
  ASSUME BusOK, NEW g \in Group, NEW x, queue[g] # <<>>, ~Through(g),
         NEW q \in [Group -> Seq(Message)], q[g] = queue[g], Reach(g, "sending", <<>>, q)
  PROVE  Due(g, x)' = Due(g, x) - (IF Current(g) = x THEN 1 ELSE 0)
<1>0. queue[g] \in Seq(Message) /\ lost' = lost /\ at \in [Group -> {"idle", "sending"}]
      /\ todo' = [todo EXCEPT ![g] = <<>>] /\ todo \in [Group -> Seq(Message)]
  BY DEF BusOK, Reach
<1>1. Count(queue[g], x) \in Nat /\ Count(lost[g], x) \in Nat
  BY CountFinite DEF BusOK
<1>2. todo'[g] = <<>>
  BY <1>0
<1>3. CASE MayFail(g)
  <2>1. queue'[g] = queue[g] /\ at'[g] = "sending"
    BY <1>0, <1>3 DEF Reach
  <2>2. Through(g)' /\ Current(g)' = Current(g)
    BY <1>2, <2>1 DEF Through, Current
  <2>. QED  BY <1>0, <1>1, <2>1, <2>2 DEF Due
<1>4. CASE ~MayFail(g)
  <2>1. queue'[g] = Tail(queue[g]) /\ at'[g] = "idle"
    BY <1>0, <1>4 DEF Reach
  <2>2. ~Through(g)'
    BY <2>1 DEF Through
  <2>3. Count(queue[g], x) = Count(Tail(queue[g]), x) + (IF x = Head(queue[g]) THEN 1 ELSE 0)
    BY <1>0, CountTail
  <2>4. Tail(queue[g]) \in Seq(Message)
    BY <1>0, HeadTailProperties
  <2>5. Count(Tail(queue[g]), x) \in Nat
    BY <2>4, CountFinite
  <2>. QED  BY <1>0, <1>1, <2>1, <2>2, <2>3, <2>5 DEF Due, Current
<1>. QED  BY <1>3, <1>4

(* What a failure adds, and nothing else does: the work of one run. *)
LEMMA DueEnd ==
  ASSUME BusOK, NEW g \in Group, NEW x, Ack(g) \/ Retry(g) \/ Crash(g) \/ Claim(g)
  PROVE  faults' \in Nat /\ faults' >= faults /\ Due(g, x)' - Due(g, x) <= faults' - faults
<1>0. /\ queue \in [Group -> Seq(Message)] /\ lost \in [Group -> Seq(Message)]
      /\ at \in [Group -> {"idle", "sending"}] /\ todo \in [Group -> Seq(Message)]
      /\ faults \in Nat
  BY DEF BusOK
<1>1. Count(queue[g], x) \in Nat /\ Count(lost[g], x) \in Nat
  BY <1>0, CountFinite
<1>2. ASSUME queue[g] # <<>>
      PROVE  /\ Count(queue[g], x)
                  = Count(Tail(queue[g]), x) + (IF x = Current(g) THEN 1 ELSE 0)
             /\ Count(Tail(queue[g]), x) \in Nat /\ Current(g) \in Message
  <2>1. Tail(queue[g]) \in Seq(Message) /\ Head(queue[g]) \in Message
    BY <1>0, <1>2, HeadTailProperties
  <2>. QED  BY <1>0, <1>2, <2>1, CountTail, CountFinite DEF Current
<1>3. CASE Ack(g)
  <2>1. /\ queue'[g] = Tail(queue[g]) /\ lost'[g] = lost[g] /\ at'[g] = "idle"
        /\ faults' = faults /\ Through(g) /\ queue[g] # <<>>
    BY <1>0, <1>3 DEF Ack, Through, BusOK
  <2>. QED  BY <1>0, <1>1, <1>2, <2>1 DEF Due, Through
<1>4. CASE Retry(g)
  <2>1. queue'[g] = queue[g] /\ lost'[g] = lost[g] /\ at'[g] = "idle" /\ faults' = faults + 1
    BY <1>0, <1>4 DEF Retry
  <2>. QED  BY <1>0, <1>1, <2>1 DEF Due, Through
<1>5. CASE Crash(g)
  <2>1. /\ queue'[g] = Tail(queue[g]) /\ lost'[g] = Append(lost[g], Current(g))
        /\ at'[g] = "idle" /\ faults' = faults + 1 /\ queue[g] # <<>>
    BY <1>0, <1>5 DEF Crash
  <2>2. Count(lost'[g], x) = Count(lost[g], x) + (IF x = Current(g) THEN 1 ELSE 0)
    BY <1>0, <1>2, <2>1, CountAppend
  <2>3. Due(g, x)' = Count(queue'[g], x) + Count(lost'[g], x) - 0
    BY <2>1 DEF Due, Through
  <2>4. Due(g, x) = Count(queue[g], x) + Count(lost[g], x)
                      - (IF Through(g) /\ Current(g) = x THEN 1 ELSE 0)
    BY DEF Due
  <2>5. faults' \in Nat /\ faults' = faults + 1
    BY <1>0, <2>1
  <2>. QED  BY ONLY <1>1, <1>2, <2>1, <2>2, <2>3, <2>4, <2>5, <1>0
<1>6. CASE Claim(g)
  <2>1. PICK i \in 1 .. Len(lost[g]) :
          /\ queue' = [queue EXCEPT ![g] = <<lost[g][i]>> \o @]
          /\ lost' = [lost EXCEPT ![g] = RemoveAt(@, i)]
    BY <1>6 DEF Claim
  <2>2. /\ queue'[g] = <<lost[g][i]>> \o queue[g] /\ lost'[g] = RemoveAt(lost[g], i)
        /\ at[g] = "idle" /\ at'[g] = "idle" /\ faults' = faults
    BY <1>0, <1>6, <2>1 DEF Claim, Idle
  <2>3. lost[g][i] \in Message /\ RemoveAt(lost[g], i) \in Seq(Message)
    BY <1>0, RangeRemoveAt
  <2>4. Count(lost[g], x) = Count(lost'[g], x) + (IF x = lost[g][i] THEN 1 ELSE 0)
    BY <1>0, <2>2, CountRemove DEF RemoveAt
  <2>5. PICK y \in Message : y = lost[g][i]
    BY <2>3
  <2>6. Count(<<y>> \o queue[g], x) = Count(queue[g], x) + (IF x = y THEN 1 ELSE 0)
    BY <1>0, CountPush
  <2>7. Count(queue'[g], x) = Count(queue[g], x) + (IF x = lost[g][i] THEN 1 ELSE 0)
    BY <2>2, <2>5, <2>6
  <2>8. Count(lost'[g], x) \in Nat
    BY <2>2, <2>3, CountFinite
  <2>. QED  BY <1>0, <1>1, <2>2, <2>4, <2>7, <2>8 DEF Due, Through
<1>. QED  BY <1>3, <1>4, <1>5, <1>6

(* A group has only what was published to its topic. *)
LEMMA OwnKept ==
  ASSUME NEW g \in Group, Own(g),
         Range(queue'[g]) \cup Range(lost'[g]) \subseteq Range(queue[g]) \cup Range(lost[g])
  PROVE  Own(g)'
<1>1. Topic[g]' = Topic[g]
  BY DEF Topic
<1>. QED  BY <1>1 DEF Own

LEMMA OwnPosted ==
  ASSUME BusOK, NEW g \in Group, Own(g), NEW m \in Message,
         queue'[g] = Post(queue, m)[g], lost'[g] = lost[g]
  PROVE  Own(g)'
<1>1. queue'[g] = IF Topic[g] = m.type THEN Append(queue[g], m) ELSE queue[g]
  BY DEF Post
<1>2. Range(Append(queue[g], m)) = Range(queue[g]) \cup {m}
  BY RangeAppend DEF BusOK
<1>3. Topic[g]' = Topic[g]
  BY DEF Topic
<1>. QED  BY <1>1, <1>2, <1>3 DEF Own

LEMMA OwnEnd ==
  ASSUME BusOK, NEW g \in Group, Own(g), Ack(g) \/ Retry(g) \/ Crash(g) \/ Claim(g)
  PROVE  Own(g)'
<1>0. /\ queue \in [Group -> Seq(Message)] /\ lost \in [Group -> Seq(Message)]
  BY DEF BusOK
<1>1. ASSUME queue[g] # <<>>
      PROVE  /\ Current(g) \in Message
             /\ Range(queue[g]) = Range(Tail(queue[g])) \cup {Current(g)}
  BY <1>0, <1>1, RangeTail DEF Current
<1>2. CASE Ack(g)
  <2>1. queue'[g] = Tail(queue[g]) /\ lost'[g] = lost[g] /\ queue[g] # <<>>
    BY <1>0, <1>2 DEF Ack, BusOK
  <2>. QED  BY <1>1, <2>1, OwnKept
<1>3. CASE Retry(g)
  <2>1. queue'[g] = queue[g] /\ lost'[g] = lost[g]
    BY <1>3 DEF Retry
  <2>. QED  BY <2>1, OwnKept
<1>4. CASE Crash(g)
  <2>1. /\ queue'[g] = Tail(queue[g]) /\ lost'[g] = Append(lost[g], Current(g))
        /\ queue[g] # <<>>
    BY <1>0, <1>4 DEF Crash
  <2>2. Range(lost'[g]) = Range(lost[g]) \cup {Current(g)}
    BY <1>0, <1>1, <2>1, RangeAppend
  <2>. QED  BY <1>1, <2>1, <2>2, OwnKept
<1>5. CASE Claim(g)
  <2>1. PICK i \in 1 .. Len(lost[g]) :
          /\ queue' = [queue EXCEPT ![g] = <<lost[g][i]>> \o @]
          /\ lost' = [lost EXCEPT ![g] = RemoveAt(@, i)]
    BY <1>5 DEF Claim
  <2>2. queue'[g] = <<lost[g][i]>> \o queue[g] /\ lost'[g] = RemoveAt(lost[g], i)
    BY <1>0, <2>1
  <2>3. /\ Range(lost[g]) = Range(lost'[g]) \cup {lost[g][i]} /\ lost[g][i] \in Message
    BY <1>0, <2>2, RangeRemoveAt
  <2>4. Range(queue'[g]) = Range(queue[g]) \cup {lost[g][i]}
    BY <1>0, <2>2, <2>3, RangePush
  <2>. QED  BY <2>3, <2>4, OwnKept
<1>. QED  BY <1>2, <1>3, <1>4, <1>5

(* What a new run of the count needs to know of its parts. *)
LEMMA TotalInt ==
  ASSUME IInv, NEW c \in Consumer, NEW e \in Event
  PROVE  /\ Due("forwarder", Msg("events_to_forward", e)) \in Int
         /\ Due("events_splitter", Msg("events", e)) \in Int
         /\ Due(c, Msg(Subscribes[c], e)) \in Int
         /\ Count(runs[c], e) \in Nat /\ faults \in Nat
<1>1. runs[c] \in Seq(Event) /\ faults \in Nat /\ BusOK
  BY DEF IInv, TypeOK
<1>2. "forwarder" \in Group /\ "events_splitter" \in Group /\ c \in Group
  BY Topics DEF Relays
<1>. QED  BY <1>1, <1>2, DueInt, CountFinite

(* A new event is one message in one place. *)
LEMMA NewEventCounts ==
  ASSUME IInv, DupInv, NEW f \in Event, NEW t \in {"events_to_forward", "events"},
         f \notin accepted, accepted' = accepted \cup {f},
         queue' = Post(queue, Msg(t, f)),
         UNCHANGED <<runs, lost, at, todo, faults>>
  PROVE  DupInv'
<1> DEFINE m == Msg(t, f)
<1>1. m \in Message /\ m.type = t /\ BusOK
  BY MsgType DEF IInv
<1>2. ASSUME NEW g \in Group, NEW x
      PROVE  Due(g, x)' = Due(g, x) + (IF Topic[g] = t /\ x = m THEN 1 ELSE 0)
  <2>. HIDE DEF m
  <2>1. queue'[g] = Post(queue, m)[g] /\ lost'[g] = lost[g] /\ at'[g] = at[g] /\ todo'[g] = todo[g]
    BY DEF m
  <2>. QED  BY <1>1, <2>1, DuePosted
<1>3. \A g \in Group : Own(g)'
  <2>. HIDE DEF m
  <2>1. \A g \in Group : queue'[g] = Post(queue, m)[g] /\ lost'[g] = lost[g]
    BY DEF m
  <2>. QED  BY <1>1, <2>1, OwnPosted DEF DupInv, OwnMessages
<1>4. ASSUME NEW c \in Consumer, NEW e \in Event PROVE Total(c, e)' <= 1 + faults'
  <2> DEFINE a == Msg("events_to_forward", e)
             b == Msg("events", e)
             d == Msg(Subscribes[c], e)
  <2>1. /\ "forwarder" \in Group /\ "events_splitter" \in Group /\ c \in Group
        /\ Topic["forwarder"] = "events_to_forward" /\ Topic["events_splitter"] = "events"
        /\ Topic[c] # "events" /\ Topic[c] # "events_to_forward"
    BY Topics, ConsumerAssumption DEF Relays
  <2>2. /\ a = m <=> t = "events_to_forward" /\ e = f
        /\ b = m <=> t = "events" /\ e = f
    BY MsgEqual
  <2>3. /\ Due("forwarder", a) \in Int /\ Due("events_splitter", b) \in Int
        /\ Due(c, d) \in Int /\ Count(runs[c], e) \in Nat /\ faults \in Nat
    BY TotalInt
  <2>4. /\ (IF e \in accepted THEN 0 ELSE 1) + Due("forwarder", a)
              + Due("events_splitter", b) + Due(c, d) + Count(runs[c], e) <= 1 + faults
        /\ Total(c, e)' = (IF e \in accepted' THEN 0 ELSE 1) + Due("forwarder", a)'
              + Due("events_splitter", b)' + Due(c, d)' + Count(runs[c], e)'
    BY DEF DupInv, Total, Msg
  <2>. HIDE DEF m, a, b, d
  <2>5. Due(c, d)' = Due(c, d)
    BY <1>2, <2>1, <2>3
  <2>6. Due("forwarder", a)' = Due("forwarder", a)
           + (IF t = "events_to_forward" /\ e = f THEN 1 ELSE 0)
    BY <1>2, <2>1, <2>2
  <2>7. Due("events_splitter", b)' = Due("events_splitter", b)
           + (IF t = "events" /\ e = f THEN 1 ELSE 0)
    BY <1>2, <2>1, <2>2
  <2>8. (IF e \in accepted' THEN 0 ELSE 1)
          = (IF e \in accepted THEN 0 ELSE 1) - (IF e = f THEN 1 ELSE 0)
    OBVIOUS
  <2>9. Count(runs[c], e)' = Count(runs[c], e) /\ faults' = faults
    BY DEF Count
  <2>. QED  BY <2>3, <2>4, <2>5, <2>6, <2>7, <2>8, <2>9
<1>. QED  BY <1>3, <1>4 DEF DupInv, OwnMessages

(* How the bound is kept by a step that accepts no event. *)
LEMMA TotalKept ==
  ASSUME IInv, DupInv, accepted' = accepted, NEW c \in Consumer, NEW e \in Event,
         NEW i \in Int, NEW j \in Int, NEW k \in Int, NEW l \in Int,
         Due("forwarder", Msg("events_to_forward", e))'
           <= Due("forwarder", Msg("events_to_forward", e)) + i,
         Due("events_splitter", Msg("events", e))'
           <= Due("events_splitter", Msg("events", e)) + j,
         Due(c, Msg(Subscribes[c], e))' <= Due(c, Msg(Subscribes[c], e)) + k,
         Count(runs[c], e)' = Count(runs[c], e) + l,
         faults' \in Nat, i + j + k + l <= faults' - faults, BusOK'
  PROVE  Total(c, e)' <= 1 + faults'
<1> DEFINE a == Msg("events_to_forward", e)
           b == Msg("events", e)
           d == Msg(Subscribes[c], e)
           n == IF e \in accepted THEN 0 ELSE 1
<1>1. /\ Due("forwarder", a) \in Int /\ Due("events_splitter", b) \in Int
      /\ Due(c, d) \in Int /\ Count(runs[c], e) \in Nat /\ faults \in Nat
  BY TotalInt
<1>2. "forwarder" \in Group /\ "events_splitter" \in Group /\ c \in Group
  BY Topics DEF Relays
<1>3. /\ n + Due("forwarder", a) + Due("events_splitter", b) + Due(c, d)
            + Count(runs[c], e) <= 1 + faults
      /\ Total(c, e)' = n + Due("forwarder", a)' + Due("events_splitter", b)'
            + Due(c, d)' + Count(runs[c], e)'
      /\ n \in Int
  BY DEF DupInv, Total, Msg
<1>4. \A g \in Group : \A x : Due(g, x)' \in Int
  <2>1. \A g \in Group : \A x : Count(queue[g], x)' \in Nat /\ Count(lost[g], x)' \in Nat
    <3>1. \A g \in Group : queue'[g] \in Seq(Message) /\ lost'[g] \in Seq(Message)
      BY DEF BusOK
    <3>2. \A g \in Group : \A x : Count(queue'[g], x) \in Nat /\ Count(lost'[g], x) \in Nat
      BY <3>1, CountFinite
    <3>. QED  BY <3>2 DEF Count
  <2>. QED  BY <2>1 DEF Due
<1>5. /\ Due("forwarder", a)' <= Due("forwarder", a) + i
      /\ Due("events_splitter", b)' <= Due("events_splitter", b) + j
      /\ Due(c, d)' <= Due(c, d) + k
  OBVIOUS
<1>6. Due("forwarder", a)' \in Int /\ Due("events_splitter", b)' \in Int /\ Due(c, d)' \in Int
  <2>1. /\ Due("forwarder", a)' = Due("forwarder", Msg("events_to_forward", e))'
        /\ Due("events_splitter", b)' = Due("events_splitter", Msg("events", e))'
        /\ Due(c, d)' = Due(c, Msg(Subscribes[c], e))'
    OBVIOUS
  <2>2. /\ Due("forwarder", Msg("events_to_forward", e))' \in Int
        /\ Due("events_splitter", Msg("events", e))' \in Int
        /\ Due(c, Msg(Subscribes[c], e))' \in Int
    BY <1>2, <1>4 DEF Msg
  <2>. QED  BY <2>1, <2>2
<1>. HIDE DEF a, b, d, n
<1>7. /\ Count(runs[c], e)' = Count(runs[c], e) + l
      /\ faults' \in Nat /\ i + j + k + l <= faults' - faults
  OBVIOUS
<1>8. PICK fa \in Int, fb \in Int, fd \in Int :
        /\ fa = Due("forwarder", a)' /\ fb = Due("events_splitter", b)' /\ fd = Due(c, d)'
  BY <1>6
<1>9. n + fa + fb + fd + (Count(runs[c], e) + l) <= 1 + faults'
  BY <1>1, <1>3, <1>5, <1>7, <1>8
<1>. QED  BY <1>3, <1>7, <1>8, <1>9

(* A relay that has taken an event still has to pass it on. *)
LEMMA RelayCounts ==
  ASSUME IInv, BusOK', DupInv, NEW g \in Group, NEW m, Start(g, "sending", <<m>>),
         UNCHANGED <<accepted, runs>>
  PROVE  DupInv'
<1>1. BusOK /\ faults' = faults /\ faults \in Nat
  BY DEF IInv, BusOK, Start, Reach
<1>2. <<m>> # <<>>
  OBVIOUS
<1>3. queue' = queue /\ lost' = lost
  BY <1>2 DEF Start, Reach
<1>4. /\ ~Through(g) /\ ~Through(g)'
      /\ \A h \in Group \ {g} : Through(h)' = Through(h)
  BY <1>1, <1>2 DEF Start, Reach, Ready, Idle, Through, BusOK
<1>5. ASSUME NEW h \in Group, NEW x PROVE Due(h, x)' = Due(h, x) /\ Due(h, x) \in Int
  BY <1>1, <1>3, <1>4, DueInt DEF Due, Current, Count
<1>6. ASSUME NEW c \in Consumer, NEW e \in Event PROVE Total(c, e)' <= 1 + faults'
  <2>1. "forwarder" \in Group /\ "events_splitter" \in Group /\ c \in Group
    BY Topics DEF Relays
  <2>2. /\ Due("forwarder", Msg("events_to_forward", e))'
              <= Due("forwarder", Msg("events_to_forward", e)) + 0
        /\ Due("events_splitter", Msg("events", e))'
              <= Due("events_splitter", Msg("events", e)) + 0
        /\ Due(c, Msg(Subscribes[c], e))' <= Due(c, Msg(Subscribes[c], e)) + 0
    BY <1>5, <2>1 DEF Msg
  <2>3. Count(runs[c], e)' = Count(runs[c], e) + 0
    BY TotalInt DEF Count
  <2>4. 0 \in Int /\ 0 + 0 + 0 + 0 <= faults' - faults /\ faults' \in Nat /\ accepted' = accepted
    BY <1>1
  <2>. QED  BY ONLY IInv, BusOK', DupInv, <2>2, <2>3, <2>4, TotalKept
<1>7. \A h \in Group : Own(h)'
  BY <1>3, OwnKept DEF DupInv, OwnMessages
<1>. QED  BY <1>6, <1>7 DEF DupInv, OwnMessages

(* What is done with a message of g, q being the queues after publishing.  *)
LEMMA DoneOwn ==
  ASSUME BusOK, NEW g \in Group, NEW ms, queue[g] # <<>>, Own(g),
         NEW q \in [Group -> Seq(Message)], q[g] = queue[g], Reach(g, "sending", ms, q)
  PROVE  Own(g)'
<1>1. Range(queue[g]) = Range(Tail(queue[g])) \cup {Head(queue[g])}
  BY RangeTail DEF BusOK
<1>2. lost' = lost /\ queue'[g] \in {queue[g], Tail(queue[g])}
  BY DEF Reach
<1>. QED  BY <1>1, <1>2, OwnKept

(* The event store is behind no handler. *)
LEMMA SaveCounts ==
  ASSUME IInv, BusOK', DupInv, Start("event_store", "sending", <<>>),
         UNCHANGED <<accepted, runs>>
  PROVE  DupInv'
<1>1. /\ BusOK /\ faults' = faults /\ faults \in Nat /\ lost' = lost
      /\ "event_store" \in Group /\ queue["event_store"] # <<>>
      /\ Reach("event_store", "sending", <<>>, queue)
  BY Topics DEF IInv, BusOK, Start, Ready, Reach, Relays
<1>2. \A h \in Group \ {"event_store"} :
        queue'[h] = queue[h] /\ lost'[h] = lost[h] /\ at'[h] = at[h] /\ todo'[h] = todo[h]
  BY <1>1 DEF BusOK, Reach
<1>3. ASSUME NEW h \in Group \ {"event_store"}, NEW x
      PROVE  Due(h, x)' <= Due(h, x) + 0
  <2>1. Due(h, x)' = Due(h, x)
    BY <1>2, DueSame
  <2>2. Due(h, x) \in Int
    BY <1>1, DueInt
  <2>. QED  BY <2>1, <2>2
<1>4. ASSUME NEW c \in Consumer, NEW e \in Event PROVE Total(c, e)' <= 1 + faults'
  <2>1. /\ "forwarder" \in Group \ {"event_store"}
        /\ "events_splitter" \in Group \ {"event_store"}
        /\ c \in Group \ {"event_store"}
    BY Topics DEF Relays
  <2>2. /\ Due("forwarder", Msg("events_to_forward", e))'
              <= Due("forwarder", Msg("events_to_forward", e)) + 0
        /\ Due("events_splitter", Msg("events", e))'
              <= Due("events_splitter", Msg("events", e)) + 0
        /\ Due(c, Msg(Subscribes[c], e))' <= Due(c, Msg(Subscribes[c], e)) + 0
    BY <1>3, <2>1 DEF Msg
  <2>3. Count(runs[c], e)' = Count(runs[c], e) + 0
    BY TotalInt DEF Count
  <2>4. 0 \in Int /\ 0 + 0 + 0 + 0 <= faults' - faults /\ faults' \in Nat /\ accepted' = accepted
    BY <1>1
  <2>. QED  BY ONLY IInv, BusOK', DupInv, <2>2, <2>3, <2>4, TotalKept
<1>5. ASSUME NEW h \in Group PROVE Own(h)'
  <2>1. Own(h) /\ queue \in [Group -> Seq(Message)]
    BY <1>1 DEF DupInv, OwnMessages, BusOK
  <2>2. CASE h = "event_store"
    BY <1>1, <2>1, <2>2, DoneOwn
  <2>3. CASE h # "event_store"
    BY <1>2, <2>1, <2>3, OwnKept
  <2>. QED  BY <2>2, <2>3
<1>. QED  BY <1>4, <1>5 DEF DupInv, OwnMessages

(* A run of a handler is one that was due. *)
LEMMA HandleCounts ==
  ASSUME IInv, BusOK', DupInv, NEW c \in Consumer, Handle(c)
  PROVE  DupInv'
<1>1. /\ BusOK /\ faults' = faults /\ faults \in Nat /\ accepted' = accepted
      /\ runs \in [Consumer -> Seq(Event)] /\ queue \in [Group -> Seq(Message)]
  BY DEF IInv, TypeOK, Handle, Start, Reach
<1>2. c \in Group /\ Topic[c] = Subscribes[c] /\ c # "forwarder" /\ c # "events_splitter"
  BY Topics DEF Relays
<1>3. /\ queue[c] # <<>> /\ ~Through(c) /\ Reach(c, "sending", <<>>, queue)
      /\ lost' = lost
  BY DEF Handle, Start, Ready, Idle, Through, Reach
<1>4. PICK f \in Event : f = EventAt(c) /\ Current(c) = Msg(Subscribes[c], f)
  BY <1>1, <1>2, <1>3, InHand DEF DupInv
<1>5. /\ \A d \in Consumer \ {c} : runs'[d] = runs[d]
      /\ runs'[c] = Append(runs[c], f)
  BY <1>1, <1>4 DEF Handle
<1>6. \A h \in Group \ {c} :
        queue'[h] = queue[h] /\ lost'[h] = lost[h] /\ at'[h] = at[h] /\ todo'[h] = todo[h]
  BY <1>1, <1>3 DEF BusOK, Reach
<1>7. ASSUME NEW h \in Group \ {c}, NEW x PROVE Due(h, x)' = Due(h, x)
  BY <1>6, DueSame
<1>8. ASSUME NEW x PROVE Due(c, x)' = Due(c, x) - (IF Current(c) = x THEN 1 ELSE 0)
  BY <1>1, <1>2, <1>3, DueDone
<1>9. ASSUME NEW d \in Consumer, NEW e \in Event PROVE Total(d, e)' <= 1 + faults'
  <2> DEFINE n == IF d = c /\ e = f THEN 1 ELSE 0
  <2>1. /\ "forwarder" \in Group \ {c} /\ "events_splitter" \in Group \ {c}
        /\ d \in Group
    BY <1>2, Topics DEF Relays
  <2>2. /\ Due("forwarder", Msg("events_to_forward", e)) \in Int
        /\ Due("events_splitter", Msg("events", e)) \in Int
        /\ Due(d, Msg(Subscribes[d], e)) \in Int /\ Count(runs[d], e) \in Nat
    BY TotalInt
  <2>3. /\ Due("forwarder", Msg("events_to_forward", e))'
              <= Due("forwarder", Msg("events_to_forward", e)) + 0
        /\ Due("events_splitter", Msg("events", e))'
              <= Due("events_splitter", Msg("events", e)) + 0
    BY <1>7, <2>1, <2>2 DEF Msg
  <2>4. Due(d, Msg(Subscribes[d], e))' <= Due(d, Msg(Subscribes[d], e)) + (0 - n)
    <3>1. CASE d = c
      <4>1. Current(c) = Msg(Subscribes[c], e) <=> e = f
        BY <1>4, MsgEqual
      <4>2. Due(c, Msg(Subscribes[c], e))'
              = Due(c, Msg(Subscribes[c], e)) - (IF Current(c) = Msg(Subscribes[c], e) THEN 1 ELSE 0)
        BY <1>8 DEF Msg
      <4>. QED  BY <2>2, <3>1, <4>1, <4>2
    <3>2. CASE d # c
      BY <1>7, <2>1, <2>2, <3>2 DEF Msg
    <3>. QED  BY <3>1, <3>2
  <2>5. Count(runs[d], e)' = Count(runs[d], e) + n
    <3>1. Count(Append(runs[c], f), e) = Count(runs[c], e) + (IF e = f THEN 1 ELSE 0)
      BY <1>1, CountAppend
    <3>2. Count(runs[d], e)' = Count(runs'[d], e)
      BY DEF Count
    <3>3. CASE d = c
      BY <1>5, <2>2, <3>1, <3>2, <3>3
    <3>4. CASE d # c
      <4>1. runs'[d] = runs[d] /\ n = 0
        BY <1>5, <3>4
      <4>. QED  BY <2>2, <3>2, <4>1
    <3>. QED  BY <3>3, <3>4
  <2>6. n \in Int /\ 0 - n \in Int /\ 0 + 0 + (0 - n) + n = 0
    OBVIOUS
  <2>. HIDE DEF n
  <2>. QED  BY <1>1, <2>3, <2>4, <2>5, <2>6, TotalKept
<1>10. \A h \in Group : Own(h)'
  BY <1>1, <1>2, <1>3, <1>6, DoneOwn, OwnKept DEF DupInv, OwnMessages
<1>. QED  BY <1>9, <1>10 DEF DupInv, OwnMessages

(* A relay that passes an event on is done with it.                        *)
LEMMA SendCounts ==
  ASSUME IInv, BusOK', DupInv, NEW g \in Group, Send(g)
  PROVE  DupInv'
<1>1. /\ BusOK /\ faults' = faults /\ faults \in Nat /\ accepted' = accepted
      /\ runs' = runs /\ at \in [Group -> {"idle", "sending"}]
  BY DEF IInv, BusOK, Send, SendNext, Reach
<1>2. at[g] = "sending" /\ queue[g] # <<>> /\ todo[g] # <<>> /\ ~Through(g)
  BY <1>1 DEF BusOK, Send, SendNext, Through
<1>3. todo[g] = <<Outgoing(g)>> /\ g \in {"forwarder", "events_splitter"}
  BY <1>2 DEF IInv, SendInv
<1>4. PICK f \in Event : f = EventAt(g) /\ Current(g) = Msg(Topic[g], f) /\ TypeOf[f] \in EventType
  BY <1>1, <1>2, InHand, EventAssumption DEF DupInv
<1>5. PICK t \in EventType \cup {"events"} :
        t = IF g = "forwarder" THEN "events" ELSE TypeOf[f]
  BY <1>4
<1>6. PICK m \in Message : m = Msg(t, f) /\ m = Outgoing(g) /\ m.type = t
  <2>1. Msg(t, f) \in Message /\ Msg(t, f).type = t
    BY MsgType
  <2>. QED  BY <1>4, <1>5, <2>1 DEF Outgoing
<1> DEFINE q == Post(queue, m)
<1>7. /\ "forwarder" \in Group /\ "events_splitter" \in Group
      /\ Topic["forwarder"] = "events_to_forward" /\ Topic["events_splitter"] = "events"
      /\ \A u \in EventType : u # "events_to_forward" /\ u # "events"
  BY Topics DEF Relays
<1>8. q \in [Group -> Seq(Message)] /\ q[g] = queue[g]
  <2>1. Topic[g] # m.type
    BY <1>3, <1>4, <1>5, <1>6, <1>7
  <2>2. queue \in [Group -> Seq(Message)]
    BY <1>1 DEF BusOK
  <2>3. Post(queue, m) \in [Group -> Seq(Message)] /\ Post(queue, m)[g] = queue[g]
    BY <2>1, <2>2, PostAdds
  <2>. QED  BY <2>3
<1>9. Reach(g, "sending", <<>>, q)
  <2>1. Head(todo[g]) = m /\ Tail(todo[g]) = <<>>
    BY <1>3, <1>6
  <2>. QED  BY <1>2, <2>1 DEF Send, SendNext
<1>10. \A h \in Group \ {g} :
         queue'[h] = q[h] /\ lost'[h] = lost[h] /\ at'[h] = at[h] /\ todo'[h] = todo[h]
  <2>. HIDE DEF q
  <2>. QED  BY <1>1, <1>8, <1>9 DEF BusOK, Reach
<1>11. ASSUME NEW x PROVE Due(g, x)' = Due(g, x) - (IF Current(g) = x THEN 1 ELSE 0)
  <2>. HIDE DEF q
  <2>. QED  BY <1>1, <1>2, <1>8, <1>9, DueDone
<1>12. ASSUME NEW h \in Group \ {g}, NEW x
       PROVE  Due(h, x)' = Due(h, x) + (IF Topic[h] = t /\ x = Msg(t, f) THEN 1 ELSE 0)
  <2>1. queue'[h] = Post(queue, m)[h] /\ lost'[h] = lost[h] /\ at'[h] = at[h] /\ todo'[h] = todo[h]
    BY <1>10
  <2>. QED  BY <1>1, <1>6, <2>1, DuePosted
<1>13. ASSUME NEW h \in Group PROVE Own(h)'
  <2>1. Own(h)
    BY DEF DupInv, OwnMessages
  <2>2. CASE h = g
    <3>. HIDE DEF q
    <3>. QED  BY <1>1, <1>2, <1>8, <1>9, <2>1, <2>2, DoneOwn
  <2>3. CASE h # g
    <3>1. queue'[h] = Post(queue, m)[h] /\ lost'[h] = lost[h]
      BY <1>10, <2>3
    <3>. QED  BY <1>1, <2>1, <3>1, OwnPosted
  <2>. QED  BY <2>2, <2>3
<1>14. ASSUME NEW c \in Consumer, NEW e \in Event PROVE Total(c, e)' <= 1 + faults'
  <2> DEFINE n == IF e = f THEN 1 ELSE 0
  <2>1. /\ c \in Group \ {g} /\ Topic[c] = Subscribes[c] /\ Subscribes[c] \in EventType
    BY <1>3, Topics, ConsumerAssumption DEF Relays
  <2>2. /\ Due("forwarder", Msg("events_to_forward", e)) \in Int
        /\ Due("events_splitter", Msg("events", e)) \in Int
        /\ Due(c, Msg(Subscribes[c], e)) \in Int /\ Count(runs[c], e) \in Nat
    BY TotalInt
  <2>3. Count(runs[c], e)' = Count(runs[c], e) + 0
    BY <1>1, <2>2 DEF Count
  <2>4. n \in Int /\ 0 - n \in Int /\ 0 \in Int
    OBVIOUS
  <2>5. CASE g = "forwarder"
    <3>1. t = "events"
      BY <1>5, <2>5
    <3>2. Due("forwarder", Msg("events_to_forward", e))'
            <= Due("forwarder", Msg("events_to_forward", e)) + (0 - n)
      <4>1. Current(g) = Msg("events_to_forward", e) <=> e = f
        BY <1>4, <1>7, <2>5, MsgEqual
      <4>2. Due(g, Msg("events_to_forward", e))' = Due(g, Msg("events_to_forward", e))
              - (IF Current(g) = Msg("events_to_forward", e) THEN 1 ELSE 0)
        BY <1>11 DEF Msg
      <4>. QED  BY <2>2, <2>5, <4>1, <4>2
    <3>3. Due("events_splitter", Msg("events", e))'
            <= Due("events_splitter", Msg("events", e)) + n
      <4>1. Msg("events", e) = Msg(t, f) <=> e = f
        BY <3>1, MsgEqual
      <4>2. Due("events_splitter", Msg("events", e))' = Due("events_splitter", Msg("events", e))
              + (IF Topic["events_splitter"] = t /\ Msg("events", e) = Msg(t, f) THEN 1 ELSE 0)
        BY <1>7, <1>12, <2>5 DEF Msg
      <4>. QED  BY <1>7, <2>2, <3>1, <4>1, <4>2
    <3>4. Due(c, Msg(Subscribes[c], e))' <= Due(c, Msg(Subscribes[c], e)) + 0
      <4>1. Due(c, Msg(Subscribes[c], e))' = Due(c, Msg(Subscribes[c], e))
              + (IF Topic[c] = t /\ Msg(Subscribes[c], e) = Msg(t, f) THEN 1 ELSE 0)
        BY <1>12, <2>1 DEF Msg
      <4>2. Topic[c] # t
        BY <1>7, <2>1, <3>1
      <4>. QED  BY <2>2, <4>1, <4>2
    <3>5. (0 - n) + n + 0 + 0 <= faults' - faults /\ faults' \in Nat /\ accepted' = accepted
      BY <1>1
    <3>. HIDE DEF n
    <3>. QED  BY ONLY IInv, BusOK', DupInv, <2>3, <2>4, <3>2, <3>3, <3>4, <3>5, TotalKept
  <2>6. CASE g = "events_splitter"
    <3>1. t = TypeOf[f] /\ t # "events" /\ t # "events_to_forward"
      BY <1>4, <1>5, <1>7, <2>6
    <3>2. Due("events_splitter", Msg("events", e))'
            <= Due("events_splitter", Msg("events", e)) + (0 - n)
      <4>1. Current(g) = Msg("events", e) <=> e = f
        BY <1>4, <1>7, <2>6, MsgEqual
      <4>2. Due(g, Msg("events", e))' = Due(g, Msg("events", e))
              - (IF Current(g) = Msg("events", e) THEN 1 ELSE 0)
        BY <1>11 DEF Msg
      <4>. QED  BY <2>2, <2>6, <4>1, <4>2
    <3>3. Due("forwarder", Msg("events_to_forward", e))'
            <= Due("forwarder", Msg("events_to_forward", e)) + 0
      <4>1. Due("forwarder", Msg("events_to_forward", e))'
              = Due("forwarder", Msg("events_to_forward", e))
                + (IF Topic["forwarder"] = t /\ Msg("events_to_forward", e) = Msg(t, f)
                   THEN 1 ELSE 0)
        BY <1>7, <1>12, <2>6 DEF Msg
      <4>. QED  BY <1>7, <2>2, <3>1, <4>1
    <3>4. Due(c, Msg(Subscribes[c], e))' <= Due(c, Msg(Subscribes[c], e)) + n
      <4>1. Due(c, Msg(Subscribes[c], e))' = Due(c, Msg(Subscribes[c], e))
              + (IF Topic[c] = t /\ Msg(Subscribes[c], e) = Msg(t, f) THEN 1 ELSE 0)
        BY <1>12, <2>1 DEF Msg
      <4>2. Msg(Subscribes[c], e) = Msg(t, f) => e = f
        BY MsgEqual
      <4>. QED  BY <2>2, <4>1, <4>2
    <3>5. 0 + (0 - n) + n + 0 <= faults' - faults /\ faults' \in Nat /\ accepted' = accepted
      BY <1>1
    <3>. HIDE DEF n
    <3>. QED  BY ONLY IInv, BusOK', DupInv, <2>3, <2>4, <3>2, <3>3, <3>4, <3>5, TotalKept
  <2>. QED  BY <1>3, <2>5, <2>6
<1>. QED  BY <1>13, <1>14 DEF DupInv, OwnMessages

(* However a run ends, it adds at most the work of one run, for a failure. *)
LEMMA EndCounts ==
  ASSUME IInv, BusOK', DupInv, NEW g \in Group,
         Ack(g) \/ Retry(g) \/ Crash(g) \/ Claim(g), Others
  PROVE  DupInv'
<1>1. BusOK /\ accepted' = accepted /\ runs' = runs
  BY DEF IInv, Others
<1>2. \A h \in Group \ {g} :
        queue'[h] = queue[h] /\ lost'[h] = lost[h] /\ at'[h] = at[h] /\ todo'[h] = todo[h]
  BY <1>1 DEF BusOK, Ack, Retry, Crash, Claim
<1>3. PICK d \in Int : d >= 0 /\ d = faults' - faults /\ faults' \in Nat /\ faults \in Nat
  <2>1. \A x : faults' \in Nat /\ faults' >= faults
    BY <1>1, DueEnd
  <2>2. PICK then \in Nat, now \in Nat : then = faults /\ now = faults' /\ now >= then
    BY <1>1, <2>1 DEF BusOK
  <2>3. now >= then
    BY <2>2
  <2>4. now - then \in Int /\ now - then >= 0
    BY ONLY then \in Nat, now \in Nat, <2>3
  <2>. QED  BY <2>2, <2>4
<1>4. ASSUME NEW x PROVE Due(g, x)' <= Due(g, x) + d
  <2>1. Due(g, x)' - Due(g, x) <= faults' - faults
    BY <1>1, DueEnd
  <2>2. Due(g, x) \in Int
    BY <1>1, DueInt
  <2>3. Due(g, x)' \in Int
    <3>1. queue'[g] \in Seq(Message) /\ lost'[g] \in Seq(Message)
      BY DEF BusOK
    <3>2. Count(queue'[g], x) \in Nat /\ Count(lost'[g], x) \in Nat
      BY <3>1, CountFinite
    <3>. QED  BY <3>2 DEF Due, Count
  <2>4. PICK old \in Int, new \in Int : old = Due(g, x) /\ new = Due(g, x)'
    BY <2>2, <2>3
  <2>5. new - old <= d
    BY <1>3, <2>1, <2>4
  <2>6. new <= old + d
    BY ONLY <2>5, d \in Int, old \in Int, new \in Int
  <2>. QED  BY <2>4, <2>6
<1>5. ASSUME NEW h \in Group \ {g}, NEW x PROVE Due(h, x)' <= Due(h, x) + 0
  <2>1. Due(h, x)' = Due(h, x)
    BY <1>2, DueSame
  <2>2. Due(h, x) \in Int
    BY <1>1, DueInt
  <2>. QED  BY <2>1, <2>2
<1>6. \A h \in Group : Own(h)'
  BY <1>1, <1>2, OwnEnd, OwnKept DEF DupInv, OwnMessages
<1>7. ASSUME NEW c \in Consumer, NEW e \in Event PROVE Total(c, e)' <= 1 + faults'
  <2> DEFINE i == IF g = "forwarder" THEN d ELSE 0
             j == IF g = "events_splitter" THEN d ELSE 0
             k == IF g = c THEN d ELSE 0
  <2>1. /\ "forwarder" \in Group /\ "events_splitter" \in Group /\ c \in Group
        /\ c # "forwarder" /\ c # "events_splitter"
    BY Topics DEF Relays
  <2>2. Due("forwarder", Msg("events_to_forward", e))'
          <= Due("forwarder", Msg("events_to_forward", e)) + i
    BY <1>4, <1>5, <2>1 DEF Msg
  <2>3. Due("events_splitter", Msg("events", e))'
          <= Due("events_splitter", Msg("events", e)) + j
    BY <1>4, <1>5, <2>1 DEF Msg
  <2>4. Due(c, Msg(Subscribes[c], e))' <= Due(c, Msg(Subscribes[c], e)) + k
    BY <1>4, <1>5, <2>1 DEF Msg
  <2>5. Count(runs[c], e)' = Count(runs[c], e) + 0
    BY <1>1, TotalInt DEF Count
  <2>6. /\ i \in Int /\ j \in Int /\ k \in Int /\ 0 \in Int
        /\ i + j + k + 0 <= faults' - faults /\ faults' \in Nat
    <3>1. i + j + k + 0 <= d
      <4>1. d \in Int /\ d >= 0
        BY <1>3
      <4>. QED  BY ONLY <2>1, <4>1
    <3>2. i \in Int /\ j \in Int /\ k \in Int /\ 0 \in Int
      OBVIOUS
    <3>. HIDE DEF i, j, k
    <3>. QED  BY <1>3, <3>1, <3>2
  <2>. HIDE DEF i, j, k
  <2>. QED  BY ONLY IInv, BusOK', DupInv, <1>1, <2>2, <2>3, <2>4, <2>5, <2>6, TotalKept
<1>. QED  BY <1>6, <1>7 DEF DupInv, OwnMessages

LEMMA StepKeepsCounts == IInv /\ IInv' /\ DupInv /\ [Next]_vars => DupInv'
<1>. SUFFICES ASSUME IInv, IInv', DupInv, [Next]_vars PROVE DupInv'
  OBVIOUS
<1>0. BusOK'
  BY DEF IInv
<1>1. ASSUME NEW e \in Event, Commit(e) PROVE DupInv'
  BY <1>1, NewEventCounts DEF Commit
<1>2. ASSUME NEW e \in Event, Publish(e) PROVE DupInv'
  BY <1>2, NewEventCounts DEF Publish
<1>3. CASE Forward
  <2>1. "forwarder" \in Group
    BY Topics DEF Relays
  <2>. QED  BY <1>0, <1>3, <2>1, RelayCounts DEF Forward
<1>4. CASE Split
  <2>1. "events_splitter" \in Group
    BY Topics DEF Relays
  <2>. QED  BY <1>0, <1>4, <2>1, RelayCounts DEF Split
<1>5. CASE SaveEventInEventStore
  <2>1. "event_store" \in Group
    BY Topics DEF Relays
  <2>. QED  BY <1>0, <1>5, <2>1, SaveCounts DEF SaveEventInEventStore
<1>6. ASSUME NEW c \in Consumer, Handle(c) PROVE DupInv'
  BY <1>0, <1>6, HandleCounts
<1>7. ASSUME NEW g \in Group, Send(g) PROVE DupInv'
  BY <1>0, <1>7, SendCounts
<1>8. ASSUME NEW g \in Group, Finish(g) \/ ClaimPending(g) \/ Fail(g) PROVE DupInv'
  BY <1>0, <1>8, EndCounts DEF Finish, ClaimPending, Fail
<1>9. CASE UNCHANGED vars
  <2>1. OwnMessages'
    BY <1>9 DEF DupInv, OwnMessages, Own, Topic, vars
  <2>2. ASSUME NEW g, NEW x PROVE Due(g, x)' = Due(g, x)
    BY <1>9 DEF Due, Through, Current, Count, vars
  <2>3. ASSUME NEW c \in Consumer, NEW e \in Event PROVE Total(c, e)' = Total(c, e)
    <3>1. Count(runs[c], e)' = Count(runs[c], e)
      BY <1>9 DEF Count, vars
    <3>. QED  BY <1>9, <2>2, <3>1 DEF Total, Msg, vars
  <2>. QED  BY <1>9, <2>1, <2>3 DEF DupInv, vars
<1>. QED  BY <1>1, <1>2, <1>3, <1>4, <1>5, <1>6, <1>7, <1>8, <1>9 DEF Next

(* A handler is run once for an event, and once more for each failure or   *)
(* crash at the most, wherever on the way of the event it strikes.         *)
THEOREM RunsAreBounded == Spec => []BoundedDuplicates
<1>1. Init => DupInv
  <2>. SUFFICES ASSUME Init PROVE DupInv
    OBVIOUS
  <2>1. OwnMessages
    BY DEF Init, BusInit, OwnMessages, Own, Range
  <2>2. \A x : Count(<<>>, x) = 0
    <3>1. \A x : {i \in DOMAIN <<>> : <<>>[i] = x} = {}
      OBVIOUS
    <3>. QED  BY <3>1, FS_EmptySet DEF Count
  <2>3. \A g \in Group : \A x : Due(g, x) = 0
    BY <2>2 DEF Init, BusInit, Due, Through
  <2>4. \A c \in Consumer : \A e \in Event : Total(c, e) <= 1 + faults
    <3>1. "forwarder" \in Group /\ "events_splitter" \in Group /\ Consumer \subseteq Group
      BY Topics DEF Relays
    <3>. QED  BY <2>2, <2>3, <3>1 DEF Init, BusInit, Total
  <2>. QED  BY <2>1, <2>4 DEF DupInv
<1>2. IInv /\ DupInv => BoundedDuplicates
  <2>. SUFFICES ASSUME IInv, DupInv, NEW c \in Consumer, NEW e \in Event
                PROVE  Cardinality({i \in 1 .. Len(runs[c]) : runs[c][i] = e}) <= 1 + faults
    BY DEF BoundedDuplicates
  <2>1. "forwarder" \in Group /\ "events_splitter" \in Group /\ c \in Group /\ BusOK
    BY Topics DEF Relays, IInv
  <2> DEFINE a == Due("forwarder", Msg("events_to_forward", e))
             b == Due("events_splitter", Msg("events", e))
             d == Due(c, Msg(Subscribes[c], e))
             n == IF e \in accepted THEN 0 ELSE 1
  <2>2. /\ a \in Int /\ a >= 0 /\ b \in Int /\ b >= 0 /\ d \in Int /\ d >= 0
        /\ Count(runs[c], e) \in Nat /\ faults \in Nat /\ n \in Nat
    BY <2>1, DueInt, TotalInt
  <2>3. n + a + b + d + Count(runs[c], e) <= 1 + faults
    BY DEF DupInv, Total
  <2>. HIDE DEF a, b, d, n
  <2>4. Count(runs[c], e) <= 1 + faults
    BY <2>2, <2>3
  <2>5. DOMAIN runs[c] = 1 .. Len(runs[c])
    BY DEF IInv, TypeOK
  <2>. QED  BY <2>4, <2>5 DEF Count
<1>. QED  BY <1>1, <1>2, InitEstablishes, StepKeepsInvariant, StepKeepsCounts, PTL DEF Spec
-----------------------------------------------------------------------------
(***************************************************************************)
(* Service.Run, which starts and stops the routers, for any number of      *)
(* requests and of failures of any goroutines.                             *)
(*                                                                         *)
(* The inductive invariant follows the two things that can be in the works.*)
(* RouterInv: a router leaves its place only for the context, and only a   *)
(* router that ran has a message. ServerInv: requests come in while the    *)
(* server listens, which it does not do again after the closer shut it     *)
(* down, and the closer leaves none behind.                                *)
(***************************************************************************)
RouterInv ==
  \A r \in Routers :
    /\ pc[r] \in {"waiting", "running"} \cup Ended
    /\ r \in running => pc[r] # "waiting"
    /\ r \in running /\ ~cancelled => pc[r] = "running"
    /\ r \in busy => pc[r] \in {"running", "timed_out"}

ServerInv ==
  /\ pc["closer"] \in {"waiting", "draining", "done"}
  /\ pc["closer"] # "waiting" <=> server = "closed"
  /\ server = "closed" => cancelled
  /\ server = "new" => requests = 0
  /\ pc["closer"] = "done" => requests = 0
  /\ pc["closer"] = "waiting" /\ requests > 0 => running = Routers

RunInv == RunTypeOK /\ RouterInv /\ ServerInv
-----------------------------------------------------------------------------
LEMMA RunBegins == RunInit => RunInv
<1>1. RunInit => RunTypeOK
  <2>. SUFFICES ASSUME RunInit PROVE RunTypeOK
    OBVIOUS
  <2>1. requests \in 0 .. MaxRequests
    BY BoundAssumption DEF RunInit
  <2>2. pc["migration"] = "waiting"
    BY DEF RunInit, Goroutines
  <2>3. pc \in [Goroutines -> {"waiting"}]
    BY DEF RunInit
  <2>. QED  BY <2>1, <2>2, <2>3 DEF RunInit, RunTypeOK
<1>2. RunInit => RouterInv
  BY DEF RunInit, RouterInv, Goroutines, Routers, Ended
<1>3. RunInit => ServerInv
  BY DEF RunInit, ServerInv, Goroutines, Routers
<1>. QED  BY <1>1, <1>2, <1>3 DEF RunInv

(* A failure, of any goroutine. *)
LEMMA FailureKeepsRun ==
  ASSUME RunInv, NEW g \in Goroutines, FailAlone(g)
  PROVE  RunInv'
<1>1. RunTypeOK'
  BY DEF RunInv, RunTypeOK, FailAlone, ReturnError, Move, Goroutines, Routers, Ended
<1>2. RouterInv'
  BY DEF RunInv, RunTypeOK, RouterInv, FailAlone, ReturnError, Move, Goroutines, Routers, Ended
<1>3. ServerInv'
  BY DEF RunInv, RunTypeOK, ServerInv, FailAlone, ReturnError, Move, Goroutines, Routers, Ended
<1>. QED  BY <1>1, <1>2, <1>3 DEF RunInv

(* The steps of a router. *)
LEMMA RouterKeepsRun ==
  ASSUME RunInv, NEW r \in Routers, Router(r) \/ TakeMessage(r)
  PROVE  RunInv'
<1>. USE DEF Move, ReturnError, Goroutines, Routers, Ended
<1>1. CASE RouterRuns(r)
  BY <1>1 DEF RunInv, RunTypeOK, RouterInv, ServerInv, RouterRuns
<1>2. CASE RouterStopsEarly(r)
  BY <1>2 DEF RunInv, RunTypeOK, RouterInv, ServerInv, RouterStopsEarly
<1>3. CASE FinishMessage(r)
  BY <1>3 DEF RunInv, RunTypeOK, RouterInv, ServerInv, FinishMessage
<1>4. CASE RouterStops(r)
  BY <1>4 DEF RunInv, RunTypeOK, RouterInv, ServerInv, RouterStops
<1>5. CASE TakeMessage(r)
  BY <1>5 DEF RunInv, RunTypeOK, RouterInv, ServerInv, TakeMessage
<1>. QED  BY <1>1, <1>2, <1>3, <1>4, <1>5 DEF Router

(* The migration. *)
LEMMA MigrationKeepsRun ==
  ASSUME RunInv, Migration
  PROVE  RunInv'
<1>. USE DEF Move, ReturnError, Goroutines, Routers, Ended
<1>1. CASE StartMigration
  BY <1>1 DEF RunInv, RunTypeOK, RouterInv, ServerInv, StartMigration
<1>2. CASE FinishMigration
  <2>1. RunTypeOK'
    BY <1>2 DEF RunInv, RunTypeOK, FinishMigration
  <2>2. RouterInv'
    BY <1>2 DEF RunInv, RunTypeOK, RouterInv, FinishMigration
  <2>3. ServerInv'
    BY <1>2 DEF RunInv, RunTypeOK, ServerInv, FinishMigration
  <2>. QED  BY <2>1, <2>2, <2>3 DEF RunInv
<1>. QED  BY <1>1, <1>2 DEF Migration

(* The HTTP server and the goroutine that shuts it down. *)
LEMMA ServerKeepsRun ==
  ASSUME RunInv, Http \/ Accept \/ Closer
  PROVE  RunInv'
<1>. USE BoundAssumption DEF Move, Goroutines, Routers, Ended
<1>1. CASE Listen
  BY <1>1 DEF RunInv, RunTypeOK, RouterInv, ServerInv, Listen
<1>2. CASE Answer
  BY <1>2 DEF RunInv, RunTypeOK, RouterInv, ServerInv, Answer
<1>3. CASE ServerClosed
  BY <1>3 DEF RunInv, RunTypeOK, RouterInv, ServerInv, ServerClosed
<1>4. CASE Accept
  BY <1>4 DEF RunInv, RunTypeOK, RouterInv, ServerInv, Accept
<1>5. CASE Shutdown
  BY <1>5 DEF RunInv, RunTypeOK, RouterInv, ServerInv, Shutdown
<1>6. CASE Drained
  BY <1>6 DEF RunInv, RunTypeOK, RouterInv, ServerInv, Drained
<1>. QED  BY <1>1, <1>2, <1>3, <1>4, <1>5, <1>6 DEF Http, Closer

THEOREM RunInvariance == RunSpec => []RunInv
<1>1. RunInv /\ [RunNext]_runVars => RunInv'
  <2>. SUFFICES ASSUME RunInv, [RunNext]_runVars PROVE RunInv'
    OBVIOUS
  <2>1. CASE Signal
    BY <2>1 DEF RunInv, RunTypeOK, RouterInv, ServerInv, Signal, Routers, Ended
  <2>2. CASE \E g \in Goroutines : FailAlone(g)
    BY <2>2, FailureKeepsRun
  <2>3. CASE \E r \in Routers : Router(r) \/ TakeMessage(r)
    BY <2>3, RouterKeepsRun
  <2>4. CASE Migration
    BY <2>4, MigrationKeepsRun
  <2>5. CASE Http \/ Accept \/ Closer
    BY <2>5, ServerKeepsRun
  <2>6. CASE UNCHANGED runVars
    BY <2>6 DEF runVars, RunInv, RunTypeOK, RouterInv, ServerInv
  <2>. QED  BY <2>1, <2>2, <2>3, <2>4, <2>5, <2>6 DEF RunNext
<1>. QED  BY <1>1, RunBegins, PTL DEF RunSpec

(* Service.Run: the variables keep their types; the migration begins after *)
(* the event processor runs, the HTTP server after all three routers.      *)
THEOREM RunTypeCorrect == RunSpec => []RunTypeOK
<1>1. RunInv => RunTypeOK
  BY DEF RunInv
<1>. QED  BY <1>1, RunInvariance, PTL

(* Service.Run, main: whatever fails, when Run returns no request and no   *)
(* message is in the works, save those that outlive the CloseTimeout.      *)
THEOREM StopsClean == RunSpec => []NothingInTheWorks
<1>1. RunInv => NothingInTheWorks
  BY DEF RunInv, RunTypeOK, RouterInv, ServerInv, NothingInTheWorks, Returned, Goroutines, Routers, Ended
<1>. QED  BY <1>1, RunInvariance, PTL

(* Service.Run: as long as the service is not stopping, requests are served*)
(* only while all three routers run.                                       *)
THEOREM RequestsAreServedInFull == RunSpec => []ServedInFull
<1>1. RunInv => ServedInFull
  BY DEF RunInv, RunTypeOK, RouterInv, ServerInv, ServedInFull
<1>. QED  BY <1>1, RunInvariance, PTL
=============================================================================
