-------------------------- MODULE PoisonQueueProofs --------------------------
(***************************************************************************)
(* For every set of messages and any number of commands, failures and      *)
(* crashes: no message is lost between its topic and the poison queue, and *)
(* each failure makes one copy at most. Without failures a command that    *)
(* ends by itself has gone round the queue.                                *)
(*                                                                         *)
(* The proofs look at the queues as they will be once the message at their *)
(* head, if it was published already, is acknowledged (Kept; Topic and     *)
(* Poison). A command is half-way through the queue it found (Halfway): the*)
(* first i messages are read and follow the others, in their order.        *)
(***************************************************************************)
EXTENDS PoisonQueue, SequenceTheorems, FiniteSetTheorems, TLAPS

(* The messages a queue will still have once the message at its head, if   *)
(* it was published already, is acknowledged.                              *)
Kept(s, published) == IF published THEN Range(Tail(s)) ELSE Range(s)

Published == cli \in {"kept", "requeued"}

(* No acknowledgement loses anything: what it takes away is elsewhere.     *)
SafeToAck ==
  Msg \subseteq unsent \cup handled \cup removed
                \cup Kept(topic, service = "poisoned") \cup Kept(poison, Published)

IInv == TypeOK /\ SafeToAck
-----------------------------------------------------------------------------
(* What the operations on a queue do to the set of its messages, and to the*)
(* number of copies of one.                                                *)

LEMMA RangeSingle ==
  ASSUME NEW S, NEW x \in S
  PROVE  <<x>> \in Seq(S) /\ Range(<<x>>) = {x}
BY DEF Range

LEMMA RangeShift ==
  ASSUME NEW S, NEW s \in Seq(S), NEW t \in Seq(S),
         Len(t) = Len(s) + 1, \A i \in 1 .. Len(s) : t[i + 1] = s[i]
  PROVE  Range(t) = Range(s) \cup {t[1]}
<1>1. \A i \in 1 .. Len(t) : i = 1 \/ (i - 1 \in 1 .. Len(s) /\ t[i] = s[i - 1])
  OBVIOUS
<1>2. 1 \in 1 .. Len(t) /\ \A i \in 1 .. Len(s) : i + 1 \in 1 .. Len(t)
  OBVIOUS
<1>3. Range(s) = {s[i] : i \in 1 .. Len(s)} /\ Range(t) = {t[i] : i \in 1 .. Len(t)}
  BY RangeEquality
<1>. QED  BY <1>1, <1>2, <1>3

LEMMA RangeAppend ==
  ASSUME NEW S, NEW s \in Seq(S), NEW x \in S
  PROVE  Append(s, x) \in Seq(S) /\ Range(Append(s, x)) = Range(s) \cup {x}
<1>1. <<x>> \in Seq(S) /\ Range(<<x>>) = {x}
  BY RangeSingle
<1>2. Append(s, x) = s \o <<x>>
  BY AppendIsConcat
<1>3. Range(s \o <<x>>) = Range(s) \cup Range(<<x>>)
  BY <1>1, RangeConcatenation
<1>. QED  BY <1>1, <1>2, <1>3

LEMMA RangeTail ==
  ASSUME NEW S, NEW s \in Seq(S), s # <<>>
  PROVE  /\ Tail(s) \in Seq(S) /\ Head(s) \in S
         /\ Range(s) = Range(Tail(s)) \cup {Head(s)}
<1>1. Tail(s) \in Seq(S) /\ Head(s) \in S
  BY HeadTailProperties
<1>2. Range(s) = Range(Tail(s)) \cup {s[1]}
  <2>1. Len(s) = Len(Tail(s)) + 1 /\ \A i \in 1 .. Len(Tail(s)) : s[i + 1] = Tail(s)[i]
    BY HeadTailProperties
  <2>. QED  BY <1>1, <2>1, RangeShift
<1>. QED  BY <1>1, <1>2

(* How many copies of x a sequence has. *)
Count(s, x) == Cardinality({i \in DOMAIN s : s[i] = x})

LEMMA CountFinite ==
  ASSUME NEW S, NEW s \in Seq(S), NEW x
  PROVE  /\ IsFiniteSet({i \in DOMAIN s : s[i] = x})
         /\ Count(s, x) \in Nat
<1>1. DOMAIN s = 1 .. Len(s) /\ Len(s) \in Nat
  OBVIOUS
<1>2. IsFiniteSet(1 .. Len(s))
  BY <1>1, FS_Interval
<1>3. {i \in DOMAIN s : s[i] = x} \in SUBSET (1 .. Len(s))
  BY <1>1
<1>4. IsFiniteSet({i \in DOMAIN s : s[i] = x})
  BY <1>2, <1>3, FS_Subset
<1>. QED  BY <1>4, FS_CardinalityType DEF Count

(* t is s without its i-th element. *)
Without(s, i, t) ==
  /\ i \in 1 .. Len(s) /\ Len(s) = Len(t) + 1
  /\ \A k \in 1 .. Len(t) : t[k] = s[IF k < i THEN k ELSE k + 1]

LEMMA CountWithout ==
  ASSUME NEW S, NEW s \in Seq(S), NEW t \in Seq(S), NEW i, Without(s, i, t), NEW x
  PROVE  Count(s, x) = Count(t, x) + (IF x = s[i] THEN 1 ELSE 0)
<1> DEFINE A == {k \in DOMAIN t : t[k] = x}
           B == {k \in DOMAIN s : s[k] = x}
           C == B \ {i}
           f == [k \in A |-> IF k < i THEN k ELSE k + 1]
<1>1. /\ DOMAIN s = 1 .. Len(t) + 1 /\ DOMAIN t = 1 .. Len(t) /\ Len(t) \in Nat
      /\ i \in 1 .. Len(t) + 1
      /\ \A k \in 1 .. Len(t) : t[k] = s[IF k < i THEN k ELSE k + 1]
  BY DEF Without
<1>2. /\ IsFiniteSet(A) /\ Count(t, x) = Cardinality(A) /\ Count(t, x) \in Nat
      /\ Count(s, x) = Cardinality(B)
  BY CountFinite DEF Count
<1>3. f \in Bijection(A, C)
  <2>1. \A k \in A : f[k] \in C
    BY <1>1
  <2>2. \A k, l \in A : f[k] = f[l] => k = l
    BY <1>1
  <2>3. \A l \in C : \E k \in A : f[k] = l
    <3> SUFFICES ASSUME NEW l \in C PROVE \E k \in A : f[k] = l
      OBVIOUS
    <3>1. CASE l < i
      <4>1. l \in A /\ f[l] = l
        BY <1>1, <3>1
      <4>. QED  BY <4>1
    <3>2. CASE l > i
      <4>1. l - 1 \in A /\ f[l - 1] = l
        BY <1>1, <3>2
      <4>. QED  BY <4>1
    <3>3. l \in Int /\ i \in Int /\ l # i
      BY <1>1
    <3>. QED  BY <3>1, <3>2, <3>3
  <2>4. f \in [A -> C]
    BY <2>1
  <2>. QED  BY <2>2, <2>3, <2>4 DEF Bijection, Injection, Surjection, IsInjective
<1>4. Cardinality(C) = Cardinality(A) /\ IsFiniteSet(C)
  <2>. HIDE DEF A, C, f
  <2>1. ExistsBijection(A, C)
    BY <1>3 DEF ExistsBijection
  <2>. QED  BY <1>2, <2>1, FS_Bijection
<1>5. ASSUME x = s[i] PROVE Cardinality(B) = Cardinality(A) + 1
  <2>1. B = C \cup {i} /\ i \notin C
    BY <1>1, <1>5
  <2>. HIDE DEF A, B, C
  <2>. QED  BY <1>4, <2>1, FS_AddElement
<1>6. ASSUME x # s[i] PROVE Cardinality(B) = Cardinality(A)
  <2>1. B = C
    BY <1>1, <1>6
  <2>. QED  BY <1>4, <2>1
<1>. HIDE DEF A, B
<1>. QED  BY <1>2, <1>5, <1>6

LEMMA CountAppend ==
  ASSUME NEW S, NEW s \in Seq(S), NEW x, NEW y \in S
  PROVE  Count(Append(s, y), x) = Count(s, x) + (IF x = y THEN 1 ELSE 0)
<1> DEFINE t == Append(s, y)
           n == Len(s) + 1
<1>1. t \in Seq(S) /\ t[n] = y /\ Without(t, n, s)
  BY DEF Without
<1>. HIDE DEF t, n
<1>2. Count(t, x) = Count(s, x) + (IF x = t[n] THEN 1 ELSE 0)
  BY <1>1, CountWithout
<1>. QED  BY <1>1, <1>2 DEF t

LEMMA CountTail ==
  ASSUME NEW S, NEW s \in Seq(S), s # <<>>, NEW x
  PROVE  Count(s, x) = Count(Tail(s), x) + (IF x = Head(s) THEN 1 ELSE 0)
<1> DEFINE t == Tail(s)
<1>1. t \in Seq(S) /\ s[1] = Head(s) /\ Without(s, 1, t)
  BY DEF Without
<1>. HIDE DEF t
<1>2. Count(s, x) = Count(t, x) + (IF x = s[1] THEN 1 ELSE 0)
  BY <1>1, CountWithout
<1>. QED  BY <1>1, <1>2 DEF t
-----------------------------------------------------------------------------
LEMMA AppendSome ==
  ASSUME NEW S, NEW s \in Seq(S), NEW x \in S
  PROVE  Append(s, x) \in Seq(S) /\ Append(s, x) # <<>>
BY AppendProperties

LEMMA TailAppend ==
  ASSUME NEW S, NEW s \in Seq(S), NEW x \in S, s # <<>>
  PROVE  Tail(Append(s, x)) = Append(Tail(s), x)
OBVIOUS

LEMMA KeptAppend ==
  ASSUME NEW S, NEW s \in Seq(S), NEW x \in S
  PROVE  /\ Kept(Append(s, x), FALSE) = Kept(s, FALSE) \cup {x}
         /\ s # <<>> => Kept(Append(s, x), TRUE) = Kept(s, TRUE) \cup {x}
<1>1. Range(Append(s, x)) = Range(s) \cup {x}
  BY RangeAppend
<1>2. ASSUME s # <<>>
      PROVE  Range(Tail(Append(s, x))) = Range(Tail(s)) \cup {x}
  <2>1. Tail(s) \in Seq(S)
    BY <1>2, RangeTail
  <2>2. Range(Append(Tail(s), x)) = Range(Tail(s)) \cup {x}
    BY <2>1, RangeAppend DEF Range
  <2>. QED  BY <1>2, <2>2, TailAppend
<1>. QED  BY <1>1, <1>2 DEF Kept

LEMMA KeptHead ==
  ASSUME NEW S, NEW s \in Seq(S), s # <<>>
  PROVE  /\ Tail(s) \in Seq(S) /\ Head(s) \in S
         /\ Kept(s, FALSE) = Kept(s, TRUE) \cup {Head(s)}
         /\ Kept(s, TRUE) = Kept(Tail(s), FALSE)
BY RangeTail DEF Kept
-----------------------------------------------------------------------------
LEMMA InitIInv == Init => IInv
<1> SUFFICES ASSUME Init PROVE IInv
  OBVIOUS
<1>1. TypeOK
  <2>1. cmd \in [kind : Kinds, id : Msg \cup {None}]
    BY DEF Init, Kinds
  <2>2. <<>> \in Seq(Msg)
    OBVIOUS
  <2>. QED  BY <2>1, <2>2 DEF Init, TypeOK
<1>2. SafeToAck
  BY DEF Init, SafeToAck
<1>. QED  BY <1>1, <1>2 DEF IInv

(* The steps that change neither queue, nor who is about to acknowledge,   *)
(* nor what is kept elsewhere.                                             *)
LEMMA UntouchedSafe ==
  ASSUME SafeToAck, UNCHANGED <<unsent, handled, removed, topic, service, poison>>,
         Published' = Published
  PROVE  SafeToAck'
BY DEF SafeToAck, Kept

(* A queue whose head is not acknowledged after all keeps more.            *)
LEMMA NotAcknowledged ==
  ASSUME NEW s \in Seq(Msg), s # <<>>
  PROVE  Kept(s, TRUE) \subseteq Kept(s, FALSE)
BY KeptHead

LEMMA ServiceIInv ==
  ASSUME IInv, Service \/ ServiceCrash \/ \E m \in Msg : PublishOrder(m)
  PROVE  IInv'
<1> USE DEF IInv
<1>0. topic \in Seq(Msg) /\ poison \in Seq(Msg) /\ (Published => poison # <<>>)
  BY DEF TypeOK, Published
<1>1. ASSUME NEW m \in Msg, PublishOrder(m) PROVE IInv'
  <2>1. Append(topic, m) \in Seq(Msg) /\ Append(topic, m) # <<>>
    BY <1>0, AppendSome
  <2>2. Kept(topic', (service = "poisoned")') = Kept(topic, service = "poisoned") \cup {m}
    BY <1>0, <1>1, KeptAppend DEF PublishOrder, TypeOK, Kept
  <2>3. SafeToAck'
    BY <1>1, <2>2 DEF PublishOrder, SafeToAck, Published, Kept
  <2>4. TypeOK'
    BY <1>1, <2>1 DEF PublishOrder, TypeOK, loopVars
  <2>. QED  BY <2>3, <2>4
<1>2. CASE StoreTrackingLink
  <2>1. /\ Tail(topic) \in Seq(Msg) /\ Head(topic) \in Msg
        /\ Kept(topic, FALSE) = Kept(topic', FALSE) \cup {Head(topic)}
    BY <1>0, <1>2, KeptHead DEF StoreTrackingLink
  <2>2. SafeToAck'
    BY <1>2, <2>1 DEF StoreTrackingLink, SafeToAck, Published, Kept, loopVars
  <2>3. TypeOK'
    BY <1>2, <2>1 DEF StoreTrackingLink, TypeOK, loopVars
  <2>. QED  BY <2>2, <2>3
<1>3. CASE PublishToPoisonQueue
  <2>1. /\ Head(topic) \in Msg
        /\ Kept(topic, FALSE) = Kept(topic, TRUE) \cup {Head(topic)}
    BY <1>0, <1>3, KeptHead DEF PublishToPoisonQueue
  <2>2. Append(poison, Head(topic)) \in Seq(Msg) /\ Append(poison, Head(topic)) # <<>>
    BY <1>0, <2>1, AppendSome
  <2>3. Kept(poison', Published) = Kept(poison, Published) \cup {Head(topic)}
    BY <1>0, <1>3, <2>1, KeptAppend DEF PublishToPoisonQueue, Published, TypeOK, Kept
  <2>4. SafeToAck'
    BY <1>3, <2>1, <2>3 DEF PublishToPoisonQueue, SafeToAck, Published, Kept
  <2>5. TypeOK'
    BY <1>3, <2>2 DEF PublishToPoisonQueue, TypeOK, loopVars
  <2>. QED  BY <2>4, <2>5
<1>4. CASE AckPoisoned
  <2>1. Tail(topic) \in Seq(Msg) /\ Kept(topic, TRUE) = Kept(topic', FALSE)
    BY <1>0, <1>4, KeptHead DEF AckPoisoned, TypeOK
  <2>2. SafeToAck'
    BY <1>4, <2>1 DEF AckPoisoned, SafeToAck, Published, Kept
  <2>3. TypeOK'
    BY <1>4, <2>1 DEF AckPoisoned, TypeOK, loopVars
  <2>. QED  BY <2>2, <2>3
<1>5. CASE ServiceCrash
  <2>1. Kept(topic, service = "poisoned") \subseteq Kept(topic, FALSE)
    BY <1>0, NotAcknowledged DEF TypeOK, Kept
  <2>2. SafeToAck'
    BY <1>5, <2>1 DEF ServiceCrash, SafeToAck, Published, Kept
  <2>3. TypeOK'
    BY <1>5 DEF ServiceCrash, Fault, TypeOK, loopVars
  <2>. QED  BY <2>2, <2>3
<1>. QED  BY <1>1, <1>2, <1>3, <1>4, <1>5 DEF Service

(* The steps of the command that publish, remove or acknowledge. *)
LEMMA IterateIInv ==
  ASSUME IInv, Iterate
  PROVE  IInv'
<1> USE DEF IInv
<1>0. topic \in Seq(Msg) /\ poison \in Seq(Msg)
  BY DEF TypeOK
<1>1. CASE FirstAgain
  <2>1. SafeToAck'
    BY <1>1, UntouchedSafe DEF FirstAgain, serviceVars, Published
  <2>2. TypeOK'
    BY <1>1 DEF FirstAgain, TypeOK, serviceVars
  <2>. QED  BY <2>1, <2>2
<1>2. CASE StopRouter
  <2>1. SafeToAck'
    BY <1>2, UntouchedSafe DEF StopRouter, Delivered, End, serviceVars, Published
  <2>2. TypeOK'
    BY <1>2 DEF StopRouter, End, TypeOK, serviceVars, loopVars
  <2>. QED  BY <2>1, <2>2
<1>3. ASSUME Acts PROVE /\ poison # <<>> /\ cli = "iterating"
                        /\ Head(poison) \in Msg /\ Tail(poison) \in Seq(Msg)
                        /\ firstMessageUUID' \in Msg \cup {None} /\ messages' \subseteq Msg
  BY <1>0, <1>3, KeptHead DEF Acts, Delivered, TypeOK
<1>4. CASE KeepMessage
  <2>1. SafeToAck'
    BY <1>3, <1>4, UntouchedSafe DEF KeepMessage, Acts, serviceVars, Published
  <2>2. TypeOK'
    BY <1>3, <1>4 DEF KeepMessage, Acts, TypeOK, serviceVars
  <2>. QED  BY <2>1, <2>2
<1>5. CASE RequeueMessage
  <2>1. SafeToAck'
    BY <1>3, <1>5, UntouchedSafe DEF RequeueMessage, Acts, serviceVars, Published
  <2>2. TypeOK'
    BY <1>3, <1>5 DEF RequeueMessage, Acts, TypeOK, serviceVars
  <2>. QED  BY <2>1, <2>2
<1>6. CASE RemoveMessage
  <2>1. Acts
    BY <1>6 DEF RemoveMessage
  <2>2. Kept(poison, FALSE) = Kept(poison', FALSE) \cup {Head(poison)}
    BY <1>0, <1>3, <1>6, <2>1, KeptHead DEF RemoveMessage
  <2>3. SafeToAck'
    BY <1>3, <1>6, <2>1, <2>2 DEF RemoveMessage, Acts, SafeToAck, Published, Kept, serviceVars
  <2>4. TypeOK'
    BY <1>3, <1>6, <2>1 DEF RemoveMessage, Acts, IsFirst, TypeOK, serviceVars
  <2>. QED  BY <2>3, <2>4
<1>7. CASE PublishKept
  <2>1. /\ poison # <<>> /\ Head(poison) \in Msg
        /\ Kept(poison, FALSE) = Kept(poison, TRUE) \cup {Head(poison)}
    BY <1>0, <1>7, KeptHead DEF PublishKept, TypeOK
  <2>2. Append(poison, Head(poison)) \in Seq(Msg) /\ Append(poison, Head(poison)) # <<>>
    BY <1>0, <2>1, AppendSome
  <2>3. Kept(poison', TRUE) = Kept(poison, TRUE) \cup {Head(poison)}
    <3> DEFINE m == Head(poison)
    <3>1. m \in Msg /\ poison' = Append(poison, m)
      BY <1>7, <2>1 DEF PublishKept
    <3>. HIDE DEF m
    <3>2. Kept(Append(poison, m), TRUE) = Kept(poison, TRUE) \cup {m}
      BY <1>0, <2>1, <3>1, KeptAppend DEF Kept
    <3>. QED  BY <3>1, <3>2 DEF m
  <2>4. SafeToAck'
    BY <1>7, <2>1, <2>3 DEF PublishKept, SafeToAck, Published, Kept, serviceVars
  <2>5. TypeOK'
    BY <1>7, <2>2 DEF PublishKept, TypeOK, serviceVars, loopVars
  <2>. QED  BY <2>4, <2>5
<1>8. CASE AckKept
  <2>1. Tail(poison) \in Seq(Msg) /\ Kept(poison, TRUE) = Kept(poison', FALSE)
    BY <1>0, <1>8, KeptHead DEF AckKept, TypeOK
  <2>2. SafeToAck'
    BY <1>8, <2>1 DEF AckKept, SafeToAck, Published, Kept, serviceVars
  <2>3. TypeOK'
    BY <1>8, <2>1 DEF AckKept, TypeOK, serviceVars, loopVars
  <2>. QED  BY <2>2, <2>3
<1>9. CASE PublishRequeued
  <2>1. /\ poison # <<>> /\ Head(poison) \in Msg
        /\ Kept(poison, FALSE) = Kept(poison, TRUE) \cup {Head(poison)}
    BY <1>0, <1>9, KeptHead DEF PublishRequeued, TypeOK
  <2>2. Append(topic, Head(poison)) \in Seq(Msg) /\ Append(topic, Head(poison)) # <<>>
    BY <1>0, <2>1, AppendSome
  <2>3. Kept(topic', service = "poisoned")
          = Kept(topic, service = "poisoned") \cup {Head(poison)}
    BY <1>0, <1>9, <2>1, KeptAppend DEF PublishRequeued, TypeOK, Kept
  <2>4. SafeToAck'
    BY <1>9, <2>1, <2>3 DEF PublishRequeued, SafeToAck, Published, Kept
  <2>5. TypeOK'
    BY <1>9, <2>1, <2>2 DEF PublishRequeued, TypeOK, loopVars
  <2>. QED  BY <2>4, <2>5
<1>10. CASE AckRequeued
  <2>1. Tail(poison) \in Seq(Msg) /\ Kept(poison, TRUE) = Kept(poison', FALSE)
    BY <1>0, <1>10, KeptHead DEF AckRequeued, TypeOK
  <2>2. SafeToAck'
    BY <1>10, <2>1 DEF AckRequeued, SafeToAck, Published, Kept, serviceVars
  <2>3. TypeOK'
    BY <1>10, <2>1 DEF AckRequeued, TypeOK, serviceVars
  <2>. QED  BY <2>2, <2>3
<1>. QED
  BY <1>1, <1>2, <1>4, <1>5, <1>6, <1>7, <1>8, <1>9, <1>10 DEF Iterate

(* Starting and ending a command, whichever way it ends. *)
LEMMA CommandIInv ==
  ASSUME IInv,
         PublishFails \/ Timeout \/ CliCrash \/ \E c \in Command : StartCommand(c[1], c[2])
  PROVE  IInv'
<1> USE DEF IInv
<1>1. ASSUME NEW kind \in Kinds, NEW id \in Msg \cup {None}, StartCommand(kind, id)
      PROVE  IInv'
  <2>2. cmd' \in [kind : Kinds, id : Msg \cup {None}] /\ commands' \in Nat
    BY <1>1 DEF StartCommand, TypeOK
  <2>3. SafeToAck'
    BY <1>1, UntouchedSafe DEF StartCommand, serviceVars, Published
  <2>4. TypeOK'
    BY <1>1, <2>2 DEF StartCommand, TypeOK, serviceVars
  <2>. QED  BY <2>3, <2>4
<1>2. CASE PublishFails
  <2>1. SafeToAck'
    BY <1>2, UntouchedSafe DEF PublishFails, serviceVars, Published
  <2>2. TypeOK'
    BY <1>2 DEF PublishFails, Fault, TypeOK, serviceVars, loopVars
  <2>. QED  BY <2>1, <2>2
<1>3. CASE Timeout \/ CliCrash
  <2>1. /\ cli' = "idle" /\ ending' \in {"timeout", "crash"} /\ faults' \in Nat
        /\ UNCHANGED <<serviceVars, poison, loopVars, removed, commands>>
    BY <1>3 DEF Timeout, CliCrash, End, Fault, TypeOK
  <2>2. Kept(poison, Published) \subseteq Kept(poison, FALSE)
    BY NotAcknowledged DEF TypeOK, Published, Kept
  <2>3. SafeToAck'
    BY <2>1, <2>2 DEF SafeToAck, Published, Kept, serviceVars
  <2>4. TypeOK'
    BY <2>1 DEF TypeOK, serviceVars, loopVars
  <2>. QED  BY <2>3, <2>4
<1>4. \A c \in Command : c[1] \in Kinds /\ c[2] \in Msg \cup {None}
  BY DEF Command, Kinds
<1>. QED  BY <1>1, <1>2, <1>3, <1>4

LEMMA NextIInv == IInv /\ [Next]_vars => IInv'
<1> SUFFICES ASSUME IInv, [Next]_vars PROVE IInv'
  OBVIOUS
<1>1. CASE UNCHANGED vars
  <2>1. SafeToAck'
    BY <1>1, UntouchedSafe DEF IInv, vars, serviceVars, Published
  <2>2. TypeOK'
    BY <1>1 DEF IInv, vars, serviceVars, loopVars, TypeOK
  <2>. QED  BY <2>1, <2>2 DEF IInv
<1>2. CASE Next
  BY <1>2, ServiceIInv, IterateIInv, CommandIInv DEF Next
<1>. QED  BY <1>1, <1>2

(* The variables of PoisonQueue keep their types: no message is ever       *)
(* acknowledged on an empty queue.                                         *)
THEOREM TypeCorrect == Spec => []TypeOK
<1>1. IInv => TypeOK
  BY DEF IInv
<1>. QED  BY InitIInv, NextIInv, <1>1, PTL DEF Spec

(* However often the service, the command line or a publishing fails, and  *)
(* however many commands are run, an order that was published is handled,  *)
(* on its topic, in the poison queue, or was removed on request.           *)
THEOREM NoMessageLost == Spec => []NothingLost
<1>1. IInv => NothingLost
  <2> SUFFICES ASSUME IInv PROVE NothingLost
    OBVIOUS
  <2>1. Kept(topic, service = "poisoned") \subseteq Range(topic)
    BY NotAcknowledged DEF IInv, TypeOK, Kept
  <2>2. Kept(poison, Published) \subseteq Range(poison)
    BY NotAcknowledged DEF IInv, TypeOK, Kept, Published
  <2>. QED  BY <2>1, <2>2 DEF IInv, SafeToAck, NothingLost
<1>. QED  BY InitIInv, NextIInv, <1>1, PTL DEF Spec

-----------------------------------------------------------------------------

(* The two queues once the message at their head, if it was published      *)
(* already, is acknowledged.                                               *)
Poison == IF Published THEN Tail(poison) ELSE poison

Topic == IF service = "poisoned" THEN Tail(topic) ELSE topic

(* Without faults there is one copy of a message.                          *)
OneCopy ==
  /\ IsInjective(Topic) /\ IsInjective(Poison)
  /\ Range(Topic) \cap Range(Poison) = {}
  /\ unsent \cap (Range(Topic) \cup Range(Poison)) = {}

(* s has x before y.                                                       *)
Before(s, x, y) == \E k, l \in DOMAIN s : k < l /\ s[k] = x /\ s[l] = y

(* How many messages the command found. *)
Size == Len(start)

(* Of the messages the command found, the first i are read: the others are *)
(* at the head of the queue, those read and left follow in their order.    *)
Unread(p, i) == \A a \in i + 1 .. Size : a - i \in DOMAIN p /\ p[a - i] = start[a]

(* Those that were read and not asked for have passed to the tail. *)
Passed(p, i) ==
  \A a \in 1 .. i : start[a] # cmd.id =>
    /\ start[a] \in Range(p)
    /\ \A b \in 1 .. i : a < b /\ start[b] # cmd.id => Before(p, start[a], start[b])

(* What the command has noted of them.                                     *)
Noted(i) ==
  \A a \in 1 .. i : start[a] \in messages /\ (start[a] = cmd.id => found)

(* The first of them is remembered as soon as it is read, and ends the     *)
(* round when it comes back or leaves.                                     *)
FirstRead(i) ==
  /\ firstMessageUUID \in {None, start[1]}
  /\ firstMessageUUID = None => i = 0 /\ cli = "iterating"
  /\ i = 0 /\ firstMessageUUID # None => cli \in {"keeping", "requeueing"}
  /\ start[1] = cmd.id /\ i > 0 => i = 1 /\ (done \/ cli = "requeued")
  /\ done => i = Size \/ (i = 1 /\ start[1] = cmd.id)

(* The message in hand was shown, and is the one asked for or is not. *)
InHand ==
  /\ cli # "iterating" => ~done
  /\ cli = "keeping" => Head(poison) # cmd.id /\ Head(poison) \in messages
  /\ cli \in {"requeueing", "requeued"} =>
       Head(poison) = cmd.id /\ Head(poison) \in messages /\ found

(* Of the round of the command, i messages are done. *)
Halfway(i) ==
  /\ IsInjective(start)
  /\ Unread(Poison, i) /\ Passed(Poison, i)
  /\ Noted(i) /\ FirstRead(i) /\ InHand
  /\ cli = "keeping" /\ i > 0 => Head(poison) # firstMessageUUID

(* A command at work is somewhere half-way; one that ended is complete. *)
RoundInv ==
  /\ cmd.kind = "preview" => cmd.id = None
  /\ cli # "idle" => ending = "none"
  /\ cli # "idle" /\ start # <<>> => \E i \in 0 .. Size : Halfway(i)
  /\ CompleteRound

CInv == faults = 0 => OneCopy /\ RoundInv

-----------------------------------------------------------------------------

LEMMA UniqueTail ==
  ASSUME NEW s \in Seq(Msg), s # <<>>, IsInjective(s)
  PROVE  /\ Tail(s) \in Seq(Msg) /\ Head(s) \in Msg
         /\ IsInjective(Tail(s)) /\ Head(s) \notin Range(Tail(s))
         /\ Range(s) = Range(Tail(s)) \cup {Head(s)}
<1>1. /\ Head(s) = s[1] /\ Len(Tail(s)) = Len(s) - 1
      /\ \A i \in 1 .. Len(Tail(s)) : Tail(s)[i] = s[i + 1]
  BY HeadTailProperties
<1>2. Tail(s) \in Seq(Msg) /\ Head(s) \in Msg /\ Range(s) = Range(Tail(s)) \cup {Head(s)}
  BY RangeTail
<1> DEFINE t == Tail(s)
<1>3. /\ DOMAIN s = 1 .. Len(s) /\ DOMAIN t = 1 .. Len(t) /\ Len(t) \in Nat
      /\ Len(s) = Len(t) + 1 /\ \A i \in 1 .. Len(t) : t[i] = s[i + 1]
  BY <1>1, <1>2
<1>. HIDE DEF t
<1>4. \A i \in 1 .. Len(t) : i + 1 \in 1 .. Len(s) /\ 1 \in 1 .. Len(s) /\ i + 1 # 1
  BY <1>3
<1>5. \A i \in 1 .. Len(t) : t[i] # s[1]
  BY <1>3, <1>4 DEF IsInjective
<1>6. IsInjective(t)
  BY <1>3, <1>4 DEF IsInjective
<1>7. Head(s) \notin Range(t)
  BY <1>1, <1>3, <1>5 DEF Range
<1>. QED  BY <1>2, <1>6, <1>7 DEF t

LEMMA UniqueAppend ==
  ASSUME NEW s \in Seq(Msg), NEW x \in Msg, IsInjective(s), x \notin Range(s)
  PROVE  IsInjective(Append(s, x))
<1>1. /\ Len(Append(s, x)) = Len(s) + 1 /\ Append(s, x)[Len(s) + 1] = x
      /\ \A i \in 1 .. Len(s) : Append(s, x)[i] = s[i]
  BY AppendProperties
<1>. QED  BY <1>1 DEF IsInjective, Range

LEMMA BeforeAppend ==
  ASSUME NEW s \in Seq(Msg), NEW x, NEW y, NEW z \in Msg, Before(s, x, y)
  PROVE  Before(Append(s, z), x, y)
BY DEF Before

LEMMA BeforeLast ==
  ASSUME NEW s \in Seq(Msg), NEW x \in Range(s), NEW z \in Msg
  PROVE  Before(Append(s, z), x, z)
<1>1. PICK k \in 1 .. Len(s) : s[k] = x
  BY DEF Range
<1>2. /\ k \in DOMAIN Append(s, z) /\ Append(s, z)[k] = x
      /\ Len(s) + 1 \in DOMAIN Append(s, z) /\ Append(s, z)[Len(s) + 1] = z
  BY <1>1
<1>. QED  BY <1>1, <1>2 DEF Before

LEMMA BeforeTail ==
  ASSUME NEW s \in Seq(Msg), NEW x, NEW y, Before(s, x, y), x # Head(s)
  PROVE  Before(Tail(s), x, y)
<1>1. PICK k \in DOMAIN s, l \in DOMAIN s : k < l /\ s[k] = x /\ s[l] = y
  BY DEF Before
<1>2. s # <<>> /\ k > 1
  BY <1>1
<1>3. /\ k - 1 \in DOMAIN Tail(s) /\ Tail(s)[k - 1] = x
      /\ l - 1 \in DOMAIN Tail(s) /\ Tail(s)[l - 1] = y /\ k - 1 < l - 1
  BY <1>1, <1>2
<1>. QED  BY <1>3 DEF Before

LEMMA NotBeforeHead ==
  ASSUME NEW s \in Seq(Msg), NEW x, IsInjective(s)
  PROVE  s # <<>> => ~Before(s, x, Head(s))
BY DEF Before, IsInjective

(* A message that comes in disturbs nothing. *)
LEMMA LayAppend ==
  ASSUME start \in Seq(Msg), NEW p \in Seq(Msg), NEW x \in Msg, NEW i \in 0 .. Size
  PROVE  /\ Unread(p, i) => Unread(Append(p, x), i)
         /\ Passed(p, i) => Passed(Append(p, x), i)
<1>1. ASSUME Unread(p, i) PROVE Unread(Append(p, x), i)
  BY <1>1 DEF Unread, Size
<1>2. ASSUME Passed(p, i) PROVE Passed(Append(p, x), i)
  <2>1. Range(p) \subseteq Range(Append(p, x))
    BY RangeAppend
  <2>. QED  BY <1>2, <2>1, BeforeAppend DEF Passed
<1>. QED  BY <1>1, <1>2

(* Nor does it that the head leaves, if it is not one that was read.       *)
LEMMA LayTail ==
  ASSUME start \in Seq(Msg), NEW p \in Seq(Msg), p # <<>>, NEW i \in 0 .. Size,
         Unread(p, i), Passed(p, i),
         \A a \in 1 .. i : start[a] # cmd.id => start[a] # Head(p)
  PROVE  /\ Passed(Tail(p), i)
         /\ Unread(Tail(p), i + 1)
         /\ i < Size => Head(p) = start[i + 1]
<1>1. \A a \in 1 .. i : start[a] # cmd.id => start[a] \in Range(Tail(p))
  BY RangeTail DEF Passed
<1>2. Passed(Tail(p), i)
  BY <1>1, BeforeTail DEF Passed
<1>3. /\ Head(p) = p[1] /\ Len(Tail(p)) = Len(p) - 1
      /\ \A k \in 1 .. Len(Tail(p)) : Tail(p)[k] = p[k + 1]
  BY HeadTailProperties
<1>4. Unread(Tail(p), i + 1)
  <2> SUFFICES ASSUME NEW a \in (i + 1) + 1 .. Size
               PROVE  a - (i + 1) \in DOMAIN Tail(p) /\ Tail(p)[a - (i + 1)] = start[a]
    BY DEF Unread
  <2>1. a - i \in 1 .. Len(p) /\ p[a - i] = start[a] /\ a - i > 1
    BY DEF Unread, Size
  <2>. QED  BY <1>3, <2>1 DEF Size
<1>5. ASSUME i < Size PROVE Head(p) = start[i + 1]
  BY <1>3, <1>5 DEF Unread, Size
<1>. QED  BY <1>2, <1>4, <1>5

-----------------------------------------------------------------------------

LEMMA QueueTypes ==
  ASSUME TypeOK
  PROVE  /\ topic \in Seq(Msg) /\ poison \in Seq(Msg)
         /\ Topic \in Seq(Msg) /\ Poison \in Seq(Msg)
         /\ cli \in {"keeping", "requeueing"} => Poison = poison /\ poison # <<>>
         /\ cli = "iterating" => Poison = poison
BY RangeTail DEF TypeOK, Topic, Poison, Published

(* What the steps of the service do to the queues. *)
LEMMA ServiceMoves ==
  ASSUME TypeOK
  PROVE  /\ \A m \in Msg : PublishOrder(m) =>
              /\ m \in unsent /\ unsent' = unsent \ {m}
              /\ Topic' = Append(Topic, m) /\ Poison' = Poison
         /\ StoreTrackingLink =>
              /\ Topic # <<>> /\ Topic' = Tail(Topic)
              /\ Poison' = Poison /\ unsent' = unsent
         /\ PublishToPoisonQueue =>
              /\ Topic # <<>> /\ Topic' = Tail(Topic)
              /\ Poison' = Append(Poison, Head(Topic)) /\ unsent' = unsent
         /\ AckPoisoned => UNCHANGED <<Topic, Poison, unsent>>
<1>0. /\ topic \in Seq(Msg) /\ poison \in Seq(Msg)
      /\ service = "poisoned" => topic # <<>>
      /\ Published => poison # <<>>
  BY DEF TypeOK, Published
<1>1. ASSUME NEW m \in Msg, PublishOrder(m)
      PROVE  /\ m \in unsent /\ unsent' = unsent \ {m}
             /\ Topic' = Append(Topic, m) /\ Poison' = Poison
  <2>1. service = "poisoned" => Tail(Append(topic, m)) = Append(Tail(topic), m)
    BY <1>0, TailAppend
  <2>. QED  BY <1>1, <2>1 DEF PublishOrder, Topic, Poison, Published
<1>2. ASSUME StoreTrackingLink
      PROVE  /\ Topic # <<>> /\ Topic' = Tail(Topic)
             /\ Poison' = Poison /\ unsent' = unsent
  BY <1>2 DEF StoreTrackingLink, Topic, Poison, Published
<1>3. ASSUME PublishToPoisonQueue
      PROVE  /\ Topic # <<>> /\ Topic' = Tail(Topic)
             /\ Poison' = Append(Poison, Head(Topic)) /\ unsent' = unsent
  <2>1. PICK h \in Msg : h = Head(topic)
    BY <1>0, <1>3, RangeTail DEF PublishToPoisonQueue
  <2>2. Published => Tail(Append(poison, h)) = Append(Tail(poison), h)
    BY <1>0, TailAppend
  <2>3. poison' = Append(poison, h)
    BY <1>3, <2>1 DEF PublishToPoisonQueue
  <2>4. Poison' = Append(Poison, h)
    BY <1>3, <2>2, <2>3 DEF PublishToPoisonQueue, Poison, Published
  <2>. QED  BY <1>3, <2>1, <2>4 DEF PublishToPoisonQueue, Topic
<1>4. ASSUME AckPoisoned PROVE UNCHANGED <<Topic, Poison, unsent>>
  BY <1>4 DEF AckPoisoned, Topic, Poison, Published
<1>. QED  BY <1>1, <1>2, <1>3, <1>4

(* What the steps of a command do to them. *)
LEMMA CommandMoves ==
  ASSUME TypeOK
  PROVE  /\ FirstAgain \/ StopRouter \/ KeepMessage \/ RequeueMessage \/ AckKept \/ AckRequeued
              => UNCHANGED <<Topic, Poison, unsent>>
         /\ PublishKept =>
              /\ Poison = poison /\ Poison # <<>>
              /\ Poison' = Append(Tail(Poison), Head(Poison))
              /\ UNCHANGED <<Topic, unsent>>
         /\ PublishRequeued =>
              /\ Poison = poison /\ Poison # <<>> /\ Poison' = Tail(Poison)
              /\ Topic' = Append(Topic, Head(Poison)) /\ unsent' = unsent
         /\ RemoveMessage =>
              /\ Poison = poison /\ Poison # <<>> /\ Poison' = Tail(Poison)
              /\ UNCHANGED <<Topic, unsent>>
<1>0. /\ topic \in Seq(Msg) /\ poison \in Seq(Msg)
      /\ service = "poisoned" => topic # <<>>
      /\ Published => poison # <<>>
  BY DEF TypeOK, Published
<1>1. ASSUME FirstAgain \/ StopRouter \/ KeepMessage \/ RequeueMessage \/ AckKept \/ AckRequeued
      PROVE  UNCHANGED <<Topic, Poison, unsent>>
  <2>1. UNCHANGED <<topic, service, unsent>>
    BY <1>1 DEF FirstAgain, StopRouter, KeepMessage, RequeueMessage, AckKept, AckRequeued,
                Acts, serviceVars
  <2>2. Poison' = Poison
    BY <1>1 DEF FirstAgain, StopRouter, KeepMessage, RequeueMessage, AckKept, AckRequeued,
                Acts, Delivered, End, Poison, Published
  <2>. QED  BY <2>1, <2>2 DEF Topic
<1>2. ASSUME PublishKept
      PROVE  /\ Poison = poison /\ Poison # <<>>
             /\ Poison' = Append(Tail(Poison), Head(Poison))
             /\ UNCHANGED <<Topic, unsent>>
  <2>1. poison # <<>> /\ Poison = poison
    BY <1>2 DEF PublishKept, TypeOK, Poison, Published
  <2>2. PICK h \in Msg : h = Head(poison)
    BY <1>0, <2>1, RangeTail
  <2>3. poison' = Append(poison, h) /\ Tail(Append(poison, h)) = Append(Tail(poison), h)
    BY <1>0, <1>2, <2>1, <2>2, TailAppend DEF PublishKept
  <2>4. Poison' = Append(Tail(poison), h)
    BY <1>2, <2>3 DEF PublishKept, Poison, Published
  <2>. QED  BY <1>2, <2>1, <2>2, <2>4 DEF PublishKept, Topic, serviceVars
<1>3. ASSUME PublishRequeued
      PROVE  /\ Poison = poison /\ Poison # <<>> /\ Poison' = Tail(Poison)
             /\ Topic' = Append(Topic, Head(Poison)) /\ unsent' = unsent
  <2>1. poison # <<>> /\ Poison = poison
    BY <1>3 DEF PublishRequeued, TypeOK, Poison, Published
  <2>2. PICK h \in Msg : h = Head(poison)
    BY <1>0, <2>1, RangeTail
  <2>3. service = "poisoned" => Tail(Append(topic, h)) = Append(Tail(topic), h)
    BY <1>0, TailAppend
  <2>4. topic' = Append(topic, h) /\ service' = service /\ unsent' = unsent
    BY <1>3, <2>2 DEF PublishRequeued
  <2>5. Topic' = Append(Topic, h)
    BY <2>3, <2>4 DEF Topic
  <2>6. Poison' = Tail(poison)
    BY <1>3 DEF PublishRequeued, Poison, Published
  <2>. QED  BY <2>1, <2>2, <2>4, <2>5, <2>6
<1>4. ASSUME RemoveMessage
      PROVE  /\ Poison = poison /\ Poison # <<>> /\ Poison' = Tail(Poison)
             /\ UNCHANGED <<Topic, unsent>>
  BY <1>4 DEF RemoveMessage, Acts, Delivered, Poison, Published, Topic, serviceVars
<1>. QED  BY <1>1, <1>2, <1>3, <1>4

(* Without faults a command ends between two messages. *)
LEMMA EndMoves ==
  ASSUME TypeOK, faults = 0, faults' = 0
  PROVE  /\ ~ServiceCrash /\ ~PublishFails /\ ~CliCrash
         /\ Timeout =>
              /\ cli = "iterating" /\ cli' = "idle" /\ ending' = "timeout"
              /\ UNCHANGED <<Topic, Poison, unsent>>
         /\ \A c \in Command : StartCommand(c[1], c[2]) => UNCHANGED <<Topic, Poison, unsent>>
<1>1. ~ServiceCrash /\ ~PublishFails /\ ~CliCrash
  BY DEF ServiceCrash, PublishFails, CliCrash, Fault
<1>2. ASSUME Timeout
      PROVE  /\ cli = "iterating" /\ cli' = "idle" /\ ending' = "timeout"
             /\ UNCHANGED <<Topic, Poison, unsent>>
  BY <1>2 DEF Timeout, Fault, End, Topic, Poison, Published, serviceVars
<1>3. ASSUME NEW c \in Command, StartCommand(c[1], c[2])
      PROVE  UNCHANGED <<Topic, Poison, unsent>>
  BY <1>3 DEF StartCommand, Topic, Poison, Published, serviceVars
<1>. QED  BY <1>1, <1>2, <1>3

(* One message has one copy. *)
LEMMA StepOneCopy ==
  ASSUME IInv, OneCopy, [Next]_vars, faults = 0, faults' = 0
  PROVE  OneCopy'
<1>0. TypeOK /\ Topic \in Seq(Msg) /\ Poison \in Seq(Msg) /\ unsent \subseteq Msg
  BY QueueTypes DEF IInv, TypeOK
<1>1. ASSUME Topic # <<>>
      PROVE  /\ Tail(Topic) \in Seq(Msg) /\ Head(Topic) \in Msg /\ IsInjective(Tail(Topic))
             /\ Head(Topic) \notin Range(Tail(Topic))
             /\ Range(Topic) = Range(Tail(Topic)) \cup {Head(Topic)}
  BY <1>0, <1>1, UniqueTail DEF OneCopy
<1>2. ASSUME Poison # <<>>
      PROVE  /\ Tail(Poison) \in Seq(Msg) /\ Head(Poison) \in Msg /\ IsInjective(Tail(Poison))
             /\ Head(Poison) \notin Range(Tail(Poison))
             /\ Range(Poison) = Range(Tail(Poison)) \cup {Head(Poison)}
  BY <1>0, <1>2, UniqueTail DEF OneCopy
<1>3. ASSUME UNCHANGED <<Topic, Poison, unsent>> PROVE OneCopy'
  BY <1>3 DEF OneCopy
<1>4. ASSUME NEW m \in Msg, PublishOrder(m) PROVE OneCopy'
  <2>1. m \in unsent /\ unsent' = unsent \ {m} /\ Topic' = Append(Topic, m) /\ Poison' = Poison
    BY <1>0, <1>4, ServiceMoves
  <2>2. IsInjective(Append(Topic, m)) /\ Range(Append(Topic, m)) = Range(Topic) \cup {m}
    BY <1>0, <2>1, UniqueAppend, RangeAppend DEF OneCopy
  <2>. QED  BY <2>1, <2>2 DEF OneCopy
<1>5. ASSUME StoreTrackingLink PROVE OneCopy'
  <2>1. Topic # <<>> /\ Topic' = Tail(Topic) /\ Poison' = Poison /\ unsent' = unsent
    BY <1>0, <1>5, ServiceMoves
  <2>. QED  BY <1>1, <2>1 DEF OneCopy
<1>6. ASSUME PublishToPoisonQueue PROVE OneCopy'
  <2>1. /\ Topic # <<>> /\ Topic' = Tail(Topic)
        /\ Poison' = Append(Poison, Head(Topic)) /\ unsent' = unsent
    BY <1>0, <1>6, ServiceMoves
  <2>2. PICK h \in Msg : h = Head(Topic)
    BY <1>1, <2>1
  <2>3. h \notin Range(Poison)
    BY <1>1, <2>1, <2>2 DEF OneCopy
  <2>4. IsInjective(Append(Poison, h)) /\ Range(Append(Poison, h)) = Range(Poison) \cup {h}
    BY <1>0, <2>3, UniqueAppend, RangeAppend DEF OneCopy
  <2>. QED  BY <1>1, <2>1, <2>2, <2>4 DEF OneCopy
<1>7. ASSUME PublishKept PROVE OneCopy'
  <2>1. /\ Poison # <<>> /\ Poison' = Append(Tail(Poison), Head(Poison))
        /\ Topic' = Topic /\ unsent' = unsent
    BY <1>0, <1>7, CommandMoves
  <2>2. PICK h \in Msg, r \in Seq(Msg) : h = Head(Poison) /\ r = Tail(Poison)
    BY <1>2, <2>1
  <2>3. IsInjective(r) /\ h \notin Range(r)
    BY <1>2, <2>1, <2>2
  <2>4. IsInjective(Append(r, h)) /\ Range(Append(r, h)) = Range(r) \cup {h}
    BY <2>3, UniqueAppend, RangeAppend
  <2>. QED  BY <1>2, <2>1, <2>2, <2>4 DEF OneCopy
<1>8. ASSUME PublishRequeued PROVE OneCopy'
  <2>1. /\ Poison # <<>> /\ Poison' = Tail(Poison)
        /\ Topic' = Append(Topic, Head(Poison)) /\ unsent' = unsent
    BY <1>0, <1>8, CommandMoves
  <2>2. PICK h \in Msg : h = Head(Poison)
    BY <1>2, <2>1
  <2>3. h \notin Range(Topic)
    BY <1>2, <2>1, <2>2 DEF OneCopy
  <2>4. IsInjective(Append(Topic, h)) /\ Range(Append(Topic, h)) = Range(Topic) \cup {h}
    BY <1>0, <2>3, UniqueAppend, RangeAppend DEF OneCopy
  <2>. QED  BY <1>2, <2>1, <2>2, <2>4 DEF OneCopy
<1>9. ASSUME RemoveMessage PROVE OneCopy'
  <2>1. Poison # <<>> /\ Poison' = Tail(Poison) /\ Topic' = Topic /\ unsent' = unsent
    BY <1>0, <1>9, CommandMoves
  <2>. QED  BY <1>2, <2>1 DEF OneCopy
<1>10. ASSUME UNCHANGED vars PROVE OneCopy'
  BY <1>3, <1>10 DEF vars, serviceVars, Topic, Poison, Published
<1>. QED
  BY <1>0, <1>3, <1>4, <1>5, <1>6, <1>7, <1>8, <1>9, <1>10, ServiceMoves, CommandMoves, EndMoves
  DEF Next, Service, Iterate

-----------------------------------------------------------------------------

LEMMA LaySame ==
  ASSUME NEW q, Poison' = q, NEW i \in 0 .. Size, Unread(q, i), Passed(q, i),
         start' = start, cmd' = cmd
  PROVE  (Unread(Poison, i) /\ Passed(Poison, i))'
BY DEF Unread, Passed, Before, Size

(* The command goes on by one message, if one is left.                     *)
Onward(i) == IF i < Size THEN i + 1 ELSE i

(* The head of the queue is no message that was read and left.             *)
NotRead(p, i) == \A a \in 1 .. i : start[a] # cmd.id => start[a] # Head(p)

LEMMA UnreadIsNotRead ==
  ASSUME start \in Seq(Msg), IsInjective(start), NEW p \in Seq(Msg), p # <<>>,
         NEW i \in 0 .. Size, Unread(p, i), i < Size
  PROVE  NotRead(p, i)
<1>1. Head(p) = start[i + 1] /\ i + 1 \in DOMAIN start
  BY DEF Unread, Size
<1>2. \A a \in 1 .. i : a \in DOMAIN start /\ a # i + 1
  BY DEF Size
<1>. QED  BY <1>1, <1>2 DEF NotRead, IsInjective

LEMMA LayDrop ==
  ASSUME start \in Seq(Msg), IsInjective(start), NEW p \in Seq(Msg), p # <<>>,
         NEW i \in 0 .. Size, Unread(p, i), Passed(p, i), Head(p) = cmd.id
  PROVE  /\ Unread(Tail(p), Onward(i)) /\ Passed(Tail(p), Onward(i))
         /\ \A a \in 1 .. Onward(i) : a \in 1 .. i \/ start[a] = Head(p)
<1>1. NotRead(p, i)
  BY DEF NotRead
<1>2. /\ Passed(Tail(p), i) /\ Unread(Tail(p), i + 1)
      /\ i < Size => Head(p) = start[i + 1]
  BY <1>1, LayTail DEF NotRead
<1>3. CASE i < Size
  BY <1>2, <1>3 DEF Onward, Passed
<1>4. CASE i = Size
  BY <1>2, <1>4 DEF Onward, Unread, Size
<1>. QED  BY <1>3, <1>4 DEF Size

LEMMA LayKeep ==
  ASSUME start \in Seq(Msg), IsInjective(start), NEW p \in Seq(Msg), p # <<>>,
         NEW i \in 0 .. Size, Unread(p, i), Passed(p, i), NotRead(p, i)
  PROVE  LET q == Append(Tail(p), Head(p))
         IN  /\ Unread(q, Onward(i)) /\ Passed(q, Onward(i))
             /\ \A a \in 1 .. Onward(i) : a \in 1 .. i \/ start[a] = Head(p)
<1>1. /\ Passed(Tail(p), i) /\ Unread(Tail(p), i + 1)
      /\ i < Size => Head(p) = start[i + 1]
  BY LayTail DEF NotRead
<1>2. PICK h \in Msg, r \in Seq(Msg) : h = Head(p) /\ r = Tail(p)
  BY RangeTail
<1>3. Passed(Append(r, h), i)
  BY <1>1, <1>2, LayAppend
<1>4. CASE i < Size
  <2>1. Unread(Append(r, h), i + 1)
    <3>1. i + 1 \in 0 .. Size
      BY <1>4 DEF Size
    <3>. QED  BY <1>1, <1>2, <3>1, LayAppend
  <2>2. \A a \in 1 .. i : start[a] # cmd.id =>
          start[a] \in Range(r) /\ Before(Append(r, h), start[a], h)
    BY <1>1, <1>2, BeforeLast DEF Passed
  <2>3. h \in Range(Append(r, h))
    BY RangeAppend
  <2>4. Passed(Append(r, h), i + 1)
    <3>1. \A a \in 1 .. i + 1 : a \in 1 .. i \/ (a = i + 1 /\ start[a] = h)
      BY <1>1, <1>2, <1>4
    <3>2. \A a, b \in 1 .. i + 1 : a < b => a \in 1 .. i
      OBVIOUS
    <3>. QED  BY <1>3, <2>2, <2>3, <3>1, <3>2 DEF Passed
  <2>. QED  BY <1>1, <1>2, <1>4, <2>1, <2>4 DEF Onward
<1>5. CASE i = Size
  BY <1>2, <1>3, <1>5 DEF Onward, Unread, Size
<1>. QED  BY <1>4, <1>5 DEF Size

(* After the last of them and before the first comes back, only messages   *)
(* that came in meanwhile are at the head.                                 *)
LEMMA LastIsNotRead ==
  ASSUME start \in Seq(Msg), start # <<>>, NEW p \in Seq(Msg), p # <<>>, IsInjective(p),
         Passed(p, Size), start[1] # cmd.id, Head(p) # start[1]
  PROVE  NotRead(p, Size)
<1> SUFFICES ASSUME NEW a \in 1 .. Size, start[a] # cmd.id
             PROVE  start[a] # Head(p)
  BY DEF NotRead
<1>1. CASE a = 1
  BY <1>1
<1>2. CASE a # 1
  <2>1. 1 \in 1 .. Size /\ 1 < a
    BY <1>2 DEF Size
  <2>2. Before(p, start[1], start[a])
    BY <2>1 DEF Passed
  <2>. QED  BY <2>2, NotBeforeHead
<1>. QED  BY <1>1, <1>2

(* A round is complete when it is done. *)
LEMMA DoneIsComplete ==
  ASSUME TypeOK, start # <<>>, NEW i \in 0 .. Size, Halfway(i), done, cli = "iterating",
         cmd.kind = "preview" => cmd.id = None
  PROVE  /\ cmd.kind = "preview" => Range(start) \subseteq messages
         /\ cmd.kind # "preview" /\ cmd.id \in Range(start) => found
         /\ \A a, b \in DOMAIN start :
              a < b /\ cmd.id \notin {start[a], start[b]} =>
                Before(poison, start[a], start[b])
<1>0. /\ start \in Seq(Msg) /\ poison \in Seq(Msg) /\ Poison = poison
      /\ DOMAIN start = 1 .. Size /\ Size \in Nat /\ Size > 0
  BY QueueTypes DEF TypeOK, Size
<1>1. CASE i = Size
  BY <1>0, <1>1 DEF Halfway, Passed, Noted, Range
<1>2. CASE i = 1 /\ start[1] = cmd.id
  <2>1. cmd.id \in Msg /\ cmd.kind # "preview" /\ found
    BY <1>0, <1>2, NoneAssumption DEF Halfway, Noted
  <2>2. ASSUME NEW a \in DOMAIN start, NEW b \in DOMAIN start, a < b,
               cmd.id \notin {start[a], start[b]}
        PROVE  Before(poison, start[a], start[b])
    <3>1. a \in 1 + 1 .. Size /\ b \in 1 + 1 .. Size
      BY <1>0, <1>2, <2>2
    <3>2. /\ a - 1 \in DOMAIN poison /\ poison[a - 1] = start[a]
          /\ b - 1 \in DOMAIN poison /\ poison[b - 1] = start[b]
      BY <1>0, <1>2, <3>1 DEF Halfway, Unread
    <3>3. a - 1 < b - 1
      BY <2>2, <3>1
    <3>. QED  BY <3>2, <3>3 DEF Before
  <2>. QED  BY <2>1, <2>2
<1>. QED  BY <1>1, <1>2 DEF Halfway, FirstRead

-----------------------------------------------------------------------------

(* What is complete stays so while messages come in. *)
LEMMA CompleteStays ==
  ASSUME TypeOK, CompleteRound, faults = 0, NEW x \in Msg,
         UNCHANGED <<cmd, messages, start, found, ending>>,
         poison' = poison \/ poison' = Append(poison, x)
  PROVE  CompleteRound'
<1>1. ASSUME NEW a \in DOMAIN start, NEW b \in DOMAIN start, Before(poison, start[a], start[b])
      PROVE  Before(poison, start[a], start[b])'
  <2>1. Before(Append(poison, x), start[a], start[b])
    BY <1>1, BeforeAppend DEF TypeOK
  <2>. QED  BY <1>1, <2>1 DEF Before
<1>. QED  BY <1>1 DEF CompleteRound, Before

(* The service does nothing to a round. *)
LEMMA ServiceKeepsRound ==
  ASSUME IInv, OneCopy, RoundInv, faults = 0,
         Service \/ \E m \in Msg : PublishOrder(m)
  PROVE  RoundInv'
<1>0. /\ TypeOK /\ poison \in Seq(Msg) /\ Topic \in Seq(Msg) /\ Poison \in Seq(Msg)
      /\ start \in Seq(Msg)
  BY QueueTypes DEF IInv, TypeOK
<1>1. UNCHANGED <<cli, cmd, firstMessageUUID, done, found, messages, start, ending>>
  BY DEF Service, PublishOrder, StoreTrackingLink, PublishToPoisonQueue, AckPoisoned, loopVars
<1>2. PICK x \in Msg :
        /\ poison' = poison \/ poison' = Append(poison, x)
        /\ Poison' = Poison \/ Poison' = Append(Poison, x)
  <2>1. CASE PublishToPoisonQueue
    <3>1. PICK h \in Msg : h = Head(topic) /\ h = Head(Topic)
      BY <1>0, <2>1, RangeTail DEF PublishToPoisonQueue, Topic, TypeOK
    <3>. QED  BY <1>0, <2>1, <3>1, ServiceMoves DEF PublishToPoisonQueue
  <2>2. CASE StoreTrackingLink
    <3>1. Head(topic) \in Msg
      BY <2>2, <1>0, RangeTail DEF StoreTrackingLink, TypeOK
    <3>. QED  BY <1>0, <2>2, <3>1, ServiceMoves DEF StoreTrackingLink
  <2>3. CASE AckPoisoned
    <3>1. Head(topic) \in Msg
      BY <2>3, <1>0, RangeTail DEF AckPoisoned, TypeOK
    <3>. QED  BY <1>0, <2>3, <3>1, ServiceMoves DEF AckPoisoned
  <2>4. CASE \E m \in Msg : PublishOrder(m)
    BY <1>0, <2>4, ServiceMoves DEF PublishOrder
  <2>. QED  BY <2>1, <2>2, <2>3, <2>4 DEF Service
<1>3. CompleteRound'
  BY <1>0, <1>1, <1>2, CompleteStays DEF RoundInv
<1>4. ASSUME cli # "idle", start # <<>>, NEW i \in 0 .. Size, Halfway(i)
      PROVE  Halfway(i)'
  <2>1. (Unread(Poison, i) /\ Passed(Poison, i))'
    <3>1. PICK p \in Seq(Msg) : p = Poison
      BY <1>0
    <3>2. Unread(p, i) /\ Passed(p, i)
      BY <1>4, <3>1 DEF Halfway
    <3>3. Unread(Append(p, x), i) /\ Passed(Append(p, x), i)
      BY <1>0, <3>2, LayAppend
    <3>4. CASE Poison' = p
      BY <1>1, <3>2, <3>4, LaySame
    <3>5. CASE Poison' = Append(p, x)
      BY <1>1, <3>3, <3>5, LaySame
    <3>. QED  BY <1>2, <3>1, <3>4, <3>5
  <2>2. cli # "iterating" => Head(poison') = Head(poison)
    <3>1. cli # "iterating" => poison # <<>>
      BY <1>0, <1>4 DEF TypeOK
    <3>2. poison # <<>> => Head(Append(poison, x)) = Head(poison)
      BY <1>0
    <3>. QED  BY <1>2, <3>1, <3>2
  <2>3. Noted(i)' /\ FirstRead(i)' /\ InHand'
    BY <1>1, <1>4, <2>2 DEF Halfway, Noted, FirstRead, InHand, Size
  <2>4. IsInjective(start)'
    BY <1>1, <1>4 DEF Halfway
  <2>. QED  BY <1>1, <1>4, <2>1, <2>2, <2>3, <2>4 DEF Halfway
<1>5. Size' = Size
  BY <1>1 DEF Size
<1>. QED  BY <1>1, <1>3, <1>4, <1>5 DEF RoundInv

LEMMA StartsRound ==
  ASSUME IInv, OneCopy, RoundInv, NEW c \in Command, StartCommand(c[1], c[2])
  PROVE  RoundInv'
<1>0. TypeOK /\ start' \in Seq(Msg)
  BY DEF IInv, TypeOK, StartCommand
<1>1. /\ start' = Poison' /\ IsInjective(Poison)' /\ cli' = "iterating" /\ ending' = "none"
      /\ firstMessageUUID' = None /\ done' = FALSE
  BY DEF StartCommand, OneCopy, Poison, Published
<1>2. (cmd.kind = "preview" => cmd.id = None)'
  BY DEF Command, StartCommand
<1>3. Halfway(0)'
  <2>1. Unread(Poison, 0)'
    BY <1>0, <1>1 DEF Unread, Size
  <2>2. Passed(Poison, 0)' /\ Noted(0)'
    BY DEF Passed, Noted
  <2>3. FirstRead(0)' /\ InHand'
    BY <1>1 DEF FirstRead, InHand
  <2>. QED  BY <1>1, <2>1, <2>2, <2>3 DEF Halfway
<1>4. 0 \in 0 .. Size'
  BY <1>0 DEF Size
<1>. QED  BY <1>1, <1>2, <1>3, <1>4 DEF RoundInv, CompleteRound

(* The steps of a command that leave the queues as they are. *)
LEMMA QuietKeepsRound ==
  ASSUME IInv, OneCopy, RoundInv,
         FirstAgain \/ StopRouter \/ KeepMessage \/ RequeueMessage \/ AckKept \/ AckRequeued
  PROVE  RoundInv'
<1>0. /\ TypeOK /\ poison \in Seq(Msg) /\ Poison \in Seq(Msg) /\ start \in Seq(Msg)
      /\ (cli \in {"iterating", "keeping", "requeueing"} => Poison = poison)
  BY QueueTypes DEF IInv, TypeOK
<1>1. /\ Poison' = Poison /\ UNCHANGED <<cmd, start>> /\ cli # "idle" /\ Size' = Size
  BY <1>0, CommandMoves
  DEF FirstAgain, StopRouter, KeepMessage, RequeueMessage, AckKept, AckRequeued,
      Delivered, Acts, loopVars, Size
<1>2. (cmd.kind = "preview" => cmd.id = None)'
  BY <1>1 DEF RoundInv
<1>3. CASE StopRouter
  <2>1. /\ cli = "iterating" /\ done /\ cli' = "idle" /\ ending' = "round"
        /\ UNCHANGED <<poison, cmd, messages, found, start>>
    BY <1>3 DEF StopRouter, Delivered, End, loopVars
  <2>2. CompleteRound'
    <3>1. CASE start = <<>>
      BY <2>1, <3>1 DEF CompleteRound, Range
    <3>2. CASE start # <<>>
      <4>1. PICK i \in 0 .. Size : Halfway(i)
        BY <2>1, <3>2 DEF RoundInv
      <4>2. cmd.kind = "preview" => cmd.id = None
        BY DEF RoundInv
      <4>3. /\ cmd.kind = "preview" => Range(start) \subseteq messages
            /\ cmd.kind # "preview" /\ cmd.id \in Range(start) => found
            /\ \A a, b \in DOMAIN start :
                 a < b /\ cmd.id \notin {start[a], start[b]} =>
                   Before(poison, start[a], start[b])
        BY <1>0, <2>1, <3>2, <4>1, <4>2, DoneIsComplete
      <4>. QED  BY <2>1, <4>3 DEF CompleteRound, Before
    <3>. QED  BY <3>1, <3>2
  <2>. QED  BY <1>2, <2>1, <2>2 DEF RoundInv
<1>4. ASSUME ~StopRouter
      PROVE  ending' = "none" /\ CompleteRound'
  <2>1. ending' = "none"
    BY <1>1, <1>4 DEF FirstAgain, KeepMessage, RequeueMessage, AckKept, AckRequeued, Acts, RoundInv
  <2>. QED  BY <2>1 DEF CompleteRound
<1>5. ASSUME ~StopRouter, start # <<>>, NEW i \in 0 .. Size, Halfway(i)
      PROVE  Halfway(i)'
  <2>1. (Unread(Poison, i) /\ Passed(Poison, i))'
    <3>1. PICK p : p = Poison
      OBVIOUS
    <3>. QED  BY <1>1, <1>5, <3>1, LaySame DEF Halfway
  <2>2. IsInjective(start)'
    BY <1>1, <1>5 DEF Halfway
  <2>3. /\ poison # <<>> => Head(poison) = poison[1]
        /\ start[1] \in Msg /\ 1 \in 1 .. Size /\ DOMAIN start = 1 .. Size /\ Size \in Nat
    BY <1>0, <1>5 DEF Size
  <2>4. i < Size /\ Poison = poison => Head(poison) = start[i + 1]
    BY <1>0, <1>5, <2>3 DEF Halfway, Unread, Size
  <2>5. CASE FirstAgain
    <3>1. /\ cli = "iterating" /\ cli' = "iterating" /\ Head(poison) = firstMessageUUID
          /\ Head(poison) \in Msg
          /\ UNCHANGED <<messages, found, firstMessageUUID>>
      BY <1>0, <2>5, RangeTail DEF FirstAgain, Delivered
    <3>2. i > 0 /\ Head(poison) = start[1]
      BY <1>5, <3>1, NoneAssumption DEF Halfway, FirstRead
    <3>3. i = Size
      <4>1. i < Size => i + 1 = 1
        BY <1>0, <1>5, <2>3, <2>4, <3>1, <3>2 DEF Halfway, IsInjective
      <4>. QED  BY <2>3, <3>2, <4>1
    <3>4. FirstRead(i)' /\ InHand' /\ Noted(i)'
      BY <1>1, <1>5, <2>5, <3>1, <3>2, <3>3 DEF Halfway, FirstRead, InHand, Noted, FirstAgain
    <3>. QED  BY <2>1, <2>2, <3>1, <3>4 DEF Halfway
  <2>6. CASE KeepMessage \/ RequeueMessage
    <3>1. /\ cli = "iterating" /\ ~done /\ done' = done /\ poison # <<>> /\ poison' = poison
          /\ Head(poison) # firstMessageUUID
          /\ firstMessageUUID' =
               IF firstMessageUUID = None THEN Head(poison) ELSE firstMessageUUID
          /\ messages' = messages \cup {Head(poison)}
          /\ Head(poison) \in Msg
      BY <1>0, <2>6, RangeTail DEF KeepMessage, RequeueMessage, Acts, Delivered, IsFirst
    <3>2. /\ firstMessageUUID = None => i = 0 /\ Head(poison) = start[1]
          /\ firstMessageUUID # None => i > 0 /\ firstMessageUUID = start[1]
      BY <1>0, <1>5, <2>3, <2>4, <3>1 DEF Halfway, FirstRead
    <3>3. ~(start[1] = cmd.id /\ i > 0)
      BY <1>5, <3>1 DEF Halfway, FirstRead
    <3>4. CASE KeepMessage
      <4>1. cli' = "keeping" /\ found' = found /\ Head(poison) # cmd.id
        <5>1. cmd.kind = "preview" => Head(poison) # cmd.id
          BY <3>1, NoneAssumption DEF RoundInv
        <5>. QED  BY <1>0, <3>4, <5>1 DEF KeepMessage, Asked, TypeOK, Kinds
      <4>2. FirstRead(i)'
        BY <1>1, <2>3, <3>1, <3>2, <3>3, <4>1, NoneAssumption DEF FirstRead
      <4>3. InHand' /\ Noted(i)'
        BY <1>1, <1>5, <3>1, <4>1 DEF Halfway, Noted, InHand
      <4>. QED  BY <2>1, <2>2, <3>1, <3>2, <4>2, <4>3 DEF Halfway
    <3>5. CASE RequeueMessage
      <4>1. cli' = "requeueing" /\ found' = TRUE /\ Head(poison) = cmd.id
        BY <3>5 DEF RequeueMessage, Asked
      <4>2. FirstRead(i)'
        BY <1>1, <2>3, <3>1, <3>2, <3>3, <4>1, NoneAssumption DEF FirstRead
      <4>3. InHand' /\ Noted(i)'
        BY <1>1, <1>5, <3>1, <4>1 DEF Halfway, Noted, InHand
      <4>. QED  BY <2>1, <2>2, <4>1, <4>2, <4>3 DEF Halfway
    <3>. QED  BY <2>6, <3>4, <3>5
  <2>7. CASE AckKept
    <3>1. /\ cli = "kept" /\ cli' = "iterating"
          /\ UNCHANGED <<messages, found, firstMessageUUID, done>>
      BY <2>7 DEF AckKept, loopVars
    <3>2. FirstRead(i)' /\ InHand' /\ Noted(i)'
      BY <1>1, <1>5, <3>1 DEF Halfway, FirstRead, InHand, Noted
    <3>. QED  BY <2>1, <2>2, <3>1, <3>2 DEF Halfway
  <2>8. CASE AckRequeued
    <3>1. /\ cli = "requeued" /\ cli' = "iterating"
          /\ UNCHANGED <<messages, found, firstMessageUUID>>
          /\ Head(poison) = cmd.id /\ done' = (Head(poison) = firstMessageUUID)
      BY <1>5, <2>8 DEF AckRequeued, Halfway, InHand
    <3>2. i > 0 /\ firstMessageUUID = start[1]
      BY <1>5, <3>1 DEF Halfway, FirstRead
    <3>3. start[1] = cmd.id => i = 1
      BY <1>5, <3>2 DEF Halfway, FirstRead
    <3>4. done' <=> start[1] = cmd.id
      BY <3>1, <3>2
    <3>5. FirstRead(i)' /\ InHand' /\ Noted(i)'
      <4>1. Noted(i)' /\ InHand'
        BY <1>1, <1>5, <3>1 DEF Halfway, InHand, Noted
      <4>2. FirstRead(i)'
        BY <1>1, <1>5, <3>1, <3>2, <3>3, <3>4 DEF Halfway, FirstRead
      <4>. QED  BY <4>1, <4>2
    <3>. QED  BY <2>1, <2>2, <3>1, <3>5 DEF Halfway
  <2>. QED  BY <1>5, <2>5, <2>6, <2>7, <2>8
<1>6. ASSUME ~StopRouter, start # <<>> PROVE \E i \in 0 .. Size' : Halfway(i)'
  <2>1. PICK i \in 0 .. Size : Halfway(i)
    BY <1>1, <1>6 DEF RoundInv
  <2>. QED  BY <1>1, <1>5, <1>6, <2>1
<1>. QED  BY <1>1, <1>2, <1>3, <1>4, <1>6 DEF RoundInv

-----------------------------------------------------------------------------

(* What keeping a message does: it goes to the tail. *)
LEMMA KeepingKeepsRound ==
  ASSUME IInv, OneCopy, RoundInv, PublishKept
  PROVE  RoundInv'
<1>0. /\ TypeOK /\ poison \in Seq(Msg) /\ Poison \in Seq(Msg) /\ start \in Seq(Msg)
      /\ Poison = poison /\ poison # <<>>
      /\ Poison' = Append(Tail(Poison), Head(Poison))
  BY QueueTypes, CommandMoves DEF IInv, TypeOK
<1>1. /\ cli = "keeping" /\ cli' = "kept"
      /\ UNCHANGED <<cmd, firstMessageUUID, done, found, messages, start, ending>>
      /\ Size' = Size
  BY DEF PublishKept, loopVars, Size
<1>2. /\ ending' = "none" /\ (cmd.kind = "preview" => cmd.id = None)' /\ CompleteRound'
  BY <1>1 DEF RoundInv, CompleteRound
<1>3. ASSUME start # <<>>, NEW i \in 0 .. Size, Halfway(i)
      PROVE  \E j \in 0 .. Size : Halfway(j)'
  <2>1. PICK p \in Seq(Msg) : p = Poison
    BY <1>0
  <2>2. PICK q : q = Append(Tail(p), Head(p))
    OBVIOUS
  <2>3. /\ p # <<>> /\ IsInjective(p) /\ IsInjective(start)
        /\ Unread(p, i) /\ Passed(p, i) /\ ~done
        /\ Head(p) # cmd.id /\ Head(p) \in messages
        /\ i > 0 => Head(p) # firstMessageUUID
    BY <1>0, <1>1, <1>3, <2>1 DEF Halfway, InHand, OneCopy
  <2>4. Size \in Nat /\ Size > 0
    BY <1>0, <1>3 DEF Size
  <2>5. /\ firstMessageUUID = start[1]
        /\ ~(start[1] = cmd.id /\ i > 0)
    BY <1>1, <1>3, <2>3 DEF Halfway, FirstRead
  <2>6. NotRead(p, i)
    <3>1. CASE i < Size
      BY <1>0, <2>3, <3>1, UnreadIsNotRead
    <3>2. CASE i = Size
      BY <1>0, <1>3, <2>3, <2>4, <2>5, <3>2, LastIsNotRead
    <3>. QED  BY <2>4, <3>1, <3>2
  <2>7. PICK j : j = Onward(i)
    OBVIOUS
  <2>8. j \in 0 .. Size /\ j > 0 /\ (start[1] # cmd.id \/ j = 1)
    BY <2>4, <2>5, <2>7 DEF Onward
  <2>9. /\ Unread(q, j) /\ Passed(q, j)
        /\ \A a \in 1 .. j : a \in 1 .. i \/ start[a] = Head(p)
    BY <1>0, <2>2, <2>3, <2>6, <2>7, LayKeep
  <2>10. (Unread(Poison, j) /\ Passed(Poison, j))'
    BY <1>0, <1>1, <2>1, <2>2, <2>8, <2>9, LaySame
  <2>11. start[1] # cmd.id
    <3>1. ASSUME i = 0 PROVE Head(p) = start[1]
      <4>1. 1 \in i + 1 .. Size /\ Head(p) = p[1]
        BY <2>3, <2>4, <3>1
      <4>. QED  BY <2>3, <3>1, <4>1 DEF Unread
    <3>. QED  BY <2>3, <2>5, <3>1
  <2>12. Noted(j)'
    BY <1>1, <1>3, <2>3, <2>9 DEF Halfway, Noted
  <2>13. FirstRead(j)' /\ InHand'
    <3>1. start[1] \in Msg
      BY <1>0, <2>4 DEF Size
    <3>. QED
      BY <1>1, <2>3, <2>5, <2>8, <2>11, <3>1, NoneAssumption DEF FirstRead, InHand
  <2>. QED  BY <1>1, <2>3, <2>8, <2>10, <2>12, <2>13 DEF Halfway
<1>4. start # <<>> => \E i \in 0 .. Size : Halfway(i)
  BY <1>1 DEF RoundInv
<1>. QED  BY <1>1, <1>2, <1>3, <1>4 DEF RoundInv

(* The message that was asked for leaves. *)
LEMMA LeavingKeepsRound ==
  ASSUME IInv, OneCopy, RoundInv, RemoveMessage \/ PublishRequeued
  PROVE  RoundInv'
<1>0. /\ TypeOK /\ poison \in Seq(Msg) /\ Poison \in Seq(Msg) /\ start \in Seq(Msg)
      /\ Poison = poison /\ poison # <<>> /\ Poison' = Tail(Poison)
  BY QueueTypes, CommandMoves DEF IInv, TypeOK
<1>1. /\ cli # "idle" /\ UNCHANGED <<cmd, start, ending>> /\ Size' = Size
  BY DEF RemoveMessage, Acts, Delivered, PublishRequeued, loopVars, Size
<1>2. /\ ending' = "none" /\ (cmd.kind = "preview" => cmd.id = None)' /\ CompleteRound'
  BY <1>1 DEF RoundInv, CompleteRound
<1>3. ASSUME start # <<>>, NEW i \in 0 .. Size, Halfway(i)
      PROVE  \E j \in 0 .. Size : Halfway(j)'
  <2>1. PICK p \in Seq(Msg) : p = Poison
    BY <1>0
  <2>2. PICK q : q = Tail(p)
    OBVIOUS
  <2>3. /\ p # <<>> /\ IsInjective(p) /\ IsInjective(start)
        /\ Unread(p, i) /\ Passed(p, i) /\ ~done
    BY <1>0, <1>3, <2>1 DEF Halfway, InHand, OneCopy, RemoveMessage, Acts, PublishRequeued
  <2>4. /\ Head(p) = cmd.id /\ Head(p) \in messages' /\ found' = TRUE
        /\ messages \subseteq messages'
    BY <1>0, <1>3, <2>1
    DEF Halfway, InHand, RemoveMessage, Acts, Asked, PublishRequeued, loopVars
  <2>5. Size \in Nat /\ Size > 0
    BY <1>0, <1>3 DEF Size
  <2>6. PICK j : j = Onward(i)
    OBVIOUS
  <2>7. j \in 0 .. Size /\ j > 0
    BY <2>5, <2>6 DEF Onward
  <2>8. /\ Unread(q, j) /\ Passed(q, j)
        /\ \A a \in 1 .. j : a \in 1 .. i \/ start[a] = Head(p)
    BY <1>0, <2>2, <2>3, <2>4, <2>6, LayDrop
  <2>9. (Unread(Poison, j) /\ Passed(Poison, j))'
    BY <1>0, <1>1, <2>1, <2>2, <2>7, <2>8, LaySame
  <2>10. Noted(j)'
    BY <1>1, <1>3, <2>4, <2>8 DEF Halfway, Noted
  <2>11. i = 0 => j = 1 /\ Head(p) = start[1]
    <3> SUFFICES ASSUME i = 0 PROVE j = 1 /\ Head(p) = start[1]
      OBVIOUS
    <3>1. j = 1 /\ 1 \in i + 1 .. Size /\ Head(p) = p[1]
      BY <2>3, <2>5, <2>6 DEF Onward
    <3>. QED  BY <2>3, <3>1 DEF Unread
  <2>12. CASE PublishRequeued
    <3>1. /\ cli = "requeueing" /\ cli' = "requeued" /\ poison' = poison
          /\ UNCHANGED <<firstMessageUUID, done, found, messages>>
      BY <2>12 DEF PublishRequeued, loopVars
    <3>2. /\ firstMessageUUID = start[1] /\ ~(start[1] = cmd.id /\ i > 0)
      BY <1>3, <2>3, <3>1 DEF Halfway, FirstRead
    <3>3. start[1] = cmd.id => j = 1
      BY <2>11, <3>2
    <3>4. FirstRead(j)'
      BY <1>0, <1>1, <1>3, <2>3, <2>7, <3>1, <3>2, <3>3, NoneAssumption
      DEF FirstRead, Halfway, TypeOK
    <3>5. InHand'
      BY <1>0, <1>1, <2>1, <2>3, <2>4, <3>1 DEF InHand
    <3>. QED  BY <1>1, <2>3, <2>7, <2>9, <2>10, <3>1, <3>4, <3>5 DEF Halfway
  <2>13. CASE RemoveMessage
    <3>1. /\ cli = "iterating" /\ cli' = "iterating"
          /\ done' = IsFirst
          /\ firstMessageUUID' = IF IsFirst THEN Head(p) ELSE firstMessageUUID
      BY <1>0, <2>1, <2>13 DEF RemoveMessage, Acts, Delivered
    <3>2. /\ IsFirst => i = 0
          /\ ~IsFirst => i > 0 /\ firstMessageUUID = start[1] /\ start[1] # cmd.id
      BY <1>3, <2>3, <3>1 DEF Halfway, FirstRead, IsFirst
    <3>3. /\ IsFirst => done' /\ j = 1 /\ start[1] = cmd.id /\ firstMessageUUID' = start[1]
          /\ ~IsFirst => ~done' /\ start[1] # cmd.id /\ firstMessageUUID' = start[1]
      BY <2>4, <2>11, <3>1, <3>2
    <3>4. start[1] \in Msg
      BY <1>0, <2>5 DEF Size
    <3>5. FirstRead(j)'
      BY <1>1, <2>7, <3>1, <3>3, <3>4, NoneAssumption DEF FirstRead
    <3>6. InHand'
      BY <3>1 DEF InHand
    <3>. QED  BY <1>1, <2>3, <2>7, <2>9, <2>10, <3>1, <3>5, <3>6 DEF Halfway
  <2>. QED  BY <2>7, <2>12, <2>13
<1>4. start # <<>> => \E i \in 0 .. Size : Halfway(i)
  BY <1>1 DEF RoundInv
<1>. QED  BY <1>1, <1>2, <1>3, <1>4 DEF RoundInv

LEMMA InitCInv == Init => CInv
<1> SUFFICES ASSUME Init PROVE CInv
  OBVIOUS
<1>1. topic = <<>> /\ poison = <<>> /\ Topic = <<>> /\ Poison = <<>> /\ Range(<<>>) = {}
  BY DEF Init, Topic, Poison, Published, Range
<1>2. OneCopy
  BY <1>1 DEF OneCopy, IsInjective
<1>3. RoundInv
  BY DEF Init, RoundInv, CompleteRound
<1>. QED  BY <1>2, <1>3 DEF CInv

LEMMA NextCInv == IInv /\ CInv /\ [Next]_vars => CInv'
<1> SUFFICES ASSUME IInv, CInv, [Next]_vars, faults' = 0 PROVE OneCopy' /\ RoundInv'
  BY DEF CInv
<1>1. faults = 0 /\ TypeOK
  <2>1. faults \in Nat /\ (faults' = faults \/ faults' = faults + 1)
    BY DEF IInv, TypeOK, Next, vars, Service, PublishOrder, StoreTrackingLink,
           PublishToPoisonQueue, AckPoisoned, ServiceCrash, StartCommand, Iterate, FirstAgain,
           StopRouter, KeepMessage, RemoveMessage, RequeueMessage, Acts, PublishKept, AckKept,
           PublishRequeued, AckRequeued, PublishFails, Timeout, CliCrash, Fault
  <2>. QED  BY <2>1 DEF IInv
<1>2. OneCopy /\ RoundInv
  BY <1>1 DEF CInv
<1>3. OneCopy'
  BY <1>1, <1>2, StepOneCopy
<1>4. CASE UNCHANGED vars
  <2>1. UNCHANGED <<cli, cmd, firstMessageUUID, done, found, messages, start, ending, faults,
                    poison, Poison, Size>>
    BY <1>4 DEF vars, loopVars, Poison, Published, Size
  <2>2. \A i \in 0 .. Size : Halfway(i) => Halfway(i)'
    BY <2>1 DEF Halfway, Unread, Passed, Noted, FirstRead, InHand, Before
  <2>. QED  BY <1>2, <1>3, <2>1, <2>2 DEF RoundInv, CompleteRound
<1>5. CASE Timeout
  <2>1. cli' = "idle" /\ ending' = "timeout" /\ cmd' = cmd
    BY <1>5 DEF Timeout, End, loopVars
  <2>. QED  BY <1>2, <1>3, <2>1 DEF RoundInv, CompleteRound
<1>6. CASE Service \/ \E m \in Msg : PublishOrder(m)
  BY <1>1, <1>2, <1>3, <1>6, ServiceKeepsRound
<1>7. CASE \E c \in Command : StartCommand(c[1], c[2])
  BY <1>2, <1>3, <1>7, StartsRound
<1>8. CASE Iterate
  BY <1>2, <1>3, <1>8, QuietKeepsRound, KeepingKeepsRound, LeavingKeepsRound DEF Iterate
<1>. QED  BY <1>1, <1>3, <1>4, <1>5, <1>6, <1>7, <1>8, EndMoves DEF Next

(* iterate, preview, remove and requeue: a command that ends by itself     *)
(* when no publishing failed and nothing stopped half-way has seen all the *)
(* messages it found, has found the one it was given, and leaves the       *)
(* others in their order, whatever the service poisons meanwhile.          *)
THEOREM RoundsAreComplete == Spec => []CompleteRound
<1>1. IInv /\ CInv => CompleteRound
  BY DEF CInv, RoundInv, CompleteRound
<1>2. Spec => [](IInv /\ CInv)
  BY InitIInv, NextIInv, InitCInv, NextCInv, PTL DEF Spec
<1>. QED  BY <1>1, <1>2, PTL

-----------------------------------------------------------------------------

One(b) == IF b THEN 1 ELSE 0

(* The copies of m that will be left once what was published is            *)
(* acknowledged, the one still to be published among them.                 *)
Total(m) == Count(Topic, m) + Count(Poison, m) + One(m \in unsent)

CopiesInv == \A m \in Msg : Total(m) <= 1 + faults

LEMMA InitCopies == Init => CopiesInv
<1> SUFFICES ASSUME Init, NEW m \in Msg PROVE Total(m) <= 1 + faults
  BY DEF CopiesInv
<1>1. Topic = <<>> /\ Poison = <<>> /\ faults = 0 /\ unsent = Msg
  BY DEF Init, Topic, Poison, Published
<1>2. Count(<<>>, m) = 0
  <2>1. {i \in DOMAIN <<>> : <<>>[i] = m} = {}
    OBVIOUS
  <2>. QED  BY <2>1, FS_EmptySet DEF Count
<1>. QED  BY <1>1, <1>2 DEF Total, One

(* A queue has one copy more at most while the one that was published is   *)
(* not acknowledged.                                                       *)
LEMMA CountsUnderWay ==
  ASSUME TypeOK, NEW m \in Msg
  PROVE  /\ Count(Topic, m) \in Nat /\ Count(Poison, m) \in Nat
         /\ Count(topic, m) \in Nat /\ Count(poison, m) \in Nat
         /\ Count(topic, m) <= Count(Topic, m) + One(service = "poisoned")
         /\ Count(poison, m) <= Count(Poison, m) + One(Published)
<1>1. /\ topic \in Seq(Msg) /\ poison \in Seq(Msg)
      /\ Topic \in Seq(Msg) /\ Poison \in Seq(Msg)
      /\ service = "poisoned" => topic # <<>>
      /\ Published => poison # <<>>
  BY QueueTypes DEF TypeOK, Published
<1>2. /\ Count(Topic, m) \in Nat /\ Count(Poison, m) \in Nat
      /\ Count(topic, m) \in Nat /\ Count(poison, m) \in Nat
  BY <1>1, CountFinite
<1>3. Count(topic, m) <= Count(Topic, m) + One(service = "poisoned")
  <2>1. CASE service = "poisoned"
    <3>1. Count(topic, m) = Count(Tail(topic), m) + (IF m = Head(topic) THEN 1 ELSE 0)
      BY <1>1, <2>1, CountTail
    <3>. QED  BY <1>2, <2>1, <3>1 DEF Topic, One
  <2>2. CASE service # "poisoned"
    BY <1>2, <2>2 DEF Topic, One
  <2>. QED  BY <2>1, <2>2
<1>4. Count(poison, m) <= Count(Poison, m) + One(Published)
  <2>1. CASE Published
    <3>1. Count(poison, m) = Count(Tail(poison), m) + (IF m = Head(poison) THEN 1 ELSE 0)
      BY <1>1, <2>1, CountTail
    <3>. QED  BY <1>2, <2>1, <3>1 DEF Poison, One
  <2>2. CASE ~Published
    BY <1>2, <2>2 DEF Poison, One
  <2>. QED  BY <2>1, <2>2
<1>. QED  BY <1>2, <1>3, <1>4

(* Only a failure makes a copy, and only one. *)
LEMMA StepCopies ==
  ASSUME IInv, CopiesInv, [Next]_vars
  PROVE  CopiesInv'
<1> SUFFICES ASSUME NEW m \in Msg PROVE Total(m)' <= 1 + faults'
  BY DEF CopiesInv
<1>0. /\ TypeOK /\ Topic \in Seq(Msg) /\ Poison \in Seq(Msg) /\ faults \in Nat
      /\ Count(Topic, m) \in Nat /\ Count(Poison, m) \in Nat
      /\ Total(m) <= 1 + faults
  BY QueueTypes, CountsUnderWay DEF IInv, TypeOK, CopiesInv
<1>1. ASSUME NEW t \in Seq(Msg), t # <<>>
      PROVE  /\ Tail(t) \in Seq(Msg) /\ Head(t) \in Msg /\ Count(Tail(t), m) \in Nat
             /\ Count(t, m) = Count(Tail(t), m) + One(m = Head(t))
  BY <1>1, RangeTail, CountTail, CountFinite DEF One
<1>2. ASSUME NEW t \in Seq(Msg), NEW x \in Msg
      PROVE  Count(Append(t, x), m) = Count(t, m) + One(m = x)
  BY <1>2, CountAppend DEF One
<1>3. ASSUME UNCHANGED <<Topic, Poison, unsent>>, faults' = faults
      PROVE  Total(m)' <= 1 + faults'
  BY <1>0, <1>3 DEF Total
<1>4. ASSUME NEW x \in Msg, PublishOrder(x) PROVE Total(m)' <= 1 + faults'
  <2>1. /\ x \in unsent /\ unsent' = unsent \ {x} /\ faults' = faults
        /\ Topic' = Append(Topic, x) /\ Poison' = Poison
    BY <1>0, <1>4, ServiceMoves DEF PublishOrder
  <2>2. Count(Topic', m) = Count(Topic, m) + One(m = x)
    BY <1>0, <1>2, <2>1
  <2>. QED  BY <1>0, <2>1, <2>2 DEF Total, One
<1>5. ASSUME StoreTrackingLink PROVE Total(m)' <= 1 + faults'
  <2>1. /\ Topic # <<>> /\ Topic' = Tail(Topic) /\ faults' = faults
        /\ Poison' = Poison /\ unsent' = unsent
    BY <1>0, <1>5, ServiceMoves DEF StoreTrackingLink
  <2>2. Count(Topic', m) \in Nat /\ Count(Topic', m) <= Count(Topic, m)
    BY <1>0, <1>1, <2>1 DEF One
  <2>. QED  BY <1>0, <2>1, <2>2 DEF Total, One
<1>6. ASSUME PublishToPoisonQueue PROVE Total(m)' <= 1 + faults'
  <2>1. /\ Topic # <<>> /\ Topic' = Tail(Topic) /\ faults' = faults
        /\ Poison' = Append(Poison, Head(Topic)) /\ unsent' = unsent
    BY <1>0, <1>6, ServiceMoves DEF PublishToPoisonQueue
  <2>2. /\ Head(Topic) \in Msg /\ Count(Topic', m) \in Nat
        /\ Count(Topic, m) = Count(Topic', m) + One(m = Head(Topic))
    BY <1>0, <1>1, <2>1
  <2>3. Count(Poison', m) = Count(Poison, m) + One(m = Head(Topic))
    BY <1>0, <1>2, <2>1, <2>2
  <2>. QED  BY <1>0, <2>1, <2>2, <2>3 DEF Total, One
<1>7. ASSUME PublishKept PROVE Total(m)' <= 1 + faults'
  <2>1. /\ Poison # <<>> /\ Poison' = Append(Tail(Poison), Head(Poison))
        /\ Topic' = Topic /\ unsent' = unsent /\ faults' = faults
    BY <1>0, <1>7, CommandMoves DEF PublishKept
  <2>2. /\ Tail(Poison) \in Seq(Msg) /\ Head(Poison) \in Msg
        /\ Count(Tail(Poison), m) \in Nat
        /\ Count(Poison, m) = Count(Tail(Poison), m) + One(m = Head(Poison))
    BY <1>0, <1>1, <2>1
  <2>3. Count(Poison', m) = Count(Tail(Poison), m) + One(m = Head(Poison))
    BY <1>2, <2>1, <2>2
  <2>. QED  BY <1>0, <2>1, <2>2, <2>3 DEF Total, One
<1>8. ASSUME PublishRequeued PROVE Total(m)' <= 1 + faults'
  <2>1. /\ Poison # <<>> /\ Poison' = Tail(Poison) /\ faults' = faults
        /\ Topic' = Append(Topic, Head(Poison)) /\ unsent' = unsent
    BY <1>0, <1>8, CommandMoves DEF PublishRequeued
  <2>2. /\ Head(Poison) \in Msg /\ Count(Poison', m) \in Nat
        /\ Count(Poison, m) = Count(Poison', m) + One(m = Head(Poison))
    BY <1>0, <1>1, <2>1
  <2>3. Count(Topic', m) = Count(Topic, m) + One(m = Head(Poison))
    BY <1>0, <1>2, <2>1, <2>2
  <2>. QED  BY <1>0, <2>1, <2>2, <2>3 DEF Total, One
<1>9. ASSUME RemoveMessage PROVE Total(m)' <= 1 + faults'
  <2>1. /\ Poison # <<>> /\ Poison' = Tail(Poison) /\ faults' = faults
        /\ Topic' = Topic /\ unsent' = unsent
    BY <1>0, <1>9, CommandMoves DEF RemoveMessage, Acts
  <2>2. Count(Poison', m) \in Nat /\ Count(Poison', m) <= Count(Poison, m)
    BY <1>0, <1>1, <2>1 DEF One
  <2>. QED  BY <1>0, <2>1, <2>2 DEF Total, One
<1>10. CASE ServiceCrash
  <2>1. Topic' = topic /\ Poison' = Poison /\ unsent' = unsent /\ faults' = faults + 1
    BY <1>10 DEF ServiceCrash, Fault, Topic, Poison, Published, loopVars
  <2>2. /\ Count(topic, m) \in Nat
        /\ Count(topic, m) <= Count(Topic, m) + One(service = "poisoned")
    BY <1>0, CountsUnderWay
  <2>. QED  BY <1>0, <2>1, <2>2 DEF Total, One
<1>11. CASE Timeout \/ CliCrash
  <2>1. /\ Topic' = Topic /\ Poison' = poison /\ unsent' = unsent /\ faults' \in Nat
        /\ faults' >= faults + One(Published)
    BY <1>0, <1>11
    DEF Timeout, CliCrash, End, Fault, Topic, Poison, Published, One, serviceVars
  <2>2. /\ Count(poison, m) \in Nat
        /\ Count(poison, m) <= Count(Poison, m) + One(Published)
    BY <1>0, CountsUnderWay
  <2>. QED  BY <1>0, <2>1, <2>2 DEF Total, One
<1>12. CASE PublishFails
  <2>1. UNCHANGED <<Topic, Poison, unsent>> /\ faults' = faults + 1
    BY <1>12 DEF PublishFails, Fault, Topic, Poison, Published, serviceVars
  <2>. QED  BY <1>0, <2>1 DEF Total, One
<1>13. ASSUME NEW c \in Command, StartCommand(c[1], c[2]) PROVE Total(m)' <= 1 + faults'
  <2>1. UNCHANGED <<Topic, Poison, unsent>> /\ faults' = faults
    BY <1>13 DEF StartCommand, Topic, Poison, Published, serviceVars
  <2>. QED  BY <1>3, <2>1
<1>14. CASE AckPoisoned
  <2>1. UNCHANGED <<Topic, Poison, unsent>> /\ faults' = faults
    BY <1>0, <1>14, ServiceMoves DEF AckPoisoned
  <2>. QED  BY <1>3, <2>1
<1>15. CASE FirstAgain \/ StopRouter \/ KeepMessage \/ RequeueMessage \/ AckKept \/ AckRequeued
  <2>1. UNCHANGED <<Topic, Poison, unsent>>
    BY <1>0, <1>15, CommandMoves
  <2>2. faults' = faults
    BY <1>15 DEF FirstAgain, StopRouter, KeepMessage, RequeueMessage, AckKept, AckRequeued, Acts
  <2>. QED  BY <1>3, <2>1, <2>2
<1>16. CASE UNCHANGED vars
  <2>1. UNCHANGED <<Topic, Poison, unsent>> /\ faults' = faults
    BY <1>16 DEF vars, serviceVars, Topic, Poison, Published
  <2>. QED  BY <1>3, <2>1
<1>. QED
  BY <1>4, <1>5, <1>6, <1>7, <1>8, <1>9, <1>10, <1>11, <1>12, <1>13, <1>14, <1>15, <1>16
  DEF Next, Service, Iterate

(* A message that is published before it is acknowledged leaves one copy   *)
(* more for each failure in between, and for no other reason, whichever of *)
(* the service and the commands it strikes.                                *)
THEOREM CopiesBounded == Spec => []BoundedCopies
<1>1. IInv /\ CopiesInv => BoundedCopies
  <2> SUFFICES ASSUME IInv, CopiesInv, NEW m \in Msg
               PROVE  Copies(m) <= 1 + faults + UnderWay
    BY DEF BoundedCopies
  <2>1. /\ Count(Topic, m) \in Nat /\ Count(Poison, m) \in Nat
        /\ Count(topic, m) \in Nat /\ Count(poison, m) \in Nat
        /\ Count(topic, m) <= Count(Topic, m) + One(service = "poisoned")
        /\ Count(poison, m) <= Count(Poison, m) + One(Published)
    BY CountsUnderWay DEF IInv
  <2>2. Total(m) <= 1 + faults /\ faults \in Nat
    BY DEF CopiesInv, IInv, TypeOK
  <2>3. Copies(m) = Count(topic, m) + Count(poison, m)
    BY DEF Copies, Count
  <2>4. UnderWay = One(service = "poisoned") + One(Published)
    BY DEF UnderWay, One, Published
  <2>. QED  BY <2>1, <2>2, <2>3, <2>4 DEF Total, One
<1>2. Spec => [](IInv /\ CopiesInv)
  BY InitIInv, NextIInv, InitCopies, StepCopies, PTL DEF Spec
<1>. QED  BY <1>1, <1>2, PTL
=============================================================================
