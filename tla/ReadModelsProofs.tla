--------------------------- MODULE ReadModelsProofs ---------------------------
(***************************************************************************)
(* Proofs about the read models of the exercises, for any alerts with any  *)
(* history, any events about invoices, and any number of failed            *)
(* publications and crashes.                                               *)
(***************************************************************************)
EXTENDS ReadModels, FiniteSetTheorems, TLAPS

Msg == [alert : Alerts, version : Nat]

(* The topics of the alerts: the events of an alert are in them under their*)
(* versions, and within a topic in their order.                            *)
TopicTypes ==
  /\ topic \in [Kinds -> Seq(Msg)]
  /\ issued \in [Alerts -> Nat]
  /\ handled \in [Kinds -> Nat]
  /\ committed \in [Kinds -> Nat]
  /\ faults \in 0 .. MaxFaults
  /\ \A a \in Alerts : issued[a] <= Len(History[a])
  /\ \A k \in Kinds : committed[k] <= handled[k] /\ handled[k] <= Len(topic[k])

Labelled ==
  \A k \in Kinds : \A i \in 1 .. Len(topic[k]) :
    /\ topic[k][i].version \in 1 .. issued[topic[k][i].alert]
    /\ History[topic[k][i].alert][topic[k][i].version] = k

Ordered ==
  \A k \in Kinds : \A i, j \in 1 .. Len(topic[k]) :
    i < j /\ topic[k][i].alert = topic[k][j].alert => topic[k][i].version < topic[k][j].version

TopicInv == TopicTypes /\ Labelled /\ Ordered

(* What the readers of the topics rely on. *)
TopicsGrow ==
  /\ \A a \in Alerts : issued[a] <= issued'[a]
  /\ faults <= faults'
  /\ \A k \in Kinds : \A i \in 1 .. Len(topic[k]) : topic'[k][i] = topic[k][i]
-----------------------------------------------------------------------------
(* The topics.                                                             *)

LEMMA TopicsBegin ==
  ASSUME TopicsInit
  PROVE  TopicInv
<1>1. Len(<<>>) = 0 /\ <<>> \in Seq(Msg)
  OBVIOUS
<1>2. \A k \in Kinds : topic[k] = <<>> /\ handled[k] = 0 /\ committed[k] = 0
  BY DEF TopicsInit
<1>3. \A a \in Alerts : Len(History[a]) \in Nat
  BY HistoryAssumption
<1>. QED  BY <1>1, <1>2, <1>3, BoundAssumption DEF TopicsInit, TopicInv, TopicTypes, Labelled, Ordered

LEMMA AppendOne ==
  ASSUME NEW S, NEW s \in Seq(S), NEW x \in S
  PROVE  /\ Append(s, x) \in Seq(S)
         /\ Len(s) \in Nat /\ Len(Append(s, x)) = Len(s) + 1
         /\ \A i \in 1 .. Len(s) : Append(s, x)[i] = s[i]
         /\ Append(s, x)[Len(s) + 1] = x
OBVIOUS

LEMMA ProduceKeeps ==
  ASSUME TopicInv, NEW a \in Alerts, Produce(a)
  PROVE  TopicInv' /\ TopicsGrow
<1>. DEFINE v == issued[a] + 1
            h == History[a][v]
            m == [alert |-> a, version |-> v]
<1>1. /\ v \in 1 .. Len(History[a]) /\ h \in Kinds /\ m \in Msg
      /\ topic[h] \in Seq(Msg)
  <2>1. History[a] \in Seq(Kinds) /\ issued[a] \in Nat /\ issued[a] < Len(History[a])
    BY HistoryAssumption DEF TopicInv, TopicTypes, Produce
  <2>2. v \in 1 .. Len(History[a]) /\ m \in Msg
    BY <2>1 DEF Msg
  <2>3. h \in Kinds
    BY <2>1, <2>2
  <2>. QED  BY <2>2, <2>3 DEF TopicInv, TopicTypes
<1>2. /\ topic' = [topic EXCEPT ![h] = Append(topic[h], m)]
      /\ issued' = [issued EXCEPT ![a] = v]
      /\ UNCHANGED <<handled, committed, faults>>
  BY DEF Produce
<1>3. /\ topic'[h] = Append(topic[h], m) /\ issued'[a] = v
      /\ \A k \in Kinds : k # h => topic'[k] = topic[k]
      /\ \A b \in Alerts : b # a => issued'[b] = issued[b]
  BY <1>1, <1>2 DEF TopicInv, TopicTypes
<1>4. /\ topic'[h] \in Seq(Msg) /\ Len(topic'[h]) = Len(topic[h]) + 1 /\ Len(topic[h]) \in Nat
      /\ \A i \in 1 .. Len(topic[h]) : topic'[h][i] = topic[h][i]
      /\ topic'[h][Len(topic[h]) + 1] = m
  BY <1>1, <1>3, AppendOne
<1>5. TopicsGrow
  <2>1. \A k \in Kinds : \A i \in 1 .. Len(topic[k]) : topic'[k][i] = topic[k][i]
    BY <1>3, <1>4
  <2>2. issued[a] <= issued'[a] /\ \A b \in Alerts : issued[b] \in Nat
    BY <1>3 DEF TopicInv, TopicTypes
  <2>3. \A b \in Alerts : issued[b] <= issued'[b]
    BY <1>3, <2>2
  <2>4. faults <= faults'
    BY <1>2, BoundAssumption DEF TopicInv, TopicTypes
  <2>. QED  BY <2>1, <2>3, <2>4 DEF TopicsGrow
<1>6. TopicTypes'
  <2>1. topic' \in [Kinds -> Seq(Msg)]
    <3>1. topic \in [Kinds -> Seq(Msg)]
      BY DEF TopicInv, TopicTypes
    <3>2. Append(topic[h], m) \in Seq(Msg)
      BY <1>3, <1>4
    <3>. HIDE DEF m, h
    <3>. QED  BY <1>2, <3>1, <3>2
  <2>2. \A k \in Kinds : Len(topic[k]) <= Len(topic'[k])
    BY <1>1, <1>3, <1>4 DEF TopicInv, TopicTypes
  <2>3. \A k \in Kinds : handled[k] <= Len(topic'[k])
    BY <2>1, <2>2 DEF TopicInv, TopicTypes
  <2>. QED  BY <1>1, <1>2, <1>3, <2>1, <2>3 DEF TopicInv, TopicTypes
<1>. HIDE DEF v, h, m
<1>7. \A k \in Kinds : \A i \in 1 .. Len(topic'[k]) :
        \/ k = h /\ i = Len(topic[h]) + 1 /\ topic'[k][i] = m
        \/ i \in 1 .. Len(topic[k]) /\ topic'[k][i] = topic[k][i] /\ topic[k][i] \in Msg
  <2>1. \A k \in Kinds : topic[k] \in Seq(Msg)
    BY DEF TopicInv, TopicTypes
  <2>2. \A k \in Kinds : \A i \in 1 .. Len(topic[k]) : topic[k][i] \in Msg
    BY <2>1
  <2>3. \A i \in 1 .. Len(topic'[h]) : i = Len(topic[h]) + 1 \/ i \in 1 .. Len(topic[h])
    BY <1>4
  <2>. QED  BY <1>3, <1>4, <2>2, <2>3
<1>8. m \in Msg /\ m.alert = a /\ m.version = v /\ v = issued[a] + 1 /\ v \in Nat /\ History[a][v] = h
  BY <1>1 DEF m, h, v
<1>9. Labelled'
  <2>. SUFFICES ASSUME NEW k \in Kinds, NEW i \in 1 .. Len(topic'[k])
                PROVE  /\ topic'[k][i].version \in 1 .. issued'[topic'[k][i].alert]
                       /\ History[topic'[k][i].alert][topic'[k][i].version] = k
    BY DEF Labelled
  <2>1. CASE topic'[k][i] = m /\ k = h
    BY <1>3, <1>8, <2>1 DEF TopicInv, TopicTypes
  <2>2. CASE i \in 1 .. Len(topic[k]) /\ topic'[k][i] = topic[k][i] /\ topic[k][i] \in Msg
    <3>1. /\ topic[k][i].alert \in Alerts
          /\ topic[k][i].version \in 1 .. issued[topic[k][i].alert]
          /\ History[topic[k][i].alert][topic[k][i].version] = k
      BY <2>2 DEF TopicInv, Labelled, Msg
    <3>2. \A b \in Alerts : issued[b] \in Nat /\ issued'[b] \in Nat /\ issued[b] <= issued'[b]
      BY <1>5, <1>6 DEF TopicInv, TopicTypes, TopicsGrow
    <3>. QED  BY <2>2, <3>1, <3>2
  <2>. QED  BY <1>7, <2>1, <2>2
<1>10. Ordered'
  <2>. SUFFICES ASSUME NEW k \in Kinds, NEW i \in 1 .. Len(topic'[k]),
                       NEW j \in 1 .. Len(topic'[k]), i < j,
                       topic'[k][i].alert = topic'[k][j].alert
                PROVE  topic'[k][i].version < topic'[k][j].version
    BY DEF Ordered
  <2>1. CASE j \in 1 .. Len(topic[k]) /\ topic'[k][j] = topic[k][j]
    <3>1. i \in 1 .. Len(topic[k]) /\ topic'[k][i] = topic[k][i]
      BY <1>7, <1>4, <2>1
    <3>. QED  BY <2>1, <3>1 DEF TopicInv, Ordered
  <2>2. CASE k = h /\ j = Len(topic[h]) + 1 /\ topic'[k][j] = m
    <3>1. i \in 1 .. Len(topic[k]) /\ topic'[k][i] = topic[k][i] /\ topic[k][i] \in Msg
      BY <1>7, <1>4, <2>2
    <3>2. topic[k][i].version \in 1 .. issued[topic[k][i].alert]
      BY <3>1 DEF TopicInv, Labelled
    <3>3. issued[a] \in Nat
      BY DEF TopicInv, TopicTypes
    <3>. QED  BY <1>8, <2>2, <3>1, <3>2, <3>3
  <2>. QED  BY <1>7, <2>1, <2>2
<1>. QED  BY <1>5, <1>6, <1>9, <1>10 DEF TopicInv

(* No other step adds messages. *)
LEMMA OffsetsKeep ==
  ASSUME TopicInv, UNCHANGED <<topic, issued>>, TopicTypes'
  PROVE  TopicInv'
BY DEF TopicInv, Labelled, Ordered

LEMMA AckKeeps ==
  ASSUME TopicInv, NEW k \in Kinds, Received(k), Ack(k)
  PROVE  TopicInv' /\ TopicsGrow
<1>1. TopicTypes'
  BY DEF TopicInv, TopicTypes, Received, Ack
<1>. QED  BY <1>1, OffsetsKeep DEF Ack, TopicsGrow, TopicInv, TopicTypes

LEMMA NackKeeps ==
  ASSUME TopicInv, Nack
  PROVE  TopicInv' /\ TopicsGrow
<1>1. TopicTypes'
  BY BoundAssumption DEF TopicInv, TopicTypes, Nack
<1>. QED  BY <1>1, OffsetsKeep, BoundAssumption DEF Nack, TopicsGrow, TopicInv, TopicTypes

LEMMA CommitKeeps ==
  ASSUME TopicInv, NEW k \in Kinds, Commit(k)
  PROVE  TopicInv' /\ TopicsGrow
<1>1. TopicTypes'
  BY DEF TopicInv, TopicTypes, Commit
<1>. QED  BY <1>1, OffsetsKeep DEF Commit, TopicsGrow, TopicInv, TopicTypes

LEMMA RestartKeeps ==
  ASSUME TopicInv, Restart
  PROVE  TopicInv' /\ TopicsGrow
<1>1. TopicTypes'
  BY BoundAssumption DEF TopicInv, TopicTypes, Restart
<1>. QED  BY <1>1, OffsetsKeep, BoundAssumption DEF Restart, TopicsGrow, TopicInv, TopicTypes

(* The message in hand. *)
LEMMA MessageIsGood ==
  ASSUME TopicInv, NEW k \in Kinds, Received(k)
  PROVE  /\ Message(k) = topic[k][handled[k] + 1]
         /\ Message(k).alert \in Alerts
         /\ Message(k).version \in Nat /\ Message(k).version > 0
         /\ issued[Message(k).alert] \in Nat
         /\ Message(k).version <= issued[Message(k).alert]
         /\ History[Message(k).alert][Message(k).version] = k
         /\ \A i \in 1 .. handled[k] :
              topic[k][i].alert = Message(k).alert => topic[k][i].version < Message(k).version
<1>1. handled[k] + 1 \in 1 .. Len(topic[k]) /\ handled[k] \in Nat
  BY DEF TopicInv, TopicTypes, Received
<1>2. Message(k) = topic[k][handled[k] + 1] /\ Message(k) \in Msg
  BY <1>1 DEF TopicInv, TopicTypes, Message
<1>3. /\ Message(k).version \in 1 .. issued[Message(k).alert]
      /\ History[Message(k).alert][Message(k).version] = k
  BY <1>1, <1>2 DEF TopicInv, Labelled
<1>4. \A i \in 1 .. handled[k] : i \in 1 .. Len(topic[k]) /\ i < handled[k] + 1
  BY <1>1 DEF TopicInv, TopicTypes
<1>5. \A i \in 1 .. handled[k] :
        topic[k][i].alert = Message(k).alert => topic[k][i].version < Message(k).version
  BY <1>1, <1>2, <1>4 DEF TopicInv, Ordered
<1>6. Message(k).alert \in Alerts /\ Message(k).version \in Nat
  BY <1>2 DEF Msg
<1>7. issued[Message(k).alert] \in Nat
  BY <1>6 DEF TopicInv, TopicTypes
<1>. QED  BY <1>2, <1>3, <1>5, <1>6, <1>7
-----------------------------------------------------------------------------
(* The alerts of 04-versioning-entities. What the process has published of *)
(* an alert since its start is some of the versions up to the one that is  *)
(* stored, in their order; each that is missing was one failure. What it   *)
(* published before comes before.                                          *)

Alert == [version : Nat, isTriggered : BOOLEAN]
Update == [version : Nat, isTriggered : BOOLEAN, start : Nat]

VersionedTypes ==
  /\ versioned \in [Alerts -> Alert]
  /\ updates \in [Alerts -> Seq(Update)]
  /\ restarts \in Nat /\ restarts <= faults
  /\ \A a \in Alerts : versioned[a].version <= issued[a]

Missing(a) == (1 .. versioned[a].version) \ V!Versions(a)

Before(u, w) == u.start < w.start \/ (u.start = w.start /\ u.version < w.version)

(* s tells of alert a; what was published since start r, of its first n    *)
(* versions.                                                               *)
InOrder(s, a, n, r) ==
  /\ \A i \in 1 .. Len(s) :
       /\ s[i].start <= r
       /\ s[i].start = r => s[i].version <= n
       /\ s[i].isTriggered = (History[a][s[i].version] = "triggered")
  /\ \A i, j \in 1 .. Len(s) : i < j => Before(s[i], s[j])

UpdatesInv ==
  \A a \in Alerts :
    /\ InOrder(updates[a], a, versioned[a].version, restarts)
    /\ Cardinality(Missing(a)) + restarts <= faults

LEMMA UpdatesHaveTypes ==
  ASSUME NEW s \in Seq(Update)
  PROVE  \A i \in 1 .. Len(s) : s[i].version \in Nat /\ s[i].start \in Nat
<1>1. \A i \in 1 .. Len(s) : s[i] \in Update
  OBVIOUS
<1>2. \A u \in Update : u.version \in Nat /\ u.start \in Nat
  BY DEF Update
<1>. QED  BY <1>1, <1>2

LEMMA NextInOrder ==
  ASSUME NEW a, NEW n \in Nat, NEW r \in Nat, NEW s \in Seq(Update), InOrder(s, a, n, r),
         NEW u \in Update, u.version = n + 1, u.start = r,
         u.isTriggered = (History[a][n + 1] = "triggered")
  PROVE  InOrder(s, a, n + 1, r) /\ InOrder(Append(s, u), a, n + 1, r)
<1>. DEFINE t == Append(s, u)
<1>1. Len(s) \in Nat /\ Len(t) = Len(s) + 1
  BY AppendOne
<1>2. \A i \in 1 .. Len(t) :
        \/ i \in 1 .. Len(s) /\ t[i] = s[i]
        \/ i = Len(s) + 1 /\ t[i] = u
  BY <1>1, AppendOne
<1>. HIDE DEF t
<1>3. \A i \in 1 .. Len(s) : s[i].version \in Nat /\ s[i].start \in Nat
  BY UpdatesHaveTypes
<1>4. InOrder(s, a, n + 1, r)
  BY <1>3 DEF InOrder
<1>5. \A i \in 1 .. Len(t) :
        /\ t[i].start <= r
        /\ t[i].start = r => t[i].version <= n + 1
        /\ t[i].isTriggered = (History[a][t[i].version] = "triggered")
  BY <1>2, <1>4 DEF InOrder
<1>6. ASSUME NEW i \in 1 .. Len(t), NEW j \in 1 .. Len(t), i < j
      PROVE  Before(t[i], t[j])
  <2>1. i \in 1 .. Len(s) /\ t[i] = s[i]
    BY <1>1, <1>2, <1>6
  <2>2. CASE j \in 1 .. Len(s) /\ t[j] = s[j]
    BY <1>6, <2>1, <2>2 DEF InOrder
  <2>3. CASE t[j] = u
    <3>1. s[i].start <= r /\ (s[i].start = r => s[i].version <= n)
      BY <2>1 DEF InOrder
    <3>. QED  BY <1>3, <2>1, <2>3, <3>1 DEF Before
  <2>. QED  BY <1>2, <2>2, <2>3
<1>7. InOrder(t, a, n + 1, r)
  BY <1>5, <1>6 DEF InOrder
<1>. QED  BY <1>4, <1>7 DEF t

(* A restart begins the story again. *)
LEMMA AnewInOrder ==
  ASSUME NEW a, NEW n, NEW r \in Nat, NEW s \in Seq(Update), InOrder(s, a, n, r)
  PROVE  InOrder(s, a, 0, r + 1)
<1>1. \A i \in 1 .. Len(s) : s[i].start \in Nat
  BY UpdatesHaveTypes
<1>. QED  BY <1>1 DEF InOrder

LEMMA NothingInOrder ==
  ASSUME NEW a, NEW r
  PROVE  InOrder(<<>>, a, 0, r)
BY DEF InOrder

(* Nothing is missing of an alert that is new. *)
LEMMA NothingMissing ==
  ASSUME \A a \in Alerts : versioned[a].version = 0
  PROVE  \A a \in Alerts : Cardinality(Missing(a)) = 0
<1>1. 1 .. 0 = {}
  OBVIOUS
<1>2. \A a \in Alerts : Missing(a) = {}
  BY <1>1 DEF Missing
<1>. QED  BY <1>2, FS_EmptySet

LEMMA FiniteMissing ==
  ASSUME VersionedTypes, NEW a \in Alerts
  PROVE  IsFiniteSet(Missing(a)) /\ Cardinality(Missing(a)) \in Nat
<1>1. versioned[a].version \in Int
  BY DEF VersionedTypes, Alert
<1>2. IsFiniteSet(1 .. versioned[a].version)
  BY <1>1, FS_Interval
<1>3. IsFiniteSet(Missing(a))
  BY <1>2, FS_Subset DEF Missing
<1>. QED  BY <1>3, FS_CardinalityType

LEMMA VersionedBegins ==
  ASSUME V!Init, TopicInv
  PROVE  VersionedTypes /\ UpdatesInv
<1>1. /\ versioned = [a \in Alerts |-> [version |-> 0, isTriggered |-> FALSE]]
      /\ updates = [a \in Alerts |-> <<>>]
      /\ restarts = 0
  BY DEF V!Init, V!New
<1>2. \A a \in Alerts : versioned[a].version = 0 /\ updates[a] = <<>>
  BY <1>1
<1>3. faults \in Nat /\ \A a \in Alerts : issued[a] \in Nat
  BY DEF TopicInv, TopicTypes
<1>4. VersionedTypes
  <2>1. versioned \in [Alerts -> Alert]
    BY <1>1 DEF Alert
  <2>2. updates \in [Alerts -> Seq(Update)]
    BY <1>1
  <2>3. ASSUME NEW a \in Alerts PROVE versioned[a].version <= issued[a]
    <3>1. versioned[a].version = 0 /\ issued[a] \in Nat
      BY <1>2, <1>3
    <3>. QED  BY <3>1
  <2>4. restarts \in Nat /\ restarts <= faults
    BY <1>1, <1>3
  <2>. QED  BY <2>1, <2>2, <2>3, <2>4 DEF VersionedTypes
<1>5. \A a \in Alerts : InOrder(updates[a], a, versioned[a].version, restarts)
  BY <1>2, NothingInOrder
<1>6. ASSUME NEW a \in Alerts PROVE Cardinality(Missing(a)) + restarts <= faults
  <2>1. Cardinality(Missing(a)) = 0
    BY <1>2, NothingMissing
  <2>2. restarts = 0
    BY <1>1
  <2>. QED  BY <1>3, <2>1, <2>2
<1>. QED  BY <1>4, <1>5, <1>6 DEF UpdatesInv

(* Steps that leave the alerts alone. *)
LEMMA TypesStay ==
  ASSUME VersionedTypes, TopicInv, TopicInv', TopicsGrow, UNCHANGED <<versioned, updates>>,
         restarts' \in Nat, restarts' <= faults'
  PROVE  VersionedTypes'
<1>1. \A a \in Alerts : issued[a] \in Nat /\ issued'[a] \in Nat /\ issued[a] <= issued'[a]
  BY DEF TopicInv, TopicTypes, TopicsGrow
<1>. QED  BY <1>1 DEF VersionedTypes, Alert

LEMMA VersionedStays ==
  ASSUME VersionedTypes, TopicInv, TopicInv', TopicsGrow,
         UNCHANGED <<versioned, updates, restarts>>
  PROVE  VersionedTypes' /\ (UpdatesInv => UpdatesInv')
<1>1. /\ faults \in Nat /\ faults' \in Nat /\ faults <= faults'
      /\ restarts \in Nat /\ restarts <= faults
  BY DEF TopicInv, TopicTypes, TopicsGrow, VersionedTypes
<1>2. VersionedTypes'
  BY <1>1, TypesStay
<1>3. \A a \in Alerts : Missing(a)' = Missing(a)
  BY DEF Missing, V!Versions
<1>4. \A a \in Alerts : Cardinality(Missing(a)) \in Nat
  BY FiniteMissing
<1>5. ASSUME UpdatesInv PROVE UpdatesInv'
  <2>1. \A a \in Alerts : Cardinality(Missing(a)') + restarts' <= faults'
    BY <1>1, <1>3, <1>4, <1>5 DEF UpdatesInv
  <2>. QED  BY <1>5, <2>1 DEF UpdatesInv
<1>. QED  BY <1>2, <1>5

(* The next version of an alert is stored, and published or not. *)
LEMMA ApplyKeepsVersions ==
  ASSUME VersionedTypes, UpdatesInv, TopicInv, TopicInv', TopicsGrow, NEW k \in Kinds,
         V!Apply(k)
  PROVE  VersionedTypes' /\ UpdatesInv'
<1>. SUFFICES ASSUME NEW a, a = Message(k).alert, NEW v, v = Message(k).version
              PROVE  VersionedTypes' /\ UpdatesInv'
  OBVIOUS
<1>. DEFINE u == [version |-> v, isTriggered |-> k = "triggered"]
            p == [version |-> v, isTriggered |-> k = "triggered", start |-> restarts]
<1>1. /\ Received(k) /\ versioned[a].version + 1 = v
      /\ versioned' = [versioned EXCEPT ![a] = u]
      /\ \/ updates' = [updates EXCEPT ![a] = Append(updates[a], p)]
         \/ updates' = updates /\ faults' = faults + 1
      /\ UNCHANGED <<restarts, issued>>
  BY DEF V!Apply, V!Received, V!IsNext, V!Message, V!AckNoted, V!NackNoted, V!Ack, V!Nack,
         V!Published, Received, Message
<1>2. /\ a \in Alerts /\ v \in 1 .. issued[a] /\ v \in Nat /\ History[a][v] = k
      /\ versioned[a].version \in Nat /\ issued[a] \in Nat /\ restarts \in Nat
  <2>1. a \in Alerts /\ v \in Nat /\ v > 0 /\ issued[a] \in Nat /\ v <= issued[a]
    BY <1>1, MessageIsGood
  <2>2. History[a][v] = k
    BY <1>1, MessageIsGood
  <2>3. versioned[a] \in Alert /\ restarts \in Nat
    BY <2>1 DEF VersionedTypes
  <2>4. versioned[a].version \in Nat
    BY <2>3 DEF Alert
  <2>. QED  BY <2>1, <2>2, <2>3, <2>4
<1>3. u \in Alert /\ p \in Update
  BY <1>2 DEF Alert, Update
<1>4. /\ versioned'[a] = u /\ \A b \in Alerts : b # a => versioned'[b] = versioned[b]
      /\ \A b \in Alerts : b # a => updates'[b] = updates[b]
      /\ updates[a] \in Seq(Update)
      /\ \/ updates'[a] = Append(updates[a], p)
         \/ updates'[a] = updates[a] /\ faults' = faults + 1
  BY <1>1, <1>2 DEF VersionedTypes
<1>5. faults \in Nat /\ faults' \in Nat /\ faults <= faults' /\ restarts <= faults
  BY DEF TopicInv, TopicTypes, TopicsGrow, VersionedTypes
<1>6. VersionedTypes'
  <2>1. Append(updates[a], p) \in Seq(Update)
    BY <1>3, <1>4
  <2>2. updates' \in [Alerts -> Seq(Update)]
    BY <1>1, <2>1 DEF VersionedTypes
  <2>3. versioned' \in [Alerts -> Alert]
    BY <1>1, <1>2, <1>3 DEF VersionedTypes
  <2>4. restarts' \in Nat /\ restarts' <= faults'
    BY <1>1, <1>2, <1>5
  <2>. QED  BY <1>1, <1>2, <1>4, <2>2, <2>3, <2>4 DEF VersionedTypes
<1>. HIDE DEF u, p
<1>7. /\ u.version = v /\ p.version = v /\ p.start = restarts
      /\ p.isTriggered = (History[a][v] = "triggered")
  BY <1>2 DEF u, p
<1>8. \A b \in Alerts : Cardinality(Missing(b)) \in Nat /\ IsFiniteSet(Missing(b))
  BY FiniteMissing
<1>9. \A b \in Alerts : Cardinality(Missing(b)') + restarts' <= faults'
  <2>1. \A b \in Alerts : b # a => Missing(b)' = Missing(b)
    BY <1>1, <1>4 DEF Missing, V!Versions
  <2>2. 1 .. v = (1 .. versioned[a].version) \cup {v}
    BY <1>1, <1>2
  <2>3. Missing(a)' \subseteq Missing(a) \cup {v}
    <3>1. V!Versions(a) \subseteq V!Versions(a)'
      <4>1. CASE updates'[a] = Append(updates[a], p)
        <5>1. /\ DOMAIN updates[a] = 1 .. Len(updates[a]) /\ Len(updates[a]) \in Nat
              /\ DOMAIN updates'[a] = 1 .. Len(updates[a]) + 1
              /\ \A i \in 1 .. Len(updates[a]) : updates'[a][i] = updates[a][i]
          BY <1>3, <1>4, <4>1, AppendOne
        <5>2. 1 .. Len(updates[a]) \subseteq 1 .. Len(updates[a]) + 1
          BY <5>1
        <5>. QED  BY <1>1, <5>1, <5>2 DEF V!Versions
      <4>2. CASE updates'[a] = updates[a]
        BY <1>1, <4>2 DEF V!Versions
      <4>. QED  BY <1>4, <4>1, <4>2
    <3>. QED  BY <1>4, <1>7, <2>2, <3>1 DEF Missing
  <2>4. CASE updates'[a] = Append(updates[a], p)
    <3>1. v \in V!Versions(a)'
      <4>1. /\ Len(updates[a]) + 1 \in DOMAIN updates'[a]
            /\ updates'[a][Len(updates[a]) + 1] = p
        BY <1>3, <1>4, <2>4, AppendOne
      <4>. QED  BY <1>1, <1>7, <4>1 DEF V!Versions
    <3>2. Missing(a)' \subseteq Missing(a)
      BY <2>3, <3>1 DEF Missing
    <3>3. Cardinality(Missing(a)') <= Cardinality(Missing(a)) /\ Cardinality(Missing(a)') \in Nat
      BY <1>2, <1>8, <3>2, FS_Subset, FS_CardinalityType
    <3>4. Cardinality(Missing(a)') + restarts' <= faults'
      BY <1>1, <1>2, <1>5, <1>8, <3>3 DEF UpdatesInv
    <3>. QED  BY <1>1, <1>2, <1>5, <1>8, <2>1, <3>4 DEF UpdatesInv
  <2>5. CASE updates'[a] = updates[a] /\ faults' = faults + 1
    <3>1. /\ IsFiniteSet(Missing(a) \cup {v})
          /\ Cardinality(Missing(a) \cup {v}) <= Cardinality(Missing(a)) + 1
      <4>1. IsFiniteSet(Missing(a)) /\ Cardinality(Missing(a)) \in Nat
        BY <1>2, <1>8
      <4>. HIDE DEF Missing
      <4>2. /\ IsFiniteSet(Missing(a) \cup {v})
            /\ \/ Cardinality(Missing(a) \cup {v}) = Cardinality(Missing(a))
               \/ Cardinality(Missing(a) \cup {v}) = Cardinality(Missing(a)) + 1
        BY <4>1, FS_AddElement
      <4>. QED  BY <4>1, <4>2
    <3>2. /\ Cardinality(Missing(a)') <= Cardinality(Missing(a) \cup {v})
          /\ Cardinality(Missing(a)') \in Nat /\ Cardinality(Missing(a) \cup {v}) \in Nat
      BY <2>3, <3>1, FS_Subset, FS_CardinalityType
    <3>3. Cardinality(Missing(a)) + restarts <= faults
      BY <1>2 DEF UpdatesInv
    <3>4. Cardinality(Missing(a)') + restarts' <= faults'
      BY <1>1, <1>2, <1>5, <1>8, <2>5, <3>1, <3>2, <3>3
    <3>. QED  BY <1>1, <1>2, <1>5, <1>8, <2>1, <3>4 DEF UpdatesInv
  <2>. QED  BY <1>4, <2>4, <2>5
<1>10. \A b \in Alerts : InOrder(updates'[b], b, versioned'[b].version, restarts')
  <2>1. InOrder(updates[a], a, v, restarts) /\ InOrder(Append(updates[a], p), a, v, restarts)
    <3>1. InOrder(updates[a], a, versioned[a].version, restarts)
      BY <1>2 DEF UpdatesInv
    <3>2. /\ p.version = versioned[a].version + 1
          /\ p.isTriggered = (History[a][versioned[a].version + 1] = "triggered")
      BY <1>1, <1>7
    <3>3. /\ InOrder(updates[a], a, versioned[a].version + 1, restarts)
          /\ InOrder(Append(updates[a], p), a, versioned[a].version + 1, restarts)
      BY <1>2, <1>3, <1>4, <1>7, <3>1, <3>2, NextInOrder
    <3>. QED  BY <1>1, <3>3
  <2>2. \A b \in Alerts : b # a => InOrder(updates'[b], b, versioned'[b].version, restarts')
    BY <1>1, <1>4 DEF UpdatesInv
  <2>3. versioned'[a].version = v /\ restarts' = restarts
    BY <1>1, <1>4, <1>7
  <2>4. InOrder(updates'[a], a, v, restarts)
    BY <1>4, <2>1
  <2>. QED  BY <2>2, <2>3, <2>4
<1>. QED  BY <1>6, <1>9, <1>10 DEF UpdatesInv

LEMMA CrashKeepsVersions ==
  ASSUME VersionedTypes, UpdatesInv, TopicInv, TopicInv', V!Crash
  PROVE  VersionedTypes' /\ UpdatesInv'
<1>1. /\ versioned' = [a \in Alerts |-> [version |-> 0, isTriggered |-> FALSE]]
      /\ updates' = updates /\ restarts' = restarts + 1 /\ faults' = faults + 1
  BY DEF V!Crash, V!Restart, V!New
<1>2. \A a \in Alerts : versioned'[a].version = 0
  BY <1>1
<1>3. /\ faults \in Nat /\ restarts \in Nat /\ restarts <= faults
      /\ \A a \in Alerts : issued'[a] \in Nat
  BY DEF TopicInv, TopicTypes, VersionedTypes
<1>4. VersionedTypes'
  <2>1. versioned' \in [Alerts -> Alert]
    BY <1>1 DEF Alert
  <2>2. \A a \in Alerts : versioned'[a].version <= issued'[a]
    BY <1>2, <1>3
  <2>. QED  BY <1>1, <1>3, <2>1, <2>2 DEF VersionedTypes
<1>5. \A a \in Alerts : InOrder(updates'[a], a, versioned'[a].version, restarts')
  <2>1. \A a \in Alerts : updates[a] \in Seq(Update)
    BY DEF VersionedTypes
  <2>2. \A a \in Alerts : InOrder(updates[a], a, versioned[a].version, restarts)
    BY DEF UpdatesInv
  <2>3. \A a \in Alerts : InOrder(updates[a], a, 0, restarts + 1)
    BY <1>3, <2>1, <2>2, AnewInOrder
  <2>. QED  BY <1>1, <1>2, <2>3
<1>6. \A a \in Alerts : Cardinality(Missing(a)') = 0
  <2>1. 1 .. 0 = {}
    OBVIOUS
  <2>2. \A a \in Alerts : Missing(a)' = {}
    BY <1>2, <2>1 DEF Missing
  <2>. QED  BY <2>2, FS_EmptySet
<1>7. \A a \in Alerts : Cardinality(Missing(a)') + restarts' <= faults'
  BY <1>1, <1>3, <1>6
<1>. QED  BY <1>4, <1>5, <1>7 DEF UpdatesInv

(* A message that was handled and is ahead of its alert has one at or      *)
(* before it that overtook.                                                *)
Overtaken(k, i) ==
  LET m == topic[k][i]
      last == versioned[m.alert].version IN
  m.version > last =>
    \E v \in last + 1 .. m.version : [alert |-> m.alert, version |-> v] \in overtook

WasHandled(m) == \E k \in Kinds : \E i \in 1 .. handled[k] : topic[k][i] = m

LostInv ==
  restarts = 0 =>
    /\ \A m \in overtook : WasHandled(m)
    /\ \A k \in Kinds : \A i \in 1 .. handled[k] : Overtaken(k, i)

LEMMA LostBegins ==
  ASSUME TopicsInit, overtook = {}
  PROVE  LostInv
BY DEF TopicsInit, LostInv

LEMMA LostStays ==
  ASSUME LostInv, TopicInv, TopicsGrow, UNCHANGED <<versioned, handled, restarts, overtook>>
  PROVE  LostInv'
<1>1. ASSUME NEW k \in Kinds, NEW i \in 1 .. handled[k]
      PROVE  topic'[k][i] = topic[k][i]
  <2>1. Len(topic[k]) \in Nat /\ handled[k] \in Nat /\ handled[k] <= Len(topic[k])
    BY DEF TopicInv, TopicTypes
  <2>2. i \in 1 .. Len(topic[k])
    BY <2>1
  <2>. QED  BY <2>2 DEF TopicsGrow
<1>2. ASSUME \A m \in overtook : WasHandled(m) PROVE (\A m \in overtook : WasHandled(m))'
  BY <1>1, <1>2 DEF WasHandled
<1>3. \A k \in Kinds : \A i \in 1 .. handled[k] : Overtaken(k, i)' <=> Overtaken(k, i)
  BY <1>1 DEF Overtaken
<1>. QED  BY <1>2, <1>3 DEF LostInv

(* Who has handled one message more, or none, has handled the rest before. *)
LEMMA HandledOne ==
  ASSUME TopicInv, NEW k \in Kinds,
         handled' = [handled EXCEPT ![k] = handled[k] + 1] \/ handled' = handled,
         NEW l \in Kinds, NEW i \in 1 .. handled'[l]
  PROVE  i \in 1 .. handled[l] \/ (l = k /\ i = handled[k] + 1)
<1>1. handled \in [Kinds -> Nat]
  BY DEF TopicInv, TopicTypes
<1>2. handled[l] \in Nat /\ (handled'[l] = handled[l] \/ (l = k /\ handled'[l] = handled[l] + 1))
  BY <1>1
<1>. QED  BY <1>2

(* The message in hand is noted when it is handled, if at all. *)
LEMMA NotedWasHandled ==
  ASSUME TopicInv, NEW k \in Kinds, Received(k), \A m \in overtook : WasHandled(m),
         UNCHANGED topic,
         \/ /\ handled' = [handled EXCEPT ![k] = handled[k] + 1]
            /\ overtook' \subseteq overtook \cup {Message(k)}
         \/ UNCHANGED <<handled, overtook>>
  PROVE  \A m \in overtook' : WasHandled(m)'
<1>1. handled \in [Kinds -> Nat]
  BY DEF TopicInv, TopicTypes
<1>2. CASE UNCHANGED <<handled, overtook>>
  BY <1>2 DEF WasHandled
<1>3. CASE /\ handled' = [handled EXCEPT ![k] = handled[k] + 1]
           /\ overtook' \subseteq overtook \cup {Message(k)}
  <2>1. \A l \in Kinds : \A i \in 1 .. handled[l] : i \in 1 .. handled'[l]
    BY <1>1, <1>3
  <2>2. handled[k] + 1 \in 1 .. handled'[k]
    BY <1>1, <1>3
  <2>3. ASSUME NEW m, m = Message(k) PROVE WasHandled(m)'
    BY <2>2, <2>3 DEF WasHandled, Message
  <2>4. ASSUME NEW m \in overtook PROVE WasHandled(m)'
    BY <2>1 DEF WasHandled
  <2>. QED  BY <1>3, <2>3, <2>4
<1>. QED  BY <1>2, <1>3

LEMMA DropKeepsLost ==
  ASSUME VersionedTypes, LostInv, TopicInv, NEW k \in Kinds, V!Drop(k)
  PROVE  LostInv'
<1>. SUFFICES ASSUME NEW a, a = Message(k).alert, NEW n, n = Message(k).version
              PROVE  LostInv'
  OBVIOUS
<1>1. /\ Received(k) /\ n # versioned[a].version + 1
      /\ handled' = [handled EXCEPT ![k] = handled[k] + 1]
      /\ overtook' = overtook \cup {m \in {Message(k)} : V!Overtakes(m)}
      /\ UNCHANGED <<topic, versioned, restarts>>
  BY DEF V!Drop, V!Received, V!IsNext, V!Message, V!AckNoted, V!Ack, Received, Message
<1>. SUFFICES ASSUME restarts = 0
              PROVE  /\ \A m \in overtook' : WasHandled(m)'
                     /\ \A l \in Kinds : \A i \in 1 .. handled'[l] : Overtaken(l, i)'
  BY <1>1 DEF LostInv
<1>2. /\ \A m \in overtook : WasHandled(m)
      /\ \A l \in Kinds : \A i \in 1 .. handled[l] : Overtaken(l, i)
  BY DEF LostInv
<1>3. \A m \in overtook' : WasHandled(m)'
  BY <1>1, <1>2, NotedWasHandled
<1>4. \A l \in Kinds : \A i : Overtaken(l, i) => Overtaken(l, i)'
  BY <1>1 DEF Overtaken
<1>5. ASSUME NEW i, i = handled[k] + 1
      PROVE  Overtaken(k, i)'
  <2>1. /\ topic[k][handled[k] + 1] = Message(k) /\ a \in Alerts /\ n \in Nat /\ n > 0
    BY <1>1, MessageIsGood
  <2>2. Message(k) = [alert |-> a, version |-> n]
    <3>1. Message(k) \in Msg
      BY <1>1 DEF TopicInv, TopicTypes, Received, Message
    <3>. QED  BY <3>1 DEF Msg
  <2>3. versioned[a].version \in Nat
    BY <2>1 DEF VersionedTypes, Alert
  <2>. SUFFICES ASSUME n > versioned[a].version
                PROVE  \E v \in versioned[a].version + 1 .. n :
                         [alert |-> a, version |-> v] \in overtook'
    BY <1>1, <1>5, <2>1 DEF Overtaken
  <2>4. n > versioned[a].version + 1
    BY <1>1, <2>1, <2>3
  <2>5. CASE V!Overtakes(Message(k))
    BY <1>1, <2>1, <2>2, <2>3, <2>4, <2>5
  <2>6. CASE ~V!Overtakes(Message(k))
    <3>1. V!Handled(a, n - 1)
      BY <2>1, <2>3, <2>4, <2>6 DEF V!Overtakes
    <3>2. WasHandled([alert |-> a, version |-> n - 1])
      BY <3>1 DEF V!Handled, V!Kinds, Kinds, WasHandled
    <3>3. PICK l \in Kinds :
                 \E j \in 1 .. handled[l] : topic[l][j] = [alert |-> a, version |-> n - 1]
      BY <3>2 DEF WasHandled
    <3>4. PICK j \in 1 .. handled[l] : topic[l][j] = [alert |-> a, version |-> n - 1]
      BY <3>3
    <3>5. topic[l][j].alert = a /\ topic[l][j].version = n - 1
      BY <3>4
    <3>6. n - 1 > versioned[a].version
      BY <2>1, <2>3, <2>4
    <3>7. PICK v \in versioned[a].version + 1 .. n - 1 :
                 [alert |-> a, version |-> v] \in overtook
      BY <1>2, <3>5, <3>6 DEF Overtaken
    <3>8. v \in versioned[a].version + 1 .. n
      BY <2>1, <2>3, <3>7
    <3>. QED  BY <1>1, <3>7, <3>8
  <2>. QED  BY <2>5, <2>6
<1>6. \A l \in Kinds : \A i \in 1 .. handled'[l] :
        i \in 1 .. handled[l] \/ (l = k /\ i = handled[k] + 1)
  BY <1>1, HandledOne
<1>. QED  BY <1>2, <1>3, <1>4, <1>5, <1>6

LEMMA ApplyKeepsLost ==
  ASSUME VersionedTypes, LostInv, TopicInv, NEW k \in Kinds, V!Apply(k)
  PROVE  LostInv'
<1>. SUFFICES ASSUME NEW a, a = Message(k).alert, NEW n, n = Message(k).version
              PROVE  LostInv'
  OBVIOUS
<1>1. /\ Received(k) /\ versioned[a].version + 1 = n
      /\ versioned' = [versioned EXCEPT ![a] = [version |-> n, isTriggered |-> k = "triggered"]]
      /\ \/ /\ handled' = [handled EXCEPT ![k] = handled[k] + 1]
            /\ overtook' = overtook \cup {m \in {Message(k)} : V!Overtakes(m)}
         \/ UNCHANGED <<handled, overtook>>
      /\ UNCHANGED <<topic, restarts>>
  BY DEF V!Apply, V!Received, V!IsNext, V!Message, V!AckNoted, V!NackNoted, V!Ack, V!Nack,
         Received, Message
<1>2. /\ a \in Alerts /\ n \in Nat /\ History[a][n] = k
      /\ \A i \in 1 .. handled[k] : topic[k][i].alert = a => topic[k][i].version < n
      /\ topic[k][handled[k] + 1].version = n /\ topic[k][handled[k] + 1].alert = a
  BY <1>1, MessageIsGood
<1>3. /\ versioned'[a].version = n
      /\ \A b \in Alerts : b # a => versioned'[b] = versioned[b]
  BY <1>1, <1>2 DEF VersionedTypes
<1>. SUFFICES ASSUME restarts = 0
              PROVE  /\ \A m \in overtook' : WasHandled(m)'
                     /\ \A l \in Kinds : \A i \in 1 .. handled'[l] : Overtaken(l, i)'
  BY <1>1 DEF LostInv
<1>4. /\ \A m \in overtook : WasHandled(m)
      /\ \A l \in Kinds : \A i \in 1 .. handled[l] : Overtaken(l, i)
  BY DEF LostInv
<1>5. \A m \in overtook' : WasHandled(m)'
  BY <1>1, <1>4, NotedWasHandled
<1>6. overtook \subseteq overtook'
  BY <1>1
<1>7. [alert |-> a, version |-> n] \notin overtook
  <2>. SUFFICES ASSUME WasHandled([alert |-> a, version |-> n]) PROVE FALSE
    BY <1>4
  <2>1. PICK l \in Kinds : \E i \in 1 .. handled[l] : topic[l][i] = [alert |-> a, version |-> n]
    BY DEF WasHandled
  <2>2. PICK i \in 1 .. handled[l] : topic[l][i] = [alert |-> a, version |-> n]
    BY <2>1
  <2>3. topic[l][i].alert = a /\ topic[l][i].version = n /\ i \in 1 .. Len(topic[l])
    BY <2>2 DEF TopicInv, TopicTypes
  <2>4. l = k
    BY <1>2, <2>3 DEF TopicInv, Labelled
  <2>. QED  BY <1>2, <2>3, <2>4
<1>8. ASSUME NEW l \in Kinds, NEW i \in 1 .. handled[l]
      PROVE  Overtaken(l, i)'
  <2>1. topic[l][i] \in Msg
    BY DEF TopicInv, TopicTypes
  <2>2. Overtaken(l, i)
    BY <1>4
  <2>3. CASE topic[l][i].alert # a
    <3>1. versioned'[topic[l][i].alert] = versioned[topic[l][i].alert]
      BY <1>3, <2>1, <2>3 DEF Msg
    <3>. QED  BY <1>1, <1>6, <2>2, <3>1 DEF Overtaken
  <2>4. CASE topic[l][i].alert = a
    <3>. SUFFICES ASSUME topic[l][i].version > n
                  PROVE  \E v \in n + 1 .. topic[l][i].version :
                           [alert |-> a, version |-> v] \in overtook'
      BY <1>1, <1>3, <2>4 DEF Overtaken
    <3>1. versioned[a].version \in Nat /\ topic[l][i].version \in Nat
      BY <1>2, <2>1 DEF VersionedTypes, Alert, Msg
    <3>2. topic[l][i].version > versioned[a].version
      BY <1>1, <1>2, <3>1
    <3>3. PICK v \in versioned[a].version + 1 .. topic[l][i].version :
                 [alert |-> a, version |-> v] \in overtook
      BY <2>2, <2>4, <3>2 DEF Overtaken
    <3>4. v # n
      BY <1>7, <3>3
    <3>5. v \in n + 1 .. topic[l][i].version
      BY <1>1, <1>2, <3>1, <3>3, <3>4
    <3>. QED  BY <1>6, <3>3, <3>5
  <2>. QED  BY <2>3, <2>4
<1>9. ASSUME NEW i, i = handled[k] + 1
      PROVE  Overtaken(k, i)'
  BY <1>1, <1>2, <1>3, <1>9 DEF Overtaken
<1>10. \A l \in Kinds : \A i \in 1 .. handled'[l] :
        i \in 1 .. handled[l] \/ (l = k /\ i = handled[k] + 1)
  BY <1>1, HandledOne
<1>. QED  BY <1>5, <1>8, <1>9, <1>10
-----------------------------------------------------------------------------
(* The alerts of 05-independent-updates.                                   *)

Times == [isTriggered : BOOLEAN, lastAt : [Kinds -> Nat]]

IndependentInv ==
  /\ independent \in [Alerts -> Times] /\ updated \in [Alerts -> Times]
  /\ \A a \in Alerts, k \in Kinds :
       independent[a].lastAt[k] <= issued[a] /\ updated[a].lastAt[k] <= issued[a]

LEMMA NoTimes ==
  ASSUME NEW f, f = [a \in Alerts |-> I!New]
  PROVE  /\ f \in [Alerts -> Times]
         /\ \A a \in Alerts, k \in Kinds : f[a].lastAt[k] = 0
<1>1. I!New \in Times /\ \A k \in Kinds : I!New.lastAt[k] = 0
  BY DEF I!New, I!Kinds, Kinds, Times
<1>. QED  BY <1>1

LEMMA IndependentBegins ==
  ASSUME I!Init, TopicInv
  PROVE  IndependentInv
<1>1. \A a \in Alerts : issued[a] \in Nat
  BY DEF TopicInv, TopicTypes
<1>2. independent = [a \in Alerts |-> I!New] /\ updated = [a \in Alerts |-> I!New]
  BY DEF I!Init
<1>. QED  BY <1>1, <1>2, NoTimes DEF IndependentInv

LEMMA IndependentStays ==
  ASSUME IndependentInv, TopicInv, TopicInv', TopicsGrow, UNCHANGED <<independent, updated>>
  PROVE  IndependentInv'
<1>1. \A a \in Alerts : issued[a] \in Nat /\ issued'[a] \in Nat /\ issued[a] <= issued'[a]
  BY DEF TopicInv, TopicTypes, TopicsGrow
<1>. QED  BY <1>1 DEF IndependentInv, Times

LEMMA ApplyKeepsTimes ==
  ASSUME IndependentInv, TopicInv, NEW k \in Kinds, I!Apply(k)
  PROVE  IndependentInv'
<1>. SUFFICES ASSUME NEW a, a = Message(k).alert, NEW v, v = Message(k).version
              PROVE  IndependentInv'
  OBVIOUS
<1>. DEFINE u == [isTriggered |-> k = "triggered", lastAt |-> [independent[a].lastAt EXCEPT ![k] = v]]
<1>1. /\ Received(k)
      /\ independent' = [independent EXCEPT ![a] = u]
      /\ updated' = [updated EXCEPT ![a] = u] \/ updated' = updated
      /\ issued' = issued
  BY DEF I!Apply, I!Received, I!Message, I!Ack, I!Nack, Received, Message
<1>2. a \in Alerts /\ v \in Nat /\ issued[a] \in Nat /\ v <= issued[a]
  BY <1>1, MessageIsGood
<1>3. u \in Times /\ \A l \in Kinds : u.lastAt[l] <= issued[a]
  BY <1>2 DEF IndependentInv, Times
<1>. HIDE DEF u
<1>4. independent' \in [Alerts -> Times] /\ updated' \in [Alerts -> Times]
  BY <1>1, <1>3 DEF IndependentInv
<1>6. \A b \in Alerts, l \in Kinds : independent'[b].lastAt[l] <= issued[b]
  BY <1>1, <1>2, <1>3 DEF IndependentInv
<1>7. \A b \in Alerts, l \in Kinds : updated'[b].lastAt[l] <= issued[b]
  BY <1>1, <1>2, <1>3 DEF IndependentInv
<1>. QED  BY <1>1, <1>4, <1>6, <1>7 DEF IndependentInv
-----------------------------------------------------------------------------
(* The same operator, through the instances. *)
LEMMA SameCardinality ==
  ASSUME NEW S
  PROVE  R!Cardinality(S) = Cardinality(S) /\ V!Cardinality(S) = Cardinality(S)
BY DEF R!Cardinality, V!Cardinality, Cardinality

(* The invoices: what one more payment, or voiding, does to a row.         *)

LEMMA UnitsOfOne ==
  ASSUME NEW e, NEW n \in Nat
  PROVE  IsFiniteSet({e} \X (1 .. n)) /\ Cardinality({e} \X (1 .. n)) = n
<1>1. IsFiniteSet({e}) /\ Cardinality({e}) = 1
  BY FS_Singleton
<1>2. IsFiniteSet(1 .. n) /\ Cardinality(1 .. n) = n
  BY FS_Interval
<1>3. /\ IsFiniteSet({e} \X (1 .. n))
      /\ Cardinality({e} \X (1 .. n)) = Cardinality({e}) * Cardinality(1 .. n)
  BY ONLY <1>1, <1>2, FS_Product
<1>4. Cardinality({e} \X (1 .. n)) = 1 * n
  BY ONLY <1>1, <1>2, <1>3
<1>. QED  BY <1>3, <1>4

LEMMA OneMorePayment ==
  ASSUME NEW P, NEW e, e \notin P, e.paidAmount \in Nat, IsFiniteSet(R!Units(P))
  PROVE  /\ IsFiniteSet(R!Units(P \cup {e}))
         /\ Cardinality(R!Units(P)) \in Nat
         /\ Cardinality(R!Units(P \cup {e})) = Cardinality(R!Units(P)) + e.paidAmount
<1>. DEFINE new == {e} \X (1 .. e.paidAmount)
            old == R!Units(P)
<1>1. R!Units(P \cup {e}) = old \cup new
  <2>1. \A x : x \in R!Units(P \cup {e}) <=> \E f \in P \cup {e} : x \in {f} \X (1 .. f.paidAmount)
    BY DEF R!Units
  <2>2. \A x : x \in old <=> \E f \in P : x \in {f} \X (1 .. f.paidAmount)
    BY DEF R!Units
  <2>. HIDE DEF old
  <2>3. \A x : x \in R!Units(P \cup {e}) <=> x \in old \/ x \in new
    BY <2>1, <2>2
  <2>. QED  BY <2>3
<1>2. old \cap new = {}
  BY DEF R!Units
<1>3. IsFiniteSet(new) /\ Cardinality(new) = e.paidAmount
  BY UnitsOfOne
<1>4. IsFiniteSet(old)
  OBVIOUS
<1>. HIDE DEF old, new
<1>5. /\ IsFiniteSet(old \cup new)
      /\ Cardinality(old \cup new) = Cardinality(old) + Cardinality(new) - Cardinality(old \cap new)
  BY <1>3, <1>4, FS_Union
<1>6. Cardinality(old) \in Nat /\ Cardinality(old \cap new) = 0
  BY <1>2, <1>4, FS_CardinalityType, FS_EmptySet
<1>7. Cardinality(old \cup new) = Cardinality(old) + e.paidAmount
  BY <1>3, <1>5, <1>6
<1>. QED  BY <1>1, <1>5, <1>6, <1>7 DEF old

LEMMA LatestOfMore ==
  ASSUME NEW E, NEW e, e.at \in Nat, NEW t \in Nat, \A f \in E : f.at \in Nat, R!IsLatest(t, E)
  PROVE  R!IsLatest(R!Later(e.at, t), E \cup {e}) /\ R!Later(e.at, t) \in Nat
<1>1. CASE e.at > t
  <2>1. R!Later(e.at, t) = e.at
    BY <1>1 DEF R!Later
  <2>2. \A f \in E \cup {e} : f.at <= e.at
    BY <1>1 DEF R!IsLatest
  <2>. QED  BY <2>1, <2>2 DEF R!IsLatest
<1>2. CASE ~(e.at > t)
  <2>1. R!Later(e.at, t) = t
    BY <1>2 DEF R!Later
  <2>2. \A f \in E \cup {e} : f.at <= t
    BY <1>2 DEF R!IsLatest
  <2>. QED  BY <2>1, <2>2 DEF R!IsLatest
<1>. QED  BY <1>1, <1>2

LEMMA PaymentReflected ==
  ASSUME NEW row \in R!Row, NEW P \in SUBSET R!InvoicePaymentReceived, NEW W,
         IsFiniteSet(R!Units(P)), R!Reflects(row, P, W),
         NEW e \in R!InvoicePaymentReceived, e \notin P,
         NEW paid, paid = [row EXCEPT !.paidAmount = @ + e.paidAmount,
                                      !.lastPaymentAt = R!Later(e.at, @),
                                      !.fullyPaid = @ \/ e.fullyPaid]
  PROVE  paid \in R!Row /\ R!Reflects(paid, P \cup {e}, W)
<1>1. e.paidAmount \in Nat /\ e.at \in Nat /\ e.fullyPaid \in BOOLEAN /\ \A f \in P : f.at \in Nat
  BY DEF R!InvoicePaymentReceived
<1>2. /\ row.paidAmount \in Nat /\ row.lastPaymentAt \in Nat
      /\ row.fullyPaid \in BOOLEAN /\ row.voided \in BOOLEAN /\ row.voidedAt \in Nat
  BY DEF R!Row
<1>3. /\ row.paidAmount = Cardinality(R!Units(P))
      /\ row.fullyPaid <=> \E f \in P : f.fullyPaid
      /\ R!IsLatest(row.lastPaymentAt, P)
      /\ row.voided <=> W # {}
      /\ R!IsLatest(row.voidedAt, W)
  BY SameCardinality DEF R!Reflects
<1>4. /\ paid.paidAmount = row.paidAmount + e.paidAmount
      /\ paid.lastPaymentAt = R!Later(e.at, row.lastPaymentAt)
      /\ paid.fullyPaid = (row.fullyPaid \/ e.fullyPaid)
      /\ paid.voided = row.voided /\ paid.voidedAt = row.voidedAt
  BY DEF R!Row
<1>5. /\ R!IsLatest(R!Later(e.at, row.lastPaymentAt), P \cup {e})
      /\ R!Later(e.at, row.lastPaymentAt) \in Nat
  BY ONLY <1>1, <1>2, <1>3, LatestOfMore
<1>6. paid.paidAmount = Cardinality(R!Units(P \cup {e}))
  BY <1>1, <1>3, <1>4, OneMorePayment
<1>7. paid.fullyPaid <=> \E f \in P \cup {e} : f.fullyPaid
  BY <1>3, <1>4
<1>8. paid \in R!Row
  <2>1. row.paidAmount + e.paidAmount \in Nat /\ (row.fullyPaid \/ e.fullyPaid) \in BOOLEAN
    BY <1>1, <1>2
  <2>. QED  BY <1>5, <2>1 DEF R!Row
<1>9. R!IsLatest(paid.lastPaymentAt, P \cup {e}) /\ R!IsLatest(paid.voidedAt, W)
  BY <1>3, <1>4, <1>5
<1>10. paid.voided <=> W # {}
  BY <1>3, <1>4
<1>11. R!Reflects(paid, P \cup {e}, W)
  BY <1>6, <1>7, <1>9, <1>10, SameCardinality DEF R!Reflects
<1>. QED  BY <1>8, <1>11

LEMMA VoidingReflected ==
  ASSUME NEW row \in R!Row, NEW P, NEW W \in SUBSET R!InvoiceVoided, R!Reflects(row, P, W),
         NEW e \in R!InvoiceVoided,
         NEW void, void = [row EXCEPT !.voided = TRUE, !.voidedAt = R!Later(e.at, @)]
  PROVE  void \in R!Row /\ R!Reflects(void, P, W \cup {e})
<1>1. e.at \in Nat /\ \A f \in W : f.at \in Nat
  BY DEF R!InvoiceVoided
<1>2. row.voidedAt \in Nat /\ R!IsLatest(row.voidedAt, W)
  BY DEF R!Row, R!Reflects
<1>3. R!IsLatest(R!Later(e.at, row.voidedAt), W \cup {e}) /\ R!Later(e.at, row.voidedAt) \in Nat
  BY <1>1, <1>2, LatestOfMore
<1>4. /\ void.paidAmount = row.paidAmount /\ void.fullyPaid = row.fullyPaid
      /\ void.lastPaymentAt = row.lastPaymentAt /\ void.voided = TRUE
      /\ void.voidedAt = R!Later(e.at, row.voidedAt)
  BY DEF R!Row
<1>5. void \in R!Row
  BY <1>3 DEF R!Row
<1>. QED  BY <1>3, <1>4, <1>5 DEF R!Reflects

(* The invoices: an event a handler has is the one its publisher waits for,*)
(* and the row of its invoice, once it is read, stays as it was until the  *)
(* handler writes it, if payments and voidings do not meet.                *)
InvoiceTypes ==
  /\ acked \in [Publishers -> Nat]
  /\ \A p \in Publishers : acked[p] <= Len(Events[p])
  /\ hand \in [R!Handlers -> Publishers \cup {R!None}]
  /\ \A h \in R!Handlers :
       hand[h] # R!None => acked[hand[h]] < Len(Events[hand[h]]) /\ R!InHand(h).type = h
  /\ DOMAIN copy \subseteq R!Handlers
  /\ \A h \in DOMAIN copy : hand[h] # R!None /\ copy[h] \in R!Row
  /\ \A i \in DOMAIN invoices : invoices[i] \in R!Row
  /\ fatal \in BOOLEAN

Payments(i) == R!AckedOf(i, "InvoicePaymentReceived")
Voidings(i) == R!AckedOf(i, "InvoiceVoided")

AckedInv ==
  /\ \A e \in R!Acked : e \in R!InvoiceEvent /\ e.invoice \in DOMAIN invoices
  /\ \A i \in DOMAIN invoices : R!AckedOf(i, "InvoiceIssued") # {}
  /\ processedPayments =
       {e.payment : e \in {f \in R!Acked : f.type = "InvoicePaymentReceived"}}

CopyInv ==
  \A h \in DOMAIN copy :
    h # "InvoiceIssued" =>
      /\ R!InHand(h).invoice \in DOMAIN invoices
      /\ R!InTurn(R!InHand(h).invoice) => copy[h] = invoices[R!InHand(h).invoice]

RowsInv ==
  \A i \in DOMAIN invoices :
    R!InTurn(i) =>
      IsFiniteSet(R!Units(Payments(i))) /\ R!Reflects(invoices[i], Payments(i), Voidings(i))

InvoiceInv == InvoiceTypes /\ AckedInv /\ CopyInv /\ RowsInv

LEMMA InAcked ==
  ASSUME NEW x
  PROVE  x \in R!Acked <=> \E p \in Publishers : \E n \in 1 .. acked[p] : x = Events[p][n]
BY DEF R!Acked

LEMMA InvoicesBegin ==
  ASSUME R!Init
  PROVE  InvoiceInv
<1>1. /\ DOMAIN invoices = {} /\ DOMAIN copy = {} /\ processedPayments = {} /\ fatal = FALSE
      /\ acked = [p \in Publishers |-> 0] /\ hand = [h \in R!Handlers |-> R!None]
  BY DEF R!Init
<1>2. \A p \in Publishers : Len(Events[p]) \in Nat
  BY EventAssumption
<1>3. InvoiceTypes
  <2>1. acked \in [Publishers -> Nat] /\ \A p \in Publishers : acked[p] <= Len(Events[p])
    BY <1>1, <1>2
  <2>2. hand \in [R!Handlers -> Publishers \cup {R!None}] /\ \A h \in R!Handlers : hand[h] = R!None
    BY <1>1
  <2>3. /\ DOMAIN copy \subseteq R!Handlers
        /\ \A h \in DOMAIN copy : hand[h] # R!None /\ copy[h] \in R!Row
        /\ \A i \in DOMAIN invoices : invoices[i] \in R!Row
        /\ fatal \in BOOLEAN
    BY <1>1
  <2>. QED  BY <2>1, <2>2, <2>3 DEF InvoiceTypes
<1>4. R!Acked = {}
  <2>1. \A p \in Publishers : 1 .. acked[p] = {}
    BY <1>1
  <2>2. \A x : x \notin R!Acked
    BY <2>1, InAcked
  <2>. QED  BY <2>2
<1>5. AckedInv
  BY <1>1, <1>4 DEF AckedInv
<1>6. CopyInv /\ RowsInv
  BY <1>1 DEF CopyInv, RowsInv
<1>. QED  BY <1>3, <1>5, <1>6 DEF InvoiceInv

(* The event a handler has. *)
LEMMA EventInHand ==
  ASSUME InvoiceTypes, NEW h \in R!Handlers, hand[h] # R!None
  PROVE  /\ hand[h] \in Publishers
         /\ acked[hand[h]] + 1 \in DOMAIN Events[hand[h]] /\ acked[hand[h]] \in Nat
         /\ R!InHand(h) = Events[hand[h]][acked[hand[h]] + 1]
         /\ R!InHand(h) \in R!InvoiceEvent /\ R!InHand(h).type = h
<1>1. hand[h] \in Publishers /\ R!InHand(h).type = h /\ acked[hand[h]] < Len(Events[hand[h]])
  BY DEF InvoiceTypes
<1>2. acked[hand[h]] \in Nat /\ Events[hand[h]] \in Seq(R!InvoiceEvent)
  BY <1>1, EventAssumption DEF InvoiceTypes
<1>3. acked[hand[h]] + 1 \in DOMAIN Events[hand[h]]
  BY <1>1, <1>2
<1>4. R!InHand(h) = Events[hand[h]][acked[hand[h]] + 1]
  BY DEF R!InHand, R!Event
<1>5. Events[hand[h]][acked[hand[h]] + 1] \in R!InvoiceEvent
  BY <1>2, <1>3
<1>. QED  BY <1>1, <1>2, <1>3, <1>4, <1>5

LEMMA EventKinds ==
  ASSUME NEW e \in R!InvoiceEvent
  PROVE  /\ e.type = "InvoicePaymentReceived" => e \in R!InvoicePaymentReceived
         /\ e.type = "InvoiceVoided" => e \in R!InvoiceVoided
         /\ e.invoice \in Invoice
BY DEF R!InvoiceEvent, R!InvoiceIssued, R!InvoicePaymentReceived, R!InvoiceVoided

(* Two handlers have events of two publishers. *)
LEMMA HandsDiffer ==
  ASSUME InvoiceTypes, NEW h \in R!Handlers, NEW g \in R!Handlers, h # g,
         hand[h] # R!None, hand[g] # R!None
  PROVE  hand[g] # hand[h]
BY EventInHand

(* What an acknowledgement leaves as it was. *)
LEMMA AckStep ==
  ASSUME InvoiceTypes, NEW h \in DOMAIN copy, R!Ack(h),
         \A i \in DOMAIN invoices' : invoices'[i] \in R!Row
  PROVE  /\ InvoiceTypes'
         /\ DOMAIN copy' = DOMAIN copy \ {h}
         /\ \A g \in DOMAIN copy' : copy'[g] = copy[g] /\ R!InHand(g)' = R!InHand(g)
         /\ \A e : e = R!InHand(h) => R!Acked' = R!Acked \cup {e}
<1>1. h \in R!Handlers /\ hand[h] # R!None
  BY DEF InvoiceTypes
<1>2. PICK p : p = hand[h]
  OBVIOUS
<1>3. /\ p \in Publishers /\ acked[p] \in Nat /\ acked[p] + 1 \in DOMAIN Events[p]
      /\ R!InHand(h) = Events[p][acked[p] + 1]
  BY <1>1, <1>2, EventInHand
<1>4. /\ acked' = [acked EXCEPT ![p] = acked[p] + 1]
      /\ hand' = [hand EXCEPT ![h] = R!None]
      /\ copy' = [g \in DOMAIN copy \ {h} |-> copy[g]]
      /\ fatal' = fatal
  BY <1>2 DEF R!Ack
<1>5. /\ acked'[p] = acked[p] + 1 /\ \A q \in Publishers : q # p => acked'[q] = acked[q]
      /\ hand'[h] = R!None /\ \A g \in R!Handlers : g # h => hand'[g] = hand[g]
      /\ acked' \in [Publishers -> Nat]
      /\ hand' \in [R!Handlers -> Publishers \cup {R!None}]
  BY <1>1, <1>3, <1>4 DEF InvoiceTypes
<1>6. /\ DOMAIN copy' = DOMAIN copy \ {h}
      /\ \A g \in DOMAIN copy' : copy'[g] = copy[g]
  BY <1>4
<1>7. ASSUME NEW g \in R!Handlers, g # h, hand[g] # R!None
      PROVE  /\ R!InHand(g)' = R!InHand(g)
             /\ hand'[g] = hand[g] /\ acked'[hand'[g]] = acked[hand[g]]
  <2>1. hand'[g] = hand[g] /\ hand[g] # p /\ hand[g] \in Publishers
    BY <1>1, <1>2, <1>5, <1>7, HandsDiffer, EventInHand
  <2>2. acked'[hand'[g]] = acked[hand[g]]
    BY <1>5, <2>1
  <2>3. R!InHand(g)' = Events[hand'[g]][acked'[hand'[g]] + 1]
    BY DEF R!InHand, R!Event
  <2>4. R!InHand(g) = Events[hand[g]][acked[hand[g]] + 1]
    BY DEF R!InHand, R!Event
  <2>. QED  BY <2>1, <2>2, <2>3, <2>4
<1>8. \A q \in Publishers : acked'[q] <= Len(Events[q])
  <2>1. Events[p] \in Seq(R!InvoiceEvent)
    BY <1>3, EventAssumption
  <2>2. acked[p] + 1 <= Len(Events[p])
    BY <1>3, <2>1
  <2>. QED  BY <1>5, <2>2 DEF InvoiceTypes
<1>9. InvoiceTypes'
  <2>1. \A g \in R!Handlers :
          hand'[g] # R!None =>
            acked'[hand'[g]] < Len(Events[hand'[g]]) /\ R!InHand(g)'.type = g
    <3>. SUFFICES ASSUME NEW g \in R!Handlers, hand'[g] # R!None
                  PROVE  acked'[hand'[g]] < Len(Events[hand'[g]]) /\ R!InHand(g)'.type = g
      OBVIOUS
    <3>1. g # h /\ hand[g] # R!None
      BY <1>5
    <3>2. acked[hand[g]] < Len(Events[hand[g]]) /\ R!InHand(g).type = g
      BY <3>1 DEF InvoiceTypes
    <3>. QED  BY <1>7, <3>1, <3>2
  <2>2. \A g \in DOMAIN copy' : hand'[g] # R!None /\ copy'[g] \in R!Row
    BY <1>5, <1>6 DEF InvoiceTypes
  <2>3. DOMAIN copy' \subseteq R!Handlers /\ fatal' \in BOOLEAN
    BY <1>4, <1>6 DEF InvoiceTypes
  <2>4. \A i \in DOMAIN invoices' : invoices'[i] \in R!Row
    OBVIOUS
  <2>. QED  BY ONLY <1>5, <1>8, <2>1, <2>2, <2>3, <2>4 DEF InvoiceTypes
<1>10. \A g \in DOMAIN copy' : R!InHand(g)' = R!InHand(g)
  BY <1>6, <1>7 DEF InvoiceTypes
<1>11. ASSUME NEW e, e = R!InHand(h) PROVE R!Acked' = R!Acked \cup {e}
  <2>1. \A x : x \in R!Acked' <=> \E q \in Publishers : \E n \in 1 .. acked'[q] : x = Events[q][n]
    BY DEF R!Acked
  <2>2. \A q \in Publishers : q # p => 1 .. acked'[q] = 1 .. acked[q]
    BY <1>5
  <2>3. 1 .. acked'[p] = (1 .. acked[p]) \cup {acked[p] + 1}
    BY <1>3, <1>5
  <2>4. e = Events[p][acked[p] + 1]
    BY <1>3, <1>11
  <2>5. ASSUME NEW x, x \in R!Acked' PROVE x \in R!Acked \cup {e}
    <3>1. PICK q \in Publishers : \E n \in 1 .. acked'[q] : x = Events[q][n]
      BY <2>1, <2>5
    <3>2. CASE q = p
      BY <3>1, <3>2, <1>3, <2>3, <2>4, InAcked
    <3>3. CASE q # p
      BY <3>1, <3>3, <2>2, InAcked
    <3>. QED  BY <3>2, <3>3
  <2>6. ASSUME NEW x, x \in R!Acked PROVE x \in R!Acked'
    <3>1. PICK q \in Publishers : \E n \in 1 .. acked[q] : x = Events[q][n]
      BY <2>6, InAcked
    <3>2. CASE q = p
      BY <3>1, <3>2, <1>3, <2>1, <2>3
    <3>3. CASE q # p
      BY <3>1, <3>3, <2>1, <2>2
    <3>. QED  BY <3>2, <3>3
  <2>7. e \in R!Acked'
    BY <1>3, <2>1, <2>3, <2>4
  <2>. QED  BY <2>5, <2>6, <2>7
<1>. QED  BY <1>6, <1>9, <1>10, <1>11

LEMMA AckedOfStep ==
  ASSUME NEW e, R!Acked' = R!Acked \cup {e}, NEW i, NEW t
  PROVE  /\ e.invoice = i /\ e.type = t => R!AckedOf(i, t)' = R!AckedOf(i, t) \cup {e}
         /\ ~(e.invoice = i /\ e.type = t) => R!AckedOf(i, t)' = R!AckedOf(i, t)
BY DEF R!AckedOf

LEMMA AckedAreEvents ==
  ASSUME InvoiceTypes, NEW x \in R!Acked
  PROVE  \E p \in Publishers : \E n \in DOMAIN Events[p] : x = Events[p][n]
<1>1. PICK p \in Publishers : \E n \in 1 .. acked[p] : x = Events[p][n]
  BY InAcked
<1>2. Events[p] \in Seq(R!InvoiceEvent) /\ acked[p] \in Nat /\ acked[p] <= Len(Events[p])
  BY EventAssumption DEF InvoiceTypes
<1>3. \A n \in 1 .. acked[p] : n \in DOMAIN Events[p]
  BY <1>2
<1>. QED  BY <1>1, <1>3

(* The bus gives a handler an event. *)
LEMMA ReceiveKeeps ==
  ASSUME InvoiceInv, NEW h \in R!Handlers, R!Receive(h)
  PROVE  InvoiceInv'
<1>1. PICK p \in Publishers :
        R!Publishing(p) /\ R!Event(p).type = h /\ hand' = [hand EXCEPT ![h] = p]
  BY DEF R!Receive
<1>2. hand[h] = R!None /\ UNCHANGED <<invoices, processedPayments, acked, copy, fatal>>
  BY DEF R!Receive
<1>3. /\ hand'[h] = p /\ \A g \in R!Handlers : g # h => hand'[g] = hand[g]
      /\ hand' \in [R!Handlers -> Publishers \cup {R!None}]
  BY <1>1 DEF InvoiceInv, InvoiceTypes
<1>4. h \notin DOMAIN copy
  BY <1>2 DEF InvoiceInv, InvoiceTypes
<1>5. \A g \in R!Handlers : g # h => R!InHand(g)' = R!InHand(g)
  BY <1>2, <1>3 DEF R!InHand, R!Event
<1>6. acked'[p] < Len(Events[p]) /\ R!InHand(h)'.type = h
  BY <1>1, <1>2, <1>3 DEF R!Publishing, R!InHand, R!Event
<1>7. InvoiceTypes'
  <2>1. \A g \in R!Handlers :
          hand'[g] # R!None =>
            acked'[hand'[g]] < Len(Events[hand'[g]]) /\ R!InHand(g)'.type = g
    BY <1>2, <1>3, <1>5, <1>6 DEF InvoiceInv, InvoiceTypes
  <2>2. DOMAIN copy \subseteq R!Handlers
    BY DEF InvoiceInv, InvoiceTypes
  <2>3. \A g \in DOMAIN copy' : hand'[g] # R!None /\ copy'[g] \in R!Row
    BY <1>2, <1>3, <1>4, <2>2 DEF InvoiceInv, InvoiceTypes
  <2>. QED  BY <1>2, <1>3, <2>1, <2>3 DEF InvoiceInv, InvoiceTypes
<1>8. R!Acked' = R!Acked
  BY <1>2 DEF R!Acked
<1>9. AckedInv' /\ RowsInv'
  BY <1>2, <1>8 DEF InvoiceInv, AckedInv, RowsInv, Payments, Voidings, R!AckedOf
<1>10. CopyInv'
  <2>1. \A g \in DOMAIN copy' : R!InHand(g)' = R!InHand(g)
    BY <1>2, <1>4, <1>5 DEF InvoiceInv, InvoiceTypes
  <2>. QED  BY <1>2, <2>1 DEF InvoiceInv, CopyInv
<1>. QED  BY <1>7, <1>9, <1>10 DEF InvoiceInv

(* A handler reads the invoice. *)
LEMMA InvoiceByIDKeeps ==
  ASSUME InvoiceInv, NEW h \in R!Handlers, R!InvoiceByID(h)
  PROVE  InvoiceInv'
<1>. SUFFICES ASSUME NEW i, i = R!InHand(h).invoice PROVE InvoiceInv'
  OBVIOUS
<1>0. PICK row : row = IF i \in DOMAIN invoices THEN invoices[i] ELSE R!New
  OBVIOUS
<1>1. /\ hand[h] # R!None /\ copy' = R!Put(copy, h, row)
      /\ h = "InvoiceIssued" \/ i \in DOMAIN invoices
      /\ UNCHANGED <<invoices, processedPayments, acked, hand, fatal>>
  BY <1>0 DEF R!InvoiceByID, R!Found
<1>2. row \in R!Row
  <2>1. R!New \in R!Row
    BY DEF R!New, R!Row
  <2>. QED  BY <1>0, <2>1 DEF InvoiceInv, InvoiceTypes
<1>3. /\ DOMAIN copy' = DOMAIN copy \cup {h} /\ copy'[h] = row
      /\ \A g \in DOMAIN copy : g # h => copy'[g] = copy[g]
  BY <1>1 DEF R!Put
<1>4. \A g : R!InHand(g)' = R!InHand(g)
  BY <1>1 DEF R!InHand, R!Event
<1>5. InvoiceTypes'
  <2>1. \A g \in DOMAIN copy' : hand'[g] # R!None /\ copy'[g] \in R!Row
    BY <1>1, <1>2, <1>3 DEF InvoiceInv, InvoiceTypes
  <2>2. DOMAIN copy' \subseteq R!Handlers
    BY <1>3 DEF InvoiceInv, InvoiceTypes
  <2>3. \A g \in R!Handlers :
          hand'[g] # R!None =>
            acked'[hand'[g]] < Len(Events[hand'[g]]) /\ R!InHand(g)'.type = g
    BY <1>1, <1>4 DEF InvoiceInv, InvoiceTypes
  <2>. QED  BY <1>1, <2>1, <2>2, <2>3 DEF InvoiceInv, InvoiceTypes
<1>6. R!Acked' = R!Acked
  BY <1>1 DEF R!Acked
<1>7. AckedInv' /\ RowsInv'
  BY <1>1, <1>6 DEF InvoiceInv, AckedInv, RowsInv, Payments, Voidings, R!AckedOf
<1>8. CopyInv'
  <2>. SUFFICES ASSUME NEW g \in DOMAIN copy', g # "InvoiceIssued"
                PROVE  /\ R!InHand(g).invoice \in DOMAIN invoices
                       /\ R!InTurn(R!InHand(g).invoice) => copy'[g] = invoices[R!InHand(g).invoice]
    BY <1>1, <1>4 DEF CopyInv
  <2>1. CASE g = h
    BY <1>0, <1>1, <1>3, <2>1
  <2>2. CASE g # h
    BY <1>3, <2>2 DEF InvoiceInv, CopyInv
  <2>. QED  BY <2>1, <2>2
<1>. QED  BY <1>5, <1>7, <1>8 DEF InvoiceInv

LEMMA FatalKeeps ==
  ASSUME InvoiceInv, R!ConcurrentMapWrites
  PROVE  InvoiceInv'
<1>1. fatal' \in BOOLEAN /\ UNCHANGED <<invoices, processedPayments, acked, hand, copy>>
  BY DEF R!ConcurrentMapWrites
<1>2. R!Acked' = R!Acked /\ \A g : R!InHand(g)' = R!InHand(g)
  BY <1>1 DEF R!Acked, R!InHand, R!Event
<1>3. InvoiceTypes'
  BY <1>1, <1>2 DEF InvoiceInv, InvoiceTypes
<1>4. AckedInv' /\ RowsInv'
  BY <1>1, <1>2 DEF InvoiceInv, AckedInv, RowsInv, Payments, Voidings, R!AckedOf
<1>5. CopyInv'
  BY <1>1, <1>2 DEF InvoiceInv, CopyInv
<1>. QED  BY <1>3, <1>4, <1>5 DEF InvoiceInv

(* An invoice is added: nothing was said of it before. *)
LEMMA NothingPaid ==
  /\ IsFiniteSet(R!Units({}))
  /\ R!Reflects(R!New, {}, {})
  /\ R!New \in R!Row
<1>1. R!Units({}) = {}
  BY DEF R!Units
<1>2. IsFiniteSet(R!Units({})) /\ R!Cardinality(R!Units({})) = 0
  BY <1>1, FS_EmptySet, SameCardinality
<1>3. R!IsLatest(0, {})
  BY DEF R!IsLatest
<1>4. /\ R!New.paidAmount = 0 /\ R!New.fullyPaid = FALSE /\ R!New.lastPaymentAt = 0
      /\ R!New.voided = FALSE /\ R!New.voidedAt = 0
  BY DEF R!New
<1>5. R!New \in R!Row
  BY DEF R!New, R!Row
<1>. QED  BY <1>2, <1>3, <1>4, <1>5 DEF R!Reflects

LEMMA IssuedKeeps ==
  ASSUME InvoiceInv, R!OnInvoiceIssued
  PROVE  InvoiceInv'
<1>. DEFINE h == "InvoiceIssued"
<1>1. PICK e : e = R!InHand(h)
  OBVIOUS
<1>2. PICK i : i = e.invoice
  OBVIOUS
<1>3. /\ h \in DOMAIN copy /\ R!Ack(h)
      /\ IF i \in DOMAIN invoices THEN invoices' = invoices
         ELSE invoices' = R!Put(invoices, i, R!New)
      /\ processedPayments' = processedPayments
  BY <1>1, <1>2 DEF R!OnInvoiceIssued, R!HasRead, R!Store
<1>4. /\ DOMAIN invoices' = DOMAIN invoices \cup {i}
      /\ \A j \in DOMAIN invoices : invoices'[j] = invoices[j]
      /\ i \notin DOMAIN invoices => invoices'[i] = R!New
  BY <1>3 DEF R!Put
<1>5. e \in R!InvoiceEvent /\ e.type = h
  BY <1>1, <1>3, EventInHand DEF InvoiceInv, InvoiceTypes
<1>6. \A j \in DOMAIN invoices' : invoices'[j] \in R!Row
  BY <1>4, NothingPaid DEF InvoiceInv, InvoiceTypes
<1>7. /\ InvoiceTypes'
      /\ DOMAIN copy' = DOMAIN copy \ {h}
      /\ \A g \in DOMAIN copy' : copy'[g] = copy[g] /\ R!InHand(g)' = R!InHand(g)
      /\ R!Acked' = R!Acked \cup {e}
  BY <1>1, <1>3, <1>6, AckStep DEF InvoiceInv
<1>8. \A j : Payments(j)' = Payments(j) /\ Voidings(j)' = Voidings(j)
  BY <1>5, <1>7, AckedOfStep DEF Payments, Voidings
<1>9. AckedInv'
  <2>1. \A f \in R!Acked' : f \in R!InvoiceEvent /\ f.invoice \in DOMAIN invoices'
    BY <1>2, <1>4, <1>5, <1>7 DEF InvoiceInv, AckedInv
  <2>2. \A j \in DOMAIN invoices' : R!AckedOf(j, h)' # {}
    <3>. SUFFICES ASSUME NEW j \in DOMAIN invoices' PROVE R!AckedOf(j, h)' # {}
      OBVIOUS
    <3>1. CASE j = i
      BY <1>2, <1>5, <1>7, <3>1, AckedOfStep
    <3>2. CASE j # i
      <4>1. j \in DOMAIN invoices
        BY <1>4, <3>2
      <4>2. R!AckedOf(j, h)' = R!AckedOf(j, h)
        BY <1>2, <1>5, <1>7, <3>2, AckedOfStep
      <4>. QED  BY <4>1, <4>2 DEF InvoiceInv, AckedInv
    <3>. QED  BY <3>1, <3>2
  <2>3. {f \in R!Acked' : f.type = "InvoicePaymentReceived"} =
          {f \in R!Acked : f.type = "InvoicePaymentReceived"}
    BY <1>5, <1>7
  <2>. QED  BY <1>3, <2>1, <2>2, <2>3 DEF InvoiceInv, AckedInv
<1>10. CopyInv'
  BY <1>4, <1>7 DEF InvoiceInv, CopyInv
<1>11. RowsInv'
  <2>. SUFFICES ASSUME NEW j \in DOMAIN invoices', R!InTurn(j)
                PROVE  /\ IsFiniteSet(R!Units(Payments(j)))
                       /\ R!Reflects(invoices'[j], Payments(j), Voidings(j))
    BY <1>8 DEF RowsInv
  <2>1. CASE j \in DOMAIN invoices
    BY <1>4, <2>1 DEF InvoiceInv, RowsInv
  <2>2. CASE j \notin DOMAIN invoices
    <3>1. Payments(j) = {} /\ Voidings(j) = {}
      BY <2>2 DEF InvoiceInv, AckedInv, Payments, Voidings, R!AckedOf
    <3>2. invoices'[j] = R!New
      BY <1>4, <2>2
    <3>. QED  BY <3>1, <3>2, NothingPaid
  <2>. QED  BY <2>1, <2>2
<1>. QED  BY <1>7, <1>9, <1>10, <1>11 DEF InvoiceInv

(* While the payments and voidings of an invoice come in turn, only one of *)
(* the two handlers has it.                                                *)
LEMMA OneHandHasInvoice ==
  ASSUME InvoiceTypes, NEW h \in R!Handlers, NEW g \in R!Handlers, h # g,
         h # "InvoiceIssued", g # "InvoiceIssued", hand[h] # R!None, hand[g] # R!None,
         R!InTurn(R!InHand(h).invoice)
  PROVE  R!InHand(g).invoice # R!InHand(h).invoice
<1>. SUFFICES ASSUME NEW i, i = R!InHand(h).invoice, R!InHand(g).invoice = i PROVE FALSE
  OBVIOUS
<1>1. PICK p, m : p = hand[h] /\ m = acked[hand[h]] + 1
  OBVIOUS
<1>2. PICK q, n : q = hand[g] /\ n = acked[hand[g]] + 1
  OBVIOUS
<1>3. /\ p \in Publishers /\ m \in DOMAIN Events[p]
      /\ Events[p][m].type = h /\ Events[p][m].invoice = i
  BY <1>1, EventInHand
<1>4. /\ q \in Publishers /\ n \in DOMAIN Events[q]
      /\ Events[q][n].type = g /\ Events[q][n].invoice = i
  BY <1>2, EventInHand
<1>5. p # q
  BY <1>1, <1>2, HandsDiffer
<1>6. R!InTurn(i)
  OBVIOUS
<1>7. \/ h = "InvoicePaymentReceived" /\ g = "InvoiceVoided"
      \/ g = "InvoicePaymentReceived" /\ h = "InvoiceVoided"
  BY DEF R!Handlers
<1>. QED  BY <1>3, <1>4, <1>5, <1>6, <1>7 DEF R!InTurn

LEMMA StoreOne ==
  ASSUME NEW i \in DOMAIN invoices, NEW row, invoices' = R!Put(invoices, i, row)
  PROVE  /\ DOMAIN invoices' = DOMAIN invoices
         /\ \A j \in DOMAIN invoices : j # i => invoices'[j] = invoices[j]
         /\ invoices'[i] = row
BY DEF R!Put

(* A handler writes the invoice it has read. *)
LEMMA WriteKeepsCopies ==
  ASSUME InvoiceInv, NEW h \in DOMAIN copy, h # "InvoiceIssued",
         NEW i, i = R!InHand(h).invoice,
         DOMAIN copy' = DOMAIN copy \ {h},
         \A g \in DOMAIN copy' : copy'[g] = copy[g] /\ R!InHand(g)' = R!InHand(g),
         DOMAIN invoices' = DOMAIN invoices,
         \A j \in DOMAIN invoices : j # i => invoices'[j] = invoices[j]
  PROVE  CopyInv'
<1>. SUFFICES ASSUME NEW g \in DOMAIN copy', g # "InvoiceIssued"
              PROVE  /\ R!InHand(g).invoice \in DOMAIN invoices
                     /\ R!InTurn(R!InHand(g).invoice) => copy[g] = invoices'[R!InHand(g).invoice]
  BY DEF CopyInv
<1>1. /\ R!InHand(g).invoice \in DOMAIN invoices
      /\ R!InTurn(R!InHand(g).invoice) => copy[g] = invoices[R!InHand(g).invoice]
  BY DEF InvoiceInv, CopyInv
<1>2. ASSUME R!InTurn(R!InHand(g).invoice) PROVE R!InHand(g).invoice # i
  <2>1. /\ h \in R!Handlers /\ g \in R!Handlers /\ h # g
        /\ hand[h] # R!None /\ hand[g] # R!None
    BY DEF InvoiceInv, InvoiceTypes
  <2>. QED  BY <1>2, <2>1, OneHandHasInvoice DEF InvoiceInv
<1>. QED  BY <1>1, <1>2

LEMMA PaymentKeeps ==
  ASSUME InvoiceInv, R!OnInvoicePaymentReceived
  PROVE  InvoiceInv'
<1>. DEFINE h == "InvoicePaymentReceived"
<1>1. PICK e : e = R!InHand(h)
  OBVIOUS
<1>2. PICK i : i = e.invoice
  OBVIOUS
<1>3. PICK paid : paid = [copy[h] EXCEPT !.paidAmount = @ + e.paidAmount,
                                        !.lastPaymentAt = R!Later(e.at, @),
                                        !.fullyPaid = @ \/ e.fullyPaid]
  OBVIOUS
<1>4. /\ h \in DOMAIN copy /\ R!Ack(h)
      /\ \/ /\ e.payment \in processedPayments
            /\ invoices' = invoices /\ processedPayments' = processedPayments
         \/ /\ e.payment \notin processedPayments
            /\ invoices' = R!Put(invoices, i, paid)
            /\ processedPayments' = processedPayments \cup {e.payment}
  BY <1>1, <1>2, <1>3 DEF R!OnInvoicePaymentReceived, R!HasRead, R!Store, R!Processed
<1>5. /\ h \in R!Handlers /\ hand[h] # R!None /\ copy[h] \in R!Row /\ h # "InvoiceIssued"
      /\ i \in DOMAIN invoices
      /\ R!InTurn(i) => copy[h] = invoices[i]
  BY <1>1, <1>2, <1>4 DEF InvoiceInv, InvoiceTypes, CopyInv
<1>6. /\ e \in R!InvoiceEvent /\ e.type = h /\ e \in R!InvoicePaymentReceived
      /\ \E p \in Publishers : \E n \in DOMAIN Events[p] : e = Events[p][n]
  BY <1>1, <1>5, EventInHand, EventKinds DEF InvoiceInv
<1>7. /\ DOMAIN invoices' = DOMAIN invoices
      /\ \A j \in DOMAIN invoices : j # i => invoices'[j] = invoices[j]
      /\ e.payment \in processedPayments => invoices'[i] = invoices[i]
      /\ e.payment \notin processedPayments => invoices'[i] = paid
  <2>1. i \in DOMAIN invoices
    BY <1>5
  <2>2. CASE invoices' = invoices /\ e.payment \in processedPayments
    BY <2>2
  <2>3. CASE invoices' = R!Put(invoices, i, paid) /\ e.payment \notin processedPayments
    BY <2>1, <2>3, StoreOne
  <2>. QED  BY <1>4, <2>2, <2>3
<1>8. paid \in R!Row
  <2>1. e.paidAmount \in Nat /\ e.at \in Nat /\ e.fullyPaid \in BOOLEAN
    BY <1>6 DEF R!InvoicePaymentReceived
  <2>2. PICK row \in R!Row : row = copy[h]
    BY <1>5
  <2>3. /\ row.paidAmount + e.paidAmount \in Nat /\ (row.fullyPaid \/ e.fullyPaid) \in BOOLEAN
        /\ R!Later(e.at, row.lastPaymentAt) \in Nat
    BY <2>1 DEF R!Row, R!Later
  <2>4. paid = [row EXCEPT !.paidAmount = row.paidAmount + e.paidAmount,
                           !.lastPaymentAt = R!Later(e.at, row.lastPaymentAt),
                           !.fullyPaid = row.fullyPaid \/ e.fullyPaid]
    BY <1>3, <2>2
  <2>. QED  BY <2>3, <2>4 DEF R!Row
<1>9. \A j \in DOMAIN invoices' : invoices'[j] \in R!Row
  BY <1>5, <1>7, <1>8 DEF InvoiceInv, InvoiceTypes
<1>10. /\ InvoiceTypes'
       /\ DOMAIN copy' = DOMAIN copy \ {h}
       /\ \A g \in DOMAIN copy' : copy'[g] = copy[g] /\ R!InHand(g)' = R!InHand(g)
       /\ R!Acked' = R!Acked \cup {e}
  BY <1>1, <1>4, <1>9, AckStep DEF InvoiceInv
<1>11. CopyInv'
  BY <1>1, <1>2, <1>4, <1>5, <1>7, <1>10, WriteKeepsCopies
<1>12. processedPayments = {f.payment : f \in {g \in R!Acked : g.type = h}}
  BY DEF InvoiceInv, AckedInv
<1>13. e.payment \in processedPayments => e \in R!Acked
  <2>. SUFFICES ASSUME NEW f \in R!Acked, f.type = h, f.payment = e.payment PROVE e = f
    BY <1>12
  <2>1. f \in R!InvoicePaymentReceived
    BY EventKinds DEF InvoiceInv, AckedInv
  <2>2. \E p \in Publishers : \E n \in DOMAIN Events[p] : f = Events[p][n]
    BY AckedAreEvents DEF InvoiceInv
  <2>3. R!SamePayments
    BY EventAssumption
  <2>. QED  BY <1>6, <2>1, <2>2, <2>3 DEF R!SamePayments
<1>14. e.payment \notin processedPayments => e \notin R!Acked
  BY <1>6, <1>12
<1>15. AckedInv'
  <2>1. \A f \in R!Acked' : f \in R!InvoiceEvent /\ f.invoice \in DOMAIN invoices'
    <3>1. \A f \in R!Acked : f \in R!InvoiceEvent /\ f.invoice \in DOMAIN invoices
      BY DEF InvoiceInv, AckedInv
    <3>2. e \in R!InvoiceEvent /\ e.invoice \in DOMAIN invoices
      BY <1>2, <1>5, <1>6
    <3>3. DOMAIN invoices' = DOMAIN invoices /\ R!Acked' = R!Acked \cup {e}
      BY <1>7, <1>10
    <3>. QED  BY ONLY <3>1, <3>2, <3>3
  <2>2. \A j \in DOMAIN invoices' : R!AckedOf(j, "InvoiceIssued")' # {}
    BY <1>6, <1>7, <1>10, AckedOfStep DEF InvoiceInv, AckedInv
  <2>3. processedPayments' = {f.payment : f \in {g \in R!Acked' : g.type = h}}
    BY <1>4, <1>6, <1>10, <1>12, <1>13
  <2>. QED  BY <2>1, <2>2, <2>3 DEF AckedInv
<1>16. RowsInv'
  <2>. SUFFICES ASSUME NEW j \in DOMAIN invoices, R!InTurn(j)
                PROVE  /\ IsFiniteSet(R!Units(Payments(j)'))
                       /\ R!Reflects(invoices'[j], Payments(j)', Voidings(j)')
    BY <1>7 DEF RowsInv
  <2>1. IsFiniteSet(R!Units(Payments(j))) /\ R!Reflects(invoices[j], Payments(j), Voidings(j))
    BY DEF InvoiceInv, RowsInv
  <2>2. Voidings(j)' = Voidings(j)
    BY <1>6, <1>10, AckedOfStep DEF Voidings
  <2>3. CASE e.payment \in processedPayments
    <3>1. R!Acked' = R!Acked
      BY <1>10, <1>13, <2>3
    <3>2. Payments(j)' = Payments(j)
      BY <3>1 DEF Payments, R!AckedOf
    <3>. QED  BY <1>7, <2>1, <2>2, <2>3, <3>2
  <2>4. CASE e.payment \notin processedPayments /\ j # i
    <3>1. Payments(j)' = Payments(j)
      BY <1>2, <1>10, <2>4, AckedOfStep DEF Payments
    <3>. QED  BY <1>7, <2>1, <2>2, <2>4, <3>1
  <2>5. CASE e.payment \notin processedPayments /\ j = i
    <3>1. Payments(i)' = Payments(i) \cup {e}
      BY <1>2, <1>6, <1>10, AckedOfStep DEF Payments
    <3>2. e \notin Payments(i)
      BY <1>14, <2>5 DEF Payments, R!AckedOf
    <3>3. Payments(i) \in SUBSET R!InvoicePaymentReceived
      BY EventKinds DEF InvoiceInv, AckedInv, Payments, R!AckedOf
    <3>4. copy[h] = invoices[i] /\ invoices'[i] = paid
      BY <1>5, <1>7, <2>5
    <3>5. R!Reflects(copy[h], Payments(i), Voidings(i)) /\ IsFiniteSet(R!Units(Payments(i)))
      BY <2>1, <2>5, <3>4
    <3>6. R!Reflects(paid, Payments(i) \cup {e}, Voidings(i))
      BY <1>3, <1>5, <1>6, <3>2, <3>3, <3>5, PaymentReflected
    <3>7. IsFiniteSet(R!Units(Payments(i) \cup {e}))
      <4>1. e.paidAmount \in Nat
        BY <1>6 DEF R!InvoicePaymentReceived
      <4>. QED  BY <3>2, <3>5, <4>1, OneMorePayment
    <3>. QED  BY <2>2, <2>5, <3>1, <3>4, <3>6, <3>7
  <2>. QED  BY <2>3, <2>4, <2>5
<1>. QED  BY <1>10, <1>11, <1>15, <1>16 DEF InvoiceInv

LEMMA VoidedKeeps ==
  ASSUME InvoiceInv, R!OnInvoiceVoided
  PROVE  InvoiceInv'
<1>. DEFINE h == "InvoiceVoided"
<1>1. PICK e : e = R!InHand(h)
  OBVIOUS
<1>2. PICK i : i = e.invoice
  OBVIOUS
<1>3. PICK void : void = [copy[h] EXCEPT !.voided = TRUE, !.voidedAt = R!Later(e.at, @)]
  OBVIOUS
<1>4. /\ h \in DOMAIN copy /\ R!Ack(h)
      /\ invoices' = R!Put(invoices, i, void) /\ processedPayments' = processedPayments
  BY <1>1, <1>2, <1>3 DEF R!OnInvoiceVoided, R!HasRead, R!Store
<1>5. /\ h \in R!Handlers /\ hand[h] # R!None /\ copy[h] \in R!Row /\ h # "InvoiceIssued"
      /\ i \in DOMAIN invoices
      /\ R!InTurn(i) => copy[h] = invoices[i]
  BY <1>1, <1>2, <1>4 DEF InvoiceInv, InvoiceTypes, CopyInv
<1>6. e \in R!InvoiceEvent /\ e.type = h /\ e \in R!InvoiceVoided
  BY <1>1, <1>5, EventInHand, EventKinds DEF InvoiceInv
<1>7. /\ DOMAIN invoices' = DOMAIN invoices
      /\ \A j \in DOMAIN invoices : j # i => invoices'[j] = invoices[j]
      /\ invoices'[i] = void
  BY <1>4, <1>5, StoreOne
<1>8. void \in R!Row
  <2>1. e.at \in Nat
    BY <1>6 DEF R!InvoiceVoided
  <2>. QED  BY <1>3, <1>5, <2>1 DEF R!Row, R!Later
<1>9. \A j \in DOMAIN invoices' : invoices'[j] \in R!Row
  BY <1>5, <1>7, <1>8 DEF InvoiceInv, InvoiceTypes
<1>10. /\ InvoiceTypes'
       /\ DOMAIN copy' = DOMAIN copy \ {h}
       /\ \A g \in DOMAIN copy' : copy'[g] = copy[g] /\ R!InHand(g)' = R!InHand(g)
       /\ R!Acked' = R!Acked \cup {e}
  BY <1>1, <1>4, <1>9, AckStep DEF InvoiceInv
<1>11. CopyInv'
  BY <1>1, <1>2, <1>4, <1>5, <1>7, <1>10, WriteKeepsCopies
<1>12. AckedInv'
  <2>1. \A f \in R!Acked' : f \in R!InvoiceEvent /\ f.invoice \in DOMAIN invoices'
    <3>1. \A f \in R!Acked : f \in R!InvoiceEvent /\ f.invoice \in DOMAIN invoices
      BY DEF InvoiceInv, AckedInv
    <3>2. e \in R!InvoiceEvent /\ e.invoice \in DOMAIN invoices
      BY <1>2, <1>5, <1>6
    <3>3. DOMAIN invoices' = DOMAIN invoices /\ R!Acked' = R!Acked \cup {e}
      BY <1>7, <1>10
    <3>. QED  BY ONLY <3>1, <3>2, <3>3
  <2>2. \A j \in DOMAIN invoices' : R!AckedOf(j, "InvoiceIssued")' # {}
    BY <1>6, <1>7, <1>10, AckedOfStep DEF InvoiceInv, AckedInv
  <2>3. {f \in R!Acked' : f.type = "InvoicePaymentReceived"} =
          {f \in R!Acked : f.type = "InvoicePaymentReceived"}
    BY <1>6, <1>10
  <2>. QED  BY <1>4, <2>1, <2>2, <2>3 DEF InvoiceInv, AckedInv
<1>13. RowsInv'
  <2>. SUFFICES ASSUME NEW j \in DOMAIN invoices, R!InTurn(j)
                PROVE  /\ IsFiniteSet(R!Units(Payments(j)'))
                       /\ R!Reflects(invoices'[j], Payments(j)', Voidings(j)')
    BY <1>7 DEF RowsInv
  <2>1. IsFiniteSet(R!Units(Payments(j))) /\ R!Reflects(invoices[j], Payments(j), Voidings(j))
    BY DEF InvoiceInv, RowsInv
  <2>2. Payments(j)' = Payments(j)
    BY <1>6, <1>10, AckedOfStep DEF Payments
  <2>3. CASE j # i
    <3>1. Voidings(j)' = Voidings(j)
      BY <1>2, <1>10, <2>3, AckedOfStep DEF Voidings
    <3>. QED  BY <1>7, <2>1, <2>2, <2>3, <3>1
  <2>4. CASE j = i
    <3>1. Voidings(i)' = Voidings(i) \cup {e}
      BY <1>2, <1>6, <1>10, AckedOfStep DEF Voidings
    <3>2. Voidings(i) \in SUBSET R!InvoiceVoided
      BY EventKinds DEF InvoiceInv, AckedInv, Voidings, R!AckedOf
    <3>3. copy[h] = invoices[i]
      BY <1>5, <2>4
    <3>4. R!Reflects(copy[h], Payments(i), Voidings(i))
      BY <2>1, <2>4, <3>3
    <3>5. R!Reflects(void, Payments(i), Voidings(i) \cup {e})
      BY <1>3, <1>5, <1>6, <3>2, <3>4, VoidingReflected
    <3>. QED  BY <1>7, <2>1, <2>2, <2>4, <3>1, <3>5
  <2>. QED  BY <2>3, <2>4
<1>. QED  BY <1>10, <1>11, <1>12, <1>13 DEF InvoiceInv
-----------------------------------------------------------------------------
(* The programs together. *)
IInv ==
  /\ TopicInv /\ VersionedTypes /\ IndependentInv /\ InvoiceInv
  /\ Versions => UpdatesInv /\ LostInv

LEMMA SameTopics ==
  /\ V!TopicsInit <=> TopicsInit
  /\ V!Kinds = Kinds /\ I!Kinds = Kinds
  /\ \A a : (V!Produce(a) <=> Produce(a)) /\ (I!Produce(a) <=> Produce(a))
  /\ \A k : (V!Ack(k) <=> Ack(k)) /\ (I!Ack(k) <=> Ack(k))
  /\ \A k : (V!Commit(k) <=> Commit(k)) /\ (I!Commit(k) <=> Commit(k))
  /\ \A k : (V!Received(k) <=> Received(k)) /\ (I!Received(k) <=> Received(k))
  /\ (V!Nack <=> Nack) /\ (I!Nack <=> Nack)
  /\ (V!Restart <=> Restart) /\ (I!Restart <=> Restart)
<1>1. V!Kinds = Kinds /\ I!Kinds = Kinds
  BY DEF V!Kinds, I!Kinds, Kinds
<1>2. V!TopicsInit <=> TopicsInit
  BY <1>1 DEF V!TopicsInit, TopicsInit
<1>3. \A a : (V!Produce(a) <=> Produce(a)) /\ (I!Produce(a) <=> Produce(a))
  BY DEF V!Produce, I!Produce, Produce
<1>4. \A k : (V!Ack(k) <=> Ack(k)) /\ (I!Ack(k) <=> Ack(k))
  BY DEF V!Ack, I!Ack, Ack
<1>5. \A k : (V!Commit(k) <=> Commit(k)) /\ (I!Commit(k) <=> Commit(k))
  BY DEF V!Commit, I!Commit, Commit
<1>6. \A k : (V!Received(k) <=> Received(k)) /\ (I!Received(k) <=> Received(k))
  BY DEF V!Received, I!Received, Received
<1>7. (V!Nack <=> Nack) /\ (I!Nack <=> Nack)
  BY DEF V!Nack, I!Nack, Nack
<1>8. (V!Restart <=> Restart) /\ (I!Restart <=> Restart)
  BY DEF V!Restart, I!Restart, Restart
<1>. QED  BY <1>1, <1>2, <1>3, <1>4, <1>5, <1>6, <1>7, <1>8

LEMMA InitInv ==
  ASSUME Init
  PROVE  IInv
<1>1. V!Init /\ I!Init /\ R!Init
  BY DEF Init
<1>2. TopicsInit
  BY <1>1, SameTopics DEF V!Init
<1>3. TopicInv
  BY <1>2, TopicsBegin
<1>4. overtook = {}
  BY <1>1 DEF V!Init
<1>. QED  BY <1>1, <1>2, <1>3, <1>4, VersionedBegins, LostBegins, IndependentBegins, InvoicesBegin
          DEF IInv

LEMMA InvoicesStay ==
  ASSUME InvoiceInv, UNCHANGED invoiceVars
  PROVE  InvoiceInv'
<1>1. UNCHANGED <<invoices, processedPayments, acked, hand, copy, fatal>>
  BY DEF invoiceVars
<1>2. R!Acked' = R!Acked /\ \A g : R!InHand(g)' = R!InHand(g)
  BY <1>1 DEF R!Acked, R!InHand, R!Event
<1>3. InvoiceTypes'
  BY <1>1, <1>2 DEF InvoiceInv, InvoiceTypes
<1>4. AckedInv' /\ RowsInv'
  BY <1>1, <1>2 DEF InvoiceInv, AckedInv, RowsInv, Payments, Voidings, R!AckedOf
<1>5. CopyInv'
  BY <1>1, <1>2 DEF InvoiceInv, CopyInv
<1>. QED  BY <1>3, <1>4, <1>5 DEF InvoiceInv

LEMMA TopicsStay ==
  ASSUME TopicInv, UNCHANGED topicVars
  PROVE  TopicInv' /\ TopicsGrow
<1>1. UNCHANGED <<topic, issued, handled, committed, faults>>
  BY DEF topicVars
<1>2. TopicTypes'
  BY <1>1 DEF TopicInv, TopicTypes
<1>. QED  BY <1>1, <1>2, OffsetsKeep, BoundAssumption DEF TopicsGrow, TopicInv, TopicTypes

(* A step of 04-versioning-entities. *)
LEMMA VersionedStep ==
  ASSUME TopicInv, VersionedTypes, UpdatesInv, LostInv, V!Next
  PROVE  TopicInv' /\ TopicsGrow /\ VersionedTypes' /\ UpdatesInv' /\ LostInv'
<1>1. ASSUME NEW a \in Alerts, Produce(a), UNCHANGED <<versioned, updates, restarts, overtook>>
      PROVE  TopicInv' /\ TopicsGrow /\ VersionedTypes' /\ UpdatesInv' /\ LostInv'
  <2>1. TopicInv' /\ TopicsGrow
    BY <1>1, ProduceKeeps
  <2>2. handled' = handled
    BY <1>1 DEF Produce
  <2>. QED  BY <1>1, <2>1, <2>2, VersionedStays, LostStays
<1>2. ASSUME NEW k \in Kinds, V!Drop(k)
      PROVE  TopicInv' /\ TopicsGrow /\ VersionedTypes' /\ UpdatesInv' /\ LostInv'
  <2>1. Received(k) /\ Ack(k) /\ UNCHANGED <<versioned, updates, restarts>>
    BY <1>2, SameTopics DEF V!Drop, V!AckNoted
  <2>2. TopicInv' /\ TopicsGrow
    BY <2>1, AckKeeps
  <2>. QED  BY <1>2, <2>1, <2>2, VersionedStays, DropKeepsLost
<1>3. ASSUME NEW k \in Kinds, V!Apply(k)
      PROVE  TopicInv' /\ TopicsGrow /\ VersionedTypes' /\ UpdatesInv' /\ LostInv'
  <2>1. Received(k) /\ (Ack(k) \/ Nack)
    BY <1>3, SameTopics DEF V!Apply, V!AckNoted, V!NackNoted
  <2>2. TopicInv' /\ TopicsGrow
    BY <2>1, AckKeeps, NackKeeps
  <2>. QED  BY <1>3, <2>2, ApplyKeepsVersions, ApplyKeepsLost
<1>4. ASSUME NEW k \in Kinds, Commit(k), UNCHANGED <<versioned, updates, restarts, overtook>>
      PROVE  TopicInv' /\ TopicsGrow /\ VersionedTypes' /\ UpdatesInv' /\ LostInv'
  <2>1. TopicInv' /\ TopicsGrow /\ handled' = handled
    BY <1>4, CommitKeeps DEF Commit
  <2>. QED  BY <1>4, <2>1, VersionedStays, LostStays
<1>5. ASSUME V!Crash
      PROVE  TopicInv' /\ TopicsGrow /\ VersionedTypes' /\ UpdatesInv' /\ LostInv'
  <2>1. Restart /\ restarts' = restarts + 1
    BY <1>5, SameTopics DEF V!Crash
  <2>2. TopicInv' /\ TopicsGrow
    BY <2>1, RestartKeeps
  <2>3. LostInv'
    <3>1. restarts' # 0
      BY <2>1 DEF VersionedTypes
    <3>. QED  BY <3>1 DEF LostInv
  <2>. QED  BY <1>5, <2>2, <2>3, CrashKeepsVersions
<1>. QED  BY <1>1, <1>2, <1>3, <1>4, <1>5, SameTopics DEF V!Next

(* A step of 05-independent-updates. *)
LEMMA IndependentStep ==
  ASSUME TopicInv, IndependentInv, restarts \in Nat, restarts <= faults, I!Next
  PROVE  /\ TopicInv' /\ TopicsGrow /\ IndependentInv'
         /\ restarts' \in Nat /\ restarts' <= faults'
<1>. DEFINE Kept == /\ TopicInv' /\ TopicsGrow /\ IndependentInv'
                    /\ restarts' \in Nat /\ restarts' <= faults'
<1>1. faults \in Nat
  BY DEF TopicInv, TopicTypes
<1>2. ASSUME TopicInv', TopicsGrow, restarts' = restarts
      PROVE  restarts' \in Nat /\ restarts' <= faults'
  BY <1>1, <1>2 DEF TopicsGrow, TopicInv, TopicTypes
<1>3. ASSUME NEW a \in Alerts, Produce(a), UNCHANGED <<independent, updated, restarts>>
      PROVE  Kept
  <2>1. TopicInv' /\ TopicsGrow
    BY <1>3, ProduceKeeps
  <2>. QED  BY <1>2, <1>3, <2>1, IndependentStays
<1>4. ASSUME NEW k \in Kinds, I!Apply(k)
      PROVE  Kept
  <2>1. Received(k) /\ (Ack(k) \/ Nack) /\ restarts' = restarts
    BY <1>4, SameTopics DEF I!Apply
  <2>2. TopicInv' /\ TopicsGrow
    BY <2>1, AckKeeps, NackKeeps
  <2>. QED  BY <1>2, <1>4, <2>1, <2>2, ApplyKeepsTimes
<1>5. ASSUME NEW k \in Kinds, Commit(k), UNCHANGED <<independent, updated, restarts>>
      PROVE  Kept
  <2>1. TopicInv' /\ TopicsGrow
    BY <1>5, CommitKeeps
  <2>. QED  BY <1>2, <1>5, <2>1, IndependentStays
<1>6. ASSUME I!Crash
      PROVE  Kept
  <2>1. /\ Restart /\ restarts' = restarts + 1 /\ updated' = updated
        /\ independent' = [a \in Alerts |-> I!New]
    BY <1>6, SameTopics DEF I!Crash
  <2>2. TopicInv' /\ TopicsGrow /\ issued' = issued /\ faults' = faults + 1
    BY <2>1, RestartKeeps DEF Restart
  <2>3. /\ independent' \in [Alerts -> Times]
        /\ \A a \in Alerts, k \in Kinds : independent'[a].lastAt[k] = 0
    BY <2>1, NoTimes
  <2>4. \A a \in Alerts : issued[a] \in Nat
    BY DEF TopicInv, TopicTypes
  <2>5. IndependentInv'
    BY <2>1, <2>2, <2>3, <2>4 DEF IndependentInv
  <2>6. restarts' \in Nat /\ restarts' <= faults'
    BY <1>1, <2>1, <2>2
  <2>. QED  BY <2>2, <2>5, <2>6
<1>. QED  BY <1>3, <1>4, <1>5, <1>6, SameTopics DEF I!Next

(* A step of 02-building-read-models. *)
LEMMA InvoiceStep ==
  ASSUME InvoiceInv, R!Next
  PROVE  InvoiceInv'
BY ReceiveKeeps, InvoiceByIDKeeps, IssuedKeeps, PaymentKeeps, VoidedKeeps, FatalKeeps
   DEF R!Next, R!Handle

LEMMA NextInv ==
  ASSUME IInv, [Next]_vars
  PROVE  IInv'
<1>1. CASE Versions /\ V!Next /\ UNCHANGED <<independent, updated, invoiceVars>> /\ UNCHANGED exercise
  <2>1. TopicInv' /\ TopicsGrow /\ VersionedTypes' /\ UpdatesInv' /\ LostInv'
    BY <1>1, VersionedStep DEF IInv
  <2>. QED  BY <1>1, <2>1, IndependentStays, InvoicesStay DEF IInv
<1>2. CASE /\ Independence /\ I!Next
           /\ UNCHANGED <<versioned, updates, overtook, invoiceVars>> /\ UNCHANGED exercise
  <2>1. /\ TopicInv' /\ TopicsGrow /\ IndependentInv'
        /\ restarts' \in Nat /\ restarts' <= faults'
    BY <1>2, IndependentStep DEF IInv, VersionedTypes
  <2>2. ~Versions'
    BY <1>2 DEF Versions, Independence
  <2>. QED  BY <1>2, <2>1, <2>2, TypesStay, InvoicesStay DEF IInv
<1>3. CASE /\ Invoices /\ R!Next
           /\ UNCHANGED <<topicVars, versioned, updates, overtook, independent, updated, restarts>>
           /\ UNCHANGED exercise
  <2>1. TopicInv' /\ TopicsGrow
    BY <1>3, TopicsStay DEF IInv
  <2>2. InvoiceInv'
    BY <1>3, InvoiceStep DEF IInv
  <2>3. ~Versions'
    BY <1>3 DEF Versions, Invoices
  <2>. QED  BY <1>3, <2>1, <2>2, <2>3, VersionedStays, IndependentStays DEF IInv
<1>4. CASE UNCHANGED vars
  <2>1. /\ UNCHANGED <<topicVars, versioned, updates, overtook, independent, updated, restarts>>
        /\ UNCHANGED <<invoiceVars, exercise>>
    BY <1>4 DEF vars
  <2>2. TopicInv' /\ TopicsGrow
    BY <2>1, TopicsStay DEF IInv
  <2>3. Versions' => UpdatesInv' /\ LostInv'
    <3>1. handled' = handled /\ Versions' = Versions
      BY <2>1 DEF topicVars, Versions
    <3>. QED  BY <2>1, <3>1, LostStays, VersionedStays, <2>2 DEF IInv
  <2>. QED  BY <2>1, <2>2, <2>3, VersionedStays, IndependentStays, InvoicesStay DEF IInv
<1>. QED  BY <1>1, <1>2, <1>3, <1>4 DEF Next

LEMMA Invariance == Spec => []IInv
BY InitInv, NextInv, PTL DEF Spec
-----------------------------------------------------------------------------
LEMMA TopicsHaveTypes ==
  ASSUME TopicInv
  PROVE  V!TopicsTypeOK /\ I!TopicsTypeOK
<1>1. \A k \in Kinds : \A i \in DOMAIN topic[k] :
        topic[k][i].alert \in Alerts /\ History[topic[k][i].alert][topic[k][i].version] = k
  <2>1. \A k \in Kinds : DOMAIN topic[k] = 1 .. Len(topic[k]) /\ topic[k] \in Seq(Msg)
    BY DEF TopicInv, TopicTypes
  <2>2. \A k \in Kinds : \A i \in 1 .. Len(topic[k]) : topic[k][i] \in Msg
    BY <2>1
  <2>. QED  BY <2>1, <2>2 DEF TopicInv, Labelled, Msg
<1>2. \A a \in Alerts : issued[a] \in 0 .. Len(History[a])
  <2>. SUFFICES ASSUME NEW a \in Alerts PROVE issued[a] \in 0 .. Len(History[a])
    OBVIOUS
  <2>1. issued[a] \in Nat /\ issued[a] <= Len(History[a])
    BY DEF TopicInv, TopicTypes
  <2>2. Len(History[a]) \in Nat
    BY HistoryAssumption
  <2>. QED  BY <2>1, <2>2
<1>. QED  BY <1>1, <1>2, SameTopics DEF TopicInv, TopicTypes, V!TopicsTypeOK, I!TopicsTypeOK

(* TypeOK: the topics and the alerts know of published events only, no     *)
(* group has committed a message it has not handled; the invoices and the  *)
(* processed payments are those of events whose Publish has returned.      *)
THEOREM TypeCorrect == Spec => []TypeOK
<1>1. ASSUME IInv PROVE TypeOK
  <2>1. V!TopicsTypeOK /\ I!TopicsTypeOK /\ restarts \in 0 .. faults
    BY <1>1, TopicsHaveTypes DEF IInv, VersionedTypes, TopicInv, TopicTypes
  <2>2. V!TypeOK
    <3>1. \A a \in Alerts : issued[a] \in Nat /\ versioned[a].version \in Nat
      BY <1>1 DEF IInv, TopicInv, TopicTypes, VersionedTypes, Alert
    <3>2. \A a \in Alerts : versioned[a].version \in 0 .. issued[a]
      <4>. SUFFICES ASSUME NEW a \in Alerts PROVE versioned[a].version \in 0 .. issued[a]
        OBVIOUS
      <4>1. versioned[a].version <= issued[a]
        BY <1>1 DEF IInv, VersionedTypes
      <4>. QED  BY <3>1, <4>1
    <3>. QED  BY <2>1, <3>2 DEF V!TypeOK
  <2>3. I!TypeOK
    <3>1. \A a \in Alerts, k \in Kinds :
            /\ issued[a] \in Nat
            /\ independent[a].lastAt[k] \in Nat /\ updated[a].lastAt[k] \in Nat
      BY <1>1 DEF IInv, TopicInv, TopicTypes, IndependentInv, Times
    <3>2. \A a \in Alerts, k \in Kinds :
            independent[a].lastAt[k] \in 0 .. issued[a] /\ updated[a].lastAt[k] \in 0 .. issued[a]
      BY <1>1, <3>1 DEF IInv, IndependentInv
    <3>. QED  BY <2>1, <3>2, SameTopics DEF I!TypeOK
  <2>4. R!TypeOK
    BY <1>1 DEF IInv, InvoiceInv, InvoiceTypes, AckedInv, R!TypeOK, R!Publishing
  <2>. QED  BY <2>2, <2>3, <2>4 DEF TypeOK
<1>. QED  BY Invariance, <1>1, PTL

(* UpdatesInOrder: whatever the order between the topics, the failed       *)
(* publications and the crashes, AlertUpdated tells of an alert what       *)
(* happened to it; from one start of the process to its next in its order  *)
(* and without repetition, and with no more versions missing than          *)
(* publications that failed. A version is told again only after a restart. *)
THEOREM UpdatesAreInOrder == Spec => []UpdatesInOrder
<1>1. ASSUME IInv PROVE UpdatesInOrder
  <2>. SUFFICES ASSUME Versions, NEW a \in Alerts
                PROVE  /\ \A i \in DOMAIN updates[a] :
                            updates[a][i].isTriggered =
                              (History[a][updates[a][i].version] = "triggered")
                       /\ \A i, j \in DOMAIN updates[a] :
                            i < j => Before(updates[a][i], updates[a][j])
                       /\ V!Cardinality((1 .. versioned[a].version) \ V!Versions(a)) + restarts
                            <= faults
    BY DEF UpdatesInOrder, V!UpdatesInOrder, Before
  <2>1. DOMAIN updates[a] = 1 .. Len(updates[a])
    BY <1>1 DEF IInv, VersionedTypes
  <2>2. /\ InOrder(updates[a], a, versioned[a].version, restarts)
        /\ Cardinality(Missing(a)) + restarts <= faults
    BY <1>1 DEF IInv, UpdatesInv
  <2>3. V!Cardinality((1 .. versioned[a].version) \ V!Versions(a)) + restarts <= faults
    BY <2>2, SameCardinality DEF Missing
  <2>. QED  BY <2>1, <2>2, <2>3 DEF InOrder
<1>. QED  BY Invariance, <1>1, PTL

(* LostOnlyOvertaken: until the process restarts, a version that was       *)
(* handled and never stored was handled before the version before it, or   *)
(* lies behind one that was.                                               *)
THEOREM LostWereOvertaken == Spec => []LostOnlyOvertaken
<1>1. ASSUME IInv PROVE LostOnlyOvertaken
  <2>. SUFFICES ASSUME Versions, restarts = 0, NEW a \in Alerts, NEW k \in Kinds,
                       NEW i \in 1 .. handled[k],
                       topic[k][i].alert = a, topic[k][i].version > versioned[a].version
                PROVE  \E v \in versioned[a].version + 1 .. topic[k][i].version :
                         [alert |-> a, version |-> v] \in overtook
    BY SameTopics DEF LostOnlyOvertaken, V!LostOnlyOvertaken
  <2>1. Overtaken(k, i)
    BY <1>1 DEF IInv, LostInv
  <2>. QED  BY <2>1 DEF Overtaken
<1>. QED  BY Invariance, <1>1, PTL

(* ReadModelUpdated: for any publishers and events, repeated, late or out  *)
(* of order, an invoice holds each payment once and each voiding whose     *)
(* Publish has returned, if its payments and voidings come in turn.        *)
THEOREM ReadModelFollows == Spec => []ReadModelUpdated
<1>1. ASSUME IInv PROVE ReadModelUpdated
  BY <1>1 DEF IInv, InvoiceInv, RowsInv, Payments, Voidings, ReadModelUpdated, R!ReadModelUpdated
<1>. QED  BY Invariance, <1>1, PTL
=============================================================================
