---------------------------- MODULE AlertTopics ----------------------------
(***************************************************************************)
(* How the message ordering exercises receive the updates of an alert: the *)
(* producer (external) publishes AlertTriggered and AlertResolved to a     *)
(* Kafka topic each, and a consumer group each handles them. Within a      *)
(* topic the order is kept, between the two it is not. A message is        *)
(* redelivered until its handler returns nil. Offsets are committed now    *)
(* and then: a crash sends a group back to its last one, and takes the map *)
(* of alerts with it, which is in memory only.                             *)
(***************************************************************************)
EXTENDS Naturals, Sequences

CONSTANTS
  Alerts,
  History,    \* for each alert, what happened to it: the kinds of its events
  MaxFaults   \* bound on failed publications and crashes

Kinds == {"triggered", "resolved"}

ASSUME HistoryAssumption == History \in [Alerts -> Seq(Kinds)]
ASSUME BoundAssumption == MaxFaults \in Nat

VARIABLES
  topic,      \* the messages of each kind, in the order of their publication
  issued,     \* how many events of each alert are published
  handled,    \* how many messages each group has handled
  committed,  \* the offset of each group
  faults

topicVars == <<topic, issued, handled, committed, faults>>

TopicsInit ==
  /\ topic = [k \in Kinds |-> <<>>]
  /\ issued = [a \in Alerts |-> 0]
  /\ handled = [k \in Kinds |-> 0]
  /\ committed = [k \in Kinds |-> 0]
  /\ faults = 0

(* The producer: the events of an alert in their order; their number is    *)
(* the version of the alert, and stands for the time as well.              *)
Produce(a) ==
  LET v == issued[a] + 1 IN
  /\ issued[a] < Len(History[a])
  /\ topic' = [topic EXCEPT ![History[a][v]] = Append(@, [alert |-> a, version |-> v])]
  /\ issued' = [issued EXCEPT ![a] = v]
  /\ UNCHANGED <<handled, committed, faults>>

Received(k) == handled[k] < Len(topic[k])
Message(k) == topic[k][handled[k] + 1]

(* The handler returned nil. *)
Ack(k) ==
  /\ handled' = [handled EXCEPT ![k] = @ + 1]
  /\ UNCHANGED <<topic, issued, committed, faults>>

(* The handler returned an error: the message is delivered again. *)
Nack ==
  /\ faults < MaxFaults
  /\ faults' = faults + 1
  /\ UNCHANGED <<topic, issued, handled, committed>>

(* Mutant: the offset of the message in hand is committed. *)
CommitAhead(k) ==
  /\ committed[k] <= handled[k]
  /\ committed' = [committed EXCEPT ![k] = handled[k] + 1]
  /\ UNCHANGED <<topic, issued, handled, faults>>

Commit(k) ==
  /\ committed[k] < handled[k]
  /\ committed' = [committed EXCEPT ![k] = handled[k]]
  /\ UNCHANGED <<topic, issued, handled, faults>>

Restart ==
  /\ faults < MaxFaults
  /\ faults' = faults + 1
  /\ handled' = committed
  /\ UNCHANGED <<topic, issued, committed>>

TopicsTypeOK ==
  /\ \A k \in Kinds :
       \A i \in DOMAIN topic[k] :
         topic[k][i].alert \in Alerts /\ History[topic[k][i].alert][topic[k][i].version] = k
  /\ \A a \in Alerts : issued[a] \in 0 .. Len(History[a])
  /\ \A k \in Kinds : committed[k] <= handled[k] /\ handled[k] <= Len(topic[k])
  /\ faults \in 0 .. MaxFaults
=============================================================================
