-------------------------- MODULE VersionedAlerts --------------------------
(***************************************************************************)
(* The alerts of 04-versioning-entities: an event is applied only if its   *)
(* version is the next one; any other is acknowledged and dropped. The     *)
(* handlers hold a lock, over the publication of AlertUpdated as well: each*)
(* is one step.                                                            *)
(***************************************************************************)
EXTENDS AlertTopics, FiniteSets

VARIABLES
  alerts,     \* the map alerts; one that is not in it reads as New
  updates,    \* AlertUpdated messages of each alert, each with the start of
              \* the process that published it
  restarts,
  overtook    \* history: messages handled before the one before them was

vars == <<topicVars, alerts, updates, restarts, overtook>>

New == [version |-> 0, isTriggered |-> FALSE]

Init ==
  /\ TopicsInit
  /\ alerts = [a \in Alerts |-> New]
  /\ updates = [a \in Alerts |-> <<>>]
  /\ restarts = 0
  /\ overtook = {}

(* Mutant: any later version will do. *)
IsNextLater(m) == alerts[m.alert].version < m.version

IsNext(m) == alerts[m.alert].version + 1 = m.version

(* One of the groups has handled version v of alert a. *)
Handled(a, v) ==
  \E l \in Kinds : \E i \in 1 .. handled[l] : topic[l][i] = [alert |-> a, version |-> v]

(* The version before that of m is still to come. *)
Overtakes(m) == m.version > 1 /\ ~Handled(m.alert, m.version - 1)

AckNoted(k) ==
  /\ Ack(k)
  /\ overtook' = overtook \cup {m \in {Message(k)} : Overtakes(m)}

NackNoted == Nack /\ UNCHANGED overtook

Drop(k) ==
  /\ Received(k)
  /\ ~IsNext(Message(k))
  /\ AckNoted(k)
  /\ UNCHANGED <<alerts, updates, restarts>>

(* An AlertUpdated message. *)
Published(alert) ==
  [version |-> alert.version, isTriggered |-> alert.isTriggered, start |-> restarts]

(* Mutant: an event that does not change the state is ignored. *)
ApplyChanges(k) ==
  LET m == Message(k)
      updated == [version |-> m.version, isTriggered |-> k = "triggered"] IN
  /\ Received(k)
  /\ IsNext(m)
  /\ IF alerts[m.alert].isTriggered = updated.isTriggered
     THEN UNCHANGED <<alerts, updates>>
     ELSE /\ alerts' = [alerts EXCEPT ![m.alert] = updated]
          /\ updates' = [updates EXCEPT ![m.alert] = Append(@, Published(updated))]
  /\ AckNoted(k)
  /\ UNCHANGED restarts

(* OnAlertTriggered, OnAlertResolved: the alert is stored, then published. *)
(* A Publish that fails may or may not have reached Kafka.                 *)
Apply(k) ==
  LET m == Message(k)
      updated == [version |-> m.version, isTriggered |-> k = "triggered"]
      publish == updates' = [updates EXCEPT ![m.alert] = Append(@, Published(updated))] IN
  /\ Received(k)
  /\ IsNext(m)
  /\ alerts' = [alerts EXCEPT ![m.alert] = updated]
  /\ \/ publish /\ AckNoted(k)
     \/ publish /\ NackNoted
     \/ UNCHANGED updates /\ NackNoted
  /\ UNCHANGED restarts

(* The map is lost; what was published is not. *)
Crash ==
  /\ Restart
  /\ alerts' = [a \in Alerts |-> New]
  /\ restarts' = restarts + 1
  /\ UNCHANGED <<updates, overtook>>

Next ==
  \/ \E a \in Alerts : Produce(a) /\ UNCHANGED <<alerts, updates, restarts, overtook>>
  \/ \E k \in Kinds :
       \/ Drop(k) \/ Apply(k)
       \/ Commit(k) /\ UNCHANGED <<alerts, updates, restarts, overtook>>
  \/ Crash

Spec == Init /\ [][Next]_vars

-----------------------------------------------------------------------------
(* The maps and the topics hold what they should; no group has committed a *)
(* message it has not handled.                                             *)
TypeOK ==
  /\ TopicsTypeOK
  /\ \A a \in Alerts : alerts[a].version \in 0 .. issued[a]
  /\ restarts \in 0 .. faults

(* What the process has published since its last start. *)
Versions(a) ==
  {updates[a][i].version : i \in {j \in DOMAIN updates[a] : updates[a][j].start = restarts}}

(* OnAlertTriggered, OnAlertResolved: whoever reads AlertUpdated sees what *)
(* happened to an alert, and from one start of the process to its next in  *)
(* the order in which it happened and without repetition. A restart begins *)
(* the story again, since the map of alerts is new: only then is a version *)
(* told again. What the process has stored it has published, but one       *)
(* version for each publication that failed.                               *)
UpdatesInOrder ==
  \A a \in Alerts :
    /\ \A i \in DOMAIN updates[a] :
         updates[a][i].isTriggered = (History[a][updates[a][i].version] = "triggered")
    /\ \A i, j \in DOMAIN updates[a] :
         i < j =>
           \/ updates[a][i].start < updates[a][j].start
           \/ /\ updates[a][i].start = updates[a][j].start
              /\ updates[a][i].version < updates[a][j].version
    /\ Cardinality((1 .. alerts[a].version) \ Versions(a)) + restarts <= faults

(* OnAlertTriggered, OnAlertResolved: until the process restarts, an update*)
(* is acknowledged without ever being stored only if it was handled before *)
(* the one before it, or lies behind such a one: a later version of the    *)
(* alert that overtook nothing is lost with the version it waits for.      *)
LostOnlyOvertaken ==
  restarts = 0 =>
    \A a \in Alerts, k \in Kinds : \A i \in 1 .. handled[k] :
      LET m == topic[k][i] IN
      m.alert = a /\ m.version > alerts[a].version =>
        \E v \in alerts[a].version + 1 .. m.version : [alert |-> a, version |-> v] \in overtook

=============================================================================
