------------------------- MODULE IndependentAlerts -------------------------
(***************************************************************************)
(* The alerts of 05-independent-updates: every event is applied, each kind *)
(* to a field of its own. As in VersionedAlerts a handler holds a lock and *)
(* is one step. Times are the numbers of the events, 0 is the zero time.   *)
(***************************************************************************)
EXTENDS AlertTopics, FiniteSetsExt

VARIABLES
  alerts,     \* the map alerts; one that is not in it reads as New
  updated,    \* the last AlertUpdated message of each alert
  restarts

vars == <<topicVars, alerts, updated, restarts>>

New == [isTriggered |-> FALSE, lastAt |-> [k \in Kinds |-> 0]]

Init ==
  /\ TopicsInit
  /\ alerts = [a \in Alerts |-> New]
  /\ updated = [a \in Alerts |-> New]
  /\ restarts = 0

(* Mutant: the state is stored once it is published, and the failure of a  *)
(* publication is only logged.                                             *)
ApplyOnce(k) ==
  LET m == Message(k)
      alert == [isTriggered |-> k = "triggered",
                lastAt |-> [alerts[m.alert].lastAt EXCEPT ![k] = m.version]] IN
  /\ Received(k)
  /\ \/ /\ alerts' = [alerts EXCEPT ![m.alert] = alert]
        /\ updated' = [updated EXCEPT ![m.alert] = alert]
        /\ Ack(k)
     \/ faults < MaxFaults /\ Ack(k) /\ UNCHANGED <<alerts, updated>>
  /\ UNCHANGED restarts

(* OnAlertTriggered, OnAlertResolved: the alert is stored, then published. *)
(* A Publish that fails may or may not have reached Kafka.                 *)
Apply(k) ==
  LET m == Message(k)
      alert == [isTriggered |-> k = "triggered",
                lastAt |-> [alerts[m.alert].lastAt EXCEPT ![k] = m.version]]
      publish == updated' = [updated EXCEPT ![m.alert] = alert] IN
  /\ Received(k)
  /\ alerts' = [alerts EXCEPT ![m.alert] = alert]
  /\ \/ publish /\ Ack(k)
     \/ publish /\ Nack
     \/ UNCHANGED updated /\ Nack
  /\ UNCHANGED restarts

Crash ==
  /\ Restart
  /\ alerts' = [a \in Alerts |-> New]
  /\ restarts' = restarts + 1
  /\ UNCHANGED updated

Next ==
  \/ \E a \in Alerts : Produce(a) /\ UNCHANGED <<alerts, updated, restarts>>
  \/ \E k \in Kinds :
       \/ Apply(k)
       \/ Commit(k) /\ UNCHANGED <<alerts, updated, restarts>>
  \/ Crash

Spec == Init /\ [][Next]_vars

(* The router runs both handlers. *)
Fairness == \A k \in Kinds : WF_vars(Apply(k))

FairSpec == Spec /\ Fairness
-----------------------------------------------------------------------------
(* The latest event of kind k of alert a, 0 if there is none. *)
Latest(a, k) ==
  LET happened == {v \in DOMAIN History[a] : History[a][v] = k}
  IN Max(happened \cup {0})

(* The maps and the topics hold what they should; no group has committed a *)
(* message it has not handled, and no alert knows of an event that has not *)
(* been published.                                                         *)
TypeOK ==
  /\ TopicsTypeOK
  /\ \A a \in Alerts, k \in Kinds :
       /\ alerts[a].lastAt[k] \in 0 .. issued[a]
       /\ updated[a].lastAt[k] \in 0 .. issued[a]
  /\ restarts \in 0 .. faults

(* OnAlertTriggered, OnAlertResolved: once all of an alert's events are    *)
(* published, what was last said of it comes to tell when it was triggered *)
(* and when it was resolved last, whichever topic is ahead and however     *)
(* often a publication failed. After a restart a time may be forgotten, but*)
(* is never an old one.                                                    *)
Converges ==
  <>[](\A a \in Alerts, k \in Kinds :
         issued[a] = Len(History[a]) =>
           \/ updated[a].lastAt[k] = Latest(a, k)
           \/ restarts > 0 /\ updated[a].lastAt[k] = 0)
=============================================================================
