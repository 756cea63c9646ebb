----------------------------- MODULE ReadModels -----------------------------
(* The read models of the exercises. They are programs of their own: a     *)
(* behaviour is one of VersionedAlerts, IndependentAlerts and              *)
(* InvoiceReadModel, while the variables of the others stay as they are.   *)
EXTENDS AlertTopics

CONSTANTS Invoice, Payment, Publishers, Events

VARIABLES
  exercise,
  versioned, updates,     \* alerts of VersionedAlerts, and what it published
  overtook,
  independent, updated,   \* the same of IndependentAlerts
  restarts,
  invoices, processedPayments, acked, hand, copy, fatal

V == INSTANCE VersionedAlerts WITH alerts <- versioned
I == INSTANCE IndependentAlerts WITH alerts <- independent
R == INSTANCE InvoiceReadModel

ASSUME EventAssumption == Events \in [Publishers -> Seq(R!InvoiceEvent)] /\ R!SamePayments

Init ==
  /\ exercise \in {"versions", "independence", "invoices"}
  /\ V!Init /\ I!Init /\ R!Init

Versions == exercise = "versions"
Independence == exercise = "independence"
Invoices == exercise = "invoices"

invoiceVars == <<invoices, processedPayments, acked, hand, copy, fatal>>

Next ==
  /\ \/ Versions /\ V!Next /\ UNCHANGED <<independent, updated, invoiceVars>>
     \/ Independence /\ I!Next /\ UNCHANGED <<versioned, updates, overtook, invoiceVars>>
     \/ /\ Invoices /\ R!Next
        /\ UNCHANGED <<topicVars, versioned, updates, overtook, independent, updated, restarts>>
  /\ UNCHANGED exercise

vars ==
  <<exercise, topicVars, versioned, updates, overtook, independent, updated, restarts,
    invoiceVars>>

Spec == Init /\ [][Next]_vars

(* Converges is about a program that runs. *)
FairSpec == Spec /\ (Independence => I!Fairness)
-----------------------------------------------------------------------------
(* The maps, the topics and what the handlers hold have their types, in    *)
(* each of the programs.                                                   *)
TypeOK == V!TypeOK /\ I!TypeOK /\ R!TypeOK

(* OnAlertTriggered, OnAlertResolved of 04-versioning-entities: whoever    *)
(* reads AlertUpdated sees what happened to an alert, from one start of the*)
(* process to its next in its order and without repetition, and misses no  *)
(* more than the publications that failed.                                 *)
UpdatesInOrder == Versions => V!UpdatesInOrder

(* The same: until the process restarts, an update is lost for good only if*)
(* it was handled before the one before it, or lies behind one that was.   *)
LostOnlyOvertaken == Versions => V!LostOnlyOvertaken

(* The handlers of 05-independent-updates: what was last said of an alert  *)
(* comes to tell when it was triggered and when it was resolved last,      *)
(* whichever topic is ahead and however often a publication failed.        *)
Converges == Independence => I!Converges

(* OnInvoiceIssued and the others of 02-building-read-models: what Publish *)
(* has returned for is in the read model, each payment once, whatever the  *)
(* order and the repetitions, unless a payment and a voiding meet.         *)
ReadModelUpdated == R!ReadModelUpdated
=============================================================================
