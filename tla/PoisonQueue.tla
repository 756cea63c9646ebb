---------------------------- MODULE PoisonQueue ----------------------------
(***************************************************************************)
(* The poison queue and its command line (poison-queue-cli/main.go). A     *)
(* service (20-fault-tolerance/04-poison-queue/main.go) handles the orders *)
(* of a topic and moves those that can never be handled to the topic       *)
(* PoisonQueue. The commands preview, remove and requeue read that topic   *)
(* round: a message is taken from its head and, if it is to stay, published*)
(* at its tail again, until the first message comes back.                  *)
(*                                                                         *)
(* Kafka (external) hands a message out until it is acknowledged: after an *)
(* error at once, after a crash to the next process of the consumer group. *)
(* One command runs at a time.                                             *)
(***************************************************************************)
EXTENDS Naturals, Sequences, FiniteSets, Functions

CONSTANTS
  Msg,          \* messages, named by their UUID
  MissingLink,  \* those whose event has no tracking link
  None,         \* no message: the empty UUID
  MaxCommands,  \* bound on the commands that are run
  Faults,       \* what may go wrong, and how often at most
  MaxFaults

ASSUME NoneAssumption == None \notin Msg
ASSUME LinkAssumption == MissingLink \subseteq Msg

VARIABLES
  unsent,    \* orders still to be published
  topic,     \* orders the service has not acknowledged
  service,   \* "ready", or "poisoned": the head of topic was published
  handled,   \* tracking links stored
  poison,    \* topic PoisonQueue, from the first message not acknowledged
  cli,       \* what the command is at
  cmd,       \* the last command: its kind and message id
  firstMessageUUID, done, found,
  messages,  \* what the command was shown (the output of preview)
  removed,   \* messages acknowledged by remove and kept nowhere
  start,     \* poison as the command found it
  ending,    \* how the last command ended
  commands, faults

serviceVars == <<unsent, topic, service, handled>>
loopVars == <<cmd, firstMessageUUID, done, found, messages, start>>
vars == <<serviceVars, poison, cli, loopVars, removed, ending, commands, faults>>
-----------------------------------------------------------------------------
Kinds == {"preview", "remove", "requeue"}
Command == ({"preview"} \X {None}) \cup ({"remove", "requeue"} \X Msg)

Init ==
  /\ unsent = Msg
  /\ topic = <<>>
  /\ service = "ready"
  /\ handled = {}
  /\ poison = <<>>
  /\ cli = "idle"
  /\ cmd = [kind |-> "preview", id |-> None]
  /\ firstMessageUUID = None
  /\ done = FALSE
  /\ found = FALSE
  /\ messages = {}
  /\ removed = {}
  /\ start = <<>>
  /\ ending = "none"
  /\ commands = 0
  /\ faults = 0

(* One more fault of this kind. *)
Fault(kind) ==
  /\ kind \in Faults
  /\ faults < MaxFaults
  /\ faults' = faults + 1

(* The service. *)

PublishOrder(m) ==
  /\ m \in unsent
  /\ unsent' = unsent \ {m}
  /\ topic' = Append(topic, m)
  /\ UNCHANGED <<service, handled, poison, cli, loopVars, removed, ending, commands, faults>>

(* OnOrderDispatched with a link: it is stored and the message acknowledged*)
(* (an error of the database is returned, and the message handled again).  *)
StoreTrackingLink ==
  /\ service = "ready"
  /\ topic # <<>>
  /\ Head(topic) \notin MissingLink
  /\ handled' = handled \cup {Head(topic)}
  /\ topic' = Tail(topic)
  /\ UNCHANGED <<unsent, service, poison, cli, loopVars, removed, ending, commands, faults>>

(* Without a link: MissingTrackingLinkError, which the middleware's filter *)
(* knows. The message goes to the poison queue and is then acknowledged.   *)
PublishToPoisonQueue ==
  /\ service = "ready"
  /\ topic # <<>>
  /\ Head(topic) \in MissingLink
  /\ poison' = Append(poison, Head(topic))
  /\ service' = "poisoned"
  /\ UNCHANGED <<unsent, topic, handled, cli, loopVars, removed, ending, commands, faults>>

AckPoisoned ==
  /\ service = "poisoned"
  /\ topic' = Tail(topic)
  /\ service' = "ready"
  /\ UNCHANGED <<unsent, handled, poison, cli, loopVars, removed, ending, commands, faults>>

(* The service stops after it published and before it acknowledged. *)
ServiceCrash ==
  /\ service = "poisoned"
  /\ Fault("service")
  /\ service' = "ready"
  /\ UNCHANGED <<unsent, topic, handled, poison, cli, loopVars, removed, ending, commands>>
-----------------------------------------------------------------------------
(* The command line. *)

StartCommand(kind, id) ==
  /\ cli = "idle"
  /\ commands < MaxCommands
  /\ commands' = commands + 1
  /\ cli' = "iterating"
  /\ cmd' = [kind |-> kind, id |-> id]
  /\ firstMessageUUID' = None
  /\ done' = FALSE
  /\ found' = FALSE
  /\ messages' = {}
  /\ start' = poison
  /\ ending' = "none"
  /\ UNCHANGED <<serviceVars, poison, removed, faults>>

End(how) ==
  /\ cli' = "idle"
  /\ ending' = how

(* iterate's handler is given the head of the queue. *)
Delivered == cli = "iterating" /\ poison # <<>>

(* "we've read all messages": the error has the message delivered again.   *)
FirstAgain ==
  /\ Delivered
  /\ ~done
  /\ Head(poison) = firstMessageUUID
  /\ done' = TRUE
  /\ UNCHANGED <<serviceVars, poison, cli, cmd, firstMessageUUID, found, messages, start,
                 removed, ending, commands, faults>>

(* done: the router is stopped and the message left where it is. *)
StopRouter ==
  /\ Delivered
  /\ done
  /\ End("round")
  /\ UNCHANGED <<serviceVars, poison, loopVars, removed, commands, faults>>

IsFirst == firstMessageUUID = None

(* actionFunc is to see the head of the queue. *)
Acts ==
  /\ Delivered
  /\ ~done
  /\ Head(poison) # firstMessageUUID
  /\ firstMessageUUID' = IF IsFirst THEN Head(poison) ELSE firstMessageUUID
  /\ messages' = messages \cup {Head(poison)}
  /\ UNCHANGED <<serviceVars, cmd, start, ending, commands, faults>>

Asked(kind) == cmd.kind = kind /\ cmd.id = Head(poison)

(* Mutant: the first message ends the round although it is kept. *)
KeepMessageEndsRound ==
  /\ Acts
  /\ ~Asked("remove") /\ ~Asked("requeue")
  /\ done' = IsFirst
  /\ cli' = "keeping"
  /\ UNCHANGED <<poison, found, removed>>

KeepMessage ==
  /\ Acts
  /\ ~Asked("remove") /\ ~Asked("requeue")
  /\ cli' = "keeping"
  /\ UNCHANGED <<poison, done, found, removed>>

(* Mutant: the end of the round is left to the message that was removed. *)
RemoveMessageGoesOn ==
  /\ Acts
  /\ Asked("remove")
  /\ found' = TRUE
  /\ poison' = Tail(poison)
  /\ removed' = removed \cup {Head(poison)}
  /\ UNCHANGED <<done, cli>>

(* Acknowledged with nothing to publish. *)
RemoveMessage ==
  /\ Acts
  /\ Asked("remove")
  /\ found' = TRUE
  /\ poison' = Tail(poison)
  /\ removed' = removed \cup {Head(poison)}
  /\ done' = IsFirst
  /\ UNCHANGED cli

RequeueMessage ==
  /\ Acts
  /\ Asked("requeue")
  /\ found' = TRUE
  /\ cli' = "requeueing"
  /\ UNCHANGED <<poison, done, removed>>

(* Mutant: kept messages are acknowledged without being published.         *)
PublishKeptNowhere ==
  /\ cli = "keeping"
  /\ poison' = poison
  /\ cli' = "kept"
  /\ UNCHANGED <<serviceVars, loopVars, removed, ending, commands, faults>>

(* The router publishes what the handler returned, and acknowledges. *)
PublishKept ==
  /\ cli = "keeping"
  /\ poison' = Append(poison, Head(poison))
  /\ cli' = "kept"
  /\ UNCHANGED <<serviceVars, loopVars, removed, ending, commands, faults>>

AckKept ==
  /\ cli = "kept"
  /\ poison' = Tail(poison)
  /\ cli' = "iterating"
  /\ UNCHANGED <<serviceVars, loopVars, removed, ending, commands, faults>>

(* The handler of requeue publishes by itself. *)
PublishRequeued ==
  /\ cli = "requeueing"
  /\ topic' = Append(topic, Head(poison))
  /\ cli' = "requeued"
  /\ UNCHANGED <<unsent, service, handled, poison, loopVars, removed, ending, commands, faults>>

(* Mutant: a requeued message is published and kept. *)
AckRequeuedKeeps ==
  /\ cli = "requeued"
  /\ poison' = Append(Tail(poison), Head(poison))
  /\ done' = (Head(poison) = firstMessageUUID)
  /\ cli' = "iterating"
  /\ UNCHANGED <<serviceVars, cmd, firstMessageUUID, found, messages, start,
                 removed, ending, commands, faults>>

AckRequeued ==
  /\ cli = "requeued"
  /\ poison' = Tail(poison)
  /\ done' = (Head(poison) = firstMessageUUID)
  /\ cli' = "iterating"
  /\ UNCHANGED <<serviceVars, cmd, firstMessageUUID, found, messages, start,
                 removed, ending, commands, faults>>

(* Publish fails; the error has the message delivered again. *)
PublishFails ==
  /\ cli \in {"keeping", "requeueing"}
  /\ Fault("publish")
  /\ cli' = "iterating"
  /\ UNCHANGED <<serviceVars, poison, loopVars, removed, ending, commands>>

(* Ten seconds are over; Run returns nil. In the middle of a message this  *)
(* is as bad as a crash: it may have been published and is not acknowledged*)
Timeout ==
  /\ \/ cli = "iterating" /\ UNCHANGED faults
     \/ cli \notin {"idle", "iterating"} /\ Fault("timeout")
  /\ End("timeout")
  /\ UNCHANGED <<serviceVars, poison, loopVars, removed, commands>>

CliCrash ==
  /\ cli # "idle"
  /\ Fault("crash")
  /\ End("crash")
  /\ UNCHANGED <<serviceVars, poison, loopVars, removed, commands>>
-----------------------------------------------------------------------------
Service == StoreTrackingLink \/ PublishToPoisonQueue \/ AckPoisoned

Iterate ==
  \/ FirstAgain \/ StopRouter
  \/ KeepMessage \/ RemoveMessage \/ RequeueMessage
  \/ PublishKept \/ AckKept \/ PublishRequeued \/ AckRequeued

Next ==
  \/ \E m \in Msg : PublishOrder(m)
  \/ Service \/ ServiceCrash
  \/ \E c \in Command : StartCommand(c[1], c[2])
  \/ Iterate \/ PublishFails \/ Timeout \/ CliCrash

Spec == Init /\ [][Next]_vars

(* The routers run the handlers. No command has to be given, and no        *)
(* timeout has to come.                                                    *)
FairSpec == Spec /\ WF_vars(Service) /\ WF_vars(Iterate)
-----------------------------------------------------------------------------
(* The variables keep their types; who is in the middle of a message has   *)
(* one.                                                                    *)
TypeOK ==
  /\ unsent \subseteq Msg
  /\ topic \in Seq(Msg)
  /\ service \in {"ready", "poisoned"}
  /\ service = "poisoned" => topic # <<>>
  /\ handled \subseteq Msg
  /\ poison \in Seq(Msg)
  /\ cli \in {"idle", "iterating", "keeping", "kept", "requeueing", "requeued"}
  /\ cli \notin {"idle", "iterating"} => poison # <<>>
  /\ cmd \in [kind : Kinds, id : Msg \cup {None}]
  /\ firstMessageUUID \in Msg \cup {None}
  /\ done \in BOOLEAN
  /\ found \in BOOLEAN
  /\ messages \subseteq Msg
  /\ removed \subseteq Msg
  /\ start \in Seq(Msg)
  /\ ending \in {"none", "round", "timeout", "crash"}
  /\ commands \in Nat
  /\ faults \in Nat

(* Every order that was published is handled, or on its topic, or in the   *)
(* poison queue, or was removed by a command: whatever fails or stops      *)
(* between the publishing of a message and its acknowledgement.            *)
NothingLost ==
  Msg \subseteq unsent \cup handled \cup removed \cup Range(topic) \cup Range(poison)

Copies(m) ==
  Cardinality({i \in DOMAIN topic : topic[i] = m})
    + Cardinality({i \in DOMAIN poison : poison[i] = m})

UnderWay ==
  (IF service = "poisoned" THEN 1 ELSE 0) + (IF cli \in {"kept", "requeued"} THEN 1 ELSE 0)

(* Each fault makes at most one copy of a message, whichever queue it is   *)
(* in by then; without faults there is one, but for the moment between its *)
(* publishing and its acknowledgement.                                     *)
BoundedCopies == \A m \in Msg : Copies(m) <= 1 + faults + UnderWay

(* A command that ends by itself, and not by its timeout, has seen all     *)
(* messages it found in the queue, found the one it was given if it was    *)
(* there, and left the others in their order: although new ones come in    *)
(* meanwhile and the one requeued may be poisoned once more.               *)
CompleteRound ==
  ending = "round" /\ faults = 0 =>
    /\ cmd.kind = "preview" => Range(start) \subseteq messages
    /\ cmd.kind # "preview" /\ cmd.id \in Range(start) => found
    /\ \A i, j \in DOMAIN start :
         i < j /\ cmd.id \notin {start[i], start[j]} =>
           \E k, l \in DOMAIN poison :
             k < l /\ poison[k] = start[i] /\ poison[l] = start[j]

(* A command needs its timeout on an empty queue only.                     *)
RoundEnds == cli # "idle" ~> (cli = "idle" \/ poison = <<>>)
=============================================================================
