---------------------------- MODULE EventDelivery ----------------------------
(***************************************************************************)
(* The way of an event from the code that publishes it to every handler    *)
(* that subscribes to it, and to the event store.                          *)
(*                                                                         *)
(* An event published in a transaction is a row of the outbox; the         *)
(* forwarder copies it to the redis stream "events". Other code publishes  *)
(* to that stream directly. The group events_splitter copies each event to *)
(* the stream of its type, from which each handler takes it with a group of*)
(* its own; the group event_store saves it in table events. Each of these  *)
(* acknowledges a message after it has passed it on, and may fail or be    *)
(* stopped in between. What the handlers do is not the subject here.       *)
(***************************************************************************)
EXTENDS Naturals, Sequences, FiniteSets

CONSTANTS
  Event,       \* ids of the events, drawn when they are made
  EventType,
  TypeOf,      \* the type of each event
  InOutbox,    \* events published in a transaction
  Consumer,    \* event handlers
  Subscribes,  \* the type each handler takes
  Faulty, MaxFaults

Relays == {"forwarder", "events_splitter", "event_store"}
Group == Consumer \cup Relays

ASSUME EventAssumption == TypeOf \in [Event -> EventType] /\ InOutbox \subseteq Event
ASSUME ConsumerAssumption ==
  Subscribes \in [Consumer -> EventType] /\ Consumer \cap Relays = {}
ASSUME TopicAssumption == EventType \cap {"events_to_forward", "events"} = {}

VARIABLES
  accepted,  \* events committed with their transaction, or published
  stream,    \* what was ever added to the stream "events"
  stored,    \* ids in table events
  runs,      \* the events each handler was run for, in order
  queue, lost, at, todo, faults

vars == <<accepted, stream, stored, runs, queue, lost, at, todo, faults>>

Topic ==
  [g \in Group |-> CASE g = "forwarder" -> "events_to_forward"
                     [] g \in {"events_splitter", "event_store"} -> "events"
                     [] OTHER -> Subscribes[g]]

INSTANCE ConsumerGroups

Msg(topic, e) == [type |-> topic, event |-> e]
EventAt(g) == Current(g).event

Init ==
  /\ accepted = {}
  /\ stream = <<>>
  /\ stored = {}
  /\ runs = [c \in Consumer |-> <<>>]
  /\ BusInit
-----------------------------------------------------------------------------
(* A transaction with an event commits. *)
Commit(e) ==
  /\ e \in InOutbox \ accepted
  /\ accepted' = accepted \cup {e}
  /\ queue' = Post(queue, Msg("events_to_forward", e))
  /\ UNCHANGED <<stream, stored, runs, lost, at, todo, faults>>

(* eventBus.Publish outside a transaction returns nil. *)
Publish(e) ==
  /\ e \in Event \ (InOutbox \cup accepted)
  /\ accepted' = accepted \cup {e}
  /\ stream' = Append(stream, e)
  /\ queue' = Post(queue, Msg("events", e))
  /\ UNCHANGED <<stored, runs, lost, at, todo, faults>>

(* Mutant: the forwarder also publishes to the stream of the type. *)
ForwardTwice ==
  LET e == EventAt("forwarder") IN
  /\ Start("forwarder", "sending", <<Msg("events", e), Msg(TypeOf[e], e)>>)
  /\ UNCHANGED <<accepted, stream, stored, runs>>

Forward ==
  /\ Start("forwarder", "sending", <<Msg("events", EventAt("forwarder"))>>)
  /\ UNCHANGED <<accepted, stream, stored, runs>>

(* Mutant: only what came through the outbox has its name in the metadata. *)
SplitNamedOnly ==
  LET e == EventAt("events_splitter") IN
  /\ Ready("events_splitter")
  /\ e \in InOutbox
  /\ Start("events_splitter", "sending", <<Msg(TypeOf[e], e)>>)
  /\ UNCHANGED <<accepted, stream, stored, runs>>

Split ==
  LET e == EventAt("events_splitter") IN
  /\ Start("events_splitter", "sending", <<Msg(TypeOf[e], e)>>)
  /\ UNCHANGED <<accepted, stream, stored, runs>>

(* ON CONFLICT (event_id) DO NOTHING *)
SaveEventInEventStore ==
  /\ Start("event_store", "sending", <<>>)
  /\ stored' = stored \cup {EventAt("event_store")}
  /\ UNCHANGED <<accepted, stream, runs>>

Handle(c) ==
  /\ Start(c, "sending", <<>>)
  /\ runs' = [runs EXCEPT ![c] = Append(@, EventAt(c))]
  /\ UNCHANGED <<accepted, stream, stored>>

Send(g) ==
  /\ SendNext(g)
  /\ stream' = IF g = "forwarder" THEN Append(stream, Head(todo[g]).event) ELSE stream
  /\ UNCHANGED <<accepted, stored, runs>>

Others == UNCHANGED <<accepted, stream, stored, runs>>

Finish(g) == Ack(g) /\ Others

ClaimPending(g) == Claim(g) /\ Others

(* The forwarder reads the outbox from the offset it has stored, so a      *)
(* crash is for it like an error.                                          *)
Fail(g) ==
  /\ \/ Retry(g)
     \/ g # "forwarder" /\ Crash(g)
  /\ Others

Next ==
  \/ \E e \in Event : Commit(e) \/ Publish(e)
  \/ Forward
  \/ Split
  \/ SaveEventInEventStore
  \/ \E c \in Consumer : Handle(c)
  \/ \E g \in Group : Send(g) \/ Finish(g) \/ ClaimPending(g) \/ Fail(g)

Spec == Init /\ [][Next]_vars

(* Router and forwarder run as long as the service does (service.Run), and *)
(* redis hands out what is pending.                                        *)
Fairness ==
  /\ WF_vars(Forward)
  /\ WF_vars(Split)
  /\ WF_vars(SaveEventInEventStore)
  /\ \A c \in Consumer : WF_vars(Handle(c))
  /\ \A g \in Group : WF_vars(Send(g)) /\ WF_vars(Finish(g)) /\ WF_vars(ClaimPending(g))

FairSpec == Spec /\ Fairness
-----------------------------------------------------------------------------
Message == [type : EventType \cup {"events_to_forward", "events"}, event : Event]

(* The variables keep their types. *)
TypeOK ==
  /\ accepted \subseteq Event
  /\ stream \in Seq(Event)
  /\ stored \subseteq Event
  /\ runs \in [Consumer -> Seq(Event)]
  /\ queue \in [Group -> Seq(Message)]
  /\ lost \in [Group -> Seq(Message)]
  /\ at \in [Group -> {"idle", "sending"}]
  /\ todo \in [Group -> Seq(Message)]
  /\ faults \in Nat

(* Group g still has to take e. *)
Owes(g, e) == \E m \in Range(queue[g]) \cup Range(lost[g]) : m.event = e

(* No event is ever dropped: at any moment, between any two steps of any   *)
(* failure, an event that was accepted has reached the event store and each*)
(* of its handlers, or someone before them still has it to pass on.        *)
NothingLost ==
  \A e \in accepted :
    /\ e \in stored \/ Owes("forwarder", e) \/ Owes("event_store", e)
    /\ \A c \in Consumer :
         Subscribes[c] = TypeOf[e] =>
           \/ e \in Range(runs[c])
           \/ Owes("forwarder", e) \/ Owes("events_splitter", e) \/ Owes(c, e)

(* Each failure, wherever on the way it strikes, gives a handler one more  *)
(* run for the event at most.                                              *)
BoundedDuplicates ==
  \A c \in Consumer : \A e \in Event :
    Cardinality({i \in 1 .. Len(runs[c]) : runs[c][i] = e}) <= 1 + faults

(* Every event reaches the event store and all its handlers. *)
EventHandled ==
  \A e \in Event :
    e \in accepted ~>
      /\ e \in stored
      /\ \A c \in Consumer :
           Subscribes[c] = TypeOf[e] => e \in Range(runs[c])
=============================================================================
