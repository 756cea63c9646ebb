--------------------------- MODULE ConsumerGroups ---------------------------
(***************************************************************************)
(* How events/router.go and commands/router.go run handlers: one redis     *)
(* consumer group per handler, subscribed to one topic. A group takes the  *)
(* messages of its topic in order and one at a time. Its handler is run    *)
(* until it returns nil; an error (after the Retry middleware, a nack)     *)
(* runs it again, from its first line, on the same message, while the      *)
(* messages behind wait. A crash leaves the messages that were handed out  *)
(* pending in redis: they are claimed later, out of order.                 *)
(*                                                                         *)
(* A handler is its first step (Start), then the messages it sends one by  *)
(* one (SendNext), then the acknowledgement (Ack); a failure may strike    *)
(* between any two of these.                                               *)
(***************************************************************************)
EXTENDS Naturals, SequencesExt

CONSTANTS
  Group,      \* consumer groups, one per handler
  Topic,      \* the message type each of them subscribes to
  Faulty,     \* the groups whose handler may fail half-way
  MaxFaults   \* bound on failures and crashes

VARIABLES
  queue,      \* undelivered messages; the head is the one being handled
  lost,       \* handed out before a crash, to be claimed
  at,         \* step of each group's handler, "idle" between messages
  todo,       \* what the handler still has to send before its next step
  faults

busVars == <<queue, lost, at, todo, faults>>

BusInit ==
  /\ queue = [g \in Group |-> <<>>]
  /\ lost = [g \in Group |-> <<>>]
  /\ at = [g \in Group |-> "idle"]
  /\ todo = [g \in Group |-> <<>>]
  /\ faults = 0

Current(g) == Head(queue[g])

(* The queues q once m is published: each group subscribed to its type     *)
(* gets a copy.                                                            *)
Post(q, m) ==
  [g \in Group |-> IF Topic[g] = m.type THEN Append(q[g], m) ELSE q[g]]

Idle(g) == at[g] = "idle"
Ready(g) == Idle(g) /\ queue[g] # <<>>
MayFail(g) == g \in Faulty /\ faults < MaxFaults

(* The handler of g reaches step s with the messages ms to send, the       *)
(* queues being q. One that has nothing left to do has returned nil, and   *)
(* its message is acknowledged: at once, unless a failure may come between.*)
Reach(g, s, ms, q) ==
  LET over == s = "sending" /\ ms = <<>> /\ ~MayFail(g) IN
  /\ queue' = IF over THEN [q EXCEPT ![g] = Tail(@)] ELSE q
  /\ at' = [at EXCEPT ![g] = IF over THEN "idle" ELSE s]
  /\ todo' = [todo EXCEPT ![g] = ms]
  /\ UNCHANGED <<lost, faults>>

Start(g, s, ms) == Ready(g) /\ Reach(g, s, ms, queue)

SendNext(g) ==
  /\ todo[g] # <<>>
  /\ Reach(g, at[g], Tail(todo[g]), Post(queue, Head(todo[g])))

Ack(g) ==
  /\ at[g] = "sending"
  /\ todo[g] = <<>>
  /\ queue' = [queue EXCEPT ![g] = Tail(@)]
  /\ at' = [at EXCEPT ![g] = "idle"]
  /\ UNCHANGED <<lost, todo, faults>>

(* The handler returned an error after some of its effects: it runs again. *)
Retry(g) ==
  /\ MayFail(g)
  /\ ~Idle(g)
  /\ faults' = faults + 1
  /\ at' = [at EXCEPT ![g] = "idle"]
  /\ todo' = [todo EXCEPT ![g] = <<>>]
  /\ UNCHANGED <<queue, lost>>

(* Mutant: a message is taken off the stream before it is handled. *)
CrashDropsMessage(g) ==
  /\ MayFail(g)
  /\ queue[g] # <<>>
  /\ faults' = faults + 1
  /\ queue' = [queue EXCEPT ![g] = Tail(@)]
  /\ at' = [at EXCEPT ![g] = "idle"]
  /\ todo' = [todo EXCEPT ![g] = <<>>]
  /\ UNCHANGED lost

(* The service stops while g has a message in hand, before its handler has *)
(* begun or in the middle of it; the message stays pending. A crash that   *)
(* strikes several groups counts as as many faults.                        *)
Crash(g) ==
  /\ MayFail(g)
  /\ queue[g] # <<>>
  /\ faults' = faults + 1
  /\ queue' = [queue EXCEPT ![g] = Tail(@)]
  /\ lost' = [lost EXCEPT ![g] = Append(@, Current(g))]
  /\ at' = [at EXCEPT ![g] = "idle"]
  /\ todo' = [todo EXCEPT ![g] = <<>>]

(* A pending message is claimed and is the next one handled. *)
Claim(g) ==
  /\ Idle(g)
  /\ \E i \in 1 .. Len(lost[g]) :
       /\ queue' = [queue EXCEPT ![g] = <<lost[g][i]>> \o @]
       /\ lost' = [lost EXCEPT ![g] = RemoveAt(@, i)]
  /\ UNCHANGED <<at, todo, faults>>

(* Nothing is left to do. *)
Quiet == \A g \in Group : queue[g] = <<>> /\ lost[g] = <<>>
=============================================================================
