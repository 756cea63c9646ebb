----------------------------- MODULE ServiceRun -----------------------------
(***************************************************************************)
(* Start and stop of the service: Service.Run, an errgroup of goroutines   *)
(* that share a context. A signal cancels the context, and so does the     *)
(* first goroutine that returns an error; Run returns when all of them     *)
(* have, and main closes the database.                                     *)
(*                                                                         *)
(* A watermill router (external) closes its channel Running once it has    *)
(* subscribed; when the context is cancelled it waits for the messages in  *)
(* hand, for the time of its CloseTimeout. Shutdown of the HTTP server     *)
(* (external) waits for the requests; a server that was shut down does not *)
(* start. The goroutine of the trace provider holds nobody up: left out.   *)
(***************************************************************************)
EXTENDS Naturals, FiniteSets

CONSTANTS
  MaxRequests,  \* bound on HTTP requests at a time
  Unreliable,   \* the goroutines that may fail by themselves
  MaxFailures

Routers == {"events", "commands", "forwarder"}
Goroutines == Routers \cup {"migration", "http", "closer"}

ASSUME UnreliableAssumption == Unreliable \subseteq Goroutines
ASSUME BoundAssumption == MaxRequests \in Nat

VARIABLES
  pc,         \* what each goroutine is at
  running,    \* routers whose channel Running is closed
  signalled,  \* SIGINT or SIGTERM was received
  cancelled,  \* the context of the errgroup is done
  err,        \* the goroutine whose error Run will return
  failed,     \* goroutines that failed by themselves, not for the context
  server,     \* the HTTP server: new, listening or closed
  requests,   \* HTTP requests in progress
  busy        \* routers with a message in hand

runVars == <<pc, running, signalled, cancelled, err, failed, server, requests, busy>>
-----------------------------------------------------------------------------
RunInit ==
  /\ pc = [g \in Goroutines |-> "waiting"]
  /\ running = {}
  /\ signalled = FALSE
  /\ cancelled = FALSE
  /\ err = "none"
  /\ failed = {}
  /\ server = "new"
  /\ requests = 0
  /\ busy = {}

Ended == {"done", "timed_out"}
Returned == \A g \in Goroutines : pc[g] \in Ended

Move(g, state) == pc' = [pc EXCEPT ![g] = state]

(* A goroutine returns an error: errgroup keeps the first one. *)
ReturnError(g) ==
  /\ Move(g, "done")
  /\ err' = IF err = "none" THEN g ELSE err
  /\ cancelled' = TRUE

Signal ==
  /\ ~signalled
  /\ ~Returned
  /\ signalled' = TRUE
  /\ cancelled' = TRUE
  /\ UNCHANGED <<pc, running, err, failed, server, requests, busy>>

MayFailAlone(g) == g \in Unreliable /\ Cardinality(failed) < MaxFailures

(* g fails by itself: a router that cannot subscribe, a migration that     *)
(* times out or meets an event it cannot replay, a port that is taken.     *)
FailAlone(g) ==
  /\ MayFailAlone(g)
  /\ \/ g \in Routers /\ pc[g] = "waiting"
     \/ g = "migration" /\ pc[g] = "migrating"
     \/ g = "http" /\ pc[g] = "waiting" /\ running = Routers
  /\ ReturnError(g)
  /\ failed' = failed \cup {g}
  /\ UNCHANGED <<running, signalled, server, requests, busy>>
-----------------------------------------------------------------------------
(* The routers and the forwarder. *)

RouterRuns(r) ==
  /\ pc[r] = "waiting"
  /\ Move(r, "running")
  /\ running' = running \cup {r}
  /\ UNCHANGED <<signalled, cancelled, err, failed, server, requests, busy>>

(* Subscribing with a context that is done may fail. *)
RouterStopsEarly(r) ==
  /\ pc[r] = "waiting"
  /\ cancelled
  /\ ReturnError(r)
  /\ UNCHANGED <<running, signalled, failed, server, requests, busy>>

TakeMessage(r) ==
  /\ pc[r] = "running"
  /\ ~cancelled
  /\ busy' = busy \cup {r}
  /\ UNCHANGED <<pc, running, signalled, cancelled, err, failed, server, requests>>

FinishMessage(r) ==
  /\ r \in busy
  /\ busy' = busy \ {r}
  /\ UNCHANGED <<pc, running, signalled, cancelled, err, failed, server, requests>>

RouterStops(r) ==
  /\ pc[r] = "running"
  /\ cancelled
  /\ Move(r, IF r \in busy THEN "timed_out" ELSE "done")
  /\ UNCHANGED <<running, signalled, cancelled, err, failed, server, requests, busy>>
-----------------------------------------------------------------------------
StartMigration ==
  /\ pc["migration"] = "waiting"
  /\ "events" \in running
  /\ Move("migration", "migrating")
  /\ UNCHANGED <<running, signalled, cancelled, err, failed, server, requests, busy>>

(* With a context that is done, waiting and reading events fail:           *)
(* MigrateReadModel returns the error of the context.                      *)
FinishMigration ==
  /\ pc["migration"] = "migrating"
  /\ \/ ~cancelled /\ Move("migration", "done") /\ UNCHANGED <<cancelled, err>>
     \/ cancelled /\ ReturnError("migration")
  /\ UNCHANGED <<running, signalled, failed, server, requests, busy>>
-----------------------------------------------------------------------------
(* The goroutine waits for Running of all three, whatever the context says.*)
Listen ==
  /\ pc["http"] = "waiting"
  /\ running = Routers
  /\ \/ server = "new" /\ Move("http", "serving") /\ server' = "listening"
     \/ server = "closed" /\ Move("http", "done") /\ UNCHANGED server
  /\ UNCHANGED <<running, signalled, cancelled, err, failed, requests, busy>>

Accept ==
  /\ server = "listening"
  /\ requests < MaxRequests
  /\ requests' = requests + 1
  /\ UNCHANGED <<pc, running, signalled, cancelled, err, failed, server, busy>>

Answer ==
  /\ requests > 0
  /\ requests' = requests - 1
  /\ UNCHANGED <<pc, running, signalled, cancelled, err, failed, server, busy>>

(* Start returns ErrServerClosed, which is no error. *)
ServerClosed ==
  /\ pc["http"] = "serving"
  /\ server = "closed"
  /\ Move("http", "done")
  /\ UNCHANGED <<running, signalled, cancelled, err, failed, server, requests, busy>>

(* Mutant: it is the signal that shuts the server down. *)
ShutdownOnSignal ==
  /\ pc["closer"] = "waiting"
  /\ signalled
  /\ server' = "closed"
  /\ Move("closer", "draining")
  /\ UNCHANGED <<running, signalled, cancelled, err, failed, requests, busy>>

Shutdown ==
  /\ pc["closer"] = "waiting"
  /\ cancelled
  /\ server' = "closed"
  /\ Move("closer", "draining")
  /\ UNCHANGED <<running, signalled, cancelled, err, failed, requests, busy>>

(* Mutant: Close, which does not wait for the requests. *)
Close ==
  /\ pc["closer"] = "draining"
  /\ Move("closer", "done")
  /\ UNCHANGED <<running, signalled, cancelled, err, failed, server, requests, busy>>

Drained ==
  /\ pc["closer"] = "draining"
  /\ requests = 0
  /\ Move("closer", "done")
  /\ UNCHANGED <<running, signalled, cancelled, err, failed, server, requests, busy>>
-----------------------------------------------------------------------------
Router(r) == RouterRuns(r) \/ RouterStopsEarly(r) \/ FinishMessage(r) \/ RouterStops(r)
Migration == StartMigration \/ FinishMigration
Http == Listen \/ Answer \/ ServerClosed
Closer == Shutdown \/ Drained

RunNext ==
  \/ Signal
  \/ \E g \in Goroutines : FailAlone(g)
  \/ \E r \in Routers : Router(r) \/ TakeMessage(r)
  \/ Migration \/ Http \/ Accept \/ Closer

RunSpec == RunInit /\ [][RunNext]_runVars

(* Goroutines are scheduled, requests are answered. *)
FairRunSpec ==
  /\ RunSpec
  /\ \A r \in Routers : WF_runVars(Router(r))
  /\ WF_runVars(Migration) /\ WF_runVars(Http) /\ WF_runVars(Closer)
-----------------------------------------------------------------------------
(* Service.Run: the variables keep their types; the migration begins after *)
(* the event processor runs, the HTTP server after all three routers.      *)
RunTypeOK ==
  /\ pc \in [Goroutines -> {"waiting", "running", "migrating", "serving", "draining"} \cup Ended]
  /\ running \subseteq Routers
  /\ signalled \in BOOLEAN
  /\ cancelled \in BOOLEAN
  /\ err \in Goroutines \cup {"none"}
  /\ failed \subseteq Goroutines
  /\ server \in {"new", "listening", "closed"}
  /\ requests \in 0 .. MaxRequests
  /\ busy \subseteq Routers
  /\ pc["migration"] # "waiting" => "events" \in running
  /\ server = "listening" => running = Routers

(* Service.Run, main: the database is closed when no request and no message*)
(* is in the works any more, save those that outlive the CloseTimeout.     *)
NothingInTheWorks ==
  Returned =>
    /\ requests = 0
    /\ \A r \in busy : pc[r] = "timed_out"

(* Service.Run: while requests are served and the service is not stopping, *)
(* all that the requests set going is being handled, and the migration has *)
(* not failed.                                                             *)
ServedInFull ==
  requests > 0 /\ ~cancelled =>
    \A r \in Routers : pc[r] = "running"

(* Service.Run: a signal, or the failure of any goroutine, ends the service*)
(* with what the others have in the works, if all routers have started. (If*)
(* one has not, the HTTP goroutine waits for it for ever.)                 *)
Returns == (cancelled /\ running = Routers) ~> Returned
=============================================================================
