----------------------------- MODULE AppShutdown -----------------------------
(***************************************************************************)
(* An application process with the shutdown handlers the runtime really    *)
(* registers, on top of the tracker of module Shutdown: the main goroutine *)
(* (apisdk/app), the API server (apisdk/api), the Pub/Sub manager (pubsub),*)
(* the service manager (apisdk/service), object storage, and the infra-    *)
(* structure resources (databases, caches, metrics) that close last.       *)
(*                                                                         *)
(* Requests, messages and services are user code: they take any time.      *)
(***************************************************************************)
EXTENDS Shutdown, Sequences

CONSTANTS
    Infra,      \* the infrastructure handlers: "sqldb", "cache", "metrics"
    Singletons, \* the order in which package initialisation registers handlers
    Req,        \* API requests
    Msg,        \* Pub/Sub messages
    Svc         \* hosted services

ASSUME AppAssumption ==
    /\ Caller = {"main", "signals"}
    /\ Infra \subseteq {"sqldb", "cache", "metrics"}
    /\ {"api", "pubsub", "service"} \union Infra \subseteq Handler
    /\ Handler \subseteq {"api", "pubsub", "service", "objects"} \union Infra
    /\ Singletons \in Seq(Handler \ {"api"})
    /\ \A h \in Handler \ {"api"} : \E i \in DOMAIN Singletons : Singletons[i] = h
    /\ Req \intersect Msg = {}

VARIABLES
    main,       \* where the main goroutine is
    at,         \* where each shutdown handler is
    canceled,   \* contexts of the handlers that have been canceled
    httpsrv,    \* the http.Server
    httpstop,   \* the goroutine that runs httpsrv.Shutdown
    task,       \* the requests and messages
    svc,        \* the services
    closed,     \* the infrastructure resources that are closed
    before      \* history: tasks counted as running when shutdown was initiated

avars == <<main, at, canceled, httpsrv, httpstop, task, svc, closed, before>>

AppTypeOK ==
    /\ TypeOK
    /\ main \in {"pkginit", "listening", "listenFailed", "initializing", "serving", "stopping"}
    /\ at \in [Handler -> {"begin", "waiting", "marked"}]
    /\ canceled \subseteq {"http", "fetch", "handler", "connection", "bucket"}
    /\ httpsrv \in {"new", "serving", "failed", "shutdown"}
    /\ httpstop \in {"none", "spawned", "closing", "returned"}
    /\ task \in [Req \union Msg -> {"idle", "accepted", "admitted", "running", "done"}]
    /\ svc \in [Svc -> {"new", "ready", "failed", "stopping", "stopped"}]
    /\ closed \subseteq Infra
    /\ before \subseteq Req \union Msg

AppInit ==
    /\ Init
    /\ main = "pkginit"
    /\ at = [h \in Handler |-> "begin"]
    /\ canceled = {}
    /\ httpsrv = "new"
    /\ httpstop = "none"
    /\ task = [r \in Req \union Msg |-> "idle"]
    /\ svc = [s \in Svc |-> "new"]
    /\ closed = {}
    /\ before = {}

\* The tasks of T counted in a runningHandlers WaitGroup.
Running(T) == {r \in T : task[r] = "running"}

-----------------------------------------------------------------------------
(* The main goroutine: package initialisation, then App.Run. *)

\* Every handler but the API server's is registered by a package init function,
\* after the tracker's own has begun to watch for signals.
RegisterSingleton(i) ==
    /\ main = "pkginit" /\ Register(Singletons[i])
    /\ \A j \in 1 .. (i - 1) : hstate[Singletons[j]] # "unregistered"
    /\ UNCHANGED avars

Listen(ok) ==
    /\ exit = "running" /\ main = "pkginit"
    /\ \A h \in Handler \ {"api"} : hstate[h] # "unregistered"
    /\ main' = IF ok THEN "listening" ELSE "listenFailed"
    /\ UNCHANGED <<vars, at, canceled, httpsrv, httpstop, task, svc, closed, before>>

\* App.Start; Serve and InitializeServices follow.
StartApp ==
    /\ main = "listening" /\ Register("api")
    /\ main' = "initializing"
    /\ UNCHANGED <<at, canceled, httpsrv, httpstop, task, svc, closed, before>>

\* The goroutine that runs Serve; after httpsrv.Shutdown it returns at once.
Serve ==
    /\ exit = "running" /\ hstate["api"] # "unregistered" /\ httpsrv = "new"
    /\ httpsrv' = "serving"
    /\ UNCHANGED <<vars, main, at, canceled, httpstop, task, svc, closed, before>>

ServeFails ==
    /\ exit = "running" /\ httpsrv = "serving"
    /\ httpsrv' = "failed"
    /\ UNCHANGED <<vars, main, at, canceled, httpstop, task, svc, closed, before>>

\* A goroutine of InitializeServices; doSetupService registers the service's
\* Shutdown once its instance exists.
InitService(s, ok) ==
    /\ exit = "running" /\ hstate["api"] # "unregistered" /\ svc[s] = "new"
    /\ svc' = [svc EXCEPT ![s] = IF ok THEN "ready" ELSE "failed"]
    /\ UNCHANGED <<vars, main, at, canceled, httpsrv, httpstop, task, closed, before>>

\* InitializeServices returns: nil when all are up, otherwise the first error.
ServicesInitialized ==
    /\ exit = "running" /\ main = "initializing"
    /\ \A s \in Svc : svc[s] \notin {"new", "failed"}
    /\ main' = "serving"
    /\ UNCHANGED <<vars, at, canceled, httpsrv, httpstop, task, svc, closed, before>>

ServicesFailed ==
    /\ exit = "running" /\ main = "initializing"
    /\ \E s \in Svc : svc[s] = "failed"
    /\ main' = "stopping"
    /\ UNCHANGED <<vars, at, canceled, httpsrv, httpstop, task, svc, closed, before>>

ServeReturned ==
    /\ exit = "running" /\ main = "serving" /\ httpsrv \in {"failed", "shutdown"}
    /\ main' = "stopping"
    /\ UNCHANGED <<vars, at, canceled, httpsrv, httpstop, task, svc, closed, before>>

\* A call of Tracker.Shutdown.  The first one fixes the history variable.
CallShutdown(c, sig) ==
    \/ /\ Trigger(c, sig)
       /\ before' = Running(Req \union Msg)
       /\ UNCHANGED <<main, at, canceled, httpsrv, httpstop, task, svc, closed>>
    \/ BlockOnOnce(c) /\ UNCHANGED avars

MainShutdown == main = "stopping" /\ CallShutdown("main", "none")

SignalShutdown(sig) == CallShutdown("signals", sig)

\* Run returns, so AppMain does and the process ends, after a failed Listen.
\* After a call of Shutdown it does not: the call never returns.
MainReturns == main = "listenFailed" /\ Kill /\ UNCHANGED avars

-----------------------------------------------------------------------------
(* API requests and Server.Shutdown. *)

Accept(r) ==
    /\ exit = "running" /\ httpsrv = "serving" /\ task[r] = "idle"
    /\ task' = [task EXCEPT ![r] = "accepted"]
    /\ UNCHANGED <<vars, main, at, canceled, httpsrv, httpstop, svc, closed, before>>

\* activeHandlersWrapper: the check of httpCtx, then runningHandlers.Add(1).
CheckHttpCtx(r) ==
    /\ exit = "running" /\ task[r] = "accepted"
    /\ task' = [task EXCEPT ![r] = IF "http" \in canceled THEN "done" ELSE "admitted"]
    /\ UNCHANGED <<vars, main, at, canceled, httpsrv, httpstop, svc, closed, before>>

AddRunning(r) ==
    /\ exit = "running" /\ task[r] = "admitted"
    /\ task' = [task EXCEPT ![r] = "running"]
    /\ UNCHANGED <<vars, main, at, canceled, httpsrv, httpstop, svc, closed, before>>

FinishTask(r) ==
    /\ exit = "running" /\ task[r] = "running"
    /\ task' = [task EXCEPT ![r] = "done"]
    /\ UNCHANGED <<vars, main, at, canceled, httpsrv, httpstop, svc, closed, before>>

\* Server.Shutdown starts its two goroutines and waits for runningHandlers.
ApiBegin ==
    /\ exit = "running" /\ hstate["api"] = "running" /\ at["api"] = "begin"
    /\ at' = [at EXCEPT !["api"] = "waiting"]
    /\ httpstop' = "spawned"
    /\ UNCHANGED <<vars, main, canceled, httpsrv, task, svc, closed, before>>

\* http.Server.Shutdown closes the listeners, which makes Serve return, and
\* returns when no connection is active or its context is done.
HttpStopBegins ==
    /\ exit = "running" /\ httpstop = "spawned"
    /\ httpstop' = "closing" /\ httpsrv' = "shutdown"
    /\ UNCHANGED <<vars, main, at, canceled, task, svc, closed, before>>

HttpStopReturns ==
    /\ exit = "running" /\ httpstop = "closing"
    /\ Done("forceShutdown") \/ \A r \in Req : task[r] \in {"idle", "done"}
    /\ httpstop' = "returned"
    /\ UNCHANGED <<vars, main, at, canceled, httpsrv, task, svc, closed, before>>

\* Mutant: the server cancels OutstandingTasks instead of OutstandingRequests.
ApiMarkTasks ==
    /\ exit = "running" /\ hstate["api"] = "running" /\ at["api"] = "waiting"
    /\ Running(Req) = {} /\ ctx["requests"] = "live"
    /\ ctx' = End("tasks", "canceled")
    /\ at' = [at EXCEPT !["api"] = "marked"]
    /\ UNCHANGED <<now, initiated, call, deadline, start, cause, runner, hstate, exit>>
    /\ UNCHANGED <<main, canceled, httpsrv, httpstop, task, svc, closed, before>>

\* runningHandlers.Wait returns and the server marks its context, in one step.
ApiMark ==
    /\ hstate["api"] = "running" /\ at["api"] = "waiting" /\ Running(Req) = {}
    /\ ctx["requests"] = "live" /\ Mark("requests")
    /\ at' = [at EXCEPT !["api"] = "marked"]
    /\ UNCHANGED <<main, canceled, httpsrv, httpstop, task, svc, closed, before>>

\* The mark of a context that the tasks deadline has already ended.
ApiMarkLate ==
    /\ exit = "running" /\ hstate["api"] = "running" /\ at["api"] = "waiting"
    /\ Running(Req) = {} /\ Done("requests")
    /\ at' = [at EXCEPT !["api"] = "marked"]
    /\ UNCHANGED <<vars, main, canceled, httpsrv, httpstop, task, svc, closed, before>>

ApiReturn(how) ==
    /\ at["api"] = "marked" /\ httpstop = "returned" /\ Return("api", how)
    /\ UNCHANGED avars

-----------------------------------------------------------------------------
(* Pub/Sub messages and Manager.Shutdown. *)

\* Canceling a context cancels the ones derived from it.
Cancel(x) ==
    CASE x = "connection" -> canceled \union {"connection", "handler", "fetch"}
      [] x = "handler"    -> canceled \union {"handler", "fetch"}
      [] OTHER            -> canceled \union {x}

Fetch(m) ==
    /\ exit = "running" /\ "fetch" \notin canceled /\ task[m] = "idle"
    /\ task' = [task EXCEPT ![m] = "accepted"]
    /\ UNCHANGED <<vars, main, at, canceled, httpsrv, httpstop, svc, closed, before>>

\* The subscription callback: the check of ctx, then runningHandlers.Add(1).
CheckHandlerCtx(m) ==
    /\ exit = "running" /\ task[m] = "accepted"
    /\ task' = [task EXCEPT ![m] = IF "handler" \in canceled THEN "done" ELSE "admitted"]
    /\ UNCHANGED <<vars, main, at, canceled, httpsrv, httpstop, svc, closed, before>>

\* Manager.Shutdown stops the fetching and waits; runningFetches, which nothing
\* ever adds to, does not block it.
PubSubBegin ==
    /\ exit = "running" /\ hstate["pubsub"] = "running" /\ at["pubsub"] = "begin"
    /\ at' = [at EXCEPT !["pubsub"] = "waiting"]
    /\ canceled' = Cancel("fetch")
    /\ UNCHANGED <<vars, main, httpsrv, httpstop, task, svc, closed, before>>

PubSubMark ==
    /\ hstate["pubsub"] = "running" /\ at["pubsub"] = "waiting" /\ Running(Msg) = {}
    /\ ctx["pubsub"] = "live" /\ Mark("pubsub")
    /\ at' = [at EXCEPT !["pubsub"] = "marked"]
    /\ UNCHANGED <<main, canceled, httpsrv, httpstop, task, svc, closed, before>>

\* Mutant: the manager stops waiting for its handlers at the tasks deadline.
PubSubGiveUp ==
    /\ exit = "running" /\ hstate["pubsub"] = "running" /\ at["pubsub"] = "waiting"
    /\ Done("pubsub")
    /\ at' = [at EXCEPT !["pubsub"] = "marked"]
    /\ UNCHANGED <<vars, main, canceled, httpsrv, httpstop, task, svc, closed, before>>

PubSubMarkLate ==
    /\ exit = "running" /\ hstate["pubsub"] = "running" /\ at["pubsub"] = "waiting"
    /\ Running(Msg) = {} /\ Done("pubsub")
    /\ at' = [at EXCEPT !["pubsub"] = "marked"]
    /\ UNCHANGED <<vars, main, canceled, httpsrv, httpstop, task, svc, closed, before>>

PubSubReturn ==
    /\ at["pubsub"] = "marked" /\ Return("pubsub", "returned")
    /\ canceled' = Cancel("connection")
    /\ UNCHANGED <<main, at, httpsrv, httpstop, task, svc, closed, before>>

-----------------------------------------------------------------------------
(* Services, object storage and infrastructure. *)

\* service.Manager.Shutdown starts the Shutdown of the services registered by now.
ServiceBegin ==
    /\ exit = "running" /\ hstate["service"] = "running" /\ at["service"] = "begin"
    /\ at' = [at EXCEPT !["service"] = "waiting"]
    /\ svc' = [s \in Svc |-> IF svc[s] = "ready" THEN "stopping" ELSE svc[s]]
    /\ UNCHANGED <<vars, main, canceled, httpsrv, httpstop, task, closed, before>>

\* A service's Shutdown returns or panics.
ServiceStops(s) ==
    /\ exit = "running" /\ svc[s] = "stopping"
    /\ svc' = [svc EXCEPT ![s] = "stopped"]
    /\ UNCHANGED <<vars, main, at, canceled, httpsrv, httpstop, task, closed, before>>

ServiceMark ==
    /\ hstate["service"] = "running" /\ at["service"] = "waiting"
    /\ \A s \in Svc : svc[s] # "stopping"
    /\ Mark("services")
    /\ at' = [at EXCEPT !["service"] = "marked"]
    /\ UNCHANGED <<main, canceled, httpsrv, httpstop, task, svc, closed, before>>

ServiceReturn ==
    /\ at["service"] = "marked" /\ Return("service", "returned")
    /\ UNCHANGED avars

ObjectsReturn ==
    /\ "objects" \in Handler /\ at["objects"] = "begin" /\ Return("objects", "returned")
    /\ at' = [at EXCEPT !["objects"] = "waiting"]
    /\ UNCHANGED <<main, canceled, httpsrv, httpstop, task, svc, closed, before>>

\* The goroutines of api, pubsub and objects that wait for ForceCloseTasks.
ForceClose(h) ==
    /\ exit = "running" /\ at[h] # "begin" /\ Done("forceClose")
    /\ LET x == [api |-> "http", pubsub |-> "handler", objects |-> "bucket"][h]
       IN  x \notin canceled /\ canceled' = Cancel(x)
    /\ UNCHANGED <<vars, main, at, httpsrv, httpstop, task, svc, closed, before>>

\* Mutant: infrastructure does not wait for the services' Shutdown.
TasksDoneOnly == Done("tasks")

UserCodeDone == Done("services") /\ Done("tasks")

\* sqldb, cache and metrics wait for user code, close their resource and return.
InfraClose(h) ==
    /\ exit = "running" /\ hstate[h] = "running" /\ at[h] = "begin" /\ UserCodeDone
    /\ closed' = closed \union {h}
    /\ at' = [at EXCEPT ![h] = "waiting"]
    /\ UNCHANGED <<vars, main, canceled, httpsrv, httpstop, task, svc, before>>

InfraReturn(h, how) ==
    /\ at[h] = "waiting" /\ Return(h, how)
    /\ UNCHANGED avars

-----------------------------------------------------------------------------

Main ==
    \/ \E i \in DOMAIN Singletons : RegisterSingleton(i)
    \/ \E ok \in BOOLEAN : Listen(ok)
    \/ StartApp \/ Serve \/ ServeFails
    \/ \E s \in Svc, ok \in BOOLEAN : InitService(s, ok)
    \/ ServicesInitialized \/ ServicesFailed \/ ServeReturned
    \/ MainShutdown \/ MainReturns
    \/ \E sig \in {"SIGTERM", "SIGINT"} : SignalShutdown(sig)

Api ==
    \/ \E r \in Req : Accept(r) \/ CheckHttpCtx(r)
    \/ ApiBegin \/ HttpStopBegins \/ HttpStopReturns \/ ApiMark \/ ApiMarkLate
    \/ \E how \in {"returned", "failed"} : ApiReturn(how)

PubSub ==
    \/ \E m \in Msg : Fetch(m) \/ CheckHandlerCtx(m)
    \/ PubSubBegin \/ PubSubMark \/ PubSubMarkLate \/ PubSubReturn

Tasks == \E r \in Req \union Msg : AddRunning(r) \/ FinishTask(r)

Resources ==
    \/ ServiceBegin \/ \E s \in Svc : ServiceStops(s)
    \/ ServiceMark \/ ServiceReturn \/ ObjectsReturn
    \/ \E h \in Handler \ ({"service"} \union Infra) : ForceClose(h)
    \/ \E h \in Infra : InfraClose(h) \/ \E how \in {"returned", "failed"} : InfraReturn(h, how)

AppNext ==
    \/ (Leader \/ Watchers \/ Runner \/ Timers \/ Tick \/ Ended) /\ UNCHANGED avars
    \/ Main \/ Api \/ PubSub \/ Tasks \/ Resources

AppSpec == AppInit /\ [][AppNext]_<<vars, avars>>

\* As in module Shutdown; requests, messages, services may hang.
AppFairSpec == AppSpec /\ Fairness

-----------------------------------------------------------------------------
(* Properties. *)

\* The application with its real handlers implements the tracker.
ImplementsTracker == Spec

\* An infrastructure resource is closed only when no service's Shutdown is still
\* running and the tasks have drained or run out of time (sqldb, cache, metrics).
InfraOutlivesServices ==
    closed # {} => Done("tasks") /\ \A s \in Svc : svc[s] # "stopping"

\* Tasks that were running when shutdown was initiated keep their databases:
\* unless the tasks deadline passes, they finish before anything is closed.
InfraOutlivesAdmittedTasks ==
    closed # {} /\ ctx["tasks"] = "canceled" => \A r \in before : task[r] = "done"

\* Connections to the Pub/Sub provider outlive the messages that were being
\* handled when shutdown was initiated, deadline or not.
ConnectionsOutliveMessages ==
    "connection" \in canceled => \A m \in before \intersect Msg : task[m] = "done"

\* Exit code 0 means that every resource whose handler was registered in time
\* has been closed.
CleanExitMeansClosed ==
    exit = "clean" =>
        \A h \in Infra : h \in closed \/ hstate[h] \in {"unregistered", "registered"}

\* Infrastructure outlives everything that may use it, whatever order the handlers act in.
InfraOutlivesUsers == AppTypeOK /\ InfraOutlivesServices /\ InfraOutlivesAdmittedTasks
=============================================================================
