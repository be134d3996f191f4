----------------------------- MODULE ServiceInit -----------------------------
(***************************************************************************)
(* How services come up (appruntime/apisdk/service): InitializeServices    *)
(* starts one goroutine per hosted service while requests, which the API   *)
(* server already accepts, initialize the services they need through Get.  *)
(* Both go through syncutil.Once, which is re-armed when Setup fails, and  *)
(* a Setup may itself call other services.                                 *)
(***************************************************************************)
EXTENDS Naturals, Sequences, FiniteSets

CONSTANTS
    Svc,    \* the hosted services; each names its goroutine as well
    Req,    \* goroutines of requests
    Calls,  \* Calls[s]: the services that the Setup of s calls
    None    \* nobody, nothing

Goroutine == Svc \union Req

ASSUME ServiceInitAssumption ==
    /\ IsFiniteSet(Svc) /\ Svc \intersect Req = {}
    /\ Calls \in [Svc -> SUBSET Svc]
    /\ None \notin Goroutine

VARIABLES
    main,           \* InitializeServices
    pc,             \* where each goroutine is
    target,         \* the service it wants
    inside,         \* the services whose Once.Do it is in, the innermost last
    mutex,          \* the holder of each Once.m
    done,           \* the services whose Once.done is set
    instance,       \* how many instances of each service have been made, each
                    \* with its Shutdown added to mgr.shutdownHandlers
    made,           \* the service whose Setup has just returned in a goroutine
    initialised,    \* mgr.initialisedServices
    results,        \* the buffered channel of results
    received        \* how many results main has taken

vars == <<main, pc, target, inside, mutex, done, instance, made,
          initialised, results, received>>
once == <<inside, mutex, done, instance, made>>
manager == <<main, initialised, results, received>>

TypeOK ==
    /\ main \in {"start", "collecting", "ready", "failed"}
    /\ pc \in [Goroutine -> {"idle", "calling", "ok", "err", "finished"}]
    /\ target \in [Goroutine -> Svc \union {None}]
    /\ inside \in [Goroutine -> Seq(Svc)]
    /\ mutex \in [Svc -> Goroutine \union {None}]
    /\ done \subseteq Svc
    /\ instance \in [Svc -> Nat]
    /\ made \in [Goroutine -> Svc \union {None}]
    /\ initialised \subseteq Svc
    /\ results \in Seq({"ok", "err"}) /\ Len(results) <= Cardinality(Svc)
    /\ received \in 0 .. Cardinality(Svc)

Init ==
    /\ main = "start"
    /\ pc = [g \in Goroutine |-> "idle"]
    /\ target = [g \in Goroutine |-> None]
    /\ inside = [g \in Goroutine |-> <<>>]
    /\ mutex = [s \in Svc |-> None]
    /\ done = {}
    /\ instance = [s \in Svc |-> 0]
    /\ made = [g \in Goroutine |-> None]
    /\ initialised = {}
    /\ results = <<>>
    /\ received = 0

-----------------------------------------------------------------------------
(* syncutil.Once.Do(doSetupService), in goroutine g. *)

Inside(g, s) == inside[g] # <<>> /\ inside[g][Len(inside[g])] = s

\* g holds the lock of the Do it is in; a Do of s inside a Setup of s never does.
Holds(g, s) ==
    /\ Inside(g, s) /\ mutex[s] = g
    /\ \A i \in 1 .. Len(inside[g]) - 1 : inside[g][i] # s

\* The innermost Do of g returns: to the Setup that called it, or to Get.
Leave(g, how) ==
    /\ inside' = [inside EXCEPT ![g] = SubSeq(@, 1, Len(@) - 1)]
    /\ pc' = IF Len(inside[g]) = 1 THEN [pc EXCEPT ![g] = how] ELSE pc

Unlock(s) == mutex' = [mutex EXCEPT ![s] = None]

\* Mutant: the fast path tests for a Setup under way, not for a finished one.
FastPathEarly(g, s) ==
    /\ Inside(g, s) /\ mutex[s] # None /\ mutex[s] # g
    /\ Leave(g, "ok")
    /\ UNCHANGED <<target, mutex, done, instance, made, manager>>

FastPath(g, s) ==
    /\ Inside(g, s) /\ mutex[s] # g /\ s \in done
    /\ Leave(g, "ok")
    /\ UNCHANGED <<target, mutex, done, instance, made, manager>>

\* The load of done has seen 0; the lock may be granted after it was set.
Lock(g, s) ==
    /\ Inside(g, s) /\ mutex[s] = None
    /\ mutex' = [mutex EXCEPT ![s] = g]
    /\ UNCHANGED <<pc, target, inside, done, instance, made, manager>>

FoundDone(g, s) ==
    /\ Holds(g, s) /\ s \in done
    /\ Unlock(s) /\ Leave(g, "ok")
    /\ UNCHANGED <<target, done, instance, made, manager>>

\* g is running the Setup of s.
InSetup(g, s) == Holds(g, s) /\ s \notin done /\ made[g] = None

\* The Setup of s calls another service, whose Get enters its Once.
CallOther(g, s, t) ==
    /\ InSetup(g, s) /\ t \in Calls[s] \ done
    /\ inside' = [inside EXCEPT ![g] = Append(@, t)]
    /\ UNCHANGED <<pc, target, mutex, done, instance, made, manager>>

\* Mutant: done is not read again under the lock.
SetupAgain(g, s) ==
    /\ Holds(g, s) /\ made[g] = None /\ Calls[s] \subseteq done
    /\ instance' = [instance EXCEPT ![s] = @ + 1]
    /\ made' = [made EXCEPT ![g] = s]
    /\ UNCHANGED <<pc, target, inside, mutex, done, manager>>

\* Setup returns an instance; its Shutdown is registered.
SetupSucceeds(g, s) ==
    /\ InSetup(g, s) /\ Calls[s] \subseteq done
    /\ instance' = [instance EXCEPT ![s] = @ + 1]
    /\ made' = [made EXCEPT ![g] = s]
    /\ UNCHANGED <<pc, target, inside, mutex, done, manager>>

StoreDone(g, s) ==
    /\ Holds(g, s) /\ made[g] = s
    /\ done' = done \union {s}
    /\ made' = [made EXCEPT ![g] = None]
    /\ Unlock(s) /\ Leave(g, "ok")
    /\ UNCHANGED <<target, instance, manager>>

\* Mutant: the error path returns without unlocking.
FailLocked(g, s) ==
    /\ InSetup(g, s)
    /\ Leave(g, "err")
    /\ UNCHANGED <<target, mutex, done, instance, made, manager>>

\* Setup fails: Once stays armed for the next caller.
SetupFails(g, s) ==
    /\ InSetup(g, s)
    /\ Unlock(s) /\ Leave(g, "err")
    /\ UNCHANGED <<target, done, instance, made, manager>>

-----------------------------------------------------------------------------
(* InitializeServices, its goroutines, and requests. *)

Enter(g, s) ==
    /\ pc[g] = "idle"
    /\ pc' = [pc EXCEPT ![g] = "calling"]
    /\ target' = [target EXCEPT ![g] = s]
    /\ inside' = [inside EXCEPT ![g] = <<s>>]
    /\ UNCHANGED <<mutex, done, instance, made>>

Spawn ==
    /\ main = "start"
    /\ main' = "collecting"
    /\ UNCHANGED <<pc, target, once, initialised, results, received>>

InitService(s) == main # "start" /\ Enter(s, s) /\ UNCHANGED manager

\* Decl.Get, for a request of an endpoint of s.
Get(r, s) == Enter(r, s) /\ UNCHANGED manager

\* Mutant: an unbuffered channel, on which nobody receives once main has failed.
SendUnbuffered(s) ==
    /\ pc[s] \in {"ok", "err"} /\ main = "collecting" /\ results = <<>>
    /\ initialised' = IF pc[s] = "ok" THEN initialised \union {s} ELSE initialised
    /\ pc' = [pc EXCEPT ![s] = "finished"]
    /\ results' = Append(results, pc[s])
    /\ UNCHANGED <<main, target, once, received>>

\* The result is sent while initialisedMu is held: the buffer has room for all.
SendResult(s) ==
    /\ pc[s] \in {"ok", "err"} /\ Len(results) < Cardinality(Svc)
    /\ initialised' = IF pc[s] = "ok" THEN initialised \union {s} ELSE initialised
    /\ pc' = [pc EXCEPT ![s] = "finished"]
    /\ results' = Append(results, pc[s])
    /\ UNCHANGED <<main, target, once, received>>

\* The loop over the results: the first error ends it.
Receive ==
    /\ main = "collecting" /\ results # <<>>
    /\ results' = Tail(results)
    /\ received' = received + 1
    /\ main' = IF Head(results) = "err" THEN "failed"
               ELSE IF received + 1 = Cardinality(Svc) THEN "ready" ELSE "collecting"
    /\ UNCHANGED <<pc, target, once, initialised>>

-----------------------------------------------------------------------------

Step(g) == \E s \in Svc :
    \/ FastPath(g, s) \/ Lock(g, s) \/ FoundDone(g, s) \/ StoreDone(g, s)
    \/ SetupSucceeds(g, s) \/ SetupFails(g, s)
    \/ \E t \in Svc : CallOther(g, s, t)

Next ==
    \/ Spawn \/ Receive
    \/ \E s \in Svc : InitService(s) \/ SendResult(s)
    \/ \E r \in Req, s \in Svc : Get(r, s)
    \/ \E g \in Goroutine : Step(g)

Spec == Init /\ [][Next]_vars

\* Goroutines are scheduled, a free mutex is granted to some waiter, and a Setup
\* ends, if need be by giving up on a service that it calls again and again.
FairSpec ==
    /\ Spec /\ WF_vars(Spawn) /\ WF_vars(Receive)
    /\ \A s \in Svc :
          /\ WF_vars(InitService(s)) /\ WF_vars(SendResult(s))
          /\ WF_vars(\E g \in Goroutine :
                FastPath(g, s) \/ Lock(g, s) \/ FoundDone(g, s) \/ StoreDone(g, s))
          /\ SF_vars(\E g \in Goroutine : SetupSucceeds(g, s) \/ SetupFails(g, s))

-----------------------------------------------------------------------------
(* Properties. *)

\* However many goroutines race and however often Setup fails first, a service
\* has one instance, whose Shutdown is registered once (Once.Do's second test).
OneInstance == \A s \in Svc : instance[s] <= 1

\* A Get that returns without an error returns an instance, although the fast
\* path takes no lock.
GetReturnsInstance == \A g \in Goroutine : pc[g] = "ok" => instance[target[g]] = 1

\* HealthCheck: "services.initialized" passes.
HealthOK == Cardinality(initialised) = Cardinality(Svc)

\* Neither the health check nor InitializeServices reports success before every
\* service is up.
ReadyMeansUp == HealthOK \/ main = "ready" => done = Svc

\* With calls between Setup functions that form no cycle, InitializeServices
\* returns, also when a request initialized a service first, or failed to.
InitReturns == main = "collecting" ~> main \in {"ready", "failed"}

\* The goroutines of InitializeServices end even if it returned early.
GoroutinesEnd == \A s \in Svc : pc[s] = "calling" ~> pc[s] = "finished"

\* What goroutines that race for a service are told is true.
InitInv == TypeOK /\ GetReturnsInstance /\ ReadyMeansUp
=============================================================================
