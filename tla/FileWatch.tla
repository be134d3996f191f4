----------------------------- MODULE FileWatch -----------------------------
(***************************************************************************)
(* From a change of a source file to the code that is generated anew: the  *)
(* watcher of an app (pkg/watcher), which batches events and signals its   *)
(* consumer after a pause; the consumer's loop (apps.Instance.beginWatch), *)
(* which calls the daemon's listener and the subscriptions of runs one     *)
(* after another; the daemon's regenerateCodeDebouncer, which runs the     *)
(* code generator; and the calls of the generator that bypass it, by the   *)
(* daemon's app listener and by the RPC GenWrappers.                       *)
(*                                                                         *)
(* The files of the app are a version number that every relevant change    *)
(* raises; events are on a relevant path "src" or on the path "gen" of     *)
(* generated code.  Both debouncers (github.com/bep/debounce) are a timer  *)
(* that every call sets again and that runs its function in a goroutine.   *)
(***************************************************************************)
EXTENDS Naturals, FiniteSets

CONSTANTS
    Run,        \* the runs that may subscribe
    Firing,     \* bound: goroutines of the regeneration timer at a time
    Direct,     \* bound: calls of the generator by the app listener and by GenWrappers
    MaxVersion, \* bound: how often relevant files change
    None

ASSUME FileWatchAssumption == MaxVersion \in Nat /\ None \notin Run

VARIABLES
    version,    \* the state of the app's files
    notified,   \* the last version that the file system sent an event for
    inotify,    \* the file system events that are not handled yet
    batch,      \* Watcher.events: the paths with an event
    sigTimer,   \* Watcher.signalDebounce is pending
    stop,       \* Watcher.stop is closed
    consumer,   \* where the loop of beginWatch is
    got,        \* the events it has taken
    registered, \* Manager.watchers holds the daemon's listener
    missed,     \* the last version that was reported before it did
    watchers,   \* Instance.watchers
    visited,    \* those it has called
    calling,    \* the one it is calling
    building,   \* the version that this one's Reload builds
    reloaded,   \* the version each run was reloaded with
    regTimer,   \* regenerateCodeDebouncer.debounce is pending
    firing,     \* where the functions that this timer ran are
    running, runAfter,  \* regenerateCodeDebouncer
    seen,       \* the version that doRun works on
    attempted,  \* the version that doRun last returned from, with code generated or an error in the log
    direct,     \* where the calls that bypass the debouncer are
    daemon      \* "up", or "crashed"

watch == <<version, notified, inotify, batch, sigTimer, stop>>
loop == <<consumer, got, visited, calling, building, reloaded>>
regen == <<firing, running, runAfter, seen, attempted>>
vars == <<watch, loop, registered, missed, watchers, regTimer, regen, direct, daemon>>

TypeOK ==
    /\ version \in 0 .. MaxVersion /\ notified \in 0 .. version
    /\ inotify \subseteq {"src", "gen"}
    /\ batch \subseteq {"src", "gen"} /\ got \subseteq {"src", "gen"}
    /\ sigTimer \in BOOLEAN /\ regTimer \in BOOLEAN /\ stop \in BOOLEAN
    /\ consumer \in {"check", "waiting", "woken", "taken", "iterating", "stopped"}
    /\ watchers \subseteq Run /\ visited \subseteq Run
    /\ calling \in Run \union {None}
    /\ building \in 0 .. version
    /\ reloaded \in [Run -> 0 .. version]
    /\ firing \in [Firing -> {"none", "fired", "run", "relock"}]
    /\ running \in BOOLEAN /\ runAfter \in BOOLEAN
    /\ seen \in 0 .. version /\ attempted \in 0 .. version
    /\ direct \in [Direct -> {"idle", "run", "done"}]
    /\ registered \in BOOLEAN /\ missed \in 0 .. version
    /\ daemon \in {"up", "crashed"}

Init ==
    /\ version = 0 /\ notified = 0 /\ inotify = {}
    /\ batch = {} /\ sigTimer = FALSE /\ stop = FALSE
    /\ consumer = "check" /\ got = {} /\ visited = {} /\ calling = None
    /\ building = 0 /\ reloaded = [r \in Run |-> 0]
    /\ registered \in BOOLEAN /\ missed = 0 /\ watchers = {}
    /\ regTimer = FALSE /\ firing = [f \in Firing |-> "none"]
    /\ running = FALSE /\ runAfter = FALSE /\ seen = 0 /\ attempted = 0
    /\ direct = [d \in Direct |-> "idle"]
    /\ daemon = "up"

-----------------------------------------------------------------------------
(* The user and the file system. *)

\* A relevant file changes in a directory that is watched.
Edit ==
    /\ version < MaxVersion
    /\ version' = version + 1 /\ notified' = version'
    /\ inotify' = inotify \union {"src"}
    /\ UNCHANGED <<batch, sigTimer, stop, loop, registered, missed, watchers, regTimer, regen, direct, daemon>>

\* A file is written in a new directory before RecursivelyWatch has reached it, or is renamed away:
\* no event is recorded for either.
EditUnnoticed ==
    /\ version < MaxVersion
    /\ version' = version + 1
    /\ UNCHANGED <<notified, inotify, batch, sigTimer, stop, loop, registered, missed, watchers, regTimer, regen, direct, daemon>>

-----------------------------------------------------------------------------
(* The watcher. *)


\* recordEventInBatch sets the timer, or sets it again.
SetSignal == TRUE

\* listenForChangeEvents: an event on a file is recorded.
Listen(p) ==
    /\ ~stop /\ p \in inotify
    /\ inotify' = inotify \ {p}
    /\ batch' = batch \union {p}
    /\ sigTimer' = SetSignal
    /\ UNCHANGED <<version, notified, stop, loop, registered, missed, watchers, regTimer, regen, direct, daemon>>

\* The timer fires: eventCond.Signal, which nobody may be waiting for.
Signal ==
    /\ sigTimer
    /\ sigTimer' = FALSE
    /\ consumer' = IF consumer = "waiting" THEN "woken" ELSE consumer
    /\ UNCHANGED <<version, notified, inotify, batch, stop, got, visited, calling, building, reloaded,
                   registered, missed, watchers, regTimer, regen, direct, daemon>>

\* Nothing wakes up a consumer that waits.
Close ==
    /\ ~stop
    /\ stop' = TRUE
    /\ UNCHANGED <<version, notified, inotify, batch, sigTimer, loop, registered, missed, watchers, regTimer, regen, direct, daemon>>

\* WaitForEvents, under the lock: it returns at once, waits, or returns what there is.
Check ==
    /\ consumer = "check"
    /\ consumer' = IF stop THEN "stopped" ELSE IF batch = {} THEN "waiting" ELSE "taken"
    /\ IF ~stop /\ batch # {} THEN got' = batch /\ batch' = {} ELSE UNCHANGED <<got, batch>>
    /\ UNCHANGED <<version, notified, inotify, sigTimer, stop, visited, calling, building, reloaded,
                   registered, missed, watchers, regTimer, regen, direct, daemon>>

\* After Wait the batch is taken without another look: a signal that comes late brings an empty one.
Wake ==
    /\ consumer = "woken"
    /\ consumer' = "taken"
    /\ got' = batch /\ batch' = {}
    /\ UNCHANGED <<version, notified, inotify, sigTimer, stop, visited, calling, building, reloaded,
                   registered, missed, watchers, regTimer, regen, direct, daemon>>

-----------------------------------------------------------------------------
(* The consumer: beginWatch. *)

\* Mutant: generated files count.
IgnoreEmpty(events) == events = {}

\* IgnoreEvents: all events are on files that do not matter.
IgnoreEvents(events) == "src" \notin events

\* Manager.onWatchEvent calls the listeners it holds.  The daemon's sets the regeneration timer, but is
\* not among them until WatchAll has listed all apps, and code was generated for each of them.
OnWatchEvent ==
    /\ consumer = "taken"
    /\ regTimer' = (regTimer \/ (registered /\ ~IgnoreEvents(got)))
    /\ missed' = IF registered \/ IgnoreEvents(got) THEN missed ELSE notified
    /\ consumer' = "iterating"
    /\ UNCHANGED <<watch, got, visited, calling, building, reloaded, registered, watchers, regen, direct, daemon>>

\* WatchAll adds it.
Register ==
    /\ ~registered
    /\ registered' = TRUE
    /\ UNCHANGED <<watch, loop, missed, watchers, regTimer, regen, direct, daemon>>

\* The loop over the map reaches a subscription, and a run reloads.
Callback(r) ==
    /\ consumer = "iterating" /\ calling = None
    /\ r \in watchers \ visited
    /\ visited' = visited \union {r}
    /\ IF IgnoreEvents(got)
       THEN UNCHANGED <<calling, building>>
       ELSE calling' = r /\ building' = version
    /\ UNCHANGED <<watch, consumer, got, reloaded, registered, missed, watchers, regTimer, regen, direct, daemon>>

\* Reload returns.
CallbackReturns ==
    /\ calling # None
    /\ reloaded' = [reloaded EXCEPT ![calling] = building]
    /\ calling' = None
    /\ UNCHANGED <<watch, consumer, got, visited, building, registered, missed, watchers, regTimer, regen, direct,
                   daemon>>

EndIteration ==
    /\ consumer = "iterating" /\ calling = None /\ watchers \subseteq visited
    /\ consumer' = "check" /\ got' = {} /\ visited' = {}
    /\ UNCHANGED <<watch, calling, building, reloaded, registered, missed, watchers, regTimer, regen, direct,
                   daemon>>

\* The loop runs over the map itself, without watchMu: a write to it meanwhile may end the daemon
\* (fatal error: concurrent map iteration and map write).
MapWrite == daemon' \in IF consumer = "iterating" THEN {"up", "crashed"} ELSE {"up"}

\* A run subscribes; its code has just been built.
Watch(r) ==
    /\ r \notin watchers
    /\ watchers' = watchers \union {r}
    /\ reloaded' = [reloaded EXCEPT ![r] = version]
    /\ MapWrite
    /\ UNCHANGED <<watch, consumer, got, visited, calling, building, registered, missed, regTimer, regen, direct>>

Unwatch(r) ==
    /\ r \in watchers
    /\ watchers' = watchers \ {r}
    /\ MapWrite
    /\ UNCHANGED <<watch, loop, registered, missed, regTimer, regen, direct>>

-----------------------------------------------------------------------------
(* regenerateCodeDebouncer. *)

\* The timer fires, and its function begins in a goroutine.
Fire(f) ==
    /\ regTimer /\ firing[f] = "none"
    /\ regTimer' = FALSE
    /\ firing' = [firing EXCEPT ![f] = "fired"]
    /\ UNCHANGED <<watch, loop, registered, missed, watchers, running, runAfter, seen, attempted, direct, daemon>>

\* doRun begins, without the lock.
BeginRun(f) == /\ firing' = [firing EXCEPT ![f] = "run"]
               /\ runAfter' = FALSE
               /\ seen' = version

\* Mutant: a change that comes while code is generated is dropped.
DropChange == FALSE

\* A generator that is running is to run again.
RunAgain == TRUE

Busy == running

\* ChangeEvent's function, under the lock: it leaves a run that is under way to run again, or runs.
Enter(f) ==
    /\ firing[f] = "fired"
    /\ IF Busy
       THEN /\ runAfter' = (runAfter \/ RunAgain)
            /\ firing' = [firing EXCEPT ![f] = "none"]
            /\ UNCHANGED <<running, seen>>
       ELSE running' = TRUE /\ BeginRun(f)
    /\ UNCHANGED <<watch, loop, registered, missed, watchers, regTimer, attempted, direct, daemon>>

\* genUserFacing returns: it has written files, or has failed.
Generates == inotify' = inotify \union {"gen"} \/ UNCHANGED inotify

\* doRun returns; an error is only logged.
RunReturns(f) ==
    /\ firing[f] = "run"
    /\ Generates
    /\ attempted' = seen
    /\ firing' = [firing EXCEPT ![f] = "relock"]
    /\ UNCHANGED <<version, notified, batch, sigTimer, stop, loop, registered, missed, watchers, regTimer, running,
                   runAfter, seen, direct, daemon>>

\* The head of the loop, under the lock.
RunLoop(f) ==
    /\ firing[f] = "relock"
    /\ IF runAfter
       THEN BeginRun(f) /\ UNCHANGED running
       ELSE /\ running' = FALSE /\ firing' = [firing EXCEPT ![f] = "none"]
            /\ UNCHANGED <<runAfter, seen>>
    /\ UNCHANGED <<watch, loop, registered, missed, watchers, regTimer, attempted, direct, daemon>>

-----------------------------------------------------------------------------
(* The generator's other callers: the app listener, for an app that is new to the daemon and watched
   already, and the RPC GenWrappers.  They take no lock and do not know of the debouncer.           *)

DirectRun(d) ==
    /\ direct[d] = "idle"
    /\ direct' = [direct EXCEPT ![d] = "run"]
    /\ UNCHANGED <<watch, loop, registered, missed, watchers, regTimer, regen, daemon>>

DirectReturns(d) ==
    /\ direct[d] = "run"
    /\ Generates
    /\ direct' = [direct EXCEPT ![d] = "done"]
    /\ UNCHANGED <<version, notified, batch, sigTimer, stop, loop, registered, missed, watchers, regTimer, regen, daemon>>

-----------------------------------------------------------------------------
Environment == Edit \/ EditUnnoticed \/ Close \/ \E r \in Run : Watch(r) \/ Unwatch(r)
ListenStep == \E p \in {"src", "gen"} : Listen(p)
ConsumerStep == Check \/ Wake \/ OnWatchEvent \/ CallbackReturns \/ EndIteration \/ \E r \in Run : Callback(r)
FiringStep(f) == Enter(f) \/ RunReturns(f) \/ RunLoop(f)

Next ==
    /\ daemon = "up"
    /\ \/ Environment \/ ListenStep \/ Signal \/ ConsumerStep \/ Register
       \/ \E f \in Firing : Fire(f) \/ FiringStep(f)
       \/ \E d \in Direct : DirectRun(d) \/ DirectReturns(d)

Spec == Init /\ [][Next]_vars

\* Timers fire, goroutines run, and builds and the generator end; files need not change.
FairSpec ==
    /\ Spec
    /\ WF_vars(daemon = "up" /\ Register)
    /\ \A d \in Direct : WF_vars(daemon = "up" /\ DirectReturns(d))
    /\ WF_vars(daemon = "up" /\ ListenStep) /\ WF_vars(daemon = "up" /\ Signal)
    /\ WF_vars(daemon = "up" /\ ConsumerStep)
    /\ WF_vars(daemon = "up" /\ \E f \in Firing : Fire(f))
    /\ \A f \in Firing : WF_vars(daemon = "up" /\ FiringStep(f))

-----------------------------------------------------------------------------
(* Properties. *)

\* The debouncer's own runs of the generator never overlap, however timers and changes interleave.  (A
\* run of another caller may overlap with one of them.)
RunsDoNotOverlap ==
    \A f, g \in Firing : firing[f] = "run" /\ firing[g] \in {"run", "relock"} => f = g

\* The debouncer's flag says whether one is under way, also between a run and the head of the loop.
RunningAgrees == running <=> \E f \in Firing : firing[f] \in {"run", "relock"}

\* A consumer that waits while there are events will be signalled.
NoLostSignal == consumer = "waiting" /\ batch # {} => sigTimer

\* A change that the file system reports once the daemon listens is not forgotten: doRun was called for
\* it, or an event, a timer or a run that started after the change is on its way.
NoChangeForgotten ==
    \/ notified <= attempted \/ notified <= missed
    \/ "src" \in inotify \union batch
    \/ consumer = "taken" /\ ~IgnoreEvents(got)
    \/ regTimer \/ runAfter
    \/ \E f \in Firing : firing[f] = "fired" \/ (firing[f] = "run" /\ seen >= notified)

\* Between the file system and the debouncer no change is dropped, and the debouncer's runs of the
\* generator do not overlap.
RegenInv == TypeOK /\ RunsDoNotOverlap /\ RunningAgrees /\ NoLostSignal /\ NoChangeForgotten

Down == daemon = "crashed" \/ stop

\* Every change that is reported once the daemon listens is handed to the generator, by the debouncer.
ChangesReachGenerator ==
    \A v \in 1 .. MaxVersion : notified = v ~> attempted >= v \/ missed >= v \/ Down

\* Every reported change reaches the runs that stay subscribed.
ChangesAreReloaded ==
    \A v \in 1 .. MaxVersion, r \in Run :
        notified = v /\ r \in watchers ~> reloaded[r] >= v \/ r \notin watchers \/ Down


\* When files no longer change, generating code stops: what it writes does not start it again.
GenerationSettles ==
    <>[](\/ daemon = "crashed"
         \/ (\A f \in Firing : firing[f] = "none") /\ (\A d \in Direct : direct[d] # "run"))
=============================================================================
