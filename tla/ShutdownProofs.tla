--------------------------- MODULE ShutdownProofs ---------------------------
(***************************************************************************)
(* Theorems about modules Shutdown, for every set of callers and handlers, *)
(* and AppShutdown, for all requests, messages, services and               *)
(* infrastructure, both for all timings; and about ShutdownTimings, for    *)
(* configurations of any durations.                                        *)
(***************************************************************************)
EXTENDS AppShutdown, ShutdownTimings, TLAPS

-----------------------------------------------------------------------------
(* The tracker. *)

(* Ending a context keeps the context state well-typed. *)
LEMMA EndType ==
    ASSUME TypeOK, NEW x \in Ctx, NEW why \in {"canceled", "expired"}
    PROVE  End(x, why) \in [Ctx -> {"unborn", "live", "canceled", "expired"}]
BY DEF End, TypeOK

(* Every state of the tracker is well-typed. *)
THEOREM TypeCorrect == Spec => []TypeOK
<1>1. Init => TypeOK
  BY DEF Init, TypeOK
<1>2. TypeOK /\ [Next]_vars => TypeOK'
  <2> SUFFICES ASSUME TypeOK, [Next]_vars PROVE TypeOK'
    OBVIOUS
  <2> USE DEF TypeOK
  <2>1. CASE Callers
    BY <2>1, TimingsAssumption DEF Callers, Trigger, BlockOnOnce, Signal
  <2>2. CASE Leader
    <3>1. ASSUME NEW c \in Caller, FinishSleep(c) PROVE TypeOK'
      BY <3>1 DEF FinishSleep
    <3>2. ASSUME NEW c \in Caller, BeginShutdownProcess(c) PROVE TypeOK'
      BY <3>2, TimingsAssumption DEF BeginShutdownProcess, Born, Timer
    <3>3. ASSUME NEW c \in Caller, ExitOnCompletion(c) PROVE TypeOK'
      BY <3>3 DEF ExitOnCompletion
    <3> QED BY <2>2, <3>1, <3>2, <3>3 DEF Leader
  <2>3. CASE Watchers
    <3>1. CASE CancelOutstandingTasks
      BY <3>1, EndType DEF CancelOutstandingTasks, Ctx
    <3>2. CASE CancelForceShutdown
      BY <3>2, EndType DEF CancelForceShutdown, Ctx
    <3>3. CASE CompleteEarly
      BY <3>3, EndType DEF CompleteEarly, Ctx
    <3>4. CASE BeginGrace
      BY <3>4, TimingsAssumption DEF BeginGrace, Done, Ctx, Timer
    <3>5. CASE CompleteAfterGrace
      BY <3>5, EndType DEF CompleteAfterGrace, Ctx
    <3> QED BY <2>3, <3>1, <3>2, <3>3, <3>4, <3>5 DEF Watchers
  <2>4. CASE Runner
    <3>1. CASE StartHandlers
      BY <3>1 DEF StartHandlers
    <3>2. CASE MarkHandlersCompleted
      BY <3>2, EndType DEF MarkHandlersCompleted, Ctx
    <3> QED BY <2>4, <3>1, <3>2 DEF Runner
  <2>5. CASE Handlers
    <3>1. ASSUME NEW h \in Handler, Register(h) PROVE TypeOK'
      BY <3>1 DEF Register
    <3>2. ASSUME NEW h \in Handler, NEW how \in {"returned", "failed"}, Return(h, how)
          PROVE  TypeOK'
      BY <3>2 DEF Return
    <3>3. ASSUME NEW x \in {"requests", "pubsub", "services"}, Mark(x) PROVE TypeOK'
      BY <3>3, EndType DEF Mark, Ctx
    <3> QED BY <2>5, <3>1, <3>2, <3>3 DEF Handlers
  <2>6. CASE Timers
    <3>1. ASSUME NEW t \in Timer, Expire(t) PROVE TypeOK'
      <4>1. t \in Ctx
        BY DEF Timer, Ctx
      <4> QED BY <3>1, <4>1, EndType DEF Expire
    <3> QED BY <2>6, <3>1 DEF Timers
  <2>7. CASE Tick
    BY <2>7 DEF Tick
  <2>8. CASE Kill
    BY <2>8 DEF Kill
  <2>9. CASE Ended \/ UNCHANGED vars
    BY <2>9 DEF Ended, vars
  <2> QED BY <2>1, <2>2, <2>3, <2>4, <2>5, <2>6, <2>7, <2>8, <2>9 DEF Next
<1> QED BY <1>1, <1>2, PTL DEF Spec

-----------------------------------------------------------------------------
(* The inductive invariant.  One goroutine at most is inside once.Do, so the  *)
(* process begins once and start is written once; then each context that is   *)
(* done says why: the handlers have returned, or the time has come.           *)

Leads(c) == call[c] \in {"sleeping", "starting", "awaiting"}

OneLeader ==
    /\ \A c, d \in Caller : Leads(c) /\ Leads(d) => c = d
    /\ initiated = "open" => \A c \in Caller : call[c] = "idle"
    /\ \A c \in Caller : call[c] \in {"sleeping", "starting"} => runner = "idle"
    /\ initiated = "open" => runner = "idle"

Unborn ==
    /\ runner = "idle" => cause = "none" /\ \A x \in Ctx : ctx[x] = "unborn"
    /\ runner # "idle" => \A x \in Ctx \ {"grace"} : ctx[x] # "unborn"

HandlersInv ==
    /\ Done("handlers") <=> runner = "done"
    /\ runner # "waiting" => AllReturned

DeadlinesInv ==
    runner # "idle" =>
        /\ deadline["forceClose"] = start + CancelRunningTasksAfter
        /\ deadline["tasks"] = start + CancelRunningTasksAfter + ForceCloseTasksGrace
        /\ deadline["forceShutdown"] = start + ForceShutdownAfter

ForceShutdownInv ==
    /\ ctx["forceShutdown"] = "canceled" => Done("tasks") /\ Done("handlers")
    /\ ctx["forceShutdown"] = "expired" => now >= start + ForceShutdownAfter

GraceInv ==
    /\ ctx["grace"] # "unborn" =>
          deadline["grace"] >= start + ForceShutdownAfter + ForceShutdownGrace
    /\ ctx["grace"] = "canceled" => Done("handlers")
    /\ ctx["grace"] = "expired" => now >= start + ForceShutdownAfter + ForceShutdownGrace

CompletedInv ==
    /\ ctx["completed"] # "expired"
    /\ ctx["completed"] = "canceled" => cause # "none"
    /\ cause = "clean" => Done("handlers")
    /\ cause = "timeout" => now >= start + ForceShutdownAfter + ForceShutdownGrace
    /\ exit = "clean" => cause = "clean"
    /\ exit = "forced" => cause = "timeout"

Inv == /\ TypeOK /\ OneLeader /\ Unborn /\ HandlersInv
       /\ DeadlinesInv /\ ForceShutdownInv /\ GraceInv /\ CompletedInv

(* A step that ends one context, and with it its children, leaves the others. *)
LEMMA EndOthers ==
    ASSUME TypeOK, NEW x \in Ctx, NEW why \in {"canceled", "expired"}, ctx' = End(x, why)
    PROVE  /\ \A y \in Ctx : y # x /\ y \notin Children(x) => ctx'[y] = ctx[y]
           /\ ctx[x] = "live" => ctx'[x] = why
           /\ \A y \in Ctx : ctx[y] # "live" => ctx'[y] = ctx[y]
           /\ \A y \in Ctx : ctx'[y] \in {ctx[y], why}
BY DEF End, TypeOK

(* A tracker made by NewTracker satisfies the invariant. *)
LEMMA InvInit == Init => Inv
<1> SUFFICES ASSUME Init PROVE Inv
  OBVIOUS
<1> USE DEF Init
<1>1. TypeOK
  BY DEF TypeOK
<1>2. OneLeader /\ Unborn /\ DeadlinesInv
  BY DEF OneLeader, Leads, Unborn, DeadlinesInv
<1>3. HandlersInv /\ ForceShutdownInv /\ GraceInv /\ CompletedInv
  BY DEF HandlersInv, Done, AllReturned, ForceShutdownInv, GraceInv, CompletedInv, Ctx
<1> QED BY <1>1, <1>2, <1>3 DEF Inv

(* Every step of a caller, a watcher, the runner, a handler or a timer keeps the invariant. *)
LEMMA InvStep == Inv /\ TypeOK' /\ [Next]_vars => Inv'
<1> SUFFICES ASSUME Inv, TypeOK', [Next]_vars PROVE Inv'
  OBVIOUS
<1> USE DEF Inv
<1>a. \A x \in Ctx : ctx[x] \in {"unborn", "live", "canceled", "expired"}
  BY DEF TypeOK
<1>1. ASSUME NEW c \in Caller, NEW sig \in Signal, Trigger(c, sig) PROVE Inv'
  BY <1>1, TimingsAssumption DEF Trigger, ShutdownInitiated, TypeOK, OneLeader, Leads, Unborn,
     HandlersInv, Done, AllReturned, DeadlinesInv, ForceShutdownInv, GraceInv, CompletedInv, Timer
<1>2. ASSUME NEW c \in Caller, BlockOnOnce(c) PROVE Inv'
  BY <1>2 DEF BlockOnOnce, ShutdownInitiated, TypeOK, OneLeader, Leads, Unborn,
     HandlersInv, Done, AllReturned, DeadlinesInv, ForceShutdownInv, GraceInv, CompletedInv
<1>3. ASSUME NEW c \in Caller, FinishSleep(c) PROVE Inv'
  BY <1>3 DEF FinishSleep, SleepDue, TypeOK, OneLeader, Leads, Unborn,
     HandlersInv, Done, AllReturned, DeadlinesInv, ForceShutdownInv, GraceInv, CompletedInv
<1>4. ASSUME NEW c \in Caller, BeginShutdownProcess(c) PROVE Inv'
  <2>1. /\ ctx'["grace"] = "unborn" /\ \A x \in Ctx \ {"grace"} : ctx'[x] # "unborn"
        /\ \A x \in {"handlers", "forceShutdown", "completed"} : ctx'[x] = "live"
    BY <1>4 DEF BeginShutdownProcess, Born, Ctx
  <2>2. DeadlinesInv'
    BY <1>4, TimingsAssumption DEF BeginShutdownProcess, DeadlinesInv, TypeOK, Timer
  <2>3. OneLeader' /\ Unborn'
    BY <1>4, <2>1 DEF BeginShutdownProcess, OneLeader, Leads, Unborn, TypeOK
  <2>4. HandlersInv' /\ ForceShutdownInv' /\ GraceInv' /\ CompletedInv'
    BY <1>4, <2>1 DEF BeginShutdownProcess, OneLeader, Unborn, HandlersInv, Done, AllReturned,
       ForceShutdownInv, GraceInv, CompletedInv
  <2> QED BY <2>2, <2>3, <2>4
<1>5. ASSUME NEW c \in Caller, ExitOnCompletion(c) PROVE Inv'
  BY <1>5, <1>a DEF ExitOnCompletion, TypeOK, OneLeader, Leads, Unborn,
     HandlersInv, Done, AllReturned, DeadlinesInv, ForceShutdownInv, GraceInv, CompletedInv
<1>6. CASE CancelOutstandingTasks
  <2>1. \A y \in {"handlers", "forceShutdown", "grace", "completed"} : ctx'[y] = ctx[y]
    BY <1>6, EndOthers DEF CancelOutstandingTasks, Children, Ctx
  <2>2. ctx'["tasks"] = "canceled" /\ \A y \in Ctx : ctx[y] # "unborn" => ctx'[y] # "unborn"
    BY <1>6, EndOthers, <1>a DEF CancelOutstandingTasks, Drained, Ctx
  <2> QED BY <1>6, <2>1, <2>2 DEF CancelOutstandingTasks, Drained, OneLeader, Leads, Unborn, Ctx,
     HandlersInv, Done, AllReturned, DeadlinesInv, ForceShutdownInv, GraceInv, CompletedInv
<1>7. CASE CancelForceShutdown
  <2>1. /\ \A y \in Ctx \ {"forceShutdown"} : ctx'[y] = ctx[y]
        /\ ctx'["forceShutdown"] = "canceled"
    BY <1>7, EndOthers DEF CancelForceShutdown, CanStopEarly, Children, Ctx
  <2> QED BY <1>7, <2>1 DEF CancelForceShutdown, CanStopEarly, OneLeader, Leads, Unborn, Ctx,
     HandlersInv, Done, AllReturned, DeadlinesInv, ForceShutdownInv, GraceInv, CompletedInv
<1>8. CASE CompleteEarly
  <2>1. /\ \A y \in Ctx \ {"completed"} : ctx'[y] = ctx[y]
        /\ ctx'["completed"] = "canceled"
    BY <1>8, EndOthers DEF CompleteEarly, CompletedEarly, Children, Ctx
  <2> QED BY <1>8, <2>1 DEF CompleteEarly, CompletedEarly, OneLeader, Leads, Unborn, Ctx,
     HandlersInv, Done, AllReturned, DeadlinesInv, ForceShutdownInv, GraceInv, CompletedInv
<1>9. CASE BeginGrace
  <2>1. \A y \in Ctx \ {"grace"} : ctx'[y] = ctx[y]
    BY <1>9 DEF BeginGrace, TypeOK
  <2>2. ctx'["grace"] \in {"live", "canceled"} /\ (ctx'["grace"] = "canceled" => Done("handlers"))
    BY <1>9 DEF BeginGrace, TypeOK, Ctx
  <2>3. /\ deadline'["grace"] = now + ForceShutdownGrace
        /\ \A t \in Timer \ {"grace"} : deadline'[t] = deadline[t]
    BY <1>9 DEF BeginGrace, TypeOK, Timer
  <2>4. deadline'["grace"] >= start + ForceShutdownAfter + ForceShutdownGrace
    BY <1>9, <2>3, TimingsAssumption DEF BeginGrace, GraceBegins, ForceShutdownInv, TypeOK
  <2>5. runner # "idle" /\ DeadlinesInv'
    BY <1>9, <2>3 DEF BeginGrace, GraceBegins, Unborn, DeadlinesInv, Timer, Ctx
  <2> QED BY <1>9, <2>1, <2>2, <2>4, <2>5 DEF BeginGrace, OneLeader, Leads, Unborn, Ctx,
     HandlersInv, Done, AllReturned, ForceShutdownInv, GraceInv, CompletedInv
<1>10. CASE CompleteAfterGrace
  <2>1. /\ \A y \in Ctx \ {"completed"} : ctx'[y] = ctx[y]
        /\ ctx'["completed"] = "canceled"
    BY <1>10, EndOthers DEF CompleteAfterGrace, GraceOver, Children, Ctx
  <2> QED BY <1>10, <2>1 DEF CompleteAfterGrace, GraceOver, OneLeader, Leads, Unborn, Ctx,
     HandlersInv, Done, AllReturned, DeadlinesInv, ForceShutdownInv, GraceInv, CompletedInv
<1>11. CASE StartHandlers
  BY <1>11 DEF StartHandlers, OneLeader, Leads, Unborn, HandlersInv, Done, AllReturned,
     DeadlinesInv, ForceShutdownInv, GraceInv, CompletedInv
<1>12. CASE MarkHandlersCompleted
  <2>1. ctx["handlers"] = "live"
    BY <1>12, <1>a DEF MarkHandlersCompleted, Unborn, HandlersInv, Done, Ctx
  <2>2. /\ \A y \in Ctx \ {"handlers", "grace"} : ctx'[y] = ctx[y]
        /\ ctx'["handlers"] = "canceled"
        /\ ctx'["grace"] \in {ctx["grace"], "canceled"}
        /\ ctx["grace"] # "live" => ctx'["grace"] = ctx["grace"]
    BY <1>12, <2>1, EndOthers DEF MarkHandlersCompleted, Children, Ctx
  <2> QED BY <1>12, <2>2 DEF MarkHandlersCompleted, OneLeader, Leads, Unborn, Ctx,
     HandlersInv, Done, AllReturned, DeadlinesInv, ForceShutdownInv, GraceInv, CompletedInv
<1>13. ASSUME NEW h \in Handler, Register(h) PROVE Inv'
  BY <1>13 DEF Register, TypeOK, OneLeader, Leads, Unborn, HandlersInv, Done, AllReturned,
     DeadlinesInv, ForceShutdownInv, GraceInv, CompletedInv
<1>14. ASSUME NEW h \in Handler, NEW how \in {"returned", "failed"}, Return(h, how) PROVE Inv'
  BY <1>14 DEF Return, TypeOK, OneLeader, Leads, Unborn, HandlersInv, Done, AllReturned,
     DeadlinesInv, ForceShutdownInv, GraceInv, CompletedInv
<1>15. ASSUME NEW x \in {"requests", "pubsub", "services"}, Mark(x) PROVE Inv'
  <2>1. \A y \in Ctx \ {x} : ctx'[y] = ctx[y]
    BY <1>15, EndOthers DEF Mark, Children, Ctx
  <2>2. ctx'[x] = "canceled" /\ ctx[x] = "live"
    BY <1>15, EndOthers DEF Mark, Ctx
  <2> QED BY <1>15, <2>1, <2>2 DEF Mark, OneLeader, Leads, Unborn, Ctx,
     HandlersInv, Done, AllReturned, DeadlinesInv, ForceShutdownInv, GraceInv, CompletedInv
<1>16. ASSUME NEW t \in Timer, Expire(t) PROVE Inv'
  <2> USE <1>16 DEF Expire, Due
  <2>1. CASE t = "tasks"
    <3>1. \A y \in {"handlers", "forceShutdown", "grace", "completed"} : ctx'[y] = ctx[y]
      BY <2>1, EndOthers DEF Children, Ctx
    <3>2. ctx'["tasks"] = "expired" /\ \A y \in Ctx : ctx[y] # "unborn" => ctx'[y] # "unborn"
      BY <2>1, EndOthers, <1>a DEF Ctx
    <3> QED BY <2>1, <3>1, <3>2 DEF OneLeader, Leads, Unborn, Ctx,
       HandlersInv, Done, AllReturned, DeadlinesInv, ForceShutdownInv, GraceInv, CompletedInv
  <2>2. CASE t # "tasks"
    <3>1. (\A y \in Ctx \ {t} : ctx'[y] = ctx[y]) /\ ctx[t] = "live" /\ ctx'[t] = "expired"
      BY <2>2, EndOthers DEF Children, Timer, Ctx
    <3>2. runner # "idle"
      BY <3>1 DEF Unborn, Timer, Ctx
    <3>3. ForceShutdownInv'
      BY <2>2, <3>1, <3>2 DEF ForceShutdownInv, DeadlinesInv, Done, Timer, Ctx
    <3>4. GraceInv'
      BY <2>2, <3>1, TimingsAssumption DEF GraceInv, Done, Timer, Ctx, TypeOK
    <3> QED BY <2>2, <3>1, <3>2, <3>3, <3>4 DEF OneLeader, Leads, Unborn, Ctx, Timer,
       HandlersInv, Done, AllReturned, DeadlinesInv, CompletedInv
  <2> QED BY <2>1, <2>2
<1>17. CASE Tick
  BY <1>17, TimingsAssumption DEF Tick, TypeOK, OneLeader, Leads, Unborn, HandlersInv, Done,
     AllReturned, DeadlinesInv, ForceShutdownInv, GraceInv, CompletedInv
<1>18. CASE Kill
  BY <1>18 DEF Kill, OneLeader, Leads, Unborn, HandlersInv, Done, AllReturned,
     DeadlinesInv, ForceShutdownInv, GraceInv, CompletedInv
<1>19. CASE Ended \/ UNCHANGED vars
  BY <1>19 DEF Ended, vars, OneLeader, Leads, Unborn, HandlersInv, Done, AllReturned,
     DeadlinesInv, ForceShutdownInv, GraceInv, CompletedInv
<1> QED
  BY <1>1, <1>2, <1>3, <1>4, <1>5, <1>6, <1>7, <1>8, <1>9, <1>10, <1>11, <1>12, <1>13, <1>14,
     <1>15, <1>16, <1>17, <1>18, <1>19
     DEF Next, Callers, Leader, Watchers, Runner, Handlers, Timers

(* The inductive invariant holds in every state of the tracker. *)
THEOREM Invariance == Spec => []Inv
BY InvInit, InvStep, TypeCorrect, PTL DEF Spec

(* Exit code 0 is given only when every handler that was started has returned *)
(* (exitOnCompletion, watchers 2 and 3).                                      *)
THEOREM CleanExit == Spec => []CleanExitMeansHandlersReturned
<1>1. Inv => CleanExitMeansHandlersReturned
  BY DEF Inv, CompletedInv, HandlersInv, CleanExitMeansHandlersReturned
<1> QED BY <1>1, Invariance, PTL

(* Exit code 1 is given only after forceShutdownAfter and forceShutdownGrace. *)
THEOREM ForcedExit == Spec => []ForcedExitNotEarly
<1>1. Inv => ForcedExitNotEarly
  BY DEF Inv, CompletedInv, ForcedExitNotEarly
<1> QED BY <1>1, Invariance, PTL

(* ForceShutdown ends before its deadline only when tasks and handlers are done. *)
THEOREM ForceShutdownEarly == Spec => []ForceShutdownNotEarly
<1>1. Inv => ForceShutdownNotEarly
  BY DEF Inv, ForceShutdownInv, HandlersInv, Done, ForceShutdownNotEarly
<1> QED BY <1>1, Invariance, PTL

(* The contexts of running tasks are canceled (ForceCloseTasks) only when     *)
(* cancelRunningTasksAfter has passed or when no task is left.                *)
THEOREM TasksClosed == Spec => TasksNotClosedEarly
<1> DEFINE A == ctx["forceClose"] = "live" /\ Done("forceClose")' =>
                    \/ now >= start + CancelRunningTasksAfter
                    \/ Done("requests") /\ Done("pubsub")
<1>1. Inv /\ [Next]_vars => [A]_vars
  <2> SUFFICES ASSUME Inv, [Next]_vars, ctx["forceClose"] = "live", Done("forceClose")'
               PROVE  \/ now >= start + CancelRunningTasksAfter
                      \/ Done("requests") /\ Done("pubsub")
    OBVIOUS
  <2> USE DEF Inv
  <2>0. runner # "idle" /\ ctx'["forceClose"] # "live"
    BY DEF Unborn, Done, Ctx
  <2>1. CASE CancelOutstandingTasks
    BY <2>1 DEF CancelOutstandingTasks, Drained
  <2>2. ASSUME NEW t \in Timer, Expire(t)
        PROVE  now >= start + CancelRunningTasksAfter
    <3>1. t \in {"tasks", "forceClose"}
      BY <2>0, <2>2, EndOthers DEF Expire, Due, Timer, Children, Ctx
    <3> QED BY <2>0, <2>2, <3>1, TimingsAssumption DEF Expire, Due, DeadlinesInv, TypeOK
  <2>3. ASSUME ctx' = ctx PROVE FALSE
    BY <2>0, <2>3
  <2>4. ASSUME NEW x \in {"forceShutdown", "completed", "handlers", "requests", "pubsub", "services"},
               NEW why \in {"canceled", "expired"}, ctx' = End(x, why)
        PROVE  FALSE
    BY <2>0, <2>4, EndOthers DEF Children, Ctx
  <2>5. ASSUME NEW c \in Caller PROVE ~BeginShutdownProcess(c)
    BY <2>0 DEF BeginShutdownProcess, OneLeader
  <2>6. CASE BeginGrace
    BY <2>0, <2>6 DEF BeginGrace, TypeOK, Ctx
  <2>7. CASE CancelForceShutdown \/ CompleteEarly \/ CompleteAfterGrace
    BY <2>4, <2>7 DEF CancelForceShutdown, CompleteEarly, CompleteAfterGrace
  <2>8. CASE Runner
    BY <2>3, <2>4, <2>8 DEF Runner, StartHandlers, MarkHandlersCompleted
  <2>9. CASE Handlers
    BY <2>3, <2>4, <2>9 DEF Handlers, Register, Return, Mark
  <2>10. CASE Callers \/ Tick \/ Kill \/ Ended \/ UNCHANGED vars
    BY <2>3, <2>10 DEF Callers, Trigger, BlockOnOnce, Tick, Kill, Ended, vars
  <2>11. CASE Leader
    BY <2>3, <2>5, <2>11 DEF Leader, FinishSleep, ExitOnCompletion
  <2> QED BY <2>1, <2>2, <2>6, <2>7, <2>8, <2>9, <2>10, <2>11 DEF Next, Watchers, Timers
<1> QED BY <1>1, Invariance, PTL DEF Spec, TasksNotClosedEarly

-----------------------------------------------------------------------------
(* The upper bound on time, for a runtime whose own steps take none.  Time    *)
(* passes only when no such step is possible, so that each timer fires when   *)
(* it is due, and what follows it happens at the same time.                   *)

OnTime ==
    exit = "running" /\ runner # "idle" =>
        /\ now <= start + ForceShutdownAfter + ForceShutdownGrace
        /\ ctx["forceShutdown"] = "live" => now <= start + ForceShutdownAfter
        /\ ctx["forceShutdown"] = "expired" /\ ctx["grace"] = "unborn" =>
              now <= start + ForceShutdownAfter
        /\ ctx["grace"] = "live" =>
              /\ now <= deadline["grace"]
              /\ deadline["grace"] <= start + ForceShutdownAfter + ForceShutdownGrace
        /\ \E c \in Caller : call[c] = "awaiting"

(* Every step keeps to the time table when the runtime's own steps take no time. *)
LEMMA OnTimeStep == Prompt /\ Inv /\ Inv' /\ OnTime /\ [Next]_vars => OnTime'
<1> SUFFICES ASSUME Prompt, Inv, Inv', OnTime, [Next]_vars, exit' = "running", runner' # "idle"
             PROVE  OnTime'
  BY DEF OnTime
<1> USE DEF Inv
<1>a. /\ \A x \in Ctx : ctx[x] \in {"unborn", "live", "canceled", "expired"}
      /\ now \in Nat /\ start \in Nat /\ deadline["grace"] \in Nat
  BY DEF TypeOK, Timer
<1>b. exit = "running"
  BY DEF Next, Callers, Trigger, BlockOnOnce, Leader, FinishSleep, BeginShutdownProcess,
     ExitOnCompletion, Watchers, CancelOutstandingTasks, CancelForceShutdown, CompleteEarly,
     BeginGrace, CompleteAfterGrace, Runner, StartHandlers, MarkHandlersCompleted, Handlers,
     Register, Return, Mark, Timers, Expire, Tick, Kill, Ended, vars
<1>1. ASSUME NEW c \in Caller, BeginShutdownProcess(c) PROVE OnTime'
  <2>1. ctx'["grace"] = "unborn" /\ ctx'["forceShutdown"] = "live" /\ start' = now /\ now' = now
    BY <1>1 DEF BeginShutdownProcess, Born, Ctx
  <2>2. call'[c] = "awaiting"
    BY <1>1 DEF BeginShutdownProcess, TypeOK
  <2> QED BY <1>a, <2>1, <2>2, TimingsAssumption DEF OnTime
<1>2. ASSUME UNCHANGED <<now, start>>, runner # "idle",
             ctx'["forceShutdown"] = ctx["forceShutdown"]
               \/ (ctx["forceShutdown"] = "live" /\ ctx'["forceShutdown"] \in {"canceled", "expired"}),
             (ctx'["grace"] = ctx["grace"] /\ deadline'["grace"] = deadline["grace"])
               \/ ctx'["grace"] \in {"canceled", "expired"},
             UNCHANGED call \/ \E c \in Caller : call'[c] = "awaiting"
      PROVE  OnTime'
  BY <1>2, <1>b DEF OnTime
<1>3. ASSUME NEW x \in Ctx, NEW why \in {"canceled", "expired"}, ctx' = End(x, why),
             x \in {"forceShutdown", "tasks", "forceClose"} => ctx[x] = "live",
             UNCHANGED <<now, start, call, deadline>>, runner # "idle"
      PROVE  OnTime'
  <2>1. \A y \in Ctx : ctx'[y] = ctx[y] \/ (ctx[y] = "live" /\ ctx'[y] = why)
    BY <1>3, EndOthers
  <2>2. "forceShutdown" \in Ctx /\ "grace" \in Ctx
    BY DEF Ctx
  <2> QED BY <1>2, <1>3, <2>1, <2>2
<1>4. ASSUME NEW c \in Caller, (\E sig \in Signal : Trigger(c, sig)) \/ FinishSleep(c) PROVE OnTime'
  <2>1. runner = "idle"
    BY <1>4 DEF Trigger, ShutdownInitiated, FinishSleep, SleepDue, OneLeader, TypeOK
  <2> QED BY <1>4, <2>1 DEF Trigger, FinishSleep
<1>5. ASSUME NEW c \in Caller, BlockOnOnce(c) PROVE OnTime'
  <2>1. runner # "idle" /\ \E d \in Caller : call[d] = "awaiting"
    BY <1>5, <1>b DEF BlockOnOnce, OnTime
  <2>2. PICK d \in Caller : call[d] = "awaiting"
    BY <2>1
  <2>3. call'[d] = "awaiting"
    BY <1>5, <2>2 DEF BlockOnOnce, TypeOK
  <2> QED BY <1>2, <1>5, <2>1, <2>3 DEF BlockOnOnce
<1>6. CASE Watchers
  <2>1. runner # "idle"
    <3>1. \E x \in Ctx : ctx[x] # "unborn"
      BY <1>6 DEF Watchers, CancelOutstandingTasks, Drained, CancelForceShutdown, CanStopEarly,
         CompleteEarly, CompletedEarly, BeginGrace, GraceBegins, CompleteAfterGrace, GraceOver, Ctx
    <3> QED BY <3>1 DEF Unborn
  <2>2. CASE BeginGrace
    <3>1. /\ ctx'["forceShutdown"] = "expired" /\ ctx'["grace"] \in {"live", "canceled"}
          /\ deadline'["grace"] = now + ForceShutdownGrace
      BY <2>2 DEF BeginGrace, GraceBegins, TypeOK, Ctx, Timer
    <3>2. now <= start + ForceShutdownAfter
      BY <2>1, <2>2, <1>b DEF BeginGrace, GraceBegins, OnTime
    <3> QED BY <1>a, <1>b, <2>1, <2>2, <3>1, <3>2, TimingsAssumption DEF BeginGrace, OnTime
  <2>3. CASE CancelOutstandingTasks
    BY <1>3, <2>1, <2>3 DEF CancelOutstandingTasks, Drained, Ctx
  <2>4. CASE CancelForceShutdown
    BY <1>3, <2>1, <2>4 DEF CancelForceShutdown, CanStopEarly, Ctx
  <2>5. CASE CompleteEarly \/ CompleteAfterGrace
    BY <1>3, <2>1, <2>5 DEF CompleteEarly, CompleteAfterGrace, Ctx
  <2> QED BY <1>6, <2>2, <2>3, <2>4, <2>5 DEF Watchers
<1>7. CASE StartHandlers
  BY <1>2, <1>7 DEF StartHandlers
<1>8. CASE MarkHandlersCompleted
  BY <1>3, <1>8 DEF MarkHandlersCompleted, Ctx
<1>9. CASE Handlers
  <2>1. ASSUME NEW x \in {"requests", "pubsub", "services"}, Mark(x) PROVE OnTime'
    BY <1>3, <2>1 DEF Mark, Ctx
  <2>2. CASE (\E h \in Handler : Register(h)) \/ \E h \in Handler, how \in {"returned", "failed"} : Return(h, how)
    BY <1>2, <2>2 DEF Register, Return
  <2> QED BY <1>9, <2>1, <2>2 DEF Handlers
<1>10. ASSUME NEW t \in Timer, Expire(t) PROVE OnTime'
  BY <1>3, <1>10 DEF Expire, Due, Timer, Ctx
<1>11. CASE Tick
  <2>1. ~Urgent /\ now' = now + 1 /\ UNCHANGED <<start, ctx, deadline, call, runner>>
    BY <1>11 DEF Tick
  <2>2. /\ ~Due("forceShutdown") /\ ~Due("grace")
        /\ ~CompletedEarly /\ ~GraceBegins /\ ~GraceOver
    BY <2>1 DEF Urgent, Timer
  <2>3. ~Done("completed")
    BY <2>1, <1>b DEF Urgent, OnTime
  <2>4. ctx["completed"] = "live"
    BY <2>1, <2>3, <1>a DEF Done, Unborn, Ctx
  <2>5. ctx["forceShutdown"] \in {"live", "expired"}
    BY <2>1, <2>2, <2>4, <1>a DEF CompletedEarly, Unborn, Ctx
  <2>6. CASE ctx["forceShutdown"] = "live"
    <3>1. now < start + ForceShutdownAfter
      BY <2>1, <2>2, <2>6, <1>a, TimingsAssumption DEF Due, DeadlinesInv
    <3>2. ctx["grace"] = "live" => now < deadline["grace"]
      BY <2>2, <1>a DEF Due
    <3> QED BY <1>a, <1>b, <2>1, <2>6, <3>1, <3>2, TimingsAssumption DEF OnTime
  <2>7. CASE ctx["forceShutdown"] = "expired"
    <3>1. ctx["grace"] = "live"
      BY <2>2, <2>4, <2>7, <1>a DEF GraceBegins, GraceOver, Done, Ctx
    <3>2. now < deadline["grace"]
      BY <2>2, <3>1, <1>a DEF Due
    <3> QED BY <1>a, <1>b, <2>1, <2>7, <3>1, <3>2, TimingsAssumption DEF OnTime
  <2> QED BY <2>5, <2>6, <2>7
<1>12. CASE Kill \/ Ended \/ UNCHANGED vars \/ \E c \in Caller : ExitOnCompletion(c)
  BY <1>12, <1>b DEF Kill, Ended, ExitOnCompletion, vars, OnTime
<1> QED BY <1>1, <1>4, <1>5, <1>6, <1>7, <1>8, <1>9, <1>10, <1>11, <1>12
       DEF Next, Callers, Leader, Runner, Timers

(* If the runtime's own steps take no time, a process that shuts down is over *)
(* when forceShutdownAfter and forceShutdownGrace have passed, although its   *)
(* handlers may never return.                                                 *)
THEOREM InTime == Prompt /\ Spec => []ExitsInTime
<1> SUFFICES ASSUME Prompt PROVE Spec => []ExitsInTime
  OBVIOUS
<1>1. Init => OnTime
  BY DEF Init, OnTime
<1>2. Inv /\ OnTime => ExitsInTime
  BY DEF Inv, Unborn, Ctx, OnTime, ExitsInTime
<1>3. Inv /\ Inv' /\ OnTime /\ [Next]_vars => OnTime'
  BY OnTimeStep
<1> QED BY <1>1, <1>2, <1>3, Invariance, PTL DEF Spec

-----------------------------------------------------------------------------
(* The tracker implements the contract. *)

Phase == IF exit # "running" THEN "exited" ELSE IF ShutdownInitiated THEN "stopping" ELSE "up"
Started == runner \in {"waiting", "done"}
Active == {h \in Handler : hstate[h] = "running"}

(* A step that changes nothing the contract sees. *)
LEMMA ContractStutter ==
    ASSUME Phase' = Phase, Started' = Started, Active' = Active,
           WindowOpen' = WindowOpen, Code' = Code
    PROVE  UNCHANGED Contract!cvars
BY DEF Contract!cvars, Phase, Started, Active

(* The window stays as it is when time and the process do not move. *)
LEMMA WindowSame ==
    ASSUME now' = now, start' = start,
           ctx["completed"] = "unborn" <=> ctx'["completed"] = "unborn"
    PROVE  WindowOpen' = WindowOpen
BY DEF WindowOpen

(* A tracker made by NewTracker is an initial state of the documented contract. *)
LEMMA ContractInit == Init => Contract!CInit
BY DEF Init, Contract!CInit, ShutdownInitiated, WindowOpen, Code, Ctx

(* While a shutdown is under way, t.initiated is closed. *)
LEMMA UnderWay ==
    ASSUME Inv, exit = "running"
    PROVE  /\ runner # "idle" => Phase = "stopping"
           /\ Active # {} => runner = "waiting"
BY DEF Inv, TypeOK, OneLeader, HandlersInv, AllReturned, Phase, ShutdownInitiated, Active

(* Every step of the tracker is one that the documented contract allows, or invisible to it. *)
LEMMA ContractStep == Inv /\ Inv' /\ [Next]_vars => [Contract!CNext]_(Contract!cvars)
<1> SUFFICES ASSUME Inv, Inv', [Next]_vars PROVE Contract!CNext \/ UNCHANGED Contract!cvars
  OBVIOUS
<1>1. ASSUME NEW c \in Caller, NEW sig \in Signal, Trigger(c, sig) PROVE Contract!Initiate
  <2>1. WindowOpen' = WindowOpen /\ Code' = Code
    BY <1>1, WindowSame DEF Trigger, Code
  <2> QED BY <1>1, <2>1 DEF Trigger, ShutdownInitiated, Contract!Initiate
<1>2. CASE StartHandlers
  <2>1. WindowOpen' = WindowOpen /\ Code' = Code /\ Phase = "stopping" /\ Phase' = Phase
    BY <1>2, WindowSame, UnderWay DEF StartHandlers, Code, Phase, ShutdownInitiated
  <2>2. ~Started /\ Started' = TRUE /\ Active' \in SUBSET Handler
    BY <1>2 DEF StartHandlers, Started, Active
  <2>3. Contract!StartAll
    BY <2>1, <2>2 DEF Contract!StartAll, Started, Active, Phase
  <2> QED BY <2>3 DEF Contract!CNext
<1>3. ASSUME NEW h \in Handler, NEW how \in {"returned", "failed"}, Return(h, how)
      PROVE  Contract!OneReturns
  <2>1. WindowOpen' = WindowOpen /\ Code' = Code /\ Started' = Started /\ Phase' = Phase
    BY <1>3, WindowSame DEF Return, Code, Phase, ShutdownInitiated, Started
  <2>2. h \in Active /\ Active' = Active \ {h}
    BY <1>3 DEF Return, Active, Inv, TypeOK
  <2>3. Phase = "stopping"
    BY <1>3, <2>2, UnderWay DEF Return
  <2> QED BY <2>1, <2>2, <2>3 DEF Contract!OneReturns, Started, Active, Phase
<1>4. CASE Tick
  <2>1. Code' = Code /\ Started' = Started /\ Phase' = Phase /\ Active' = Active
    BY <1>4 DEF Tick, Code, Phase, ShutdownInitiated, Started, Active
  <2>2. CASE WindowOpen' = WindowOpen
    BY <2>1, <2>2, ContractStutter
  <2>3. CASE WindowOpen' # WindowOpen
    <3>1. WindowOpen = TRUE /\ WindowOpen' = FALSE /\ ctx["completed"] # "unborn"
      BY <1>4, <2>3, TimingsAssumption DEF Tick, WindowOpen, Inv, TypeOK
    <3>2. Phase = "stopping"
      BY <1>4, <3>1, UnderWay DEF Tick, Inv, Unborn, Ctx
    <3>3. Contract!CloseWindow
      BY <2>1, <3>1, <3>2 DEF Contract!CloseWindow, Started, Active, Phase
    <3> QED BY <3>3 DEF Contract!CNext
  <2> QED BY <2>2, <2>3
<1>5. ASSUME NEW c \in Caller, ExitOnCompletion(c) PROVE Contract!ExitClean \/ Contract!ExitForced
  <2>1. WindowOpen' = WindowOpen /\ Started' = Started /\ Active' = Active /\ Phase' = "exited"
    BY <1>5, WindowSame DEF ExitOnCompletion, Started, Active, Phase
  <2>2. ctx["completed"] = "canceled" /\ Phase = "stopping"
    BY <1>5, UnderWay DEF ExitOnCompletion, Done, Inv, CompletedInv, Unborn, Ctx
  <2>3. CASE cause = "clean"
    <3>1. Code' = "0" /\ Started /\ Active = {}
      BY <1>5, <2>3 DEF ExitOnCompletion, Code, Started, Active, Inv, CompletedInv,
         HandlersInv, AllReturned
    <3> QED BY <2>1, <2>2, <3>1 DEF Contract!ExitClean, Started, Active, Phase
  <2>4. CASE cause # "clean"
    <3>1. Code' = "1"
      BY <1>5, <2>4 DEF ExitOnCompletion, Code
    <3>2. ~WindowOpen
      BY <2>2, <2>4, TimingsAssumption DEF WindowOpen, Inv, CompletedInv, TypeOK
    <3> QED BY <2>1, <2>2, <3>1, <3>2 DEF Contract!ExitForced, Started, Active, Phase
  <2> QED BY <2>3, <2>4
<1>6. CASE Kill
  <2>1. /\ WindowOpen' = WindowOpen /\ Started' = Started /\ Active' = Active
        /\ Phase # "exited" /\ Phase' = "exited" /\ Code' = "killed"
    BY <1>6, WindowSame DEF Kill, Started, Active, Phase, Code
  <2>2. Contract!Killed
    BY <2>1 DEF Contract!Killed, Started, Active, Phase
  <2> QED BY <2>2 DEF Contract!CNext
<1>7. ASSUME NEW c \in Caller, BeginShutdownProcess(c) PROVE UNCHANGED Contract!cvars
  <2>1. WindowOpen /\ WindowOpen'
    BY <1>7, TimingsAssumption DEF BeginShutdownProcess, Born, WindowOpen, Inv, TypeOK,
       OneLeader, Unborn, Ctx
  <2>2. Code' = Code /\ Phase' = Phase /\ Active' = Active /\ ~Started /\ ~Started'
    BY <1>7 DEF BeginShutdownProcess, Code, Phase, ShutdownInitiated, Active, Started, Inv, OneLeader
  <2> QED BY <2>1, <2>2, ContractStutter DEF Started, WindowOpen
<1>8. ASSUME UNCHANGED <<now, start, initiated, hstate, exit>>, Started' = Started,
             ctx["completed"] = "unborn" <=> ctx'["completed"] = "unborn"
      PROVE  UNCHANGED Contract!cvars
  BY <1>8, WindowSame, ContractStutter DEF Code, Phase, ShutdownInitiated, Active
<1>9. ASSUME NEW x \in Ctx, NEW why \in {"canceled", "expired"}, ctx' = End(x, why)
      PROVE  ctx["completed"] = "unborn" <=> ctx'["completed"] = "unborn"
  BY <1>9, EndOthers DEF Inv, Ctx
<1>10. CASE Watchers
  <2>1. ctx["completed"] = "unborn" <=> ctx'["completed"] = "unborn"
    BY <1>10, <1>9 DEF Watchers, CancelOutstandingTasks, CancelForceShutdown, CompleteEarly,
       BeginGrace, CompleteAfterGrace, Ctx, Inv, TypeOK
  <2> QED BY <1>8, <1>10, <2>1 DEF Watchers, CancelOutstandingTasks, CancelForceShutdown,
       CompleteEarly, BeginGrace, CompleteAfterGrace, Started
<1>11. CASE MarkHandlersCompleted
  <2>1. Started' = Started
    BY <1>11 DEF MarkHandlersCompleted, Started
  <2> QED BY <1>8, <1>9, <1>11, <2>1 DEF MarkHandlersCompleted, Ctx
<1>12. ASSUME NEW h \in Handler, Register(h) PROVE UNCHANGED Contract!cvars
  <2>1. Active' = Active
    BY <1>12 DEF Register, Active, Inv, TypeOK
  <2> QED BY <1>12, <2>1, WindowSame, ContractStutter DEF Register, Code, Phase,
       ShutdownInitiated, Started
<1>13. ASSUME NEW x \in {"requests", "pubsub", "services"}, Mark(x) PROVE UNCHANGED Contract!cvars
  BY <1>8, <1>9, <1>13 DEF Mark, Started, Ctx
<1>14. ASSUME NEW t \in Timer, Expire(t) PROVE UNCHANGED Contract!cvars
  BY <1>8, <1>9, <1>14 DEF Expire, Started, Timer, Ctx
<1>15. ASSUME NEW c \in Caller, BlockOnOnce(c) \/ FinishSleep(c) PROVE UNCHANGED Contract!cvars
  BY <1>8, <1>15 DEF BlockOnOnce, FinishSleep, Started
<1>16. CASE Ended \/ UNCHANGED vars
  BY <1>8, <1>16 DEF Ended, vars, Started
<1> QED
  BY <1>1, <1>2, <1>3, <1>4, <1>5, <1>6, <1>7, <1>10, <1>11, <1>12, <1>13, <1>14, <1>15, <1>16
     DEF Next, Callers, Leader, Runner, Handlers, Timers, Contract!CNext

(* Every behaviour of the tracker is one the documented contract allows: the  *)
(* phases in order, exit code 0 only after every handler, exit code 1 only    *)
(* after the whole window.                                                    *)
THEOREM TrackerImplementsContract == Spec => ImplementsContract
BY ContractInit, ContractStep, Invariance, PTL DEF Spec, ImplementsContract, Contract!CSpec

-----------------------------------------------------------------------------
(* The process, with the handlers of its managers. *)

(* Every step of the application is a step of the tracker or one it does not see. *)
LEMMA AppStepIsTrackerStep == AppNext => Next \/ UNCHANGED vars
<1> SUFFICES ASSUME AppNext PROVE Next \/ UNCHANGED vars
  OBVIOUS
<1>1. CASE Leader \/ Watchers \/ Runner \/ Timers \/ Tick \/ Ended
  BY <1>1 DEF Next
<1>2. CASE Main
  <2>1. ASSUME NEW c \in Caller, NEW sig \in Signal, CallShutdown(c, sig) PROVE Next
    BY <2>1 DEF CallShutdown, Next, Callers
  <2>2. {"main", "signals"} \subseteq Caller /\ {"SIGTERM", "SIGINT", "none"} \subseteq Signal
    BY AppAssumption DEF Signal
  <2>3. ASSUME NEW i \in DOMAIN Singletons, RegisterSingleton(i) PROVE Next
    <3>1. Singletons[i] \in Handler
      BY AppAssumption
    <3> QED BY <2>3, <3>1 DEF RegisterSingleton, Next, Handlers
  <2>4. CASE StartApp
    BY <2>4, AppAssumption DEF StartApp, Next, Handlers
  <2>5. CASE MainReturns
    BY <2>5 DEF MainReturns, Next
  <2>6. CASE MainShutdown \/ \E sig \in {"SIGTERM", "SIGINT"} : SignalShutdown(sig)
    BY <2>1, <2>2, <2>6 DEF MainShutdown, SignalShutdown
  <2>7. CASE \/ \E ok \in BOOLEAN : Listen(ok)
             \/ Serve \/ ServeFails
             \/ \E s \in Svc, ok \in BOOLEAN : InitService(s, ok)
             \/ ServicesInitialized \/ ServicesFailed \/ ServeReturned
    BY <2>7 DEF Listen, Serve, ServeFails, InitService, ServicesInitialized, ServicesFailed,
       ServeReturned
  <2> QED BY <1>2, <2>3, <2>4, <2>5, <2>6, <2>7 DEF Main
<1>3. CASE Api
  <2>1. CASE ApiMark
    BY <2>1 DEF ApiMark, Next, Handlers
  <2>2. ASSUME NEW how \in {"returned", "failed"}, ApiReturn(how) PROVE Next
    BY <2>2, AppAssumption DEF ApiReturn, Next, Handlers
  <2>3. CASE \/ \E r \in Req : Accept(r) \/ CheckHttpCtx(r)
             \/ ApiBegin \/ HttpStopBegins \/ HttpStopReturns \/ ApiMarkLate
    BY <2>3 DEF Accept, CheckHttpCtx, ApiBegin, HttpStopBegins, HttpStopReturns, ApiMarkLate
  <2> QED BY <1>3, <2>1, <2>2, <2>3 DEF Api
<1>4. CASE PubSub
  <2>1. CASE PubSubMark
    BY <2>1 DEF PubSubMark, Next, Handlers
  <2>2. CASE PubSubReturn
    BY <2>2, AppAssumption DEF PubSubReturn, Next, Handlers
  <2>3. CASE (\E m \in Msg : Fetch(m) \/ CheckHandlerCtx(m)) \/ PubSubBegin \/ PubSubMarkLate
    BY <2>3 DEF Fetch, CheckHandlerCtx, PubSubBegin, PubSubMarkLate
  <2> QED BY <1>4, <2>1, <2>2, <2>3 DEF PubSub
<1>5. CASE Tasks
  BY <1>5 DEF Tasks, AddRunning, FinishTask
<1>6. CASE Resources
  <2>1. CASE ServiceMark
    BY <2>1 DEF ServiceMark, Next, Handlers
  <2>2. CASE ServiceReturn \/ ObjectsReturn
    BY <2>2, AppAssumption DEF ServiceReturn, ObjectsReturn, Next, Handlers
  <2>3. ASSUME NEW h \in Infra, NEW how \in {"returned", "failed"}, InfraReturn(h, how) PROVE Next
    BY <2>3, AppAssumption DEF InfraReturn, Next, Handlers
  <2>4. CASE \/ ServiceBegin \/ \E s \in Svc : ServiceStops(s)
             \/ \E h \in Handler : ForceClose(h)
             \/ \E h \in Infra : InfraClose(h)
    BY <2>4 DEF ServiceBegin, ServiceStops, ForceClose, InfraClose
  <2> QED BY <1>6, <2>1, <2>2, <2>3, <2>4 DEF Resources
<1> QED BY <1>1, <1>2, <1>3, <1>4, <1>5, <1>6 DEF AppNext

(* The application with its real shutdown handlers implements the tracker, so *)
(* all that is proved of the tracker holds of the application.                *)
THEOREM AppImplementsTracker == AppSpec => ImplementsTracker
<1>1. AppInit => Init
  BY DEF AppInit
<1>2. [AppNext]_<<vars, avars>> => [Next]_vars
  BY AppStepIsTrackerStep
<1> QED BY <1>1, <1>2, PTL DEF AppSpec, ImplementsTracker, Spec

-----------------------------------------------------------------------------
(* The inductive invariant of the application.  What a handler has done is     *)
(* written down in at; each part says what a later step may conclude from it.  *)

\* A handler acts only after the runner has started it.
ActsWhenStarted ==
    /\ \A h \in Handler : at[h] # "begin" => hstate[h] \in {"running", "returned", "failed"}
    /\ runner \in {"idle", "started"} =>
          \A h \in Handler : hstate[h] \in {"unregistered", "registered"}

\* The tasks that were running at the trigger are running or done, and done
\* once the handler that waits for them has marked its context.
DrainInv ==
    /\ \A r \in before : task[r] \in {"running", "done"}
    /\ at["api"] = "marked" => \A r \in before \intersect Req : task[r] = "done"
    /\ at["pubsub"] = "marked" => \A m \in before \intersect Msg : task[m] = "done"

\* Why a context of user code is done: its handler has marked it, or the tasks deadline has passed.
MarksInv ==
    /\ ctx["requests"] = "canceled" => at["api"] = "marked"
    /\ ctx["pubsub"] = "canceled" => at["pubsub"] = "marked"
    /\ \A x \in {"requests", "pubsub"} : ctx[x] = "expired" => ctx["tasks"] = "expired"
    /\ ctx["tasks"] = "canceled" => ctx["requests"] = "canceled" /\ ctx["pubsub"] = "canceled"
    /\ Done("services") => at["service"] = "marked"

\* The service manager marks its context when no Shutdown of a service runs, and none starts later.
ServicesInv == at["service"] = "marked" => \A s \in Svc : svc[s] # "stopping"

\* A resource is closed after user code, and before its handler returns.
ClosedInv ==
    /\ closed # {} => UserCodeDone
    /\ \A h \in Infra : at[h] # "begin" => h \in closed
    /\ \A h \in Infra : hstate[h] \in {"returned", "failed"} => h \in closed

ConnectionInv == "connection" \in canceled => at["pubsub"] = "marked"

AppInv == /\ AppTypeOK /\ ActsWhenStarted /\ DrainInv /\ MarksInv /\ ServicesInv
          /\ ClosedInv /\ ConnectionInv

(* The tracker's own steps change contexts and the state of handlers only. *)
LEMMA AppInvTracker ==
    ASSUME Inv, TypeOK', AppInv, Leader \/ Watchers \/ Runner \/ Timers \/ Tick \/ Ended,
           UNCHANGED avars
    PROVE  AppInv'
<1> USE DEF AppInv
<1>a. \A x \in Ctx : ctx[x] \in {"unborn", "live", "canceled", "expired"}
  BY DEF Inv, TypeOK
<1>t. AppTypeOK' /\ ServicesInv' /\ ConnectionInv' /\ DrainInv'
  BY DEF AppTypeOK, ServicesInv, ConnectionInv, DrainInv, avars
<1>1. ASSUME UNCHANGED ctx, UNCHANGED hstate, UNCHANGED runner, UNCHANGED exit PROVE AppInv'
  BY <1>1, <1>t DEF avars, ActsWhenStarted, MarksInv, ClosedInv, Done, UserCodeDone
<1>2. ASSUME NEW x \in Ctx \ {"requests", "pubsub", "tasks", "services"},
             NEW why \in {"canceled", "expired"}, ctx' = End(x, why) \/ UNCHANGED ctx
      PROVE  MarksInv' /\ (closed # {} => UserCodeDone)'
  <2>1. \A y \in {"requests", "pubsub", "tasks", "services"} : ctx'[y] = ctx[y]
    BY <1>2, EndOthers DEF Inv, Children, Ctx
  <2> QED BY <2>1 DEF avars, MarksInv, ClosedInv, Done, UserCodeDone
<1>3. ASSUME UNCHANGED hstate, UNCHANGED exit, runner' = runner \/ runner' \notin {"idle", "started"}
      PROVE  /\ ActsWhenStarted'
             /\ (closed # {} => UserCodeDone)' => ClosedInv'
  BY <1>3 DEF avars, ActsWhenStarted, ClosedInv
<1>4. ASSUME NEW c \in Caller, FinishSleep(c) PROVE AppInv'
  BY <1>1, <1>4 DEF FinishSleep
<1>5. ASSUME NEW c \in Caller, BeginShutdownProcess(c) PROVE AppInv'
  <2>1. runner = "idle" /\ \A x \in Ctx : ctx[x] = "unborn"
    BY <1>5 DEF BeginShutdownProcess, Inv, OneLeader, Unborn
  <2>2. closed = {}
    BY <2>1 DEF ClosedInv, UserCodeDone, Done, Ctx
  <2>3. \A x \in {"requests", "pubsub", "tasks", "services"} : ctx'[x] = "live"
    BY <1>5 DEF BeginShutdownProcess, Born, Ctx
  <2>4. MarksInv'
    BY <2>3 DEF MarksInv, Done
  <2>5. ActsWhenStarted' /\ ClosedInv'
    BY <1>5, <2>1, <2>2 DEF BeginShutdownProcess, avars, ActsWhenStarted, ClosedInv
  <2> QED BY <1>t, <2>4, <2>5
<1>6. ASSUME NEW c \in Caller, ExitOnCompletion(c) PROVE AppInv'
  BY <1>6, <1>t DEF ExitOnCompletion, avars, ActsWhenStarted, MarksInv, ClosedInv, Done, UserCodeDone
<1>7. CASE CancelOutstandingTasks
  <2>1. ctx["requests"] = "canceled" /\ ctx["pubsub"] = "canceled"
    BY <1>7 DEF CancelOutstandingTasks, Drained, Done, MarksInv
  <2>2. /\ ctx'["tasks"] = "canceled"
        /\ \A y \in {"requests", "pubsub", "services"} : ctx'[y] = ctx[y]
    BY <1>7, <2>1, EndOthers DEF CancelOutstandingTasks, Drained, Inv, Children, Ctx
  <2>3. MarksInv' /\ (closed # {} => UserCodeDone)'
    BY <2>1, <2>2 DEF avars, MarksInv, ClosedInv, Done, UserCodeDone
  <2> QED BY <1>7, <1>3, <1>t, <2>3 DEF CancelOutstandingTasks
<1>8. CASE CancelForceShutdown \/ CompleteEarly \/ CompleteAfterGrace
  <2>1. MarksInv' /\ (closed # {} => UserCodeDone)'
    BY <1>2, <1>8 DEF CancelForceShutdown, CompleteEarly, CompleteAfterGrace, Ctx
  <2> QED BY <1>3, <1>8, <1>t, <2>1 DEF CancelForceShutdown, CompleteEarly, CompleteAfterGrace
<1>9. CASE BeginGrace
  <2>1. \A y \in {"requests", "pubsub", "tasks", "services"} : ctx'[y] = ctx[y]
    BY <1>9 DEF BeginGrace, Inv, TypeOK, Ctx
  <2>2. MarksInv' /\ (closed # {} => UserCodeDone)'
    BY <2>1 DEF avars, MarksInv, ClosedInv, Done, UserCodeDone
  <2> QED BY <1>3, <1>9, <1>t, <2>2 DEF BeginGrace
<1>10. CASE StartHandlers
  <2>1. \A h \in Handler : /\ hstate[h] = "registered" => hstate'[h] = "running"
                           /\ hstate[h] # "registered" => hstate'[h] = hstate[h]
    BY <1>10 DEF StartHandlers
  <2>2. ActsWhenStarted' /\ ClosedInv'
    BY <1>10, <2>1, AppAssumption DEF StartHandlers, avars, ActsWhenStarted, ClosedInv,
       Done, UserCodeDone
  <2> QED BY <1>10, <1>t, <2>2 DEF StartHandlers, avars, MarksInv, Done
<1>11. CASE MarkHandlersCompleted
  <2>1. MarksInv' /\ (closed # {} => UserCodeDone)'
    BY <1>2, <1>11 DEF MarkHandlersCompleted, Ctx
  <2> QED BY <1>3, <1>11, <1>t, <2>1 DEF MarkHandlersCompleted
<1>12. ASSUME NEW t \in Timer, Expire(t) PROVE AppInv'
  <2>1. CASE t = "tasks"
    <3>1. /\ ctx'["tasks"] = "expired" /\ ctx'["services"] = ctx["services"]
          /\ \A y \in {"requests", "pubsub"} : ctx'[y] \in {ctx[y], "expired"}
      BY <1>12, <2>1, EndOthers DEF Expire, Due, Inv, Children, Ctx
    <3>2. MarksInv' /\ (closed # {} => UserCodeDone)'
      BY <3>1 DEF avars, MarksInv, ClosedInv, Done, UserCodeDone
    <3> QED BY <1>3, <1>12, <1>t, <3>2 DEF Expire
  <2>2. CASE t # "tasks"
    <3>1. MarksInv' /\ (closed # {} => UserCodeDone)'
      BY <1>2, <1>12, <2>2 DEF Expire, Timer, Ctx
    <3> QED BY <1>3, <1>12, <1>t, <3>1 DEF Expire
  <2> QED BY <2>1, <2>2
<1>13. CASE Tick \/ Ended
  BY <1>1, <1>13 DEF Tick, Ended, vars
<1> QED BY <1>4, <1>5, <1>6, <1>7, <1>8, <1>9, <1>10, <1>11, <1>12, <1>13
       DEF Leader, Watchers, Runner, Timers

(* An application that has just been loaded satisfies the invariant. *)
LEMMA AppInvInit == AppInit => AppInv
<1> SUFFICES ASSUME AppInit PROVE AppInv
  OBVIOUS
<1>1. TypeOK
  BY InvInit DEF AppInit, Inv
<1>2. AppTypeOK
  BY <1>1 DEF AppInit, AppTypeOK
<1> QED BY <1>2, AppAssumption DEF AppInv, AppInit, Init, ActsWhenStarted, DrainInv, MarksInv,
       ServicesInv, ClosedInv, ConnectionInv, Done, Ctx

(* The main goroutine and the calls of Tracker.Shutdown: handlers are         *)
(* registered in order, and the tasks running at the trigger are noted.       *)
LEMMA AppInvMain == ASSUME Inv, TypeOK', AppInv, Main PROVE AppInv'
<1> USE DEF AppInv
<1>a. {"api", "pubsub", "service"} \subseteq Handler /\ Infra \subseteq Handler
  BY AppAssumption
<1>1. ASSUME NEW h \in Handler, Register(h), UNCHANGED <<at, canceled, httpsrv, httpstop, task, svc,
                                                         closed, before>>,
             main' \in {main, "initializing"}
      PROVE  AppInv'
  <2>1. AppTypeOK' /\ DrainInv' /\ ServicesInv' /\ ConnectionInv' /\ MarksInv'
    BY <1>1 DEF Register, AppTypeOK, DrainInv, ServicesInv, ConnectionInv, MarksInv, Done
  <2>2. ActsWhenStarted' /\ ClosedInv'
    BY <1>1, <1>a DEF Register, ActsWhenStarted, ClosedInv, Done, UserCodeDone, AppTypeOK, TypeOK
  <2> QED BY <2>1, <2>2
<1>2. ASSUME NEW i \in DOMAIN Singletons, RegisterSingleton(i) PROVE AppInv'
  <2>1. Singletons[i] \in Handler \ {"api"}
    BY AppAssumption
  <2> QED BY <1>1, <1>2, <2>1 DEF RegisterSingleton, avars
<1>3. CASE StartApp
  BY <1>1, <1>3, <1>a DEF StartApp
<1>4. ASSUME UNCHANGED <<vars, at, canceled, task, closed, before>>,
             AppTypeOK', ServicesInv'
      PROVE  AppInv'
  BY <1>4 DEF vars, ActsWhenStarted, DrainInv, MarksInv, ClosedInv, ConnectionInv, Done, UserCodeDone
<1>5. ASSUME NEW ok \in BOOLEAN, Listen(ok) PROVE AppInv'
  BY <1>4, <1>5 DEF Listen, AppTypeOK, ServicesInv, vars
<1>6. CASE Serve \/ ServeFails
  BY <1>4, <1>6 DEF Serve, ServeFails, AppTypeOK, ServicesInv, vars
<1>7. ASSUME NEW s \in Svc, NEW ok \in BOOLEAN, InitService(s, ok) PROVE AppInv'
  <2>1. AppTypeOK' /\ ServicesInv'
    BY <1>7 DEF InitService, AppTypeOK, ServicesInv, vars
  <2> QED BY <1>4, <1>7, <2>1 DEF InitService
<1>8. CASE ServicesInitialized \/ ServicesFailed \/ ServeReturned
  BY <1>4, <1>8 DEF ServicesInitialized, ServicesFailed, ServeReturned, AppTypeOK, ServicesInv, vars
<1>9. ASSUME NEW c \in Caller, NEW sig \in Signal, CallShutdown(c, sig) PROVE AppInv'
  <2>1. CASE BlockOnOnce(c) /\ UNCHANGED avars
    BY <2>1 DEF BlockOnOnce, avars, AppTypeOK, ActsWhenStarted, DrainInv, MarksInv, ServicesInv,
       ClosedInv, ConnectionInv, Done, UserCodeDone
  <2>2. ASSUME Trigger(c, sig), before' = Running(Req \union Msg),
               UNCHANGED <<main, at, canceled, httpsrv, httpstop, task, svc, closed>>
        PROVE  AppInv'
    <3>1. \A h \in Handler : at[h] = "begin"
      BY <2>2 DEF Trigger, ShutdownInitiated, Inv, OneLeader, TypeOK, ActsWhenStarted, AppTypeOK
    <3>2. DrainInv' /\ AppTypeOK'
      BY <2>2, <3>1, <1>a DEF Running, DrainInv, AppTypeOK
    <3> QED BY <2>2, <3>2 DEF Trigger, ActsWhenStarted, MarksInv, ServicesInv,
       ClosedInv, ConnectionInv, Done, UserCodeDone
  <2> QED BY <1>9, <2>1, <2>2 DEF CallShutdown
<1>10. CASE MainReturns
  BY <1>10 DEF MainReturns, Kill, avars, AppTypeOK, ActsWhenStarted, DrainInv,
     MarksInv, ServicesInv, ClosedInv, ConnectionInv, Done, UserCodeDone
<1>11. {"main", "signals"} \subseteq Caller /\ {"SIGTERM", "SIGINT", "none"} \subseteq Signal
  BY AppAssumption DEF Signal
<1> QED BY <1>2, <1>3, <1>5, <1>6, <1>7, <1>8, <1>9, <1>10, <1>11
       DEF Main, MainShutdown, SignalShutdown

(* A handler that marks its context when it has nothing left to wait for. *)
LEMMA MarkStep ==
    ASSUME Inv, NEW x \in {"requests", "pubsub", "services"}, Mark(x)
    PROVE  /\ ctx'[x] = "canceled" /\ ctx[x] = "live"
           /\ \A y \in Ctx \ {x} : ctx'[y] = ctx[y]
           /\ \A y \in Ctx : Done(y) => Done(y)'
           /\ UNCHANGED <<runner, hstate, exit>>
<1>1. x \in Ctx /\ Children(x) = {}
  BY DEF Ctx, Children
<1>2. ctx' = End(x, "canceled") /\ ctx[x] = "live" /\ TypeOK
  BY DEF Mark, Inv
<1>3. ctx'[x] = "canceled" /\ \A y \in Ctx \ {x} : ctx'[y] = ctx[y]
  BY <1>1, <1>2, EndOthers
<1> QED BY <1>2, <1>3 DEF Mark, Done

(* A step that moves one task forward: a task that is done stays done, one    *)
(* that is running can only get done.                                         *)
LEMMA TaskStep ==
    ASSUME AppInv, TypeOK', NEW r \in Req \union Msg, task[r] # "done",
           NEW s \in {"accepted", "admitted", "running", "done"},
           task[r] = "running" => s = "done", task' = [task EXCEPT ![r] = s],
           UNCHANGED <<vars, main, at, canceled, httpsrv, httpstop, svc, closed, before>>
    PROVE  AppInv'
<1> USE DEF AppInv
<1>1. AppTypeOK'
  BY DEF AppTypeOK
<1>2. \A q \in Req \union Msg : /\ task[q] = "done" => task'[q] = "done"
                                /\ task[q] = "running" => task'[q] \in {"running", "done"}
  BY DEF AppTypeOK
<1>3. DrainInv'
  BY <1>2 DEF DrainInv, AppTypeOK
<1> QED BY <1>1, <1>3 DEF vars, ActsWhenStarted, MarksInv, ServicesInv, ClosedInv, ConnectionInv, Done, UserCodeDone

(* A handler that returns has done what its place in at says. *)
LEMMA ReturnStep ==
    ASSUME AppInv, TypeOK', NEW h \in Handler, NEW how \in {"returned", "failed"}, Return(h, how),
           h \in Infra => at[h] # "begin",
           UNCHANGED <<main, httpsrv, httpstop, task, svc, closed, before>>,
           at' = at \/ (h = "objects" /\ at' = [at EXCEPT ![h] = "waiting"]),
           canceled' \subseteq {"http", "fetch", "handler", "connection", "bucket"}, ConnectionInv'
    PROVE  AppInv'
<1> USE DEF AppInv
<1>a. {"api", "pubsub", "service"} \subseteq Handler \ {"objects"} /\ Infra \subseteq Handler \ {"objects"}
  BY AppAssumption
<1>b. \A k \in Handler \ {"objects"} : at'[k] = at[k]
  BY DEF AppTypeOK
<1>1. AppTypeOK' /\ DrainInv' /\ ServicesInv' /\ MarksInv'
  BY <1>a, <1>b DEF Return, AppTypeOK, DrainInv, ServicesInv, MarksInv, Done
<1>2. /\ hstate'[h] = how /\ hstate[h] = "running"
      /\ \A k \in Handler \ {h} : hstate'[k] = hstate[k]
  BY DEF Return, AppTypeOK, TypeOK
<1>3. runner \notin {"idle", "started"} /\ runner' = runner
  BY <1>2 DEF ActsWhenStarted, Return
<1>4. ClosedInv'
  BY <1>2, <1>a, <1>b DEF Return, ClosedInv, Done, UserCodeDone
<1>5. ActsWhenStarted'
  BY <1>2, <1>3 DEF ActsWhenStarted, AppTypeOK
<1> QED BY <1>1, <1>4, <1>5

(* API requests and Server.Shutdown, which marks when no request is running. *)
LEMMA AppInvApi == ASSUME Inv, TypeOK', AppInv, Api PROVE AppInv'
<1> USE DEF AppInv
<1>a. {"api", "pubsub", "service"} \subseteq Handler /\ Infra \subseteq Handler \ {"api"}
  BY AppAssumption
<1>1. ASSUME NEW r \in Req, Accept(r) \/ CheckHttpCtx(r) PROVE AppInv'
  BY <1>1, TaskStep DEF Accept, CheckHttpCtx
<1>2. CASE HttpStopBegins \/ HttpStopReturns
  <2>1. UNCHANGED <<vars, main, at, canceled, task, svc, closed, before>> /\ AppTypeOK'
    BY <1>2 DEF HttpStopBegins, HttpStopReturns, AppTypeOK
  <2> QED BY <2>1 DEF vars, ActsWhenStarted, DrainInv, MarksInv, ServicesInv, ClosedInv,
     ConnectionInv, Done, UserCodeDone
<1>3. CASE ApiBegin
  <2>1. /\ at'["api"] = "waiting" /\ \A h \in Handler \ {"api"} : at'[h] = at[h]
        /\ AppTypeOK' /\ ctx["requests"] # "canceled"
    BY <1>3, <1>a DEF ApiBegin, AppTypeOK, MarksInv, vars
  <2> QED BY <1>3, <1>a, <2>1 DEF ApiBegin, vars, ActsWhenStarted, DrainInv,
     MarksInv, ServicesInv, ClosedInv, ConnectionInv, Done, UserCodeDone
<1>4. ASSUME hstate["api"] = "running", Running(Req) = {}, at' = [at EXCEPT !["api"] = "marked"],
             UNCHANGED <<main, canceled, httpsrv, httpstop, task, svc, closed, before, runner, hstate, exit>>
      PROVE  AppTypeOK' /\ ActsWhenStarted' /\ DrainInv' /\ ServicesInv' /\ ConnectionInv'
  <2>1. /\ at'["api"] = "marked" /\ \A h \in Handler \ {"api"} : at'[h] = at[h]
        /\ AppTypeOK'
    BY <1>4, <1>a DEF AppTypeOK
  <2>2. \A r \in before \intersect Req : task[r] = "done"
    BY <1>4 DEF Running, DrainInv
  <2> QED BY <1>4, <1>a, <2>1, <2>2 DEF ActsWhenStarted, DrainInv, ServicesInv, ConnectionInv
<1>5. ASSUME at' = [at EXCEPT !["api"] = "marked"], UNCHANGED <<closed, hstate>>,
             \A y \in Ctx : Done(y) => Done(y)'
      PROVE  ClosedInv'
  <2>1. \A h \in Handler \ {"api"} : at'[h] = at[h]
    BY <1>5 DEF AppTypeOK
  <2> QED BY <1>5, <1>a, <2>1 DEF ClosedInv, UserCodeDone, Ctx
<1>6. CASE ApiMark
  <2>1. /\ ctx'["requests"] = "canceled" /\ \A y \in Ctx \ {"requests"} : ctx'[y] = ctx[y]
        /\ \A y \in Ctx : Done(y) => Done(y)'
        /\ UNCHANGED <<runner, hstate, exit>>
    BY <1>6, MarkStep DEF ApiMark
  <2>2. ClosedInv' /\ AppTypeOK' /\ ActsWhenStarted' /\ DrainInv' /\ ServicesInv' /\ ConnectionInv'
    BY <1>4, <1>5, <1>6, <2>1 DEF ApiMark
  <2>3. at'["api"] = "marked" /\ \A h \in Handler \ {"api"} : at'[h] = at[h]
    BY <1>6, <1>a DEF ApiMark, AppTypeOK
  <2>4. MarksInv'
    BY <2>1, <2>3, <1>a DEF MarksInv, Done, Ctx
  <2> QED BY <2>2, <2>4
<1>7. CASE ApiMarkLate
  <2>1. ClosedInv' /\ AppTypeOK' /\ ActsWhenStarted' /\ DrainInv' /\ ServicesInv' /\ ConnectionInv'
    BY <1>4, <1>5, <1>7 DEF ApiMarkLate, vars, Done
  <2>2. at'["api"] = "marked" /\ \A h \in Handler \ {"api"} : at'[h] = at[h]
    BY <1>7, <1>a DEF ApiMarkLate, AppTypeOK
  <2>3. MarksInv'
    BY <1>7, <2>2, <1>a DEF ApiMarkLate, vars, MarksInv, Done
  <2> QED BY <2>1, <2>3
<1>8. ASSUME NEW how \in {"returned", "failed"}, ApiReturn(how) PROVE AppInv'
  <2>1. ConnectionInv' /\ canceled' \subseteq {"http", "fetch", "handler", "connection", "bucket"}
    BY <1>8 DEF ApiReturn, avars, AppTypeOK, ConnectionInv
  <2> QED BY <1>8, <1>a, <2>1, ReturnStep DEF ApiReturn, avars
<1> QED BY <1>1, <1>2, <1>3, <1>6, <1>7, <1>8 DEF Api

(* Pub/Sub messages and Manager.Shutdown, which marks when no message is being *)
(* handled and then closes the connections.                                    *)
LEMMA AppInvPubSub == ASSUME Inv, TypeOK', AppInv, PubSub PROVE AppInv'
<1> USE DEF AppInv
<1>a. {"api", "pubsub", "service"} \subseteq Handler /\ Infra \subseteq Handler \ {"pubsub"}
  BY AppAssumption
<1>1. ASSUME NEW m \in Msg, Fetch(m) \/ CheckHandlerCtx(m) PROVE AppInv'
  BY <1>1, TaskStep DEF Fetch, CheckHandlerCtx
<1>2. CASE PubSubBegin
  <2>1. /\ at'["pubsub"] = "waiting" /\ \A h \in Handler \ {"pubsub"} : at'[h] = at[h]
        /\ ctx["pubsub"] # "canceled" /\ "connection" \notin canceled
    BY <1>2, <1>a DEF PubSubBegin, AppTypeOK, MarksInv, ConnectionInv
  <2>2. canceled' = canceled \union {"fetch"}
    BY <1>2 DEF PubSubBegin, Cancel
  <2>3. AppTypeOK' /\ ConnectionInv'
    BY <1>2, <2>1, <2>2 DEF PubSubBegin, AppTypeOK, ConnectionInv
  <2> QED BY <1>2, <1>a, <2>1, <2>3 DEF PubSubBegin, vars, ActsWhenStarted, DrainInv,
     MarksInv, ServicesInv, ClosedInv, Done, UserCodeDone
<1>4. ASSUME hstate["pubsub"] = "running", Running(Msg) = {}, at' = [at EXCEPT !["pubsub"] = "marked"],
             UNCHANGED <<main, canceled, httpsrv, httpstop, task, svc, closed, before, runner, hstate, exit>>
      PROVE  AppTypeOK' /\ ActsWhenStarted' /\ DrainInv' /\ ServicesInv' /\ ConnectionInv'
  <2>1. /\ at'["pubsub"] = "marked" /\ \A h \in Handler \ {"pubsub"} : at'[h] = at[h]
        /\ AppTypeOK'
    BY <1>4, <1>a DEF AppTypeOK
  <2>2. \A m \in before \intersect Msg : task[m] = "done"
    BY <1>4 DEF Running, DrainInv
  <2> QED BY <1>4, <1>a, <2>1, <2>2 DEF ActsWhenStarted, DrainInv, ServicesInv, ConnectionInv
<1>5. ASSUME at' = [at EXCEPT !["pubsub"] = "marked"], UNCHANGED <<closed, hstate>>,
             \A y \in Ctx : Done(y) => Done(y)'
      PROVE  ClosedInv'
  <2>1. \A h \in Handler \ {"pubsub"} : at'[h] = at[h]
    BY <1>5 DEF AppTypeOK
  <2> QED BY <1>5, <1>a, <2>1 DEF ClosedInv, UserCodeDone, Ctx
<1>6. CASE PubSubMark
  <2>1. /\ ctx'["pubsub"] = "canceled" /\ \A y \in Ctx \ {"pubsub"} : ctx'[y] = ctx[y]
        /\ \A y \in Ctx : Done(y) => Done(y)'
        /\ UNCHANGED <<runner, hstate, exit>>
    BY <1>6, MarkStep DEF PubSubMark
  <2>2. ClosedInv' /\ AppTypeOK' /\ ActsWhenStarted' /\ DrainInv' /\ ServicesInv' /\ ConnectionInv'
    BY <1>4, <1>5, <1>6, <2>1 DEF PubSubMark
  <2>3. at'["pubsub"] = "marked" /\ \A h \in Handler \ {"pubsub"} : at'[h] = at[h]
    BY <1>6, <1>a DEF PubSubMark, AppTypeOK
  <2>4. MarksInv'
    BY <2>1, <2>3, <1>a DEF MarksInv, Done, Ctx
  <2> QED BY <2>2, <2>4
<1>7. CASE PubSubMarkLate
  <2>1. ClosedInv' /\ AppTypeOK' /\ ActsWhenStarted' /\ DrainInv' /\ ServicesInv' /\ ConnectionInv'
    BY <1>4, <1>5, <1>7 DEF PubSubMarkLate, vars, Done
  <2>2. at'["pubsub"] = "marked" /\ \A h \in Handler \ {"pubsub"} : at'[h] = at[h]
    BY <1>7, <1>a DEF PubSubMarkLate, AppTypeOK
  <2>3. MarksInv'
    BY <1>7, <2>2, <1>a DEF PubSubMarkLate, vars, MarksInv, Done
  <2> QED BY <2>1, <2>3
<1>8. CASE PubSubReturn
  <2>1. ConnectionInv' /\ canceled' \subseteq {"http", "fetch", "handler", "connection", "bucket"}
    BY <1>8 DEF PubSubReturn, Cancel, AppTypeOK, ConnectionInv
  <2> QED BY <1>8, <1>a, <2>1, ReturnStep DEF PubSubReturn
<1> QED BY <1>1, <1>2, <1>6, <1>7, <1>8 DEF PubSub

(* A task that takes its place in a WaitGroup, or gives it up. *)
LEMMA AppInvTasks == ASSUME TypeOK', AppInv, Tasks PROVE AppInv'
BY TaskStep DEF Tasks, AddRunning, FinishTask

(* Services stop before their manager marks; resources close after user code. *)
LEMMA AppInvResources == ASSUME Inv, TypeOK', AppInv, Resources PROVE AppInv'
<1> USE DEF AppInv
<1>a. {"api", "pubsub", "service"} \subseteq Handler /\ Infra \subseteq Handler \ {"api", "pubsub", "service"}
  BY AppAssumption
<1>1. CASE ServiceBegin
  <2>1. /\ at'["service"] = "waiting" /\ \A h \in Handler \ {"service"} : at'[h] = at[h]
        /\ AppTypeOK' /\ ~Done("services")
    BY <1>1, <1>a DEF ServiceBegin, AppTypeOK, MarksInv, vars
  <2> QED BY <1>1, <1>a, <2>1 DEF ServiceBegin, vars, ActsWhenStarted, DrainInv,
     MarksInv, ServicesInv, ClosedInv, ConnectionInv, Done, UserCodeDone
<1>2. ASSUME NEW s \in Svc, ServiceStops(s) PROVE AppInv'
  <2>1. AppTypeOK' /\ ServicesInv'
    BY <1>2 DEF ServiceStops, AppTypeOK, ServicesInv
  <2> QED BY <1>2, <2>1 DEF ServiceStops, vars, ActsWhenStarted, DrainInv, MarksInv, ClosedInv,
     ConnectionInv, Done, UserCodeDone
<1>3. CASE ServiceMark
  <2>1. /\ ctx'["services"] = "canceled" /\ \A y \in Ctx \ {"services"} : ctx'[y] = ctx[y]
        /\ \A y \in Ctx : Done(y) => Done(y)'
        /\ UNCHANGED <<runner, hstate, exit>>
    BY <1>3, MarkStep DEF ServiceMark
  <2>2. /\ at'["service"] = "marked" /\ \A h \in Handler \ {"service"} : at'[h] = at[h]
        /\ AppTypeOK'
    BY <1>3, <1>a DEF ServiceMark, AppTypeOK
  <2>3. MarksInv'
    BY <2>1, <2>2, <1>a DEF MarksInv, Done, Ctx
  <2>4. ClosedInv'
    BY <1>3, <2>1, <2>2, <1>a DEF ServiceMark, ClosedInv, UserCodeDone, Ctx
  <2> QED BY <1>3, <1>a, <2>1, <2>2, <2>3, <2>4 DEF ServiceMark, ActsWhenStarted, DrainInv,
     ServicesInv, ConnectionInv
<1>4. CASE ServiceReturn
  <2>1. ConnectionInv' /\ canceled' \subseteq {"http", "fetch", "handler", "connection", "bucket"}
    BY <1>4 DEF ServiceReturn, avars, AppTypeOK, ConnectionInv
  <2> QED BY <1>4, <1>a, <2>1, ReturnStep DEF ServiceReturn, avars
<1>5. CASE ObjectsReturn
  <2>1. ConnectionInv' /\ canceled' \subseteq {"http", "fetch", "handler", "connection", "bucket"}
    BY <1>5, <1>a DEF ObjectsReturn, AppTypeOK, ConnectionInv
  <2>2. "objects" \notin Infra
    BY AppAssumption
  <2> QED BY <1>5, <2>1, <2>2, ReturnStep DEF ObjectsReturn
<1>6. ASSUME NEW h \in Handler \ ({"service"} \union Infra), ForceClose(h) PROVE AppInv'
  <2>1. h \in {"api", "pubsub", "objects"}
    BY AppAssumption
  <2>2. \E x \in {"http", "handler", "bucket"} : canceled' = Cancel(x)
    BY <1>6, <2>1 DEF ForceClose
  <2>3. "connection" \in canceled' => "connection" \in canceled
    BY <2>2 DEF Cancel
  <2>4. AppTypeOK'
    BY <1>6, <2>2 DEF ForceClose, AppTypeOK, Cancel
  <2> QED BY <1>6, <2>3, <2>4 DEF ForceClose, vars, ActsWhenStarted, DrainInv, MarksInv, ServicesInv,
     ClosedInv, ConnectionInv, Done, UserCodeDone
<1>7. ASSUME NEW h \in Infra, InfraClose(h) PROVE AppInv'
  <2>1. /\ at'[h] = "waiting" /\ \A k \in Handler \ {h} : at'[k] = at[k]
        /\ AppTypeOK' /\ closed' = closed \union {h}
    BY <1>7, <1>a DEF InfraClose, AppTypeOK
  <2>2. ClosedInv'
    BY <1>7, <2>1, <1>a DEF InfraClose, vars, ClosedInv, UserCodeDone, Done
  <2> QED BY <1>7, <1>a, <2>1, <2>2 DEF InfraClose, vars, ActsWhenStarted, DrainInv,
     MarksInv, ServicesInv, ConnectionInv, Done
<1>8. ASSUME NEW h \in Infra, NEW how \in {"returned", "failed"}, InfraReturn(h, how) PROVE AppInv'
  <2>1. ConnectionInv' /\ canceled' \subseteq {"http", "fetch", "handler", "connection", "bucket"}
    BY <1>8 DEF InfraReturn, avars, AppTypeOK, ConnectionInv
  <2> QED BY <1>8, <1>a, <2>1, ReturnStep DEF InfraReturn, avars
<1> QED BY <1>1, <1>2, <1>3, <1>4, <1>5, <1>6, <1>7, <1>8 DEF Resources

(* The invariant holds in every state of the application. *)
THEOREM AppInvariance == AppSpec => []AppInv
<1>1. Inv /\ TypeOK' /\ AppInv /\ [AppNext]_<<vars, avars>> => AppInv'
  <2> SUFFICES ASSUME Inv, TypeOK', AppInv, [AppNext]_<<vars, avars>> PROVE AppInv'
    OBVIOUS
  <2>1. CASE AppNext
    BY <2>1, AppInvTracker, AppInvMain, AppInvApi, AppInvPubSub, AppInvTasks, AppInvResources
       DEF AppNext
  <2>2. CASE UNCHANGED <<vars, avars>>
    BY <2>2 DEF vars, avars, AppInv, AppTypeOK, ActsWhenStarted, DrainInv, MarksInv, ServicesInv,
       ClosedInv, ConnectionInv, Done, UserCodeDone
  <2> QED BY <2>1, <2>2
<1>2. AppSpec => []Inv /\ []TypeOK
  <2>1. Inv => TypeOK
    BY DEF Inv
  <2> QED BY <2>1, AppImplementsTracker, Invariance, PTL DEF ImplementsTracker
<1> QED BY <1>1, <1>2, AppInvInit, PTL DEF AppSpec

(* No database, cache or metrics exporter is closed while the Shutdown of a   *)
(* service runs or before the tasks have drained or run out of time, and a    *)
(* request or message that was running at the trigger keeps them to its end   *)
(* unless the tasks deadline passes.                                          *)
THEOREM InfraOutlives == AppSpec => []InfraOutlivesUsers
<1>1. AppInv => InfraOutlivesUsers
  <2> SUFFICES ASSUME AppInv PROVE InfraOutlivesUsers
    OBVIOUS
  <2> USE DEF AppInv
  <2>1. InfraOutlivesServices
    BY DEF ClosedInv, UserCodeDone, MarksInv, ServicesInv, InfraOutlivesServices
  <2>2. InfraOutlivesAdmittedTasks
    BY DEF MarksInv, DrainInv, AppTypeOK, InfraOutlivesAdmittedTasks
  <2> QED BY <2>1, <2>2 DEF InfraOutlivesUsers
<1> QED BY <1>1, AppInvariance, PTL

(* The Pub/Sub manager closes its connections (Manager.Shutdown) only when     *)
(* every message that was being handled at the trigger has been handled.      *)
THEOREM ConnectionsLast == AppSpec => []ConnectionsOutliveMessages
<1>1. AppInv => ConnectionsOutliveMessages
  BY DEF AppInv, ConnectionInv, DrainInv, ConnectionsOutliveMessages
<1> QED BY <1>1, AppInvariance, PTL

(* Exit code 0 says that every resource whose handler was started is closed.   *)
THEOREM CleanExitCloses == AppSpec => []CleanExitMeansClosed
<1>1. AppInv /\ Inv => CleanExitMeansClosed
  <2> SUFFICES ASSUME AppInv, Inv, exit = "clean", NEW h \in Infra
               PROVE  h \in closed \/ hstate[h] \in {"unregistered", "registered"}
    BY DEF CleanExitMeansClosed
  <2>1. hstate[h] # "running" /\ h \in Handler
    BY AppAssumption DEF Inv, CompletedInv, HandlersInv, AllReturned
  <2> QED BY <2>1 DEF AppInv, ClosedInv, AppTypeOK, TypeOK
<1> QED BY <1>1, AppInvariance, AppImplementsTracker, Invariance, PTL DEF ImplementsTracker

-----------------------------------------------------------------------------
(* The timings. *)

(* The state is a configuration throughout: timingsFromConfig does not change it. *)
LEMMA ConfigType == TimingsSpec => [](cfg \in Config)
<1>1. TimingsInit => cfg \in Config
  BY DEF TimingsInit
<1>2. cfg \in Config /\ [TimingsNext]_cfg => (cfg \in Config)'
  BY DEF TimingsNext
<1> QED BY <1>1, <1>2, PTL DEF TimingsSpec

(* The optional fields of a configuration. *)
LEMMA Fields ==
    ASSUME NEW c \in Config
    PROVE  /\ c.timeout \in Int
           /\ c.total = Nil \/ c.total \in Int
           /\ c.handlers = Nil \/ c.handlers \in Int
           /\ c.k8sGrace = Nil \/ c.k8sGrace \in Int
BY DurationAssumption DEF Config

(* The window is positive, and is Total less its grace when that is positive. *)
LEMMA ForceShutdownAfterPositive ==
    ASSUME NEW c \in Config
    PROVE  /\ forceShutdownAfter(c) \in Nat \ {0}
           /\ c.total # Nil /\ c.total > forceShutdownGrace =>
                 forceShutdownAfter(c) = c.total - forceShutdownGrace
BY Fields DEF forceShutdownAfter, forceShutdownGrace, Second, HalfSecond

(* The total that timingsFromConfig subtracts from the pod's grace period is a duration. *)
LEMMA TotalTimeType == ASSUME NEW c \in Config PROVE totalTime(c) \in Int
BY Fields DEF totalTime

\* Total is set, above its grace period, and Kubernetes gives the pod at least that long.
PodGraceSet(c) ==
    /\ c.total # Nil /\ c.total > forceShutdownGrace
    /\ c.k8sGrace # Nil /\ c.k8sGrace >= c.total

(* With Total set, keepAcceptingFor leaves the shutdown the time it needs.    *)
LEMMA WindowFits ==
    ASSUME NEW c \in Config, PodGraceSet(c)
    PROVE  keepAcceptingFor(c) + Window(c) <= c.k8sGrace
<1>1. /\ forceShutdownGrace \in Int /\ c.total \in Int /\ c.k8sGrace \in Int
      /\ c.total # Nil /\ c.total > forceShutdownGrace /\ c.k8sGrace # Nil /\ c.k8sGrace >= c.total
  BY Fields DEF PodGraceSet, forceShutdownGrace, Second
<1>2. Window(c) = c.total
  BY <1>1, ForceShutdownAfterPositive DEF Window
<1>3. keepAcceptingFor(c) = c.k8sGrace - c.total
  BY <1>1 DEF keepAcceptingFor, totalTime, AtLeastZero
<1> QED BY <1>1, <1>2, <1>3

(* Whatever the configuration, the timings are ones module Shutdown assumes:  *)
(* no negative duration and a positive window (timingsFromConfig).            *)
THEOREM TimingsMeetAssumption == TimingsSpec => []MeetsTimingsAssumption
<1>1. ASSUME cfg \in Config PROVE MeetsTimingsAssumption
  <2>1. keepAcceptingFor(cfg) \in Nat
    BY <1>1, Fields, TotalTimeType DEF keepAcceptingFor, AtLeastZero
  <2>2. cancelRunningTasksAfter(cfg) \in Nat
    BY <1>1, Fields, ForceShutdownAfterPositive
       DEF cancelRunningTasksAfter, AtLeastZero, forceCloseTasksGrace, Second
  <2> QED BY <1>1, <2>1, <2>2, ForceShutdownAfterPositive DEF MeetsTimingsAssumption
<1> QED BY <1>1, ConfigType, PTL

(* By default, tasks are over when infrastructure is torn down by force. *)
THEOREM DefaultTasksEndFirst == TimingsSpec => []TasksEndFirst
<1>1. ASSUME cfg \in Config PROVE TasksEndFirst
  BY <1>1, ForceShutdownAfterPositive
     DEF TasksEndFirst, cancelRunningTasksAfter, AtLeastZero, forceCloseTasksGrace, Second
<1> QED BY <1>1, ConfigType, PTL

(* With Total set, keep-accepting and window fit in the pod's grace period.   *)
THEOREM PodGraceSuffices == TimingsSpec => []FitsPodGrace
<1>1. ASSUME cfg \in Config PROVE FitsPodGrace
  BY <1>1, WindowFits DEF FitsPodGrace, PodGraceSet
<1> QED BY <1>1, ConfigType, PTL

-----------------------------------------------------------------------------
(* The tracker on the timings of a configuration. *)

\* The tracker was created by NewTracker with the configuration c.
RunsOn(c) ==
    /\ KeepAcceptingFor = keepAcceptingFor(c)
    /\ CancelRunningTasksAfter = cancelRunningTasksAfter(c)
    /\ ForceCloseTasksGrace = forceCloseTasksGrace
    /\ ForceShutdownAfter = forceShutdownAfter(c)
    /\ ForceShutdownGrace = forceShutdownGrace

\* A SIGTERM began the shutdown at time Terminated, and the process keeps accepting for a while.
Sleeps == deadline["keepAccepting"] # 0
Terminated == deadline["keepAccepting"] - KeepAcceptingFor

\* The process is gone when Kubernetes would kill it.
GoneBeforeKill(c) == exit = "running" /\ Sleeps => now <= Terminated + c.k8sGrace

\* Until the shutdown process begins, its leader has not overslept.
SleepOnTime ==
    /\ initiated = "open" => ~Sleeps
    /\ exit = "running" /\ Sleeps =>
          /\ runner = "idle" => /\ now <= deadline["keepAccepting"]
                                /\ \E c \in Caller : call[c] \in {"sleeping", "starting"}
          /\ runner # "idle" => start <= deadline["keepAccepting"]

(* Every step keeps to it when the runtime's own steps take no time. *)
LEMMA SleepOnTimeStep == ASSUME Prompt, Inv, SleepOnTime, [Next]_vars PROVE SleepOnTime'
<1> USE DEF Inv
<1>a. now \in Nat /\ start \in Nat /\ deadline["keepAccepting"] \in Nat /\ KeepAcceptingFor \in Nat
  BY TimingsAssumption DEF TypeOK
<1>1. ASSUME NEW c \in Caller, NEW sig \in Signal, Trigger(c, sig) PROVE SleepOnTime'
  <2>1. /\ exit = "running" /\ initiated = "open" /\ ~Sleeps /\ initiated' = "closed" /\ runner = "idle"
        /\ UNCHANGED <<now, runner, start>>
    BY <1>1 DEF Trigger, ShutdownInitiated, SleepOnTime, TypeOK, OneLeader
  <2>2. CASE sig = "SIGTERM" /\ KeepAcceptingFor > 0
    <3>1. call'[c] = "sleeping" /\ deadline'["keepAccepting"] = now + KeepAcceptingFor
      BY <1>1, <2>2 DEF Trigger, TypeOK
    <3> QED BY <1>a, <2>1, <3>1 DEF SleepOnTime
  <2>3. CASE ~(sig = "SIGTERM" /\ KeepAcceptingFor > 0)
    BY <1>1, <2>1, <2>3 DEF Trigger, SleepOnTime, Sleeps
  <2> QED BY <2>2, <2>3
<1>2. ASSUME UNCHANGED <<now, initiated, start>>, deadline'["keepAccepting"] = deadline["keepAccepting"],
             runner' = "idle" <=> runner = "idle", exit' = "running" => exit = "running",
             \A c \in Caller : call[c] \in {"sleeping", "starting"} => call'[c] \in {"sleeping", "starting"}
      PROVE  SleepOnTime'
  BY <1>2 DEF SleepOnTime, Sleeps
<1>3. ASSUME NEW c \in Caller, BlockOnOnce(c) PROVE SleepOnTime'
  <2>1. \A d \in Caller : call[d] \in {"sleeping", "starting"} => call'[d] = call[d]
    BY <1>3 DEF BlockOnOnce, TypeOK
  <2> QED BY <1>2, <1>3, <2>1 DEF BlockOnOnce
<1>4. ASSUME NEW c \in Caller, FinishSleep(c) PROVE SleepOnTime'
  <2>1. \A d \in Caller : call'[d] = IF d = c THEN "starting" ELSE call[d]
    BY <1>4 DEF FinishSleep, TypeOK
  <2> QED BY <1>2, <1>4, <2>1 DEF FinishSleep
<1>5. ASSUME NEW c \in Caller, BeginShutdownProcess(c) PROVE SleepOnTime'
  <2>1. /\ exit = "running" /\ runner = "idle" /\ start' = now /\ runner' = "started"
        /\ UNCHANGED <<now, initiated, exit>>
    BY <1>5 DEF BeginShutdownProcess, OneLeader
  <2>2. deadline'["keepAccepting"] = deadline["keepAccepting"]
    BY <1>5 DEF BeginShutdownProcess, TypeOK, Timer
  <2> QED BY <2>1, <2>2 DEF SleepOnTime, Sleeps
<1>6. CASE Tick
  <2>1. exit = "running" /\ ~Urgent /\ now' = now + 1 /\ UNCHANGED <<initiated, call, deadline, start, runner, exit>>
    BY <1>6 DEF Tick
  <2>2. \A c \in Caller : call[c] # "starting" /\ ~SleepDue(c)
    BY <2>1 DEF Urgent
  <2>3. CASE Sleeps /\ runner = "idle"
    <3>1. PICK c \in Caller : call[c] = "sleeping"
      BY <2>1, <2>2, <2>3 DEF SleepOnTime
    <3>2. ~(now >= deadline["keepAccepting"])
      BY <2>2, <3>1 DEF SleepDue
    <3>3. now' <= deadline["keepAccepting"]
      BY <1>a, <2>1, <3>2
    <3> QED BY <2>1, <2>3, <3>1, <3>3 DEF SleepOnTime, Sleeps
  <2>4. CASE ~(Sleeps /\ runner = "idle")
    BY <2>1, <2>4 DEF SleepOnTime, Sleeps
  <2> QED BY <2>3, <2>4
<1>7. CASE Watchers
  <2>1. deadline'["keepAccepting"] = deadline["keepAccepting"]
    BY <1>7 DEF Watchers, CancelOutstandingTasks, CancelForceShutdown, CompleteEarly, BeginGrace,
       CompleteAfterGrace, TypeOK
  <2> QED BY <1>2, <1>7, <2>1 DEF Watchers, CancelOutstandingTasks, CancelForceShutdown, CompleteEarly, BeginGrace,
         CompleteAfterGrace
<1>8. CASE Runner \/ Handlers \/ Timers
  BY <1>2, <1>8 DEF Runner, StartHandlers, MarkHandlersCompleted, Handlers, Register, Return, Mark, Timers, Expire
<1>9. CASE Kill \/ Ended \/ UNCHANGED vars \/ \E c \in Caller : ExitOnCompletion(c)
  BY <1>2, <1>9 DEF Kill, Ended, ExitOnCompletion, vars
<1> QED BY <1>1, <1>3, <1>4, <1>5, <1>6, <1>7, <1>8, <1>9 DEF Next, Callers, Leader

(* From SIGTERM to exit: a tracker that runs on the timings of a configuration with Total set keeps    *)
(* accepting, shuts down and exits within the grace period of its pod, although handlers may never     *)
(* return.                                                                                             *)
THEOREM PodEndsInTime ==
    ASSUME NEW c \in Config, RunsOn(c), PodGraceSet(c)
    PROVE  Prompt /\ Spec => []GoneBeforeKill(c)
<1> SUFFICES ASSUME Prompt PROVE Spec => []GoneBeforeKill(c)
  OBVIOUS
<1>1. Init => SleepOnTime
  BY DEF Init, SleepOnTime, Sleeps
<1>2. Inv /\ SleepOnTime /\ [Next]_vars => SleepOnTime'
  BY SleepOnTimeStep
<1>3. Inv /\ SleepOnTime /\ ExitsInTime => GoneBeforeKill(c)
  <2> SUFFICES ASSUME Inv, SleepOnTime, ExitsInTime, exit = "running", Sleeps
               PROVE  now <= Terminated + c.k8sGrace
    BY DEF GoneBeforeKill
  <2> DEFINE ka == deadline["keepAccepting"]
  <2>1. /\ now \in Nat /\ start \in Nat /\ ka \in Nat
        /\ KeepAcceptingFor \in Nat /\ ForceShutdownAfter \in Nat /\ ForceShutdownGrace \in Nat
    BY TimingsAssumption DEF Inv, TypeOK
  <2>2. c.k8sGrace \in Int /\ KeepAcceptingFor + (ForceShutdownAfter + ForceShutdownGrace) <= c.k8sGrace
    BY Fields, WindowFits DEF RunsOn, PodGraceSet, Window
  <2>3. now <= ka + ForceShutdownAfter + ForceShutdownGrace
    <3>1. CASE runner = "idle"
      BY <2>1, <3>1 DEF SleepOnTime
    <3>2. CASE runner # "idle"
      <4>1. ctx["completed"] # "unborn"
        BY <3>2 DEF Inv, Unborn, Ctx
      <4>2. start <= ka /\ now <= start + ForceShutdownAfter + ForceShutdownGrace
        BY <3>2, <4>1 DEF SleepOnTime, ExitsInTime
      <4> QED BY <2>1, <4>2
    <3> QED BY <3>1, <3>2
  <2> HIDE DEF ka
  <2>4. now <= (ka - KeepAcceptingFor) + c.k8sGrace
    BY <2>1, <2>2, <2>3
  <2> QED BY <2>4 DEF Terminated, ka
<1>4. Spec => []Inv /\ []ExitsInTime
  BY Invariance, InTime, PTL
<1> QED BY <1>1, <1>2, <1>3, <1>4, PTL DEF Spec
=============================================================================
