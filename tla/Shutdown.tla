------------------------------ MODULE Shutdown ------------------------------
(***************************************************************************)
(* The graceful-shutdown tracker of the runtime:                           *)
(* runtimes/go/appruntime/shared/shutdown/shutdown.go.                     *)
(*                                                                         *)
(* Tracker.Shutdown runs once per process.  The goroutine that wins the    *)
(* sync.Once builds a tree of contexts with deadlines, three watcher       *)
(* goroutines connect them, a runner executes the registered handlers, and *)
(* the winner finally calls os.Exit.  Handlers are arbitrary code: here    *)
(* they may take any time, fail, or never return.                          *)
(*                                                                         *)
(* Contexts are the whole communication medium, so ctx is the main         *)
(* variable: "unborn" until created, then "live", then once and for all    *)
(* "canceled" (context.Canceled) or "expired" (context.DeadlineExceeded).  *)
(***************************************************************************)
EXTENDS Naturals

CONSTANTS
    Caller,                     \* goroutines that may call Tracker.Shutdown
    Handler,                    \* functions given to RegisterShutdownHandler
    KeepAcceptingFor,           \* processTimings, in units of the clock
    CancelRunningTasksAfter,
    ForceCloseTasksGrace,
    ForceShutdownAfter,
    ForceShutdownGrace,
    Prompt                      \* TRUE: the runtime's own steps take no time

ASSUME TimingsAssumption ==
    /\ KeepAcceptingFor \in Nat
    /\ CancelRunningTasksAfter \in Nat
    /\ ForceCloseTasksGrace \in Nat \ {0}
    /\ ForceShutdownAfter \in Nat \ {0}
    /\ ForceShutdownGrace \in Nat \ {0}

ASSUME PromptAssumption == Prompt \in BOOLEAN

VARIABLES
    now,        \* the clock
    initiated,  \* the channel Tracker.initiated, "open" or "closed"
    call,       \* where each caller is inside Tracker.Shutdown
    ctx,        \* the state of every context of the Process
    deadline,   \* when each timer is due
    start,      \* time.Now() in beginShutdownProcess
    cause,      \* context.Cause(ShutdownCompleted)
    runner,     \* where runShutdownHandlers is
    hstate,     \* the state of every handler
    exit        \* "running", or how the process ended

vars == <<now, initiated, call, ctx, deadline, start, cause, runner, hstate, exit>>

Ctx == {"requests", "pubsub", "tasks", "forceClose", "forceShutdown",
        "services", "handlers", "grace", "completed"}

\* Contexts with a deadline, and the time.Sleep of the keep-accepting period.
Timer == {"tasks", "forceClose", "forceShutdown", "grace"}

Signal == {"SIGTERM", "SIGINT", "none"}

TypeOK ==
    /\ now \in Nat
    /\ initiated \in {"open", "closed"}
    /\ call \in [Caller -> {"idle", "sleeping", "starting", "awaiting", "blocked"}]
    /\ ctx \in [Ctx -> {"unborn", "live", "canceled", "expired"}]
    /\ deadline \in [Timer \union {"keepAccepting"} -> Nat]
    /\ start \in Nat
    /\ cause \in {"none", "clean", "timeout"}
    /\ runner \in {"idle", "started", "waiting", "done"}
    /\ hstate \in [Handler -> {"unregistered", "registered", "running",
                               "returned", "failed"}]
    /\ exit \in {"running", "clean", "forced", "killed"}

Init ==
    /\ now = 0
    /\ initiated = "open"
    /\ call = [c \in Caller |-> "idle"]
    /\ ctx = [x \in Ctx |-> "unborn"]
    /\ deadline = [t \in Timer \union {"keepAccepting"} |-> 0]
    /\ start = 0
    /\ cause = "none"
    /\ runner = "idle"
    /\ hstate = [h \in Handler |-> "unregistered"]
    /\ exit = "running"

-----------------------------------------------------------------------------
(* Contexts. *)

\* <-x.Done() does not block.
Done(x) == ctx[x] \in {"canceled", "expired"}

\* The contexts derived from x; grace only once it has been created.
Children(x) ==
    CASE x = "tasks"    -> {"requests", "pubsub", "forceClose"}
      [] x = "handlers" -> {"grace"}
      [] OTHER          -> {}

\* End x with status why: a context ends once, and with it its live children.
End(x, why) ==
    [y \in Ctx |-> IF (y = x \/ y \in Children(x)) /\ ctx[y] = "live"
                       THEN why ELSE ctx[y]]

-----------------------------------------------------------------------------
(* Tracker.Shutdown, in the goroutine of a caller. *)

\* t.once is taken and t.initiated closed in one step.
ShutdownInitiated == initiated = "closed"

\* The first call wins t.once: it closes t.initiated and sleeps on SIGTERM.
Trigger(c, sig) ==
    /\ exit = "running" /\ call[c] = "idle" /\ ~ShutdownInitiated
    /\ initiated' = "closed"
    /\ IF sig = "SIGTERM" /\ KeepAcceptingFor > 0
          THEN /\ call' = [call EXCEPT ![c] = "sleeping"]
               /\ deadline' = [deadline EXCEPT !["keepAccepting"] = now + KeepAcceptingFor]
          ELSE /\ call' = [call EXCEPT ![c] = "starting"]
               /\ UNCHANGED deadline
    /\ UNCHANGED <<now, ctx, start, cause, runner, hstate, exit>>

\* Any other call waits in once.Do for the first one, which never returns.
BlockOnOnce(c) ==
    /\ exit = "running" /\ call[c] = "idle" /\ ShutdownInitiated
    /\ call' = [call EXCEPT ![c] = "blocked"]
    /\ UNCHANGED <<now, initiated, ctx, deadline, start, cause, runner, hstate, exit>>

SleepDue(c) == call[c] = "sleeping" /\ now >= deadline["keepAccepting"]

FinishSleep(c) ==
    /\ exit = "running" /\ SleepDue(c)
    /\ call' = [call EXCEPT ![c] = "starting"]
    /\ UNCHANGED <<now, initiated, ctx, deadline, start, cause, runner, hstate, exit>>

\* A context.WithDeadline whose deadline has passed is born expired.
Born(x) ==
    CASE x = "grace" -> "unborn"
      [] x = "forceClose" /\ CancelRunningTasksAfter = 0 -> "expired"
      [] OTHER -> "live"

\* beginShutdownProcess creates the contexts and the watchers; the runner and
\* the wait for completion follow in the same call.
BeginShutdownProcess(c) ==
    /\ exit = "running" /\ call[c] = "starting"
    /\ call' = [call EXCEPT ![c] = "awaiting"]
    /\ start' = now
    /\ ctx' = [x \in Ctx |-> Born(x)]
    /\ deadline' = [deadline EXCEPT
          !["tasks"]         = now + CancelRunningTasksAfter + ForceCloseTasksGrace,
          !["forceClose"]    = now + CancelRunningTasksAfter,
          !["forceShutdown"] = now + ForceShutdownAfter]
    /\ runner' = "started"
    /\ UNCHANGED <<now, initiated, cause, hstate, exit>>

\* exitOnCompletion.
ExitOnCompletion(c) ==
    /\ exit = "running" /\ call[c] = "awaiting" /\ Done("completed")
    /\ exit' = IF cause = "clean" THEN "clean" ELSE "forced"
    /\ UNCHANGED <<now, initiated, call, ctx, deadline, start, cause, runner, hstate>>

-----------------------------------------------------------------------------
(* The watchers started by beginShutdownProcess. *)

\* Mutant: the watcher selects on the two contexts instead of waiting for both.
DrainedEither == (Done("requests") \/ Done("pubsub")) /\ ctx["tasks"] = "live"

Drained == Done("requests") /\ Done("pubsub") /\ ctx["tasks"] = "live"

CancelOutstandingTasks ==
    /\ exit = "running" /\ Drained
    /\ ctx' = End("tasks", "canceled")
    /\ UNCHANGED <<now, initiated, call, deadline, start, cause, runner, hstate, exit>>

\* Mutants: the watcher waits for only one of its two contexts.
CanStopWithoutHandlers == Done("tasks") /\ ctx["forceShutdown"] = "live"
CanStopWithoutTasks == Done("handlers") /\ ctx["forceShutdown"] = "live"

CanStopEarly == Done("tasks") /\ Done("handlers") /\ ctx["forceShutdown"] = "live"

CancelForceShutdown ==
    /\ exit = "running" /\ CanStopEarly
    /\ ctx' = End("forceShutdown", "canceled")
    /\ UNCHANGED <<now, initiated, call, deadline, start, cause, runner, hstate, exit>>

CompletedEarly == ctx["forceShutdown"] = "canceled" /\ ctx["completed"] = "live"

CompleteEarly ==
    /\ exit = "running" /\ CompletedEarly
    /\ ctx' = End("completed", "canceled")
    /\ cause' = "clean"
    /\ UNCHANGED <<now, initiated, call, deadline, start, runner, hstate, exit>>

GraceBegins == ctx["forceShutdown"] = "expired" /\ ctx["grace"] = "unborn"

\* Mutant: the grace period is not derived from handlersCompleted and is measured
\* from the start of the process.
BeginGraceLate ==
    /\ exit = "running" /\ GraceBegins
    /\ ctx' = [ctx EXCEPT !["grace"] = "live"]
    /\ deadline' = [deadline EXCEPT !["grace"] = now + ForceShutdownAfter + ForceShutdownGrace]
    /\ UNCHANGED <<now, initiated, call, start, cause, runner, hstate, exit>>

\* context.WithTimeout(handlersCompleted, forceShutdownGrace): a child of a
\* context that is already done is born canceled.
BeginGrace ==
    /\ exit = "running" /\ GraceBegins
    /\ ctx' = [ctx EXCEPT !["grace"] = IF Done("handlers") THEN "canceled" ELSE "live"]
    /\ deadline' = [deadline EXCEPT !["grace"] = now + ForceShutdownGrace]
    /\ UNCHANGED <<now, initiated, call, start, cause, runner, hstate, exit>>

\* Mutant: a wait for the handlers instead of the grace period.
GraceEndless == Done("handlers") /\ ctx["grace"] # "unborn" /\ ctx["completed"] = "live"

GraceOver == Done("grace") /\ ctx["completed"] = "live"

\* Mutant: a shutdown that ran out of time is reported as clean.
CompleteAlwaysClean ==
    /\ exit = "running" /\ GraceOver
    /\ ctx' = End("completed", "canceled")
    /\ cause' = "clean"
    /\ UNCHANGED <<now, initiated, call, deadline, start, runner, hstate, exit>>

CompleteAfterGrace ==
    /\ exit = "running" /\ GraceOver
    /\ ctx' = End("completed", "canceled")
    /\ cause' = IF ctx["grace"] = "canceled" THEN "clean" ELSE "timeout"
    /\ UNCHANGED <<now, initiated, call, deadline, start, runner, hstate, exit>>

-----------------------------------------------------------------------------
(* runShutdownHandlers and the handlers. *)

Register(h) ==
    /\ exit = "running" /\ hstate[h] = "unregistered"
    /\ hstate' = [hstate EXCEPT ![h] = "registered"]
    /\ UNCHANGED <<now, initiated, call, ctx, deadline, start, cause, runner, exit>>

\* The handlers registered by now run, each in its goroutine; a handler
\* registered later stays "registered" for good.
StartHandlers ==
    /\ exit = "running" /\ runner = "started"
    /\ runner' = "waiting"
    /\ hstate' = [h \in Handler |-> IF hstate[h] = "registered" THEN "running" ELSE hstate[h]]
    /\ UNCHANGED <<now, initiated, call, ctx, deadline, start, cause, exit>>

\* A handler returns; an error or a panic (recovered) is recorded.
Return(h, how) ==
    /\ exit = "running" /\ hstate[h] = "running"
    /\ hstate' = [hstate EXCEPT ![h] = how]
    /\ UNCHANGED <<now, initiated, call, ctx, deadline, start, cause, runner, exit>>

AllReturned == \A h \in Handler : hstate[h] # "running"

\* wg.Wait returns and the deferred function marks handlersCompleted.
MarkHandlersCompleted ==
    /\ exit = "running" /\ runner = "waiting" /\ AllReturned
    /\ runner' = "done"
    /\ ctx' = End("handlers", "canceled")
    /\ UNCHANGED <<now, initiated, call, deadline, start, cause, hstate, exit>>

\* What a running handler may do to the Process: MarkOutstandingRequestsCompleted,
\* MarkOutstandingPubSubMessagesCompleted, MarkServicesShutdownCompleted.
Mark(x) ==
    /\ exit = "running" /\ ctx[x] = "live"
    /\ \E h \in Handler : hstate[h] = "running"
    /\ ctx' = End(x, "canceled")
    /\ UNCHANGED <<now, initiated, call, deadline, start, cause, runner, hstate, exit>>

-----------------------------------------------------------------------------
(* Time, and the world outside. *)

Due(t) == ctx[t] = "live" /\ now >= deadline[t]

\* A timer may fire late, never early; timers that are due fire in any order.
Expire(t) ==
    /\ exit = "running" /\ Due(t)
    /\ ctx' = End(t, "expired")
    /\ UNCHANGED <<now, initiated, call, deadline, start, cause, runner, hstate, exit>>

\* A step of the runtime itself (not of a handler) is possible.
Urgent ==
    \/ \E c \in Caller : SleepDue(c) \/ call[c] = "starting"
                         \/ (call[c] = "awaiting" /\ Done("completed"))
    \/ \E t \in Timer : Due(t)
    \/ Drained \/ CanStopEarly \/ CompletedEarly \/ GraceBegins \/ GraceOver
    \/ runner = "started" \/ (runner = "waiting" /\ AllReturned)

\* Time matters while a timer is still to become due.
Pending ==
    \/ \E t \in Timer : ctx[t] = "live" /\ now < deadline[t]
    \/ \E c \in Caller : call[c] = "sleeping" /\ now < deadline["keepAccepting"]

Tick ==
    /\ exit = "running" /\ Pending
    /\ Prompt => ~Urgent
    /\ now' = now + 1
    /\ UNCHANGED <<initiated, call, ctx, deadline, start, cause, runner, hstate, exit>>

\* SIGKILL, or main returning: the process ends under the tracker's feet.
Kill ==
    /\ exit = "running"
    /\ exit' = "killed"
    /\ UNCHANGED <<now, initiated, call, ctx, deadline, start, cause, runner, hstate>>

\* A process that has ended stays ended.
Ended == exit # "running" /\ UNCHANGED vars

-----------------------------------------------------------------------------

Callers == \E c \in Caller :
    \/ \E sig \in Signal : Trigger(c, sig)
    \/ BlockOnOnce(c)

Leader == \E c \in Caller :
    FinishSleep(c) \/ BeginShutdownProcess(c) \/ ExitOnCompletion(c)

Watchers ==
    \/ CancelOutstandingTasks \/ CancelForceShutdown
    \/ CompleteEarly \/ BeginGrace \/ CompleteAfterGrace

Runner == StartHandlers \/ MarkHandlersCompleted

Handlers ==
    \/ \E h \in Handler : Register(h)
    \/ \E h \in Handler, how \in {"returned", "failed"} : Return(h, how)
    \/ \E x \in {"requests", "pubsub", "services"} : Mark(x)

Timers == \E t \in Timer : Expire(t)

Next == Callers \/ Leader \/ Watchers \/ Runner \/ Handlers \/ Timers
        \/ Tick \/ Kill \/ Ended

Spec == Init /\ [][Next]_vars

\* The scheduler runs the runtime's goroutines, timers fire, time passes.
\* Nothing is assumed of the handlers: they may hang.
Fairness ==
    /\ WF_vars(Leader) /\ WF_vars(Watchers) /\ WF_vars(Runner)
    /\ WF_vars(Timers) /\ WF_vars(Tick)

FairSpec == Spec /\ Fairness

-----------------------------------------------------------------------------
(* Properties. *)

\* Exit code 0 means that every handler that was started has returned:
\* watcher 2 and the grace context both wait for handlersCompleted.
CleanExitMeansHandlersReturned == exit = "clean" => runner = "done" /\ AllReturned

\* The handlers get the whole window: the process gives up on them only when
\* forceShutdownAfter and then forceShutdownGrace have passed since the start.
ForcedExitNotEarly ==
    exit = "forced" => now >= start + ForceShutdownAfter + ForceShutdownGrace

\* Running tasks have their contexts canceled (ForceCloseTasks) either because
\* cancelRunningTasksAfter has passed or because there are none left.
TasksNotClosedEarly ==
    [][ctx["forceClose"] = "live" /\ Done("forceClose")' =>
          \/ now >= start + CancelRunningTasksAfter
          \/ Done("requests") /\ Done("pubsub")]_vars

\* ForceShutdown ends early only when both the tasks and the handlers are done.
ForceShutdownNotEarly ==
    Done("forceShutdown") =>
        \/ now >= start + ForceShutdownAfter
        \/ Done("tasks") /\ runner = "done" /\ AllReturned

\* While the process runs, its shutdown is not overdue (with Prompt: the
\* runtime's own steps take no time, the handlers as long as they like).
ExitsInTime ==
    exit = "running" /\ ctx["completed"] # "unborn" =>
        now <= start + ForceShutdownAfter + ForceShutdownGrace

\* A shutdown that was initiated ends in an exit although handlers may hang.
EventuallyExits == ShutdownInitiated ~> (exit # "running")

-----------------------------------------------------------------------------
(* The promise implemented. *)

WindowOpen ==
    \/ ctx["completed"] = "unborn"
    \/ now < start + ForceShutdownAfter + ForceShutdownGrace

Code == CASE exit = "running" -> "none"
          [] exit = "clean"   -> "0"
          [] exit = "forced"  -> "1"
          [] exit = "killed"  -> "killed"

Contract == INSTANCE ShutdownContract WITH
    phase <- IF exit # "running" THEN "exited" ELSE IF ShutdownInitiated THEN "stopping" ELSE "up",
    started <- runner \in {"waiting", "done"},
    active <- {h \in Handler : hstate[h] = "running"},
    windowOpen <- WindowOpen,
    code <- Code

\* Every behaviour of the tracker is one the documented contract allows.
ImplementsContract == Contract!CSpec
=============================================================================
