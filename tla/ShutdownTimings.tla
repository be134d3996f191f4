--------------------------- MODULE ShutdownTimings ---------------------------
(***************************************************************************)
(* timingsFromConfig (appruntime/shared/shutdown/shutdown.go): from the    *)
(* configuration to the durations module Shutdown runs on.  Durations are  *)
(* in units of 500ms, the smallest the code mentions.  The configuration   *)
(* is read once, so the state holds one and never changes.                 *)
(***************************************************************************)
EXTENDS Integers

CONSTANTS
    Duration,   \* durations a configuration may hold
    Nil         \* an optional duration that is not set

ASSUME DurationAssumption == Duration \subseteq Int /\ Nil \notin Int

VARIABLE cfg    \* the configuration and the environment of the process

Second == 2
HalfSecond == 1

Config == [total    : Duration \union {Nil},    \* GracefulShutdown.Total
           handlers : Duration \union {Nil},    \* GracefulShutdown.Handlers
           timeout  : Duration,                 \* ShutdownTimeout
           k8sGrace : Duration \union {Nil}]    \* ENCORE_K8S_GRACE_TERMINATION_SECONDS

forceCloseTasksGrace == Second
forceShutdownGrace == Second

\* Mutant: a duration that would be too short is replaced by a second.
AtLeastSecond(d) == IF d < Second THEN Second ELSE d

AtLeastZero(d) == IF d < 0 THEN 0 ELSE d

\* Mutant: a Total below the grace period is not replaced by a default.
ForceShutdownAfterUnchecked(c) ==
    IF c.total = Nil
        THEN IF c.timeout <= 0 THEN 5 * Second ELSE c.timeout
        ELSE c.total - forceShutdownGrace

\* forceShutdownAfter, with its two defaults.
forceShutdownAfter(c) ==
    IF c.total = Nil
        THEN IF c.timeout <= 0 THEN 5 * Second ELSE c.timeout
        ELSE IF c.total - forceShutdownGrace <= 0 THEN HalfSecond
                                                  ELSE c.total - forceShutdownGrace

\* totalTime: what the configuration says, not what forceShutdownAfter became.
totalTime(c) == IF c.total = Nil THEN c.timeout ELSE c.total

cancelRunningTasksAfter(c) ==
    AtLeastZero(IF c.handlers = Nil THEN forceShutdownAfter(c) - forceCloseTasksGrace
                                    ELSE c.handlers)

\* Mutant: keep accepting for the whole grace period of the pod.
KeepAcceptingWholeGrace(c) == IF c.k8sGrace = Nil THEN 0 ELSE AtLeastZero(c.k8sGrace)

keepAcceptingFor(c) == IF c.k8sGrace = Nil THEN 0 ELSE AtLeastZero(c.k8sGrace - totalTime(c))

TimingsInit == cfg \in Config
TimingsNext == UNCHANGED cfg
TimingsSpec == TimingsInit /\ [][TimingsNext]_cfg

-----------------------------------------------------------------------------
(* Properties. *)

\* How long a shutdown takes at most once it has begun: module Shutdown shows
\* that forceShutdownAfter and forceShutdownGrace bound it.
Window(c) == forceShutdownAfter(c) + forceShutdownGrace

\* The timings meet the assumption module Shutdown makes of its constants.
MeetsTimingsAssumption ==
    /\ keepAcceptingFor(cfg) \in Nat
    /\ cancelRunningTasksAfter(cfg) \in Nat
    /\ forceShutdownAfter(cfg) \in Nat \ {0}

\* Unless Handlers says otherwise, tasks are over when infrastructure is torn
\* down by force, or, in a window shorter than their grace period, close to it.
\* config.go:117-120 documents a cancellation one second before Total runs out;
\* the code cancels two seconds before, since forceShutdownAfter, from which
\* forceCloseTasksGrace is taken, is a second less than Total already.
TasksEndFirst ==
    cfg.handlers = Nil =>
        \/ cancelRunningTasksAfter(cfg) + forceCloseTasksGrace <= forceShutdownAfter(cfg)
        \/ forceShutdownAfter(cfg) < forceCloseTasksGrace /\ cancelRunningTasksAfter(cfg) = 0

\* With Total set above the grace period, a pod that is given at least that
\* long is gone when the grace period of Kubernetes ends.
FitsPodGrace ==
    /\ cfg.total # Nil /\ cfg.total > forceShutdownGrace
    /\ cfg.k8sGrace # Nil /\ cfg.k8sGrace >= cfg.total
    => keepAcceptingFor(cfg) + Window(cfg) <= cfg.k8sGrace
=============================================================================
