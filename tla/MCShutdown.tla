----------------------------- MODULE MCShutdown -----------------------------
(* Modules ShutdownTimings and Shutdown on small instances: a process       *)
(* computes the timings of its configuration, and the tracker runs on them. *)
EXTENDS Shutdown, ShutdownTimings

CONSTANTS c1, c2, h1, h2

MCCaller == {c1, c2}
MCHandler == {h1, h2}
\* Around every default of the code, in units of 500ms.
MCDuration == {0, 1, 2, 3, 4, 10, 12, 20}

\* The constants of this instance are the timings of the configuration.
TimingsOfCfg ==
    /\ KeepAcceptingFor = keepAcceptingFor(cfg)
    /\ CancelRunningTasksAfter = cancelRunningTasksAfter(cfg)
    /\ ForceCloseTasksGrace = forceCloseTasksGrace
    /\ ForceShutdownAfter = forceShutdownAfter(cfg)
    /\ ForceShutdownGrace = forceShutdownGrace

\* Every configuration is an initial state; only one with these timings runs.
MCInit == Init /\ TimingsInit

MCNext ==
    /\ TimingsNext
    /\ \/ TimingsOfCfg /\ Next
       \/ ~TimingsOfCfg /\ UNCHANGED vars

MCSpec == MCInit /\ [][MCNext]_<<vars, cfg>> /\ Fairness
=============================================================================
