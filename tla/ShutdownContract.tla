-------------------------- MODULE ShutdownContract --------------------------
(***************************************************************************)
(* What a graceful shutdown promises, without contexts, watchers or a      *)
(* clock: that handlers start together and once, that the process waits    *)
(* for them until its window closes, and what the exit code says of them.  *)
(* Of the phases that encore.dev/shutdown.Progress                         *)
(* (runtimes/go/shutdown/shutdown.go) describes, the draining of requests  *)
(* and the closing of infrastructure are left out: they are between        *)
(* handlers, and module AppShutdown's.  Module Shutdown implements it.     *)
(***************************************************************************)

CONSTANT Handler

VARIABLES
    phase,      \* "up", "stopping" once initiated, "exited"
    started,    \* the handlers have been started
    active,     \* the handlers that have been started and have not returned
    windowOpen, \* the graceful shutdown window has not closed
    code        \* "none", or the exit code: "0", "1", or "killed"

cvars == <<phase, started, active, windowOpen, code>>

CInit ==
    /\ phase = "up"
    /\ started = FALSE
    /\ active = {}
    /\ windowOpen = TRUE
    /\ code = "none"

Initiate ==
    /\ phase = "up"
    /\ phase' = "stopping"
    /\ UNCHANGED <<started, active, windowOpen, code>>

\* All the handlers known at this point start together, once.
StartAll ==
    /\ phase = "stopping" /\ ~started
    /\ started' = TRUE
    /\ active' \in SUBSET Handler
    /\ UNCHANGED <<phase, windowOpen, code>>

OneReturns ==
    /\ phase = "stopping"
    /\ \E h \in active : active' = active \ {h}
    /\ UNCHANGED <<phase, started, windowOpen, code>>

CloseWindow ==
    /\ phase = "stopping" /\ windowOpen
    /\ windowOpen' = FALSE
    /\ UNCHANGED <<phase, started, active, code>>

\* Exit code 0: every handler that was started has returned.
ExitClean ==
    /\ phase = "stopping" /\ started /\ active = {}
    /\ phase' = "exited" /\ code' = "0"
    /\ UNCHANGED <<started, active, windowOpen>>

\* Exit code 1: only after the whole window, grace period included.
ExitForced ==
    /\ phase = "stopping" /\ ~windowOpen
    /\ phase' = "exited" /\ code' = "1"
    /\ UNCHANGED <<started, active, windowOpen>>

Killed ==
    /\ phase # "exited"
    /\ phase' = "exited" /\ code' = "killed"
    /\ UNCHANGED <<started, active, windowOpen>>

CNext == Initiate \/ StartAll \/ OneReturns \/ CloseWindow
         \/ ExitClean \/ ExitForced \/ Killed

CSpec == CInit /\ [][CNext]_cvars
=============================================================================
