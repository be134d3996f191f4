------------------------------- MODULE DevRun -------------------------------
(***************************************************************************)
(* "afterpiece run" in the CLI daemon (cli/daemon/run): a run builds the   *)
(* application, starts it as a group of OS processes, and at every change  *)
(* of its sources builds it again, starts a new group, and switches over   *)
(* from the old one.  A monitor ends the run when its current group has    *)
(* exited.  Reloads are called by the one goroutine that watches the app's *)
(* files, so they never overlap.                                           *)
(***************************************************************************)
EXTENDS Naturals, FiniteSets

CONSTANTS
    Proc,       \* the processes of a group: one per service and gateway
    MaxGroup    \* bound on the groups that a run starts

ASSUME DevRunAssumption ==
    IsFiniteSet(Proc) /\ Proc # {} /\ MaxGroup \in Nat

Group == 1 .. MaxGroup

VARIABLES
    ctx,        \* the context of the run: the client's stream
    server,     \* where Server.Run and the Manager.Start it calls are
    build,      \* where buildAndStart is, in Server.Run or in the file watcher
    last,       \* the newest group
    current,    \* Run.proc; 0 is nil
    previous,   \* what the last Swap returned
    proc,       \* the processes of each group
    interrupted,\* groups on which Close has been called
    killed,     \* processes with a kill signal pending
    watching,   \* the run is subscribed to changes of the files
    monitor,    \* where the monitor is
    seen,       \* the group it waits for
    exited,     \* how often the channel Run.exited has been closed
    crashed     \* history: some process exited that nobody told to

vars == <<ctx, server, build, last, current, previous, proc, interrupted, killed,
          watching, monitor, seen, exited, crashed>>
builders == <<build, last, current, previous>>
processes == <<proc, interrupted, killed, crashed>>
monitors == <<monitor, seen, exited>>

TypeOK ==
    /\ ctx \in {"live", "done"}
    /\ server \in {"start", "running", "failed", "returned"}
    /\ build \in {"idle", "building", "starting", "polling", "swapping", "closing", "closed"}
    /\ {last, current, previous, seen} \subseteq Group \union {0}
    /\ proc \in [Group -> [Proc -> {"new", "failed", "running", "exited", "reaped"}]]
    /\ interrupted \subseteq Group
    /\ killed \subseteq Group \X Proc
    /\ watching \in BOOLEAN
    /\ monitor \in {"none", "load", "waiting", "check", "stopping", "returned"}
    /\ exited \in {0, 1}
    /\ crashed \in BOOLEAN

Init ==
    /\ ctx = "live" /\ server = "start"
    /\ build = "building" /\ last = 0 /\ current = 0 /\ previous = 0
    /\ proc = [g \in Group |-> [p \in Proc |-> "new"]]
    /\ interrupted = {} /\ killed = {} /\ watching = FALSE
    /\ monitor = "none" /\ seen = 0 /\ exited = 0 /\ crashed = FALSE

Alive(g) == {p \in Proc : proc[g][p] = "running"}

\* runningProcs = 0: the channel of ProcGroup.Done is closed.
GroupDone(g) == \A p \in Proc : proc[g][p] \notin {"running", "exited"}

-----------------------------------------------------------------------------
(* buildAndStart, for the first time and in a reload. *)

\* buildAndStart returns an error.  The first time, start closes r.exited and
\* Manager.Start closes the run; a reload reports the error and the run goes on.
Fail ==
    /\ build' = "idle"
    /\ IF server = "start" THEN server' = "failed" /\ exited' = exited + 1
                           ELSE UNCHANGED <<server, exited>>

\* The context is canceled, or the app does not parse or compile, or a
\* configuration or a secret is missing.
BuildFails ==
    /\ build = "building" /\ Fail
    /\ UNCHANGED <<ctx, last, current, previous, processes, watching, monitor, seen>>

BuildSucceeds ==
    /\ build = "building" /\ last < MaxGroup
    /\ build' = "starting" /\ last' = last + 1
    /\ UNCHANGED <<ctx, server, current, previous, processes, watching, monitors>>

\* ProcGroup.Start, process by process.
StartProc(p) ==
    /\ build = "starting" /\ proc[last][p] = "new" /\ ctx = "live"
    /\ proc' = [proc EXCEPT ![last][p] = "running"]
    /\ UNCHANGED <<ctx, server, builders, interrupted, killed, watching, monitors, crashed>>

\* A process does not start, as it never does once ctx is done: Start returns,
\* and leaves the processes started before it running.
StartFails(p) ==
    /\ build = "starting" /\ proc[last][p] = "new"
    /\ proc' = [proc EXCEPT ![last][p] = "failed"]
    /\ Fail
    /\ UNCHANGED <<ctx, last, current, previous, interrupted, killed, watching,
                   monitor, seen, crashed>>

\* All have started; a reload waits until they listen.
Started ==
    /\ build = "starting" /\ \A p \in Proc : proc[last][p] # "new"
    /\ build' = IF server = "start" THEN "swapping" ELSE "polling"
    /\ UNCHANGED <<ctx, server, last, current, previous, processes, watching, monitors>>

\* The gateways listen, or five seconds have passed, or ctx is done: the
\* result of the polling is ignored.
PollReturns ==
    /\ build = "polling"
    /\ build' = "swapping"
    /\ UNCHANGED <<ctx, server, last, current, previous, processes, watching, monitors>>

\* Mutant: the previous group is closed before the new one takes its place.
CloseFirst ==
    \/ /\ build = "swapping" /\ current # 0 /\ current \notin interrupted
       /\ interrupted' = interrupted \union {current}
       /\ UNCHANGED <<ctx, server, builders, proc, killed, watching, monitors, crashed>>
    \/ /\ build = "swapping" /\ (current # 0 => current \in interrupted /\ Alive(current) = {})
       /\ previous' = current /\ current' = last /\ build' = "closing"
       /\ UNCHANGED <<ctx, server, last, processes, watching, monitors>>

\* r.proc.Swap; Close then interrupts the processes of the previous group.
Swap ==
    /\ build = "swapping"
    /\ previous' = current /\ current' = last /\ build' = "closing"
    /\ interrupted' = interrupted \union ({current} \ {0})
    /\ UNCHANGED <<ctx, server, last, proc, killed, watching, monitors, crashed>>

\* Mutant: Close does not wait for the processes.
CloseAtOnce ==
    /\ build = "closing"
    /\ build' = "closed"
    /\ UNCHANGED <<ctx, server, last, current, previous, processes, watching, monitors>>

\* Close has waited for the exit of every process of the previous group.
Closed ==
    /\ build = "closing" /\ (previous # 0 => Alive(previous) = {})
    /\ build' = "closed"
    /\ UNCHANGED <<ctx, server, last, current, previous, processes, watching, monitors>>

-----------------------------------------------------------------------------
(* Server.Run, the file watcher, the monitor. *)

\* The rest of start: the monitor begins.  Manager.Start then subscribes to the
\* files; if that fails it closes the run and returns an error.
StartReturns(ok) ==
    /\ server = "start" /\ build = "closed"
    /\ build' = "idle" /\ watching' = ok /\ monitor' = "load"
    /\ server' = IF ok THEN "running" ELSE "failed"
    /\ UNCHANGED <<ctx, last, current, previous, processes, seen, exited>>

\* Server.Run returns, after an error or after run.Done(); its context ends.
ServerReturns ==
    /\ server = "failed" \/ (server = "running" /\ exited > 0)
    /\ server' = "returned" /\ ctx' = "done"
    /\ UNCHANGED <<builders, processes, watching, monitors>>

\* The user interrupts the client.
ClientLeaves ==
    /\ ctx = "live" /\ ctx' = "done"
    /\ UNCHANGED <<server, builders, processes, watching, monitors>>

\* The files change: Reload.
FilesChange ==
    /\ watching /\ build = "idle" /\ last < MaxGroup
    /\ build' = "building"
    /\ UNCHANGED <<ctx, server, last, current, previous, processes, watching, monitors>>

ReloadReturns ==
    /\ server # "start" /\ build = "closed"
    /\ build' = "idle"
    /\ UNCHANGED <<ctx, server, last, current, previous, processes, watching, monitors>>

Unwatch ==
    /\ watching /\ exited > 0
    /\ watching' = FALSE
    /\ UNCHANGED <<ctx, server, builders, processes, monitors>>

MonitorLoads ==
    /\ monitor = "load"
    /\ monitor' = "waiting" /\ seen' = current
    /\ UNCHANGED <<ctx, server, builders, processes, watching, exited>>

MonitorWakes ==
    /\ monitor = "waiting" /\ GroupDone(seen)
    /\ monitor' = "check"
    /\ UNCHANGED <<ctx, server, builders, processes, watching, seen, exited>>

\* Mutant: the monitor ends after the first reload.
MonitorGivesUp ==
    /\ monitor = "check"
    /\ monitor' = IF current = seen THEN "stopping" ELSE "returned"
    /\ UNCHANGED <<ctx, server, builders, processes, watching, seen, exited>>

\* "p exited, but it could have been a reload."
MonitorChecks ==
    /\ monitor = "check"
    /\ monitor' = IF current = seen THEN "stopping" ELSE "load"
    /\ UNCHANGED <<ctx, server, builders, processes, watching, seen, exited>>

\* OnStop, close(r.exited).
MonitorStops ==
    /\ monitor = "stopping"
    /\ monitor' = "returned" /\ exited' = exited + 1
    /\ UNCHANGED <<ctx, server, builders, processes, watching, seen>>

-----------------------------------------------------------------------------
(* The processes. *)

Told(g, p) == g \in interrupted \/ <<g, p>> \in killed

\* A process exits: because it was told to, or for a reason of its own.
Exit(g, p) ==
    /\ p \in Alive(g)
    /\ proc' = [proc EXCEPT ![g][p] = "exited"]
    /\ crashed' = (crashed \/ ~Told(g, p))
    /\ killed' = killed \ {<<g, p>>}
    /\ UNCHANGED <<ctx, server, builders, interrupted, watching, monitors>>

\* The count goes down under procMu, which Start holds throughout.
Reap(g, p) ==
    /\ proc[g][p] = "exited" /\ ~(build = "starting" /\ g = last)
    /\ proc' = [proc EXCEPT ![g][p] = "reaped"]
    /\ UNCHANGED <<ctx, server, builders, interrupted, killed, watching, monitors, crashed>>

\* The goroutine that StartProcGroup leaves behind when all have started.
CloseOnCancel(g) ==
    /\ ctx = "done" /\ g \notin interrupted /\ Alive(g) # {}
    /\ \A p \in Proc : proc[g][p] \notin {"new", "failed"}
    /\ ~(build = "starting" /\ g = last)
    /\ interrupted' = interrupted \union {g}
    /\ UNCHANGED <<ctx, server, builders, proc, killed, watching, monitors, crashed>>

\* Proc.Close has waited for gracefulShutdownTime.
KillAfterTimeout(g, p) ==
    /\ g \in interrupted /\ p \in Alive(g) /\ <<g, p>> \notin killed
    /\ killed' = killed \union {<<g, p>>}
    /\ UNCHANGED <<ctx, server, builders, proc, interrupted, watching, monitors, crashed>>

\* Mutant: the command is not bound to the context.
NoContext(g, p) ==
    /\ FALSE
    /\ UNCHANGED vars

\* exec.CommandContext kills its process when ctx is done.
KillOnCancel(g, p) ==
    /\ ctx = "done" /\ p \in Alive(g) /\ <<g, p>> \notin killed
    /\ killed' = killed \union {<<g, p>>}
    /\ UNCHANGED <<ctx, server, builders, proc, interrupted, watching, monitors, crashed>>

-----------------------------------------------------------------------------

Builder ==
    \/ BuildFails \/ BuildSucceeds \/ Started \/ PollReturns \/ Swap \/ Closed
    \/ \E p \in Proc : StartProc(p) \/ StartFails(p)
    \/ \E ok \in BOOLEAN : StartReturns(ok)
    \/ ReloadReturns

Monitor == MonitorLoads \/ MonitorWakes \/ MonitorChecks \/ MonitorStops

\* What is done to a process.
Control(g, p) == Reap(g, p) \/ KillAfterTimeout(g, p) \/ KillOnCancel(g, p)

Next ==
    \/ Builder \/ Monitor
    \/ ServerReturns \/ ClientLeaves \/ FilesChange \/ Unwatch
    \/ \E g \in Group : CloseOnCancel(g) \/ \E p \in Proc : Control(g, p) \/ Exit(g, p)

Spec == Init /\ [][Next]_vars

\* The daemon's goroutines run, builds end, timers fire, and a killed process
\* exits.  Nothing is assumed of the other processes, of files or of the client.
FairSpec ==
    /\ Spec
    /\ WF_vars(Builder) /\ WF_vars(Monitor) /\ WF_vars(ServerReturns) /\ WF_vars(Unwatch)
    /\ \A g \in Group : WF_vars(CloseOnCancel(g))
    /\ \A g \in Group, p \in Proc :
          /\ WF_vars(Control(g, p))
          /\ WF_vars(<<g, p>> \in killed /\ Exit(g, p))

-----------------------------------------------------------------------------
(* Properties. *)

\* A start that failed half-way; nobody closes its processes before ctx ends.
Stray(g) == \E p \in Proc : proc[g][p] = "failed"

\* Reloads leave nothing behind: what is alive is the current group, the one
\* being started, the one being closed, or a start that failed half-way.
OldGroupsAreGone ==
    \A g \in Group : Alive(g) # {} =>
        g \in {current, last} \/ (build = "closing" /\ g = previous) \/ Stray(g)

\* A switch from one group to the next is not taken for the end of the run: it
\* ends because some process exited by itself, the client left, or it could not
\* start.
ReloadDoesNotEndRun == exited > 0 => crashed \/ ctx = "done" \/ server \in {"failed", "returned"}

\* When the client is gone, the call returns and every process that was started
\* for it exits, the ones of a failed start and of a late reload included.
NothingOutlivesTheRun ==
    ctx = "done" ~> (server = "returned" /\ \A g \in Group : Alive(g) = {})

\* A run whose processes have all exited is over, unless a reload revives it.
DeadRunIsNoticed ==
    (server = "running" /\ GroupDone(current)) ~> (exited = 1 \/ (current # 0 /\ ~GroupDone(current)))

\* The run is closed at most once, and leaves no process group behind.
GroupsInv == TypeOK /\ OldGroupsAreGone
=============================================================================
