---------------------------- MODULE DevRunProofs ----------------------------
(***************************************************************************)
(* Proofs about module DevRun, for any processes and any number of         *)
(* reloads: no process group is left behind, the run is closed at most     *)
(* once, and a reload does not end it.                                     *)
(***************************************************************************)
EXTENDS DevRun, TLAPS

-----------------------------------------------------------------------------
(* The inductive invariant. *)

\* ProcGroup.Start has returned without an error.
AllStarted(g) == \A p \in Proc : proc[g][p] \notin {"new", "failed"}

\* Run.exited is closed by start, which fails before there is a monitor, or by the
\* monitor, on its way out.
ClosedOnce ==
    /\ server = "start" => exited = 0 /\ monitor = "none"
    /\ monitor \in {"load", "waiting", "check", "stopping"} => exited = 0

\* The current group is the newest one, but while another is being started.
GroupOrder ==
    /\ current <= last
    /\ build \in {"starting", "polling", "swapping"} => current < last
    /\ build \in {"closing", "closed"} => current = last /\ current # 0
    /\ monitor # "none" => current # 0
    /\ monitor \in {"waiting", "check", "stopping"} => seen # 0

\* Which groups have started: the current one, and any that the monitor has seen.  The
\* newest is current between builds, or has failed half-way.
GroupStarts ==
    /\ \A g \in Group : g > last => \A p \in Proc : proc[g][p] = "new"
    /\ build = "starting" => \A p \in Proc : proc[last][p] # "failed"
    /\ build \in {"polling", "swapping"} => AllStarted(last)
    /\ current # 0 => AllStarted(current)
    /\ seen # 0 => AllStarted(seen)
    /\ build \in {"idle", "building"} => last = current \/ (last # 0 /\ Stray(last))

\* While the client is there, only groups older than the current one are told to exit.
WhoIsTold ==
    /\ ctx = "live" => \A g \in interrupted : g < current
    /\ ctx = "live" => \A g \in Group, p \in Proc : <<g, p>> \in killed => g \in interrupted
    /\ ctx = "live" /\ ~crashed =>
          \A g \in Group, p \in Proc : proc[g][p] \in {"exited", "reaped"} => g \in interrupted

\* Why the monitor goes on.
MonitorKnows ==
    /\ monitor = "check" => GroupDone(seen)
    /\ monitor = "stopping" => crashed \/ ctx = "done"

RunInv ==
    /\ TypeOK /\ ClosedOnce /\ GroupOrder /\ GroupStarts /\ WhoIsTold /\ MonitorKnows
    /\ OldGroupsAreGone /\ ReloadDoesNotEndRun

-----------------------------------------------------------------------------
(* What steps do to the processes. *)

\* The step of the process p of group g: it starts or fails to, as the newest group does;
\* it exits; it is reaped; or it does nothing.
ProcStep(g, p) ==
    \/ proc'[g][p] = proc[g][p]
    \/ proc[g][p] = "new" /\ proc'[g][p] = "running" /\ build = "starting" /\ g = last
    \/ proc[g][p] = "new" /\ proc'[g][p] = "failed" /\ build = "starting" /\ g = last /\ build' = "idle"
    \/ proc[g][p] = "running" /\ proc'[g][p] = "exited" /\ crashed' = (crashed \/ ~Told(g, p))
    \/ proc[g][p] = "exited" /\ proc'[g][p] = "reaped"

(* The bound is a number, and groups are numbers. *)
LEMMA GroupsAreNumbers == MaxGroup \in Nat /\ Proc # {} /\ Group = 1 .. MaxGroup /\ 0 \notin Group
  BY DevRunAssumption DEF DevRunAssumption, Group

(* The parts of TypeOK that proofs use most. *)
LEMMA Types ==
  ASSUME TypeOK
  PROVE  /\ last \in Nat /\ current \in Nat /\ previous \in Nat /\ seen \in Nat
         /\ last <= MaxGroup
         /\ \A n \in {last, current, previous, seen} : n # 0 => n \in Group
         /\ DOMAIN proc = Group /\ \A g \in Group : DOMAIN proc[g] = Proc
         /\ \A g \in Group, p \in Proc : proc[g][p] \in {"new", "failed", "running", "exited", "reaped"}
  BY GroupsAreNumbers DEF TypeOK

(* Every step is such a step of each process. *)
LEMMA ProcSteps ==
  ASSUME TypeOK, GroupOrder, [Next]_vars
  PROVE  \A g \in Group, p \in Proc : ProcStep(g, p)
  <1>1. ASSUME UNCHANGED proc PROVE \A g \in Group, p \in Proc : ProcStep(g, p)
    BY <1>1, Zenon DEF ProcStep
  <1>2. ASSUME NEW h \in Group, NEW q \in Proc, NEW v, proc' = [proc EXCEPT ![h][q] = v]
        PROVE  /\ proc'[h][q] = v
               /\ \A g \in Group, p \in Proc : (g # h \/ p # q) => proc'[g][p] = proc[g][p]
    BY <1>2, Types
  <1>3. build = "starting" => last \in Group
    BY Types DEF GroupOrder
  <1>4. ASSUME NEW q \in Proc, StartProc(q) PROVE \A g \in Group, p \in Proc : ProcStep(g, p)
    <2>1. build = "starting" /\ proc[last][q] = "new" /\ proc' = [proc EXCEPT ![last][q] = "running"]
      BY <1>4, Zenon DEF StartProc
    <2>2. /\ proc'[last][q] = "running"
          /\ \A g \in Group, p \in Proc : (g # last \/ p # q) => proc'[g][p] = proc[g][p]
      BY <1>2, <1>3, <2>1
    <2> QED BY <2>1, <2>2, Zenon DEF ProcStep
  <1>5. ASSUME NEW q \in Proc, StartFails(q) PROVE \A g \in Group, p \in Proc : ProcStep(g, p)
    <2>1. build = "starting" /\ proc[last][q] = "new" /\ proc' = [proc EXCEPT ![last][q] = "failed"] /\ build' = "idle"
      BY <1>5, Zenon DEF StartFails, Fail
    <2>2. /\ proc'[last][q] = "failed"
          /\ \A g \in Group, p \in Proc : (g # last \/ p # q) => proc'[g][p] = proc[g][p]
      BY <1>2, <1>3, <2>1
    <2> QED BY <2>1, <2>2, Zenon DEF ProcStep
  <1>6. ASSUME NEW h \in Group, NEW q \in Proc, Exit(h, q) PROVE \A g \in Group, p \in Proc : ProcStep(g, p)
    <2>1. proc[h][q] = "running" /\ proc' = [proc EXCEPT ![h][q] = "exited"] /\ crashed' = (crashed \/ ~Told(h, q))
      BY <1>6, Zenon DEF Exit, Alive
    <2>2. /\ proc'[h][q] = "exited"
          /\ \A g \in Group, p \in Proc : (g # h \/ p # q) => proc'[g][p] = proc[g][p]
      BY <1>2, <2>1
    <2> QED BY <2>1, <2>2, Zenon DEF ProcStep
  <1>7. ASSUME NEW h \in Group, NEW q \in Proc, Reap(h, q) PROVE \A g \in Group, p \in Proc : ProcStep(g, p)
    <2>1. proc[h][q] = "exited" /\ proc' = [proc EXCEPT ![h][q] = "reaped"]
      BY <1>7, Zenon DEF Reap
    <2>2. /\ proc'[h][q] = "reaped"
          /\ \A g \in Group, p \in Proc : (g # h \/ p # q) => proc'[g][p] = proc[g][p]
      BY <1>2, <2>1
    <2> QED BY <2>1, <2>2, Zenon DEF ProcStep
  <1>8. CASE Builder
    <2>1. CASE BuildFails \/ BuildSucceeds \/ Started \/ PollReturns \/ Swap \/ Closed \/ ReloadReturns
               \/ \E ok \in BOOLEAN : StartReturns(ok)
      BY <1>1, <2>1, Zenon DEF BuildFails, BuildSucceeds, Started, PollReturns, Swap, Closed, ReloadReturns,
                               StartReturns, processes
    <2> QED BY <1>4, <1>5, <1>8, <2>1, Zenon DEF Builder
  <1>9. CASE Monitor \/ ServerReturns \/ ClientLeaves \/ FilesChange \/ Unwatch \/ UNCHANGED vars
    BY <1>1, <1>9, Zenon DEF Monitor, MonitorLoads, MonitorWakes, MonitorChecks, MonitorStops, ServerReturns,
                             ClientLeaves, FilesChange, Unwatch, processes, vars
  <1>10. ASSUME NEW g \in Group, CloseOnCancel(g) \/ \E p \in Proc : Control(g, p) \/ Exit(g, p)
         PROVE  \A h \in Group, p \in Proc : ProcStep(h, p)
    <2>1. CASE CloseOnCancel(g)
      BY <1>1, <2>1, Zenon DEF CloseOnCancel
    <2>2. ASSUME NEW p \in Proc, KillAfterTimeout(g, p) \/ KillOnCancel(g, p) PROVE UNCHANGED proc
      BY <2>2, Zenon DEF KillAfterTimeout, KillOnCancel
    <2> QED BY <1>1, <1>6, <1>7, <1>10, <2>1, <2>2, Zenon DEF Control
  <1> QED BY <1>8, <1>9, <1>10, Zenon DEF Next

(* A group that has started, or that nobody has begun to start, stays so; one that has *)
(* failed half-way does too; and nothing comes alive but in the newest group.          *)
LEMMA GroupsKeep ==
  ASSUME TypeOK, GroupOrder, [Next]_vars, NEW g \in Group
  PROVE  /\ AllStarted(g) => AllStarted(g)'
         /\ AllStarted(g) /\ GroupDone(g) => GroupDone(g)'
         /\ Stray(g) => Stray(g)'
         /\ Alive(g)' # {} => Alive(g) # {} \/ (g = last /\ build = "starting")
         /\ g # last \/ build # "starting" => \A p \in Proc : proc[g][p] = "new" => proc'[g][p] = "new"
  <1>1. \A p \in Proc : ProcStep(g, p)
    BY ProcSteps
  <1>2. AllStarted(g) => AllStarted(g)'
    BY <1>1 DEF AllStarted, ProcStep
  <1>3. AllStarted(g) /\ GroupDone(g) => GroupDone(g)'
    BY <1>1 DEF AllStarted, GroupDone, ProcStep
  <1>4. Stray(g) => Stray(g)'
    BY <1>1 DEF Stray, ProcStep
  <1>5. \A p \in Proc : proc'[g][p] = "running" => proc[g][p] = "running" \/ (g = last /\ build = "starting")
    BY <1>1 DEF ProcStep
  <1>6. Alive(g)' # {} => Alive(g) # {} \/ (g = last /\ build = "starting")
    BY <1>5, Zenon DEF Alive
  <1>7. g # last \/ build # "starting" => \A p \in Proc : proc[g][p] = "new" => proc'[g][p] = "new"
    BY <1>1 DEF ProcStep
  <1> QED BY <1>2, <1>3, <1>4, <1>6, <1>7

-----------------------------------------------------------------------------
(* Every step keeps each part of the invariant. *)

\* The steps that neither build, start nor switch.
Others ==
    \/ ServerReturns \/ ClientLeaves \/ Unwatch \/ Monitor
    \/ \E g \in Group : CloseOnCancel(g) \/ \E p \in Proc : Control(g, p) \/ Exit(g, p)

(* Steps are those of the builder and the watcher, and the others. *)
LEMMA NextSteps == Next => Builder \/ FilesChange \/ Others
  BY Zenon DEF Next, Others

(* The others leave the groups as they are, and the server where it is but for its return. *)
LEMMA OthersLeaveGroups ==
  ASSUME Others
  PROVE  UNCHANGED <<build, last, current, previous>>
  BY Zenon DEF Others, ServerReturns, ClientLeaves, Unwatch, Monitor, MonitorLoads, MonitorWakes, MonitorChecks,
         MonitorStops, CloseOnCancel, Control, Reap, KillAfterTimeout, KillOnCancel, Exit, builders

(* Only the monitor, and the return of start, move the monitor. *)
LEMMA MonitorMoves ==
  ASSUME [Next]_vars
  PROVE  UNCHANGED <<monitor, seen>> \/ Monitor \/ \E ok \in BOOLEAN : StartReturns(ok)
  <1>1. CASE Builder
    BY <1>1, Zenon DEF Builder, BuildFails, BuildSucceeds, Started, PollReturns, Swap, Closed, ReloadReturns,
                       StartProc, StartFails, monitors
  <1>2. CASE FilesChange \/ Others \/ UNCHANGED vars
    BY <1>2, Zenon DEF FilesChange, Others, ServerReturns, ClientLeaves, Unwatch, CloseOnCancel, Control, Reap,
                       KillAfterTimeout, KillOnCancel, Exit, monitors, vars
  <1> QED BY <1>1, <1>2, NextSteps, Zenon

(* The channel is closed once. *)
LEMMA ClosedOnceKept ==
  ASSUME ClosedOnce, [Next]_vars
  PROVE  ClosedOnce' /\ (exited \in {0, 1} => exited' \in {0, 1})
  <1>1. ASSUME UNCHANGED <<server, monitor, exited>> PROVE ClosedOnce' /\ (exited \in {0, 1} => exited' \in {0, 1})
    BY <1>1 DEF ClosedOnce
  <1>2. ASSUME Fail, UNCHANGED monitor PROVE ClosedOnce' /\ (exited \in {0, 1} => exited' \in {0, 1})
    BY <1>2 DEF ClosedOnce, Fail
  <1>3. CASE Builder
    <2>1. CASE BuildFails \/ \E p \in Proc : StartFails(p)
      BY <1>2, <2>1, Zenon DEF BuildFails, StartFails
    <2>2. CASE BuildSucceeds \/ Started \/ PollReturns \/ Swap \/ Closed \/ ReloadReturns \/ \E p \in Proc : StartProc(p)
      BY <1>1, <2>2, Zenon DEF BuildSucceeds, Started, PollReturns, Swap, Closed, ReloadReturns, StartProc, monitors
    <2>3. ASSUME NEW ok \in BOOLEAN, StartReturns(ok) PROVE ClosedOnce' /\ (exited \in {0, 1} => exited' \in {0, 1})
      <3>1. server = "start" /\ monitor' = "load" /\ server' # "start" /\ exited' = exited
        BY <2>3 DEF StartReturns
      <3> QED BY <3>1 DEF ClosedOnce
    <2> QED BY <1>3, <2>1, <2>2, <2>3, Zenon DEF Builder
  <1>4. CASE Monitor
    BY <1>4 DEF Monitor, MonitorLoads, MonitorWakes, MonitorChecks, MonitorStops, ClosedOnce
  <1>5. CASE ServerReturns
    BY <1>5 DEF ServerReturns, ClosedOnce, monitors
  <1>6. CASE FilesChange \/ ClientLeaves \/ Unwatch \/ UNCHANGED vars
    BY <1>1, <1>6, Zenon DEF FilesChange, ClientLeaves, Unwatch, monitors, vars
  <1>7. ASSUME NEW g \in Group, CloseOnCancel(g) \/ \E p \in Proc : Control(g, p) \/ Exit(g, p)
        PROVE  ClosedOnce' /\ (exited \in {0, 1} => exited' \in {0, 1})
    BY <1>1, <1>7, Zenon DEF CloseOnCancel, Control, Reap, KillAfterTimeout, KillOnCancel, Exit, monitors
  <1> QED BY <1>3, <1>4, <1>5, <1>6, <1>7, Zenon DEF Next

(* Groups stay in order. *)
LEMMA GroupOrderKept ==
  ASSUME TypeOK, GroupOrder, [Next]_vars
  PROVE  GroupOrder' /\ {last', current', previous', seen'} \subseteq Group \union {0}
  <1>1. last \in Nat /\ current \in Nat /\ last <= MaxGroup /\ {last, current, previous, seen} \subseteq Group \union {0}
    BY Types DEF TypeOK
  <1>2. CASE UNCHANGED <<build, last, current, previous, monitor, seen>>
    BY <1>1, <1>2 DEF GroupOrder
  <1>3. CASE Monitor
    <2>1. UNCHANGED <<build, last, current, previous>>
      BY <1>3, OthersLeaveGroups, Zenon DEF Others
    <2>2. CASE MonitorLoads
      BY <1>1, <2>1, <2>2 DEF MonitorLoads, GroupOrder
    <2>3. CASE MonitorWakes \/ MonitorChecks \/ MonitorStops
      BY <1>1, <2>1, <2>3 DEF MonitorWakes, MonitorChecks, MonitorStops, GroupOrder
    <2> QED BY <1>3, <2>2, <2>3 DEF Monitor
  <1>4. CASE Others /\ ~Monitor
    BY <1>2, <1>4, OthersLeaveGroups, Zenon DEF Others, ServerReturns, ClientLeaves, Unwatch, CloseOnCancel, Control,
              Reap, KillAfterTimeout, KillOnCancel, Exit, monitors
  <1>5. CASE FilesChange
    BY <1>1, <1>5 DEF FilesChange, GroupOrder, monitors
  <1>6. CASE Builder
    <2>1. CASE BuildFails \/ \E p \in Proc : StartFails(p)
      <3>1. build' = "idle" /\ UNCHANGED <<last, current, previous, monitor, seen>>
        BY <2>1, Zenon DEF BuildFails, StartFails, Fail
      <3> QED BY <1>1, <3>1 DEF GroupOrder
    <2>2. CASE BuildSucceeds
      <3>1. last < MaxGroup /\ build' = "starting" /\ last' = last + 1 /\ UNCHANGED <<current, previous, monitor, seen>>
        BY <2>2, Zenon DEF BuildSucceeds, monitors
      <3>2. last' \in Group /\ current < last'
        BY <1>1, <3>1, GroupsAreNumbers DEF GroupOrder
      <3> QED BY <1>1, <3>1, <3>2 DEF GroupOrder
    <2>3. CASE Started \/ PollReturns
      <3>1. build \in {"starting", "polling"} /\ build' \in {"swapping", "polling"}
            /\ UNCHANGED <<last, current, previous, monitor, seen>>
        BY <2>3 DEF Started, PollReturns, monitors
      <3> QED BY <1>1, <3>1 DEF GroupOrder
    <2>4. CASE Swap
      <3>1. build = "swapping" /\ previous' = current /\ current' = last /\ build' = "closing" /\ last' = last
            /\ UNCHANGED <<monitor, seen>>
        BY <2>4, Zenon DEF Swap, monitors
      <3>2. last # 0
        BY <1>1, <3>1 DEF GroupOrder
      <3> QED BY <1>1, <3>1, <3>2 DEF GroupOrder
    <2>5. CASE Closed \/ ReloadReturns
      <3>1. build \in {"closing", "closed"} /\ build' \in {"closed", "idle"}
            /\ UNCHANGED <<last, current, previous, monitor, seen>>
        BY <2>5 DEF Closed, ReloadReturns, monitors
      <3> QED BY <1>1, <3>1 DEF GroupOrder
    <2>6. CASE \E ok \in BOOLEAN : StartReturns(ok)
      <3>1. build = "closed" /\ build' = "idle" /\ monitor' = "load" /\ UNCHANGED <<last, current, previous, seen>>
        BY <2>6, Zenon DEF StartReturns
      <3> QED BY <1>1, <3>1 DEF GroupOrder
    <2>7. CASE \E p \in Proc : StartProc(p)
      BY <1>2, <2>7, Zenon DEF StartProc, builders, monitors
    <2> QED BY <1>6, <2>1, <2>2, <2>3, <2>4, <2>5, <2>6, <2>7, Zenon DEF Builder
  <1>7. CASE UNCHANGED vars
    BY <1>2, <1>7, Zenon DEF vars
  <1> QED BY <1>3, <1>4, <1>5, <1>6, <1>7, NextSteps, Zenon

(* Types are kept. *)
LEMMA TypeOKKept ==
  ASSUME TypeOK, ClosedOnce, GroupOrder, [Next]_vars
  PROVE  TypeOK'
  <1>1. {last', current', previous', seen'} \subseteq Group \union {0}
    BY GroupOrderKept
  <1>2. exited' \in {0, 1}
    BY ClosedOnceKept DEF TypeOK
  <1>3. build = "starting" => last \in Group
    BY Types DEF GroupOrder
  <1>4. proc' \in [Group -> [Proc -> {"new", "failed", "running", "exited", "reaped"}]]
    <2>1. UNCHANGED proc
          \/ \E g \in Group, p \in Proc : \E v \in {"running", "failed", "exited", "reaped"} : proc' = [proc EXCEPT ![g][p] = v]
      <3>1. CASE Builder
        BY <1>3, <3>1 DEF Builder, BuildFails, BuildSucceeds, Started, PollReturns, Swap, Closed, ReloadReturns,
                          StartProc, StartFails, StartReturns, processes
      <3>2. CASE FilesChange \/ Others \/ UNCHANGED vars
        BY <3>2, Zenon DEF FilesChange, Others, ServerReturns, ClientLeaves, Unwatch, CloseOnCancel, Control, Reap,
                  KillAfterTimeout, KillOnCancel, Exit, Monitor, MonitorLoads, MonitorWakes, MonitorChecks,
                  MonitorStops, processes, vars
      <3> QED BY <3>1, <3>2, NextSteps, Zenon
    <2> QED BY <2>1 DEF TypeOK
  <1>5. crashed' \in BOOLEAN /\ watching' \in BOOLEAN
    <2>1. CASE Builder
      BY <2>1, Zenon DEF Builder, BuildFails, BuildSucceeds, Started, PollReturns, Swap, Closed, ReloadReturns,
                  StartProc, StartFails, StartReturns, processes, TypeOK
    <2>2. CASE FilesChange \/ Others \/ UNCHANGED vars
      BY <2>2, Zenon DEF FilesChange, Others, ServerReturns, ClientLeaves, Unwatch, CloseOnCancel, Control, Reap,
                  KillAfterTimeout, KillOnCancel, Exit, Monitor, MonitorLoads, MonitorWakes, MonitorChecks,
                  MonitorStops, processes, vars, TypeOK
    <2> QED BY <2>1, <2>2, NextSteps, Zenon
  <1>6. /\ ctx' \in {"live", "done"}
        /\ server' \in {"start", "running", "failed", "returned"}
        /\ build' \in {"idle", "building", "starting", "polling", "swapping", "closing", "closed"}
        /\ monitor' \in {"none", "load", "waiting", "check", "stopping", "returned"}
    <2>1. CASE Builder
      <3>1. CASE BuildFails \/ \E p \in Proc : StartFails(p)
        <4>1. Fail /\ UNCHANGED <<ctx, monitor>>
          BY <3>1, Zenon DEF BuildFails, StartFails
        <4> QED BY <4>1 DEF Fail, TypeOK
      <3>2. CASE BuildSucceeds \/ Started \/ PollReturns \/ Swap \/ Closed \/ ReloadReturns \/ \E p \in Proc : StartProc(p)
        BY <3>2 DEF BuildSucceeds, Started, PollReturns, Swap, Closed, ReloadReturns, StartProc,
                    builders, monitors, TypeOK
      <3>3. CASE \E ok \in BOOLEAN : StartReturns(ok)
        BY <3>3 DEF StartReturns, TypeOK
      <3> QED BY <2>1, <3>1, <3>2, <3>3, Zenon DEF Builder
    <2>2. CASE FilesChange \/ Others \/ UNCHANGED vars
      BY <2>2 DEF FilesChange, Others, ServerReturns, ClientLeaves, Unwatch, CloseOnCancel, Control, Reap,
                  KillAfterTimeout, KillOnCancel, Exit, Monitor, MonitorLoads, MonitorWakes, MonitorChecks,
                  MonitorStops, builders, monitors, vars, TypeOK
    <2> QED BY <2>1, <2>2, NextSteps, Zenon
  <1>7. interrupted' \subseteq Group /\ killed' \subseteq Group \X Proc
    <2>1. CASE Builder
      BY <2>1 DEF Builder, BuildFails, BuildSucceeds, Started, PollReturns, Swap, Closed, ReloadReturns,
                  StartProc, StartFails, StartReturns, processes, TypeOK
    <2>2. CASE FilesChange \/ Others \/ UNCHANGED vars
      <3>1. CASE FilesChange \/ ServerReturns \/ ClientLeaves \/ Unwatch \/ Monitor \/ UNCHANGED vars
        <4>1. UNCHANGED <<interrupted, killed>>
          BY <3>1, Zenon DEF FilesChange, ServerReturns, ClientLeaves, Unwatch, Monitor, MonitorLoads, MonitorWakes,
                             MonitorChecks, MonitorStops, processes, vars
        <4> QED BY <4>1 DEF TypeOK
      <3>2. ASSUME NEW g \in Group, CloseOnCancel(g) \/ \E p \in Proc : Control(g, p) \/ Exit(g, p)
            PROVE  interrupted' \subseteq Group /\ killed' \subseteq Group \X Proc
        <4>1. interrupted' \in {interrupted, interrupted \union {g}}
          BY <3>2 DEF CloseOnCancel, Control, Reap, KillAfterTimeout, KillOnCancel, Exit
        <4>2. \E p \in Proc : killed' \in {killed, killed \union {<<g, p>>}, killed \ {<<g, p>>}}
          BY <3>2, GroupsAreNumbers DEF CloseOnCancel, Control, Reap, KillAfterTimeout, KillOnCancel, Exit
        <4> QED BY <4>1, <4>2 DEF TypeOK
      <3> QED BY <2>2, <3>1, <3>2, Zenon DEF Others
    <2> QED BY <2>1, <2>2, NextSteps, Zenon
  <1> QED BY <1>1, <1>2, <1>4, <1>5, <1>6, <1>7, Zenon DEF TypeOK

(* Groups that have started stay so, and the newest one is current or has failed. *)
LEMMA GroupStartsKept ==
  ASSUME TypeOK, GroupOrder, GroupStarts, [Next]_vars
  PROVE  GroupStarts'
  <1>1. /\ last \in Nat /\ current \in Nat /\ seen \in Nat /\ last <= MaxGroup
        /\ \A n \in {last, current, previous, seen} : n # 0 => n \in Group
    BY Types
  <1>2. \A g \in Group : AllStarted(g) => AllStarted(g)'
    BY GroupsKeep
  <1>3. \A g \in Group : Stray(g) => Stray(g)'
    BY GroupsKeep
  <1>4. \A g \in Group : g # last \/ build # "starting" => \A p \in Proc : proc[g][p] = "new" => proc'[g][p] = "new"
    BY GroupsKeep
  <1>5. last' \in Nat /\ last' >= last
    <2>1. CASE Builder
      BY <1>1, <2>1 DEF Builder, BuildFails, BuildSucceeds, Started, PollReturns, Swap, Closed, ReloadReturns,
                  StartProc, StartFails, StartReturns, builders
    <2>2. CASE FilesChange \/ UNCHANGED vars
      BY <1>1, <2>2 DEF FilesChange, vars
    <2>3. CASE Others
      BY <1>1, <2>3, OthersLeaveGroups
    <2> QED BY <2>1, <2>2, <2>3, NextSteps, Zenon
  <1>6. \A g \in Group : g > last' => \A p \in Proc : proc'[g][p] = "new"
    <2> SUFFICES ASSUME NEW g \in Group, g > last', NEW p \in Proc PROVE proc'[g][p] = "new"
      OBVIOUS
    <2>1. g > last /\ g # last
      BY <1>1, <1>5, GroupsAreNumbers
    <2>2. proc[g][p] = "new"
      BY <2>1, Zenon DEF GroupStarts
    <2> QED BY <1>4, <2>1, <2>2, Zenon
  <1>7. seen' # 0 => AllStarted(seen)'
    <2>1. CASE UNCHANGED seen
      <3>1. SUFFICES ASSUME seen # 0 PROVE AllStarted(seen)'
        BY <2>1
      <3>2. seen \in Group /\ AllStarted(seen)
        BY <1>1, <3>1, Zenon DEF GroupStarts
      <3> QED BY <1>2, <2>1, <3>2, Zenon DEF AllStarted
    <2>2. CASE seen' = current
      <3>1. SUFFICES ASSUME current # 0 PROVE AllStarted(seen)'
        BY <2>2
      <3>2. current \in Group /\ AllStarted(current)
        BY <1>1, <3>1, Zenon DEF GroupStarts
      <3>3. \A p \in Proc : proc'[current][p] \notin {"new", "failed"}
        BY <1>2, <3>2, Zenon DEF AllStarted
      <3> QED BY <2>2, <3>3, Zenon DEF AllStarted
    <2>3. seen' = seen \/ seen' = current
      BY MonitorMoves, Zenon DEF Monitor, MonitorLoads, MonitorWakes, MonitorChecks, MonitorStops, StartReturns
    <2> QED BY <2>1, <2>2, <2>3
  <1>8. ASSUME UNCHANGED current PROVE current' # 0 => AllStarted(current)'
    <2>1. SUFFICES ASSUME current # 0 PROVE AllStarted(current)'
      BY <1>8
    <2>2. current \in Group /\ AllStarted(current)
      BY <1>1, <2>1, Zenon DEF GroupStarts
    <2> QED BY <1>2, <1>8, <2>2, Zenon DEF AllStarted
  <1>9. ASSUME UNCHANGED <<last, current>>, build' \in {"idle", "building"}, last = current \/ (last # 0 /\ Stray(last))
        PROVE  last' = current' \/ (last' # 0 /\ Stray(last)')
    <2>1. last # 0 /\ Stray(last) => Stray(last)'
      BY <1>1, <1>3, <1>9, Zenon DEF Stray
    <2> QED BY <1>9, <2>1
  <1>10. ASSUME last' = last, AllStarted(last), last # 0 PROVE AllStarted(last)'
    BY <1>1, <1>2, <1>10, Zenon DEF AllStarted
  <1>11. ASSUME UNCHANGED <<build, last, current>>, UNCHANGED proc \/ build # "starting" PROVE GroupStarts'
    <2>1. build' = "starting" => \A p \in Proc : proc'[last'][p] # "failed"
      BY <1>11, Zenon DEF GroupStarts
    <2>2. build' \in {"polling", "swapping"} => AllStarted(last)'
      <3>1. build \in {"polling", "swapping"} => last # 0 /\ AllStarted(last)
        BY <1>1 DEF GroupStarts, GroupOrder
      <3> QED BY <1>10, <1>11, <3>1
    <2>3. build' \in {"idle", "building"} => last' = current' \/ (last' # 0 /\ Stray(last)')
      <3>1. build \in {"idle", "building"} => last = current \/ (last # 0 /\ Stray(last))
        BY Zenon DEF GroupStarts
      <3> QED BY <1>9, <1>11, <3>1
    <2> QED BY <1>6, <1>7, <1>8, <1>11, <2>1, <2>2, <2>3, Zenon DEF GroupStarts
  <1>12. CASE Others
    <2>1. UNCHANGED <<build, last, current>>
      BY <1>12, OthersLeaveGroups
    <2>2. CASE build = "starting"
      <3>1. last \in Group
        BY <1>1, <2>2 DEF GroupOrder
      <3>2. \A p \in Proc : proc'[last][p] # "failed"
        <4>1. \A p \in Proc : ProcStep(last, p) /\ proc[last][p] # "failed" /\ build' # "idle"
          BY <2>1, <2>2, <3>1, ProcSteps DEF GroupStarts
        <4> QED BY <4>1 DEF ProcStep
      <3> QED BY <1>6, <1>7, <1>8, <2>1, <2>2, <3>2 DEF GroupStarts
    <2>3. CASE build # "starting"
      BY <1>11, <2>1, <2>3
    <2> QED BY <2>2, <2>3
  <1>13. CASE FilesChange
    <2>1. build = "idle" /\ build' = "building" /\ UNCHANGED <<last, current, proc>>
      BY <1>13, Zenon DEF FilesChange, processes
    <2>2. last' = current' \/ (last' # 0 /\ Stray(last)')
      BY <1>9, <2>1 DEF GroupStarts
    <2> QED BY <1>6, <1>7, <1>8, <2>1, <2>2 DEF GroupStarts
  <1>14. CASE Builder
    <2>1. CASE BuildFails
      <3>1. build = "building" /\ build' = "idle" /\ UNCHANGED <<last, current, proc>>
        BY <2>1, Zenon DEF BuildFails, Fail, processes
      <3>2. last' = current' \/ (last' # 0 /\ Stray(last)')
        BY <1>9, <3>1 DEF GroupStarts
      <3> QED BY <1>6, <1>7, <1>8, <3>1, <3>2 DEF GroupStarts
    <2>2. CASE BuildSucceeds
      <3>1. build' = "starting" /\ last' = last + 1 /\ last < MaxGroup /\ UNCHANGED <<current, proc>>
        BY <2>2, Zenon DEF BuildSucceeds, processes
      <3>2. last' \in Group /\ last' > last
        BY <1>1, <3>1, GroupsAreNumbers
      <3>3. \A p \in Proc : proc'[last'][p] # "failed"
        BY <3>1, <3>2 DEF GroupStarts
      <3> QED BY <1>6, <1>7, <1>8, <3>1, <3>3 DEF GroupStarts
    <2>3. ASSUME NEW q \in Proc, StartProc(q) PROVE GroupStarts'
      <3>1. build = "starting" /\ build' = "starting" /\ UNCHANGED <<last, current>>
        BY <2>3, Zenon DEF StartProc, builders
      <3>2. last \in Group
        BY <1>1, <3>1 DEF GroupOrder
      <3>3. \A p \in Proc : ProcStep(last, p) /\ proc[last][p] # "failed"
        BY <3>1, <3>2, ProcSteps DEF GroupStarts
      <3>4. \A p \in Proc : proc'[last'][p] # "failed"
        BY <3>1, <3>3 DEF ProcStep
      <3> QED BY <1>6, <1>7, <1>8, <3>1, <3>4 DEF GroupStarts
    <2>4. ASSUME NEW q \in Proc, StartFails(q) PROVE GroupStarts'
      <3>1. /\ build = "starting" /\ build' = "idle" /\ UNCHANGED <<last, current>>
            /\ proc' = [proc EXCEPT ![last][q] = "failed"]
        BY <2>4, Zenon DEF StartFails, Fail
      <3>2. last \in Group /\ last # 0
        BY <1>1, <3>1 DEF GroupOrder
      <3>3. proc'[last][q] = "failed"
        BY <3>1, <3>2, Types
      <3>4. last' # 0 /\ Stray(last)'
        BY <3>1, <3>2, <3>3, Zenon DEF Stray
      <3> QED BY <1>6, <1>7, <1>8, <3>1, <3>4 DEF GroupStarts
    <2>5. CASE Started
      <3>1. /\ build = "starting" /\ build' \in {"swapping", "polling"} /\ UNCHANGED <<last, current, proc>>
            /\ \A p \in Proc : proc[last][p] # "new"
        BY <2>5 DEF Started, processes
      <3>2. AllStarted(last)'
        BY <3>1 DEF AllStarted, GroupStarts
      <3> QED BY <1>6, <1>7, <1>8, <3>1, <3>2 DEF GroupStarts
    <2>6. CASE PollReturns
      <3>1. build = "polling" /\ build' = "swapping" /\ UNCHANGED <<last, current, proc>>
        BY <2>6, Zenon DEF PollReturns, processes
      <3>2. AllStarted(last)'
        BY <3>1 DEF AllStarted, GroupStarts
      <3> QED BY <1>6, <1>7, <1>8, <3>1, <3>2 DEF GroupStarts
    <2>7. CASE Swap
      <3>1. build = "swapping" /\ build' = "closing" /\ current' = last /\ UNCHANGED <<last, proc>>
        BY <2>7, Zenon DEF Swap
      <3>2. AllStarted(current)'
        BY <3>1 DEF AllStarted, GroupStarts
      <3> QED BY <1>6, <1>7, <3>1, <3>2 DEF GroupStarts
    <2>8. CASE Closed \/ ReloadReturns \/ \E ok \in BOOLEAN : StartReturns(ok)
      <3>1. build \in {"closing", "closed"} /\ build' \in {"closed", "idle"} /\ UNCHANGED <<last, current, proc>>
        BY <2>8 DEF Closed, ReloadReturns, StartReturns, processes
      <3>2. last' = current'
        BY <3>1 DEF GroupOrder
      <3> QED BY <1>6, <1>7, <1>8, <3>1, <3>2 DEF GroupStarts
    <2> QED BY <1>14, <2>1, <2>2, <2>3, <2>4, <2>5, <2>6, <2>7, <2>8, Zenon DEF Builder
  <1>15. CASE UNCHANGED vars
    BY <1>11, <1>15, Zenon DEF vars
  <1> QED BY <1>12, <1>13, <1>14, <1>15, NextSteps, Zenon

(* While the client is there, a group is told to exit only when another has taken its place. *)
LEMMA WhoIsToldKept ==
  ASSUME TypeOK, GroupOrder, WhoIsTold, [Next]_vars
  PROVE  WhoIsTold'
  <1>1. /\ last \in Nat /\ current \in Nat /\ DOMAIN proc = Group
        /\ interrupted \subseteq Group /\ \A g \in Group : g \in Nat
    BY Types, GroupsAreNumbers DEF TypeOK
  <1>2. ctx' = "live" => ctx = "live"
    <2>1. CASE Builder
      BY <2>1, Zenon DEF Builder, BuildFails, BuildSucceeds, Started, PollReturns, Swap, Closed, ReloadReturns,
                  StartProc, StartFails, StartReturns
    <2>2. CASE FilesChange \/ Others \/ UNCHANGED vars
      BY <2>2 DEF FilesChange, Others, ServerReturns, ClientLeaves, Unwatch, CloseOnCancel, Control, Reap,
                  KillAfterTimeout, KillOnCancel, Exit, Monitor, MonitorLoads, MonitorWakes, MonitorChecks,
                  MonitorStops, vars
    <2> QED BY <2>1, <2>2, NextSteps, Zenon
  <1>3. (crashed => crashed') /\ interrupted \subseteq interrupted'
    <2>1. crashed => crashed'
      <3>1. CASE Builder
        BY <3>1, Zenon DEF Builder, BuildFails, BuildSucceeds, Started, PollReturns, Swap, Closed, ReloadReturns,
                    StartProc, StartFails, StartReturns, processes
      <3>2. CASE FilesChange \/ Others \/ UNCHANGED vars
        BY <3>2, Zenon DEF FilesChange, Others, ServerReturns, ClientLeaves, Unwatch, CloseOnCancel, Control, Reap,
                    KillAfterTimeout, KillOnCancel, Exit, Monitor, MonitorLoads, MonitorWakes, MonitorChecks,
                    MonitorStops, processes, vars
      <3> QED BY <3>1, <3>2, NextSteps, Zenon
    <2>2. UNCHANGED interrupted \/ Swap \/ \E g \in Group : CloseOnCancel(g)
      <3>1. CASE Builder
        BY <3>1, Zenon DEF Builder, BuildFails, BuildSucceeds, Started, PollReturns, Closed, ReloadReturns,
                    StartProc, StartFails, StartReturns, processes
      <3>2. CASE FilesChange \/ Others \/ UNCHANGED vars
        BY <3>2, Zenon DEF FilesChange, Others, ServerReturns, ClientLeaves, Unwatch, Control, Reap,
                    KillAfterTimeout, KillOnCancel, Exit, Monitor, MonitorLoads, MonitorWakes, MonitorChecks,
                    MonitorStops, processes, vars
      <3> QED BY <3>1, <3>2, NextSteps, Zenon
    <2>3. Swap \/ (\E g \in Group : CloseOnCancel(g)) => interrupted \subseteq interrupted'
      BY DEF Swap, CloseOnCancel
    <2> QED BY <2>1, <2>2, <2>3, Zenon
  <1>4. ctx' = "live" => \A g \in interrupted' : g < current'
    <2>1. CASE Swap
      <3>1. build = "swapping" /\ current' = last /\ interrupted' = interrupted \union ({current} \ {0})
        BY <2>1, Zenon DEF Swap
      <3>2. current < last
        BY <3>1 DEF GroupOrder
      <3>3. ctx = "live" => \A g \in interrupted : g < current
        BY Zenon DEF WhoIsTold
      <3> QED BY <1>1, <1>2, <3>1, <3>2, <3>3
    <2>2. CASE ~Swap
      <3>1. current' = current
        <4>1. CASE Builder
          BY <2>2, <4>1, Zenon DEF Builder, BuildFails, BuildSucceeds, Started, PollReturns, Closed, ReloadReturns,
                  StartProc, StartFails, StartReturns, builders
        <4>2. CASE FilesChange \/ UNCHANGED vars
          BY <4>2, Zenon DEF FilesChange, vars
        <4> QED BY <4>1, <4>2, NextSteps, OthersLeaveGroups, Zenon
      <3>2. ctx = "live" => interrupted' = interrupted
        <4>1. CASE Builder
          BY <2>2, <4>1, Zenon DEF Builder, BuildFails, BuildSucceeds, Started, PollReturns, Closed, ReloadReturns,
                  StartProc, StartFails, StartReturns, processes
        <4>2. CASE FilesChange \/ Others \/ UNCHANGED vars
          BY <4>2 DEF FilesChange, Others, ServerReturns, ClientLeaves, Unwatch, CloseOnCancel, Control, Reap,
                  KillAfterTimeout, KillOnCancel, Exit, Monitor, MonitorLoads, MonitorWakes, MonitorChecks,
                  MonitorStops, processes, vars
        <4> QED BY <4>1, <4>2, NextSteps, Zenon
      <3> QED BY <1>2, <3>1, <3>2, Zenon DEF WhoIsTold
    <2> QED BY <2>1, <2>2
  <1>5. ctx' = "live" => \A g \in Group, p \in Proc : <<g, p>> \in killed' => g \in interrupted'
    <2>1. ctx = "live" => \A g \in Group, p \in Proc : <<g, p>> \in killed' => <<g, p>> \in killed \/ g \in interrupted
      <3>1. CASE Builder
        BY <3>1, Zenon DEF Builder, BuildFails, BuildSucceeds, Started, PollReturns, Swap, Closed, ReloadReturns,
                  StartProc, StartFails, StartReturns, processes
      <3>2. CASE \E g \in Group, p \in Proc : KillAfterTimeout(g, p)
        BY <3>2 DEF KillAfterTimeout
      <3>3. CASE \E g \in Group, p \in Proc : Exit(g, p)
        BY <3>3 DEF Exit
      <3>4. CASE \E g \in Group, p \in Proc : KillOnCancel(g, p)
        BY <3>4 DEF KillOnCancel
      <3>5. CASE UNCHANGED killed
        BY <3>5
      <3>6. CASE FilesChange \/ UNCHANGED vars \/ (Others /\ ~\E g \in Group, p \in Proc :
                     KillAfterTimeout(g, p) \/ Exit(g, p) \/ KillOnCancel(g, p))
        BY <3>5, <3>6, Zenon DEF FilesChange, Others, ServerReturns, ClientLeaves, Unwatch, CloseOnCancel, Control, Reap,
                  Monitor, MonitorLoads, MonitorWakes, MonitorChecks, MonitorStops, processes, vars
      <3> QED BY <3>1, <3>2, <3>3, <3>4, <3>6, NextSteps, Zenon
    <2> QED BY <1>2, <1>3, <2>1 DEF WhoIsTold
  <1>6. ctx' = "live" /\ ~crashed' =>
            \A g \in Group, p \in Proc : proc'[g][p] \in {"exited", "reaped"} => g \in interrupted'
    <2> SUFFICES ASSUME ctx' = "live", ~crashed', NEW g \in Group, NEW p \in Proc, proc'[g][p] \in {"exited", "reaped"}
                 PROVE  g \in interrupted'
      BY Zenon
    <2>1. ctx = "live" /\ ~crashed
      BY <1>2, <1>3, Zenon
    <2>2. ProcStep(g, p)
      BY ProcSteps
    <2>3. CASE proc[g][p] \in {"exited", "reaped"}
      BY <1>3, <2>1, <2>3, Zenon DEF WhoIsTold
    <2>4. CASE proc[g][p] \notin {"exited", "reaped"}
      <3>1. crashed' = (crashed \/ ~Told(g, p))
        BY <2>2, <2>4, Zenon DEF ProcStep
      <3>2. Told(g, p)
        BY <3>1, Zenon
      <3> QED BY <1>3, <2>1, <3>2, Zenon DEF Told, WhoIsTold
    <2> QED BY <2>3, <2>4
  <1> QED BY <1>4, <1>5, <1>6, Zenon DEF WhoIsTold

(* The monitor stops only when a process exited by itself, or the client left. *)
LEMMA MonitorKnowsKept ==
  ASSUME TypeOK, GroupOrder, GroupStarts, WhoIsTold, MonitorKnows, [Next]_vars
  PROVE  MonitorKnows' /\ (crashed \/ ctx = "done" => crashed' \/ ctx' = "done")
  <1>1. crashed \/ ctx = "done" => crashed' \/ ctx' = "done"
    <2>1. CASE Builder
      BY <2>1, Zenon DEF Builder, BuildFails, BuildSucceeds, Started, PollReturns, Swap, Closed, ReloadReturns,
                  StartProc, StartFails, StartReturns, processes
    <2>2. CASE FilesChange \/ Others \/ UNCHANGED vars
      BY <2>2, Zenon DEF FilesChange, Others, ServerReturns, ClientLeaves, Unwatch, CloseOnCancel, Control, Reap,
                  KillAfterTimeout, KillOnCancel, Exit, Monitor, MonitorLoads, MonitorWakes, MonitorChecks,
                  MonitorStops, processes, vars
    <2> QED BY <2>1, <2>2, NextSteps, Zenon
  <1>2. CASE UNCHANGED <<monitor, seen>>
    <2>1. monitor = "check" => seen \in Group /\ AllStarted(seen) /\ GroupDone(seen)
      <3>1. monitor = "check" => seen # 0 /\ GroupDone(seen)
        BY DEF GroupOrder, MonitorKnows
      <3> QED BY <3>1, Types DEF GroupStarts
    <2>2. monitor = "check" => GroupDone(seen)'
      <3>1. ASSUME monitor = "check" PROVE \A p \in Proc : proc'[seen][p] \notin {"running", "exited"}
        BY <2>1, <3>1, GroupsKeep, Zenon DEF GroupDone
      <3> QED BY <1>2, <3>1, Zenon DEF GroupDone
    <2> QED BY <1>1, <1>2, <2>2, Zenon DEF MonitorKnows
  <1>3. CASE Monitor
    <2>1. CASE MonitorLoads \/ MonitorStops
      <3>1. monitor' \in {"waiting", "returned"}
        BY <2>1 DEF MonitorLoads, MonitorStops
      <3> QED BY <1>1, <3>1 DEF MonitorKnows
    <2>2. CASE MonitorWakes
      <3>1. GroupDone(seen) /\ monitor' = "check" /\ UNCHANGED <<seen, proc>>
        BY <2>2, Zenon DEF MonitorWakes, processes
      <3>2. GroupDone(seen)'
        BY <3>1 DEF GroupDone
      <3> QED BY <1>1, <3>1, <3>2 DEF MonitorKnows
    <2>3. CASE MonitorChecks
      <3>1. monitor = "check" /\ monitor' = (IF current = seen THEN "stopping" ELSE "load")
        BY <2>3, Zenon DEF MonitorChecks
      <3>2. GroupDone(seen) /\ seen \in Group /\ AllStarted(seen)
        <4>1. seen # 0 /\ GroupDone(seen)
          BY <3>1 DEF GroupOrder, MonitorKnows
        <4> QED BY <4>1, Types DEF GroupStarts
      <3>3. PICK p \in Proc : proc[seen][p] = "reaped"
        <4>1. PICK p \in Proc : TRUE
          BY GroupsAreNumbers
        <4>2. proc[seen][p] = "reaped"
          BY <3>2, <4>1, Types DEF GroupDone, AllStarted
        <4> QED BY <4>2
      <3>4. current = seen => crashed \/ ctx = "done"
        <4>1. ctx = "live" /\ ~crashed => seen \in interrupted
          BY <3>2, <3>3 DEF WhoIsTold
        <4>2. ctx = "live" /\ ~crashed => seen < current
          BY <4>1, Zenon DEF WhoIsTold
        <4>3. ctx \in {"live", "done"} /\ ~(seen < seen)
          BY Types DEF TypeOK
        <4> QED BY <4>2, <4>3
      <3>5. monitor' # "check" /\ (monitor' = "stopping" => crashed' \/ ctx' = "done")
        BY <1>1, <3>1, <3>4
      <3> QED BY <1>1, <3>5, Zenon DEF MonitorKnows
    <2> QED BY <1>3, <2>1, <2>2, <2>3, Zenon DEF Monitor
  <1>4. CASE \E ok \in BOOLEAN : StartReturns(ok)
    <2>1. monitor' = "load"
      BY <1>4, Zenon DEF StartReturns
    <2> QED BY <1>1, <2>1 DEF MonitorKnows
  <1> QED BY <1>2, <1>3, <1>4, MonitorMoves, Zenon

(* What is alive is current, newest, being closed, or of a start that failed. *)
LEMMA OldGroupsKept ==
  ASSUME TypeOK, GroupOrder, GroupStarts, OldGroupsAreGone, [Next]_vars
  PROVE  OldGroupsAreGone'
  <1>1. SUFFICES ASSUME NEW g \in Group, Alive(g)' # {}
                 PROVE  g \in {current', last'} \/ (build' = "closing" /\ g = previous') \/ Stray(g)'
    BY Zenon DEF OldGroupsAreGone
  <1>2. Alive(g) # {} \/ (g = last /\ build = "starting")
    BY <1>1, GroupsKeep
  <1>3. Stray(g) => Stray(g)'
    BY GroupsKeep
  <1>4. g \in {current, last} \/ (build = "closing" /\ g = previous) \/ Stray(g)
    BY <1>2 DEF OldGroupsAreGone
  <1>5. g # 0
    BY GroupsAreNumbers
  <1>6. CASE UNCHANGED <<last, current, previous>> /\ (build = "closing" => build' = "closing")
    BY <1>3, <1>4, <1>6
  <1>7. CASE BuildSucceeds
    <2>1. build = "building" /\ current' = current
      BY <1>7 DEF BuildSucceeds
    <2>2. g = last => g = current \/ Stray(g)
      BY <1>5, <2>1 DEF GroupStarts
    <2> QED BY <1>3, <1>4, <2>1, <2>2
  <1>8. CASE Swap
    <2>1. build = "swapping" /\ previous' = current /\ current' = last /\ build' = "closing"
      BY <1>8, Zenon DEF Swap
    <2> QED BY <1>3, <1>4, <2>1
  <1>9. CASE Closed
    <2>1. /\ build = "closing" /\ (previous # 0 => Alive(previous) = {}) /\ UNCHANGED <<last, current, proc>>
      BY <1>9, Zenon DEF Closed, processes
    <2>2. g # previous
      BY <1>2, <1>5, <2>1
    <2> QED BY <1>3, <1>4, <2>1, <2>2
  <1>10. CASE Builder /\ ~BuildSucceeds /\ ~Swap /\ ~Closed
    <2>1. UNCHANGED <<last, current, previous>> /\ (build = "closing" => build' = "closing")
      BY <1>10 DEF Builder, BuildFails, Started, PollReturns, ReloadReturns, StartProc, StartFails, StartReturns, builders
    <2> QED BY <1>6, <2>1
  <1>11. CASE FilesChange
    BY <1>6, <1>11 DEF FilesChange
  <1>12. CASE Others
    BY <1>6, <1>12, OthersLeaveGroups
  <1>13. CASE UNCHANGED vars
    BY <1>6, <1>13, Zenon DEF vars
  <1> QED BY <1>7, <1>8, <1>9, <1>10, <1>11, <1>12, <1>13, NextSteps, Zenon

(* The run ends for a reason. *)
LEMMA ReloadsKept ==
  ASSUME TypeOK, MonitorKnows, ReloadDoesNotEndRun, [Next]_vars,
         crashed \/ ctx = "done" => crashed' \/ ctx' = "done"
  PROVE  ReloadDoesNotEndRun'
  <1>1. server \in {"failed", "returned"} => server' \in {"failed", "returned"}
    <2>1. CASE Builder
      BY <2>1 DEF Builder, BuildFails, BuildSucceeds, Started, PollReturns, Swap, Closed, ReloadReturns,
                  StartProc, StartFails, StartReturns, Fail
    <2>2. CASE FilesChange \/ Others \/ UNCHANGED vars
      BY <2>2 DEF FilesChange, Others, ServerReturns, ClientLeaves, Unwatch, CloseOnCancel, Control, Reap,
                  KillAfterTimeout, KillOnCancel, Exit, Monitor, MonitorLoads, MonitorWakes, MonitorChecks,
                  MonitorStops, vars
    <2> QED BY <2>1, <2>2, NextSteps, Zenon
  <1>2. exited' = exited \/ server' = "failed" \/ monitor = "stopping"
    <2>1. CASE Builder
      BY <2>1, Zenon DEF Builder, BuildFails, BuildSucceeds, Started, PollReturns, Swap, Closed, ReloadReturns,
                  StartProc, StartFails, StartReturns, Fail, monitors
    <2>2. CASE FilesChange \/ Others \/ UNCHANGED vars
      BY <2>2, Zenon DEF FilesChange, Others, ServerReturns, ClientLeaves, Unwatch, CloseOnCancel, Control, Reap,
                  KillAfterTimeout, KillOnCancel, Exit, Monitor, MonitorLoads, MonitorWakes, MonitorChecks,
                  MonitorStops, monitors, vars
    <2> QED BY <2>1, <2>2, NextSteps, Zenon
  <1> QED BY <1>1, <1>2, Zenon DEF MonitorKnows, ReloadDoesNotEndRun

-----------------------------------------------------------------------------
(* The theorems. *)

(* A run that has not built anything. *)
LEMMA InitRunInv == Init => RunInv
  <1> SUFFICES ASSUME Init PROVE RunInv
    OBVIOUS
  <1> USE GroupsAreNumbers DEF Init
  <1>1. TypeOK
    BY DEF TypeOK
  <1>2. ClosedOnce /\ GroupOrder /\ GroupStarts /\ WhoIsTold /\ MonitorKnows
    BY DEF ClosedOnce, GroupOrder, GroupStarts, WhoIsTold, MonitorKnows
  <1>3. OldGroupsAreGone
    BY DEF OldGroupsAreGone, Alive
  <1>4. ReloadDoesNotEndRun
    BY DEF ReloadDoesNotEndRun
  <1> QED BY <1>1, <1>2, <1>3, <1>4, Zenon DEF RunInv

(* The invariant behind the results below: which groups have started and which have been  *)
(* told to exit (ProcGroup.Start, ProcGroup.Close), and what the monitor of the run knows *)
(* when it decides that the run is over.                                                  *)
THEOREM RunInvariance == Spec => []RunInv
  <1>1. RunInv /\ [Next]_vars => RunInv'
    <2> SUFFICES ASSUME RunInv, [Next]_vars PROVE RunInv'
      OBVIOUS
    <2>1. /\ TypeOK /\ ClosedOnce /\ GroupOrder /\ GroupStarts /\ WhoIsTold /\ MonitorKnows
          /\ OldGroupsAreGone /\ ReloadDoesNotEndRun
      BY Zenon DEF RunInv
    <2>2. TypeOK' /\ ClosedOnce' /\ GroupOrder' /\ GroupStarts'
      BY <2>1, TypeOKKept, ClosedOnceKept, GroupOrderKept, GroupStartsKept, Zenon
    <2>3. WhoIsTold' /\ MonitorKnows' /\ OldGroupsAreGone'
      BY <2>1, WhoIsToldKept, MonitorKnowsKept, OldGroupsKept, Zenon
    <2>4. ReloadDoesNotEndRun'
      BY <2>1, MonitorKnowsKept, ReloadsKept, Zenon
    <2> QED BY <2>2, <2>3, <2>4, Zenon DEF RunInv
  <1> QED BY <1>1, InitRunInv, PTL DEF Spec

(* However often buildAndStart fails half-way, Run.exited is closed at most once, and only *)
(* the current group, the newest, the one being closed and the ones whose start failed     *)
(* have processes.                                                                         *)
THEOREM NoGroupIsLeftBehind == Spec => []GroupsInv
  <1>1. RunInv => GroupsInv
    BY Zenon DEF RunInv, GroupsInv
  <1> QED BY <1>1, RunInvariance, PTL

(* The monitor of Run.start never takes the switch from one group to the next for the end *)
(* of the run, wherever Reload's Swap and Close fall between its steps.                   *)
THEOREM ReloadIsNotTheEnd == Spec => []ReloadDoesNotEndRun
  <1>1. RunInv => ReloadDoesNotEndRun
    BY Zenon DEF RunInv
  <1> QED BY <1>1, RunInvariance, PTL
=============================================================================
