--------------------------- MODULE FileWatchProofs ---------------------------
(* Theorems about module FileWatch, for every set of runs, for any number of  *)
(* timer goroutines at a time and for any number of changes.                  *)
EXTENDS FileWatch, TLAPS

(* The inductive invariant.  A goroutine between doRun and the head of its    *)
(* loop still owns the debouncer, which never runs the generator on an older   *)
(* version than before.                                                       *)

OneRun == \A f, g \in Firing : firing[f] \in {"run", "relock"} /\ firing[g] \in {"run", "relock"} => f = g

SeesNewest == attempted <= seen

WatchInv == TypeOK /\ RunningAgrees /\ OneRun /\ SeesNewest /\ NoLostSignal /\ NoChangeForgotten

(* The type invariant in three parts: numbers, flags, and the rest. *)

Numbers ==
    /\ version \in 0 .. MaxVersion /\ notified \in 0 .. version
    /\ building \in 0 .. version /\ reloaded \in [Run -> 0 .. version]
    /\ seen \in 0 .. version /\ attempted \in 0 .. version
    /\ missed \in 0 .. version

Flags ==
    /\ sigTimer \in BOOLEAN /\ regTimer \in BOOLEAN /\ stop \in BOOLEAN
    /\ running \in BOOLEAN /\ runAfter \in BOOLEAN /\ registered \in BOOLEAN

Places ==
    /\ inotify \subseteq {"src", "gen"}
    /\ batch \subseteq {"src", "gen"} /\ got \subseteq {"src", "gen"}
    /\ consumer \in {"check", "waiting", "woken", "taken", "iterating", "stopped"}
    /\ watchers \subseteq Run /\ visited \subseteq Run
    /\ calling \in Run \union {None}
    /\ firing \in [Firing -> {"none", "fired", "run", "relock"}]
    /\ direct \in [Direct -> {"idle", "run", "done"}]
    /\ daemon \in {"up", "crashed"}

(* The three parts make up the type invariant. *)
LEMMA TypeParts == TypeOK <=> Numbers /\ Flags /\ Places
BY Zenon DEF TypeOK, Numbers, Flags, Places

(* A daemon that has just been started satisfies the invariant. *)
LEMMA WatchInvInit == Init => WatchInv
<1> SUFFICES ASSUME Init PROVE WatchInv
  OBVIOUS
<1>1. RunningAgrees
  BY DEF Init, RunningAgrees
<1>2. TypeOK
  <2>1. Numbers
    BY FileWatchAssumption DEF Init, Numbers
  <2>2. Flags
    BY DEF Init, Flags
  <2>3. Places
    BY DEF Init, Places
  <2> QED BY <2>1, <2>2, <2>3, TypeParts
<1> QED BY <1>1, <1>2 DEF Init, WatchInv, OneRun, SeesNewest, NoLostSignal, NoChangeForgotten

(* A change raises the version; one that the file system reports leaves an event. *)
LEMMA EnvironmentStep == ASSUME WatchInv, Environment PROVE WatchInv'
<1> USE FileWatchAssumption DEF WatchInv
<1>a. \A v \in 0 .. version : v \in 0 .. (version + 1)
  BY DEF TypeOK
<1>1. CASE Edit \/ EditUnnoticed
  <2>1. /\ version' = version + 1 /\ version' \in 0 .. MaxVersion /\ notified' \in 0 .. version'
        /\ inotify' \subseteq {"src", "gen"}
    <3>1. version \in Nat /\ notified \in Nat /\ notified <= version /\ inotify \subseteq {"src", "gen"}
      BY DEF TypeOK
    <3>2. version' = version + 1 /\ version' \in 0 .. MaxVersion
      BY <1>1, <3>1 DEF Edit, EditUnnoticed
    <3>3. notified' \in {notified, version'} /\ inotify' \subseteq {"src", "gen"}
      BY <1>1, <3>1 DEF Edit, EditUnnoticed
    <3> QED BY <3>1, <3>2, <3>3
  <2>2. UNCHANGED <<batch, sigTimer, stop, loop, registered, missed, watchers, regTimer, regen, direct, daemon>>
    BY <1>1 DEF Edit, EditUnnoticed
  <2>3. TypeOK'
    <3>1. Numbers'
      BY <2>1, <2>2, <1>a, TypeParts DEF Numbers, loop, regen
    <3>2. Flags' /\ Places'
      BY <2>1, <2>2, TypeParts DEF Flags, Places, loop, regen
    <3> QED BY <3>1, <3>2, Zenon DEF TypeOK, Numbers, Flags, Places
  <2>4. NoChangeForgotten'
    BY <1>1, <2>2 DEF Edit, EditUnnoticed, NoChangeForgotten, IgnoreEvents, loop, regen
  <2> QED BY <2>2, <2>3, <2>4 DEF RunningAgrees, OneRun, SeesNewest, NoLostSignal, loop, regen
<1>2. CASE Close
  BY <1>2 DEF Close, TypeOK, RunningAgrees, OneRun, SeesNewest, NoLostSignal, NoChangeForgotten, IgnoreEvents, loop, regen
<1>3. ASSUME NEW r \in Run, Watch(r) \/ Unwatch(r) PROVE WatchInv'
  <2>1. /\ UNCHANGED <<watch, consumer, got, visited, calling, building, registered, missed, regTimer, regen, direct>>
        /\ watchers' \subseteq Run /\ daemon' \in {"up", "crashed"}
        /\ reloaded' \in [Run -> 0 .. version]
    BY <1>3 DEF Watch, Unwatch, MapWrite, loop, TypeOK
  <2>2. TypeOK'
    BY <2>1 DEF TypeOK, watch, regen
  <2> QED BY <2>1, <2>2 DEF RunningAgrees, OneRun, SeesNewest, NoLostSignal, NoChangeForgotten, IgnoreEvents, watch, regen
<1> QED BY <1>1, <1>2, <1>3 DEF Environment

(* The watcher and the loop of beginWatch pass a change on. *)
LEMMA WatcherStep == ASSUME WatchInv, ListenStep \/ Signal \/ ConsumerStep PROVE WatchInv'
<1> USE FileWatchAssumption DEF WatchInv
<1>1. ASSUME NEW p \in {"src", "gen"}, Listen(p) PROVE WatchInv'
  BY <1>1 DEF Listen, SetSignal, TypeOK, RunningAgrees, OneRun, SeesNewest, NoLostSignal, NoChangeForgotten,
     IgnoreEvents, loop, regen
<1>2. CASE Signal
  <2>1. TypeOK'
    BY <1>2 DEF Signal, TypeOK, regen
  <2> QED BY <1>2, <2>1 DEF Signal, RunningAgrees, OneRun, SeesNewest, NoLostSignal, NoChangeForgotten, IgnoreEvents, regen
<1>3. CASE Check \/ Wake
  <2>1. TypeOK'
    BY <1>3 DEF Check, Wake, TypeOK, regen
  <2>2. NoLostSignal' /\ RunningAgrees' /\ OneRun' /\ SeesNewest'
    BY <1>3 DEF Check, Wake, RunningAgrees, OneRun, SeesNewest, NoLostSignal, regen
  <2>3. NoChangeForgotten'
    BY <1>3 DEF Check, Wake, NoChangeForgotten, IgnoreEvents, regen
  <2> QED BY <2>1, <2>2, <2>3
<1>4. CASE OnWatchEvent
  BY <1>4 DEF OnWatchEvent, IgnoreEvents, TypeOK, RunningAgrees, OneRun, SeesNewest, NoLostSignal,
     NoChangeForgotten, watch, regen
<1>5. ASSUME NEW r \in Run, Callback(r) PROVE WatchInv'
  <2>1. TypeOK'
    BY <1>5 DEF Callback, TypeOK, watch, regen
  <2> QED BY <1>5, <2>1 DEF Callback, RunningAgrees, OneRun, SeesNewest, NoLostSignal, NoChangeForgotten,
     IgnoreEvents, watch, regen
<1>6. CASE CallbackReturns
  BY <1>6 DEF CallbackReturns, TypeOK, RunningAgrees, OneRun, SeesNewest, NoLostSignal, NoChangeForgotten,
     IgnoreEvents, watch, regen
<1>7. CASE EndIteration
  BY <1>7 DEF EndIteration, TypeOK, RunningAgrees, OneRun, SeesNewest, NoLostSignal, NoChangeForgotten,
     IgnoreEvents, watch, regen
<1> QED BY <1>1, <1>2, <1>3, <1>4, <1>5, <1>6, <1>7 DEF ListenStep, ConsumerStep

(* The regeneration timer and its goroutines: a change that comes while code  *)
(* is generated makes the generator run once more.                            *)
LEMMA RegenerationStep ==
    ASSUME WatchInv, NEW f \in Firing, Fire(f) \/ FiringStep(f)
    PROVE  WatchInv'
<1> USE FileWatchAssumption DEF WatchInv
<1>a. version \in Nat /\ notified \in 0 .. version /\ seen \in 0 .. version /\ attempted \in 0 .. version
  BY DEF TypeOK
<1>1. CASE Fire(f)
  <2>1. firing'[f] = "fired" /\ \A g \in Firing \ {f} : firing'[g] = firing[g]
    BY <1>1 DEF Fire, TypeOK
  <2>2. TypeOK'
    BY <1>1, <2>1 DEF Fire, TypeOK, watch, loop
  <2> QED BY <1>1, <2>1, <2>2 DEF Fire, RunningAgrees, OneRun, SeesNewest, NoLostSignal, NoChangeForgotten,
     IgnoreEvents, watch, loop
<1>2. CASE Enter(f) /\ Busy
  <2>1. firing'[f] = "none" /\ \A g \in Firing \ {f} : firing'[g] = firing[g]
    BY <1>2 DEF Enter, TypeOK
  <2>2. runAfter' = TRUE /\ UNCHANGED <<running, seen, watch, loop, registered, missed, watchers, regTimer, attempted, direct, daemon>>
    BY <1>2 DEF Enter, RunAgain
  <2>3. firing[f] = "fired"
    BY <1>2 DEF Enter
  <2>4. TypeOK'
    BY <1>2, <2>1, <2>2, <2>3 DEF Enter, TypeOK, watch, loop
  <2>5. NoChangeForgotten'
    BY <2>2, Zenon DEF NoChangeForgotten
  <2>6. RunningAgrees' /\ OneRun'
    BY <2>1, <2>2, <2>3 DEF RunningAgrees, OneRun
  <2> QED BY <2>2, <2>4, <2>5, <2>6 DEF SeesNewest, NoLostSignal, watch, loop
<1>3. ASSUME BeginRun(f), UNCHANGED <<watch, loop, registered, missed, watchers, regTimer, attempted, direct, daemon>>,
             running' = TRUE, \A g \in Firing : firing[g] \in {"run", "relock"} => g = f
      PROVE  WatchInv'
  <2>1. /\ firing'[f] = "run" /\ \A g \in Firing \ {f} : firing'[g] = firing[g]
        /\ seen' = version /\ runAfter' = FALSE
    BY <1>3 DEF BeginRun, TypeOK
  <2>a. RunningAgrees'
    BY <1>3, <2>1 DEF RunningAgrees
  <2>2. TypeOK'
    <3>1. Numbers'
      BY <1>3, <2>1, <1>a, TypeParts DEF Numbers, watch, loop
    <3>2. Flags'
      BY <1>3, <2>1, TypeParts DEF Flags, watch
    <3>3. Places'
      BY <1>3, TypeParts DEF BeginRun, Places, watch, loop
    <3> QED BY <3>1, <3>2, <3>3, Zenon DEF TypeOK, Numbers, Flags, Places
  <2>3. NoChangeForgotten'
    BY <1>3, <1>a, <2>1 DEF NoChangeForgotten, watch
  <2> QED BY <1>3, <1>a, <2>1, <2>2, <2>3, <2>a DEF OneRun, SeesNewest, NoLostSignal, watch, loop
<1>4. CASE Enter(f) /\ ~Busy
  BY <1>3, <1>4 DEF Enter, Busy, RunningAgrees
<1>5. CASE RunReturns(f)
  <2>1. firing[f] = "run" /\ firing'[f] = "relock" /\ \A g \in Firing \ {f} : firing'[g] = firing[g]
    BY <1>5 DEF RunReturns, TypeOK
  <2>2. TypeOK'
    BY <1>5, <2>1 DEF RunReturns, Generates, TypeOK, loop
  <2>3. \A g \in Firing : firing[g] = "run" => g = f
    BY <2>1 DEF OneRun
  <2>4. NoChangeForgotten'
    BY <1>5, <1>a, <2>1, <2>3 DEF RunReturns, Generates, NoChangeForgotten, SeesNewest, IgnoreEvents, loop
  <2> QED BY <1>5, <1>a, <2>1, <2>2, <2>4 DEF RunReturns, RunningAgrees, OneRun, SeesNewest, NoLostSignal, loop
<1>6. CASE RunLoop(f) /\ runAfter
  BY <1>3, <1>6 DEF RunLoop, OneRun, RunningAgrees, TypeOK
<1>7. CASE RunLoop(f) /\ ~runAfter
  <2>1. firing[f] = "relock" /\ firing'[f] = "none" /\ \A g \in Firing \ {f} : firing'[g] = firing[g]
    BY <1>7 DEF RunLoop, TypeOK
  <2>2. \A g \in Firing : firing'[g] \notin {"run", "relock"}
    BY <2>1 DEF OneRun
  <2>3. TypeOK'
    BY <1>7, <2>1, <2>2 DEF RunLoop, TypeOK, watch, loop
  <2> QED BY <1>7, <2>1, <2>2, <2>3 DEF RunLoop, RunningAgrees, OneRun, SeesNewest, NoLostSignal,
     NoChangeForgotten, IgnoreEvents, watch, loop
<1> QED BY <1>1, <1>2, <1>4, <1>5, <1>6, <1>7 DEF FiringStep, Enter, RunLoop

(* WatchAll, and the callers of the generator that bypass the debouncer, whose *)
(* files only bring events that are ignored.                                   *)
LEMMA OtherStep ==
    ASSUME WatchInv, Register \/ (\E d \in Direct : DirectRun(d) \/ DirectReturns(d))
    PROVE  WatchInv'
<1> USE FileWatchAssumption DEF WatchInv
<1>1. CASE Register
  BY <1>1 DEF Register, TypeOK, RunningAgrees, OneRun, SeesNewest, NoLostSignal, NoChangeForgotten, IgnoreEvents,
     watch, loop, regen
<1>2. ASSUME NEW d \in Direct, DirectRun(d) \/ DirectReturns(d) PROVE WatchInv'
  <2>1. /\ UNCHANGED <<version, notified, batch, sigTimer, stop, loop, registered, missed, watchers, regTimer, regen, daemon>>
        /\ inotify' \in {inotify, inotify \union {"gen"}}
    BY <1>2 DEF DirectRun, DirectReturns, Generates, watch
  <2>2. direct' \in [Direct -> {"idle", "run", "done"}]
    BY <1>2 DEF DirectRun, DirectReturns, TypeOK
  <2>3. TypeOK'
    <3>1. Numbers'
      BY <2>1, <2>2, TypeParts DEF Numbers, loop, regen
    <3>2. Flags' /\ Places'
      BY <2>1, <2>2, TypeParts DEF Flags, Places, loop, regen
    <3> QED BY <3>1, <3>2, Zenon DEF TypeOK, Numbers, Flags, Places
  <2> QED BY <2>1, <2>3 DEF RunningAgrees, OneRun, SeesNewest, NoLostSignal, NoChangeForgotten, IgnoreEvents, loop, regen
<1> QED BY <1>1, <1>2

(* A change that the file system reports once the daemon listens is never      *)
(* forgotten between the watcher, the loop of beginWatch and                   *)
(* regenerateCodeDebouncer, no signal is lost, and the debouncer's own runs of *)
(* the generator do not overlap, whatever its other callers do.                *)
THEOREM NoChangeIsLost == Spec => []RegenInv
<1>1. WatchInv /\ [Next]_vars => WatchInv'
  <2> SUFFICES ASSUME WatchInv, [Next]_vars PROVE WatchInv'
    OBVIOUS
  <2>1. CASE Next
    BY <2>1, EnvironmentStep, WatcherStep, RegenerationStep, OtherStep DEF Next
  <2>2. CASE UNCHANGED vars
    BY <2>2 DEF vars, watch, loop, regen, WatchInv, TypeOK, RunningAgrees, OneRun, SeesNewest, NoLostSignal,
       NoChangeForgotten, IgnoreEvents
  <2> QED BY <2>1, <2>2
<1>2. WatchInv => RegenInv
  BY DEF WatchInv, OneRun, RegenInv, RunsDoNotOverlap
<1> QED BY <1>1, <1>2, WatchInvInit, PTL DEF Spec
=============================================================================
