--------------------------- MODULE WorkPoolProofs ---------------------------
(* Theorems about module WorkPool, for any number of workers and items and    *)
(* every batch size.                                                          *)
EXTENDS WorkPool, FiniteSetTheorems, TLAPS

(* The inductive invariant. *)

\* Which goroutines exist depends on the mode; each has an item exactly while it works on it, and a
\* goroutine of its own works on the item that names it.
GoroutinesInv ==
    /\ mode # "pool" => \A w \in Worker : worker[w] = "stopped"
    /\ mode = "pool" => \A i \in Item : worker[i] = "stopped"
    /\ \A g \in Goroutine : holds[g] # None <=> worker[g] \in {"received", "processing"}
    /\ \A i \in Item : holds[i] \in {i, None} /\ worker[i] \in {"processing", "stopped"}

\* A batch holds items that are fetched and not handled, and in a pool at most one per worker.
BatchInv ==
    /\ \A i \in batch : item[i] = "fetched"
    /\ mode = "pool" => Cardinality(batch) <= MaxConcurrency

\* A single goroutine fetches one item and works on it before it fetches again.
SingleInv ==
    mode = "single" =>
        /\ fetcher = "fetching" => toFetch <= 1
        /\ \A i, j \in batch : i = j
        /\ fetcher # "working" => Busy = {}
        /\ fetcher = "working" => batch = {} /\ \A g, h \in Busy : g = h

Inv == TypeOK /\ CounterAgrees /\ OneOwner /\ GoroutinesInv /\ BatchInv /\ SingleInv

(* The sets that are counted are finite. *)
LEMMA FiniteCounts ==
    /\ MaxConcurrency \in Nat /\ MaxConcurrency > 1
    /\ \A S \in SUBSET Worker : /\ IsFiniteSet(S) /\ Cardinality(S) \in Nat
                                /\ Cardinality(S) <= MaxConcurrency
    /\ \A S \in SUBSET Item : IsFiniteSet(S) /\ Cardinality(S) \in Nat
    /\ IsFiniteSet(Goroutine)
<1>1. MaxConcurrency \in Nat /\ MaxConcurrency > 1
  BY WorkPoolAssumption, FS_CardinalityType DEF MaxConcurrency
<1>2. ASSUME NEW S \in SUBSET Worker
      PROVE  IsFiniteSet(S) /\ Cardinality(S) \in Nat /\ Cardinality(S) <= MaxConcurrency
  BY WorkPoolAssumption, FS_Subset, FS_CardinalityType DEF MaxConcurrency
<1>3. ASSUME NEW S \in SUBSET Item PROVE IsFiniteSet(S) /\ Cardinality(S) \in Nat
  BY WorkPoolAssumption, FS_Subset, FS_CardinalityType
<1>4. IsFiniteSet(Goroutine)
  BY WorkPoolAssumption, FS_Union DEF Goroutine
<1> QED BY <1>1, <1>2, <1>3, <1>4

(* What the fetcher asks for is never negative and never more than the workers. *)
LEMMA FreeIsInRange == ASSUME TypeOK PROVE Free \in 0 .. MaxConcurrency
BY FiniteCounts, WorkPoolAssumption DEF TypeOK, Free

(* A call of WorkConcurrently that has just begun satisfies the invariant. *)
LEMMA InvInit == Init => Inv
<1> SUFFICES ASSUME Init PROVE Inv
  OBVIOUS
<1>a. Cardinality({}) = 0
  BY FS_EmptySet
<1>1. TypeOK
  BY FiniteCounts, WorkPoolAssumption DEF Init, TypeOK, Goroutine, BatchSize
<1>2. {w \in Worker : worker[w] = "processing"} = {} /\ Busy = {}
  BY DEF Init, Busy, Goroutine
<1>3. CounterAgrees
  BY <1>2, <1>a DEF Init, CounterAgrees
<1>4. GoroutinesInv /\ BatchInv
  BY <1>a, FiniteCounts, WorkPoolAssumption DEF Init, GoroutinesInv, BatchInv, Goroutine
<1> QED BY <1>1, <1>2, <1>3, <1>4 DEF Init, Inv, OneOwner, SingleInv

(* A step of the fetcher that moves no item. *)
LEMMA NoItemMoves ==
    ASSUME Inv, UNCHANGED <<mode, batch, worker, holds, processing, item>>, TypeOK', SingleInv'
    PROVE  Inv'
BY DEF Inv, CounterAgrees, OneOwner, Busy, GoroutinesInv, BatchInv

(* The loop of the fetcher, apart from fetching and handing over. *)
LEMMA LoopStep ==
    ASSUME Inv, UNCHANGED <<mode, handlerCtx>>,
           CountFree \/ BeginFetch \/ BeginWait \/ SpuriousWakeup \/ FetchFails \/ StopFetching \/ StopWorking
    PROVE  Inv'
<1> USE DEF Inv
<1>1. UNCHANGED <<mode, handlerCtx, batch, worker, holds, processing, item>>
  BY DEF CountFree, BeginFetch, BeginWait, SpuriousWakeup, FetchFails, StopFetching, StopWorking
<1>2. toFetch' \in 0 .. (IF mode = "unlimited" THEN BatchSize ELSE MaxConcurrency)
  <2>1. BatchSize \in Nat
    BY WorkPoolAssumption DEF BatchSize
  <2>2. CASE CountFree
    BY <2>2, FreeIsInRange DEF CountFree
  <2>3. CASE BeginFetch
    BY <2>1, <2>3, FiniteCounts DEF BeginFetch, TypeOK
  <2>4. CASE BeginWait \/ SpuriousWakeup \/ FetchFails \/ StopFetching \/ StopWorking
    BY <2>4 DEF BeginWait, SpuriousWakeup, FetchFails, StopFetching, StopWorking, TypeOK
  <2> QED BY <2>2, <2>3, <2>4
<1>3. /\ fetcher' \in {"loop", "full", "waiting", "fetching", "handing", "working", "returned"}
      /\ fetchCtx' \in {"live", "canceled", "failed"}
  BY DEF CountFree, BeginFetch, BeginWait, SpuriousWakeup, FetchFails, StopFetching, StopWorking, TypeOK
<1>4. TypeOK'
  BY <1>1, <1>2, <1>3 DEF TypeOK
<1>5. SingleInv'
  <2>1. mode = "single" => fetcher # "working" /\ fetcher' # "working"
    BY DEF CountFree, BeginFetch, BeginWait, SpuriousWakeup, FetchFails, StopFetching, StopWorking, SeesCancel
  <2>2. mode = "single" /\ fetcher' = "fetching" => toFetch' <= 1
    BY DEF CountFree, BeginFetch, BeginWait, SpuriousWakeup, FetchFails, StopFetching, StopWorking
  <2> QED BY <1>1, <2>1, <2>2 DEF SingleInv, Busy
<1> QED BY <1>1, <1>4, <1>5, NoItemMoves

(* The provider gives items that nobody has, no more than asked for. *)
LEMMA FetchStep ==
    ASSUME Inv, UNCHANGED <<mode, handlerCtx>>, NEW S \in SUBSET Queued, FetchItems(S)
    PROVE  Inv'
<1> USE DEF Inv
<1>1. /\ S \subseteq Item /\ batch' = S /\ UNCHANGED <<toFetch, worker, holds, processing, fetchCtx>>
      /\ \A i \in Item : item'[i] = IF i \in S THEN "fetched" ELSE item[i]
  BY DEF FetchItems, Queued
<1>2. IsFiniteSet(S) /\ Cardinality(S) \in Nat /\ Cardinality(S) <= toFetch
  BY <1>1, FiniteCounts DEF FetchItems
<1>3. TypeOK'
  BY <1>1 DEF FetchItems, TypeOK
<1>4. CounterAgrees' /\ GoroutinesInv'
  BY <1>1 DEF CounterAgrees, GoroutinesInv
<1>5. OneOwner'
  BY <1>1 DEF OneOwner, Busy, Queued, TypeOK
<1>6. BatchInv'
  BY <1>1, <1>2, FiniteCounts DEF BatchInv, TypeOK
<1>7. SingleInv'
  <2> SUFFICES ASSUME mode = "single" PROVE SingleInv'
    BY DEF SingleInv
  <2>1. Cardinality(S) <= 1
    BY <1>2, FiniteCounts DEF FetchItems, SingleInv, TypeOK
  <2>2. \A i, j \in S : i = j
    <3>1. Cardinality(S) = 0 \/ Cardinality(S) = 1
      BY <1>2, <2>1
    <3> QED BY <1>2, <3>1, FS_EmptySet, FS_Singleton
  <2> QED BY <1>1, <2>2 DEF FetchItems, SingleInv, Busy
<1> QED BY <1>3, <1>4, <1>5, <1>6, <1>7

(* An item leaves the batch as one goroutine gets it. *)
LEMMA Gets ==
    ASSUME Inv, UNCHANGED <<mode, handlerCtx, toFetch, processing, fetchCtx, item>>,
           NEW g \in Goroutine, NEW i \in batch, NEW s \in {"received", "processing"},
           worker[g] \in {"idle", "stopped"}, g \in Worker => s = "received" /\ mode = "pool",
           g \in Item => s = "processing" /\ g = i /\ mode # "pool",
           worker' = [worker EXCEPT ![g] = s], holds' = [holds EXCEPT ![g] = i],
           batch' = batch \ {i},
           fetcher' \in {"loop", "handing", "working"}, SingleInv'
    PROVE  Inv'
<1> USE DEF Inv
<1>1. /\ i \in Item /\ i # None /\ holds[g] = None
      /\ holds'[g] = i /\ \A h \in Goroutine \ {g} : holds'[h] = holds[h]
      /\ worker'[g] = s /\ \A h \in Goroutine \ {g} : worker'[h] = worker[h]
  BY WorkPoolAssumption DEF TypeOK, GoroutinesInv
<1>2. TypeOK'
  BY <1>1 DEF TypeOK
<1>3. CounterAgrees'
  <2>1. {w \in Worker : worker'[w] = "processing"} = {w \in Worker : worker[w] = "processing"}
    BY <1>1 DEF Goroutine
  <2> QED BY <2>1 DEF CounterAgrees
<1>4. Busy' = Busy \union {g}
  BY <1>1 DEF Busy
<1>5. OneOwner'
  BY <1>1, <1>4 DEF OneOwner, BatchInv, Busy
<1>6. GoroutinesInv'
  <2>1. \A h \in Goroutine : holds'[h] # None <=> worker'[h] \in {"received", "processing"}
    BY <1>1 DEF GoroutinesInv
  <2>2. /\ mode # "pool" => \A w \in Worker : worker'[w] = "stopped"
        /\ mode = "pool" => \A j \in Item : worker'[j] = "stopped"
    BY <1>1 DEF GoroutinesInv, Goroutine
  <2>3. \A j \in Item : holds'[j] \in {j, None}
    BY <1>1 DEF GoroutinesInv, Goroutine
  <2>4. \A j \in Item : worker'[j] \in {"processing", "stopped"}
    BY <1>1, <2>2 DEF GoroutinesInv, Goroutine
  <2> QED BY <2>1, <2>2, <2>3, <2>4 DEF GoroutinesInv
<1>7. BatchInv'
  <2>1. IsFiniteSet(batch) /\ Cardinality(batch) \in Nat
    BY FiniteCounts DEF TypeOK
  <2>2. Cardinality(batch \ {i}) <= Cardinality(batch) /\ Cardinality(batch \ {i}) \in Nat
    BY <2>1, FS_Subset, FS_CardinalityType
  <2> QED BY <2>1, <2>2, FiniteCounts DEF BatchInv
<1> QED BY <1>2, <1>3, <1>5, <1>6, <1>7

(* Handing over: a rendezvous with a worker, or a goroutine for the item. *)
LEMMA HandOverStep ==
    ASSUME Inv, UNCHANGED <<mode, handlerCtx>>,
           (\E w \in Worker, i \in Item : HandOver(w, i)) \/ (\E i \in Item : Spawn(i))
    PROVE  Inv'
<1> USE DEF Inv
<1>1. ASSUME NEW w \in Worker, NEW i \in Item, HandOver(w, i) PROVE Inv'
  <2>1. w \in Goroutine /\ w \notin Item
    BY WorkPoolAssumption DEF Goroutine
  <2>2. SingleInv'
    BY <1>1 DEF HandOver, SingleInv
  <2>3. fetcher' \in {"loop", "handing"}
    BY <1>1 DEF HandOver
  <2> QED BY <1>1, <2>1, <2>2, <2>3, Gets DEF HandOver
<1>2. ASSUME NEW i \in Item, Spawn(i) PROVE Inv'
  <2>1. i \in Goroutine /\ i \notin Worker
    BY WorkPoolAssumption DEF Goroutine
  <2>2. holds[i] = None
    BY <1>2, <2>1 DEF Spawn, OneOwner, Busy, GoroutinesInv
  <2>3. worker[i] \in {"idle", "stopped"}
    BY <1>2, <2>1, <2>2, WorkPoolAssumption DEF Spawn, GoroutinesInv, TypeOK
  <2>4. /\ holds'[i] = i /\ \A h \in Goroutine \ {i} : holds'[h] = holds[h]
        /\ i # None
    BY <1>2, <2>1, WorkPoolAssumption DEF Spawn, TypeOK
  <2>5. Busy' = Busy \union {i}
    BY <2>1, <2>4 DEF Busy
  <2>6. SingleInv'
    BY <1>2, <2>5 DEF Spawn, SingleInv
  <2>7. fetcher' \in {"loop", "handing", "working"}
    BY <1>2 DEF Spawn
  <2> QED BY <1>2, <2>1, <2>3, <2>6, <2>7, Gets DEF Spawn
<1> QED BY <1>1, <1>2

(* The bookkeeping of the workers of a pool. *)
LEMMA BookkeepingStep ==
    ASSUME Inv, UNCHANGED <<mode, handlerCtx>>, NEW w \in Worker, Bookkeeping(w)
    PROVE  Inv'
<1> USE DEF Inv
<1> DEFINE InWork == {v \in Worker : worker[v] = "processing"}
<1>a. w \in Goroutine /\ w \notin Item /\ \A i \in Item : i \in Goroutine
  BY WorkPoolAssumption DEF Goroutine
<1>b. worker[w] # "stopped" /\ mode = "pool"
  BY <1>a DEF Bookkeeping, BeginItem, WakeFetcher, SkipWake, StopWorker, GoroutinesInv
<1>1. UNCHANGED <<toFetch, batch, holds, fetchCtx, item>> /\ Busy' = Busy
  BY DEF Bookkeeping, BeginItem, WakeFetcher, SkipWake, StopWorker, Busy
<1>2. OneOwner' /\ BatchInv' /\ SingleInv'
  BY <1>b, <1>1 DEF OneOwner, BatchInv, SingleInv, Busy
<1>3. CASE BeginItem(w)
  <2>1. /\ worker'[w] = "processing" /\ worker[w] = "received" /\ processing' = processing + 1
        /\ \A g \in Goroutine \ {w} : worker'[g] = worker[g]
        /\ worker' \in [Goroutine -> {"idle", "received", "processing", "notifying", "stopped"}]
    BY <1>3, <1>a DEF BeginItem, TypeOK
  <2>2. InWork' = InWork \union {w} /\ w \notin InWork
    BY <2>1 DEF Goroutine
  <2>3. /\ IsFiniteSet(InWork) /\ Cardinality(InWork) \in Nat
        /\ Cardinality(InWork') <= MaxConcurrency
    BY FiniteCounts
  <2>4. Cardinality(InWork') = Cardinality(InWork) + 1
    BY <2>2, <2>3, FS_AddElement
  <2>5. CounterAgrees' /\ processing' \in 0 .. MaxConcurrency
    BY <2>1, <2>3, <2>4, FiniteCounts DEF CounterAgrees
  <2>6. GoroutinesInv'
    BY <1>a, <1>b, <1>1, <2>1 DEF GoroutinesInv
  <2>7. TypeOK'
    BY <1>3, <1>1, <2>1, <2>5 DEF BeginItem, TypeOK
  <2> QED BY <1>2, <2>5, <2>6, <2>7
<1>4. CASE WakeFetcher(w) \/ SkipWake(w) \/ StopWorker(w)
  <2>1. /\ worker'[w] \in {"idle", "stopped"} /\ worker[w] \in {"notifying", "idle"}
        /\ processing' = processing
        /\ \A g \in Goroutine \ {w} : worker'[g] = worker[g]
        /\ worker' \in [Goroutine -> {"idle", "received", "processing", "notifying", "stopped"}]
    BY <1>4, <1>a DEF WakeFetcher, SkipWake, StopWorker, TypeOK
  <2>2. InWork' = InWork
    BY <2>1 DEF Goroutine
  <2>3. CounterAgrees'
    BY <2>1, <2>2 DEF CounterAgrees
  <2>4. GoroutinesInv'
    BY <1>a, <1>b, <1>1, <2>1 DEF GoroutinesInv
  <2>5. TypeOK'
    BY <1>4, <1>1, <2>1 DEF WakeFetcher, SkipWake, StopWorker, TypeOK
  <2> QED BY <1>2, <2>3, <2>4, <2>5
<1> QED BY <1>3, <1>4 DEF Bookkeeping

(* The end of the work on an item, in a worker, a goroutine of its own, or the fetcher. *)
LEMMA WorkStep ==
    ASSUME Inv, UNCHANGED <<mode, handlerCtx>>, NEW g \in Goroutine, Work(g)
    PROVE  Inv'
<1> USE DEF Inv
<1> DEFINE InWork == {v \in Worker : worker[v] = "processing"}
           i == holds[g]
<1>1. PICK ok \in BOOLEAN : FinishItem(g, ok) \/ FinishAlone(g, ok)
  BY DEF Work
<1>2. worker[g] = "processing" /\ i \in Item /\ g \in Busy /\ i # None
  BY <1>1, WorkPoolAssumption DEF FinishItem, FinishAlone, TypeOK, GoroutinesInv, Busy
<1>3. /\ holds'[g] = None /\ \A h \in Goroutine \ {g} : holds'[h] = holds[h]
      /\ worker'[g] \in {"notifying", "stopped"} /\ \A h \in Goroutine \ {g} : worker'[h] = worker[h]
      /\ worker' \in [Goroutine -> {"idle", "received", "processing", "notifying", "stopped"}]
      /\ holds' \in [Goroutine -> Item \union {None}]
      /\ g \in Item => worker'[g] = "stopped"
  BY <1>1, WorkPoolAssumption DEF FinishItem, FinishAlone, TypeOK
<1>4. item' = [item EXCEPT ![i] = "handled"]
  <2>1. g \in Item => i = g
    BY <1>2 DEF GoroutinesInv
  <2> QED BY <1>1, <2>1 DEF FinishItem, FinishAlone
<1>5. Busy' = Busy \ {g}
  BY <1>2, <1>3 DEF Busy
<1>6. UNCHANGED <<toFetch, batch>>
  BY <1>1 DEF FinishItem, FinishAlone
<1>7. \A j \in Item : item'[j] = IF j = i THEN "handled" ELSE item[j]
  BY <1>2, <1>4 DEF TypeOK
<1>8. OneOwner'
  BY <1>2, <1>3, <1>5, <1>6, <1>7 DEF OneOwner, Busy, TypeOK
<1>9. BatchInv'
  <2>1. i \notin batch
    BY <1>2 DEF OneOwner
  <2> QED BY <1>6, <1>7, <2>1 DEF BatchInv, TypeOK
<1>10. GoroutinesInv'
  <2>1. \A h \in Goroutine : holds'[h] # None <=> worker'[h] \in {"received", "processing"}
    BY <1>3 DEF GoroutinesInv
  <2>2. /\ mode # "pool" => \A w \in Worker : worker'[w] = "stopped"
        /\ mode = "pool" => \A j \in Item : worker'[j] = "stopped"
    BY <1>2, <1>3 DEF GoroutinesInv, Goroutine
  <2>3. \A j \in Item : holds'[j] \in {j, None} /\ worker'[j] \in {"processing", "stopped"}
    BY <1>3 DEF GoroutinesInv, Goroutine
  <2> QED BY <2>1, <2>2, <2>3 DEF GoroutinesInv
<1>11. CASE FinishItem(g, ok)
  <2>1. g \in Worker /\ processing' = processing - 1 /\ UNCHANGED fetcher
    BY <1>11 DEF FinishItem
  <2>2. InWork' = InWork \ {g} /\ g \in InWork
    BY <1>2, <1>3, <2>1 DEF Goroutine
  <2>3. IsFiniteSet(InWork) /\ Cardinality(InWork) \in Nat /\ Cardinality(InWork') \in Nat
    BY FiniteCounts
  <2>4. Cardinality(InWork') = Cardinality(InWork) - 1
    BY <2>2, <2>3, FS_RemoveElement
  <2>5. CounterAgrees' /\ processing' \in 0 .. MaxConcurrency
    BY <2>1, <2>3, <2>4, FiniteCounts DEF CounterAgrees, TypeOK
  <2>6. mode = "pool"
    BY <1>2, <2>1 DEF GoroutinesInv
  <2>7. SingleInv'
    BY <2>6 DEF SingleInv
  <2>a. fetchCtx' \in {"live", "canceled", "failed"}
    BY <1>11 DEF FinishItem, CancelOnError, TypeOK
  <2>8. TypeOK'
    BY <1>3, <1>4, <1>6, <2>1, <2>5, <2>a DEF TypeOK
  <2> QED BY <1>8, <1>9, <1>10, <2>5, <2>7, <2>8
<1>12. CASE FinishAlone(g, ok)
  <2>1. g \in Item /\ UNCHANGED processing
    BY <1>12 DEF FinishAlone
  <2>2. InWork' = InWork
    BY <1>3, <2>1, WorkPoolAssumption DEF Goroutine
  <2>3. CounterAgrees'
    BY <2>1, <2>2 DEF CounterAgrees
  <2>4. /\ fetcher' \in {"loop", "full", "waiting", "fetching", "handing", "working", "returned"}
        /\ mode = "single" => fetcher' \notin {"working", "fetching"}
        /\ fetchCtx' \in {"live", "canceled", "failed"}
    BY <1>12 DEF FinishAlone, CancelOnError, TypeOK
  <2>5. mode = "single" => Busy' = {}
    BY <1>2, <1>5 DEF SingleInv
  <2>6. SingleInv'
    BY <1>6, <2>4, <2>5 DEF SingleInv
  <2>7. TypeOK'
    BY <1>3, <1>4, <1>6, <2>1, <2>4 DEF TypeOK
  <2> QED BY <1>8, <1>9, <1>10, <2>3, <2>6, <2>7
<1> QED BY <1>1, <1>11, <1>12

(* A cancellation from outside moves no item. *)
LEMMA CancelStep ==
    ASSUME Inv, (CancelFetch /\ UNCHANGED <<mode, handlerCtx>>) \/ CancelHandler
    PROVE  Inv'
<1>1. /\ UNCHANGED <<mode, fetcher, toFetch, batch, worker, holds, processing, item>>
      /\ fetchCtx' \in {"live", "canceled", "failed"} /\ handlerCtx' \in {"live", "done"}
  BY DEF CancelFetch, CancelHandler, Inv, TypeOK
<1>2. TypeOK' /\ SingleInv'
  BY <1>1 DEF Inv, TypeOK, SingleInv, Busy
<1> QED BY <1>1, <1>2, NoItemMoves

(* The invariant holds in every state of a call of WorkConcurrently. *)
THEOREM PoolInvariance == Spec => []Inv
<1>1. Inv /\ [Next]_vars => Inv'
  <2> SUFFICES ASSUME Inv, [Next]_vars PROVE Inv'
    OBVIOUS
  <2>1. CASE UNCHANGED vars
    BY <2>1, NoItemMoves DEF vars, Inv, TypeOK, SingleInv, Busy
  <2>2. CASE Fetcher /\ UNCHANGED <<mode, handlerCtx>>
    BY <2>2, LoopStep, FetchStep, HandOverStep DEF Fetcher
  <2> QED BY <2>1, <2>2, BookkeepingStep, WorkStep, CancelStep DEF Next
<1> QED BY <1>1, InvInit, PTL DEF Spec

(* The items with goroutines, written as pairs, are as many as the goroutines. *)
LEMMA PairsOfBusy ==
    ASSUME TypeOK
    PROVE  LET Pairs == {<<g, holds[g]>> : g \in Busy}
           IN  /\ IsFiniteSet(Busy) /\ Cardinality(Busy) \in Nat
               /\ IsFiniteSet(Pairs) /\ Cardinality(Pairs) \in Nat
               /\ Cardinality(Pairs) <= Cardinality(Busy)
<1> DEFINE Pairs == {<<g, holds[g]>> : g \in Busy}
           pair == [g \in Busy |-> <<g, holds[g]>>]
<1>1. IsFiniteSet(Busy) /\ Cardinality(Busy) \in Nat
  BY FiniteCounts, FS_Subset, FS_CardinalityType DEF Busy
<1>2. pair \in Surjection(Busy, Pairs)
  BY DEF Surjection
<1>3. IsFiniteSet(Pairs) /\ Cardinality(Pairs) <= Cardinality(Busy)
  BY <1>1, <1>2, FS_Surjection
<1> QED BY <1>1, <1>3, FS_CardinalityType

(* The counter of a pool agrees with its workers at all times, so that the     *)
(* number to fetch is never negative; every item has one owner at most; a pool *)
(* holds one batch beyond what its workers have, and a single goroutine one    *)
(* item (workInWorkPool, workInSingleRoutine, workInInfiniteRoutines).         *)
THEOREM PoolKeepsItsBooks == Spec => []PoolInv
<1>1. Inv => OverfetchIsBounded
  <2> SUFFICES ASSUME Inv PROVE OverfetchIsBounded
    OBVIOUS
  <2> DEFINE Pairs == {<<g, holds[g]>> : g \in Busy}
  <2> USE DEF Inv
  <2>1. /\ IsFiniteSet(Busy) /\ Cardinality(Busy) \in Nat
        /\ IsFiniteSet(Pairs) /\ Cardinality(Pairs) \in Nat /\ Cardinality(Pairs) <= Cardinality(Busy)
    BY PairsOfBusy
  <2>2. IsFiniteSet(batch) /\ Cardinality(batch) \in Nat
    BY FiniteCounts DEF TypeOK
  <2>3. ASSUME mode = "pool" PROVE Cardinality(Outstanding) <= Cardinality(Busy) + MaxConcurrency
    <3>1. CASE fetcher = "returned"
      BY <2>1, <3>1, FiniteCounts DEF Outstanding
    <3>2. CASE fetcher # "returned"
      <4>1. Cardinality(Pairs \union batch) = Cardinality(Pairs) + Cardinality(batch) - Cardinality(Pairs \intersect batch)
        BY <2>1, <2>2, FS_Union
      <4>2. Cardinality(Pairs \intersect batch) \in Nat
        BY <2>2, FS_Subset, FS_CardinalityType
      <4>3. Cardinality(batch) <= MaxConcurrency
        BY <2>3 DEF BatchInv
      <4> HIDE DEF Pairs
      <4>4. Cardinality(Pairs \union batch) <= Cardinality(Busy) + MaxConcurrency
        BY <2>1, <2>2, <4>1, <4>2, <4>3, FiniteCounts
      <4> QED BY <3>2, <4>4 DEF Outstanding, Pairs
    <3> QED BY <3>1, <3>2
  <2>4. ASSUME mode = "single" PROVE Cardinality(Outstanding) <= 1
    <3>1. \A x, y \in Outstanding : x = y
      BY <2>4 DEF SingleInv, Outstanding
    <3>2. Outstanding = {} \/ \E x : Outstanding = {x}
      BY <3>1
    <3>3. Cardinality(Outstanding) \in {0, 1}
      BY <3>2, FS_EmptySet, FS_Singleton, Zenon
    <3> QED BY <3>3
  <2> QED BY <2>3, <2>4 DEF OverfetchIsBounded
<1>2. Inv => PoolInv
  BY <1>1 DEF Inv, PoolInv
<1> QED BY <1>2, PoolInvariance, PTL
=============================================================================
