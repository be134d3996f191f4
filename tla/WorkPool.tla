------------------------------ MODULE WorkPool ------------------------------
(***************************************************************************)
(* One call of WorkConcurrently (pubsub/internal/utils/workers.go), as the *)
(* AWS and Azure subscriptions make it, in each of its three modes.        *)
(*                                                                         *)
(* "pool", workInWorkPool: a fetcher and maxConcurrency workers share an   *)
(* unbuffered channel of work, a channel workDone on which a worker wakes  *)
(* a waiting fetcher, and the atomic counter workItemsBeingProcessed.      *)
(* "single", workInSingleRoutine: the fetcher does the work itself.        *)
(* "unlimited", workInInfiniteRoutines: a goroutine for every item.        *)
(*                                                                         *)
(* The goroutine that works on an item outside a pool is named by the item.*)
(***************************************************************************)
EXTENDS Naturals, FiniteSets

CONSTANTS
    Worker,         \* the worker goroutines: maxConcurrency = |Worker|
    Item,           \* the items that the provider can deliver
    MaxBatchSize,   \* maxBatchSize; 0 means no limit in a pool, and 100 without a limit on goroutines
    None            \* no item

ASSUME WorkPoolAssumption ==
    /\ IsFiniteSet(Worker) /\ Cardinality(Worker) > 1
    /\ IsFiniteSet(Item) /\ None \notin Item /\ Worker \intersect Item = {}
    /\ MaxBatchSize \in Nat

VARIABLES
    mode,       \* which of the three functions runs
    handlerCtx, \* ctxs.Handler: "live" or "done"
    fetcher,    \* where the fetch loop is
    toFetch,    \* its local variable toFetch
    batch,      \* the items it has fetched and not handed over
    worker,     \* where each goroutine is
    holds,      \* the item it has
    processing, \* workItemsBeingProcessed
    fetchCtx,   \* "live", "canceled" by the parent, or "failed" by cancelFetch(err)
    item        \* "queued" at the provider, "fetched", or "handled"

vars == <<mode, handlerCtx, fetcher, toFetch, batch, worker, holds, processing, fetchCtx, item>>

MaxConcurrency == Cardinality(Worker)
Goroutine == Worker \union Item

\* The default of workInInfiniteRoutines.
BatchSize == IF MaxBatchSize = 0 THEN 100 ELSE MaxBatchSize

TypeOK ==
    /\ mode \in {"pool", "single", "unlimited"} /\ handlerCtx \in {"live", "done"}
    /\ fetcher \in {"loop", "full", "waiting", "fetching", "handing", "working", "returned"}
    /\ toFetch \in 0 .. (IF mode = "unlimited" THEN BatchSize ELSE MaxConcurrency)
    /\ batch \subseteq Item
    /\ worker \in [Goroutine -> {"idle", "received", "processing", "notifying", "stopped"}]
    /\ holds \in [Goroutine -> Item \union {None}]
    /\ processing \in 0 .. MaxConcurrency
    /\ fetchCtx \in {"live", "canceled", "failed"}
    /\ item \in [Item -> {"queued", "fetched", "handled"}]

Init ==
    /\ mode \in {"pool", "single", "unlimited"} /\ handlerCtx = "live"
    /\ fetcher = "loop"
    /\ toFetch = 0
    /\ batch = {}
    /\ worker = [g \in Goroutine |-> IF mode = "pool" /\ g \in Worker THEN "idle" ELSE "stopped"]
    /\ holds = [g \in Goroutine |-> None]
    /\ processing = 0
    /\ fetchCtx = "live"
    /\ item = [i \in Item |-> "queued"]

Queued == {i \in Item : item[i] = "queued"}

-----------------------------------------------------------------------------
(* The fetch loop. *)

\* How many items the fetcher believes it may fetch.
Free == IF MaxBatchSize > 0 /\ MaxConcurrency - processing > MaxBatchSize
            THEN MaxBatchSize ELSE MaxConcurrency - processing

\* The head of the pool's loop.
CountFree ==
    /\ mode = "pool" /\ fetcher = "loop" /\ fetchCtx = "live"
    /\ toFetch' = Free
    /\ fetcher' = IF Free = 0 THEN "full" ELSE "fetching"
    /\ UNCHANGED <<batch, worker, holds, processing, fetchCtx, item>>

\* The head of the other loops.
BeginFetch ==
    /\ mode # "pool" /\ fetcher = "loop" /\ fetchCtx = "live"
    /\ toFetch' = IF mode = "single" THEN 1 ELSE BatchSize
    /\ fetcher' = "fetching"
    /\ UNCHANGED <<batch, worker, holds, processing, fetchCtx, item>>

\* All workers are busy: the fetcher gets to its select some time later.
BeginWait ==
    /\ fetcher = "full"
    /\ fetcher' = "waiting"
    /\ UNCHANGED <<toFetch, batch, worker, holds, processing, fetchCtx, item>>

\* Mutant: no ticker.
NoWakeup ==
    /\ fetcher = "waiting" /\ FALSE
    /\ UNCHANGED vars

\* case <-spuriousWakeup.C
SpuriousWakeup ==
    /\ fetcher = "waiting"
    /\ fetcher' = "loop"
    /\ UNCHANGED <<toFetch, batch, worker, holds, processing, fetchCtx, item>>

\* The provider blocks until it has an item and returns at most toFetch; an
\* empty answer only when it has none.  A pool's fetcher sleeps before it asks again.
FetchItems(S) ==
    /\ fetcher = "fetching"
    /\ S \subseteq Queued /\ Cardinality(S) <= toFetch /\ (S = {} => Queued = {})
    /\ batch' = S
    /\ item' = [i \in Item |-> IF i \in S THEN "fetched" ELSE item[i]]
    /\ fetcher' = IF S = {} THEN "loop" ELSE "handing"
    /\ UNCHANGED <<toFetch, worker, holds, processing, fetchCtx>>

\* The fetch fails or panics, as it does when fetchCtx is done.
FetchFails ==
    /\ fetcher = "fetching"
    /\ fetchCtx' = IF mode # "single" /\ fetchCtx = "live" THEN "failed" ELSE fetchCtx
    /\ fetcher' = "returned"
    /\ UNCHANGED <<toFetch, batch, worker, holds, processing, item>>

\* Mutant: the item stays in the batch.
HandOverTwice(w, i) ==
    /\ mode = "pool" /\ fetcher = "handing" /\ i \in batch /\ worker[w] = "idle"
    /\ worker' = [worker EXCEPT ![w] = "received"]
    /\ holds' = [holds EXCEPT ![w] = i]
    /\ \/ batch' = batch \ {i} /\ fetcher' = IF batch = {i} THEN "loop" ELSE "handing"
       \/ UNCHANGED <<batch, fetcher>>
    /\ UNCHANGED <<toFetch, processing, fetchCtx, item>>

\* case workChan <- w: a rendezvous with a worker that is receiving.
HandOver(w, i) ==
    /\ mode = "pool" /\ fetcher = "handing" /\ i \in batch /\ worker[w] = "idle"
    /\ worker' = [worker EXCEPT ![w] = "received"]
    /\ holds' = [holds EXCEPT ![w] = i]
    /\ batch' = batch \ {i}
    /\ fetcher' = IF batch = {i} THEN "loop" ELSE "handing"
    /\ UNCHANGED <<toFetch, processing, fetchCtx, item>>

\* Without a pool: the item is worked on in a goroutine of its own, or, if the handler context is
\* live, by the fetcher.
Spawn(i) ==
    /\ mode # "pool" /\ fetcher = "handing" /\ i \in batch
    /\ mode = "single" => handlerCtx = "live"
    /\ worker' = [worker EXCEPT ![i] = "processing"]
    /\ holds' = [holds EXCEPT ![i] = i]
    /\ batch' = batch \ {i}
    /\ fetcher' = IF mode = "single" THEN "working" ELSE IF batch = {i} THEN "loop" ELSE "handing"
    /\ UNCHANGED <<toFetch, processing, fetchCtx, item>>

\* The fetcher that works itself drops the rest of its batch when the handler context is done.
StopWorking ==
    /\ mode = "single" /\ fetcher = "handing" /\ handlerCtx = "done"
    /\ fetcher' = "returned"
    /\ UNCHANGED <<toFetch, batch, worker, holds, processing, fetchCtx, item>>

\* Mutant: the fetcher sees the cancellation only at the head of the loop.
StopAtLoopOnly == fetcher = "loop"

\* The places where the fetcher looks at fetchCtx.
SeesCancel == fetcher = "loop" \/ (mode = "pool" /\ fetcher \in {"waiting", "handing"})

\* fetchCtx is done: the call returns, closes workChan, and abandons its batch.
StopFetching ==
    /\ fetchCtx # "live" /\ SeesCancel
    /\ fetcher' = "returned"
    /\ UNCHANGED <<toFetch, batch, worker, holds, processing, fetchCtx, item>>

-----------------------------------------------------------------------------
(* The workers of a pool: processWorkItem; and the goroutines without one. *)

BeginItem(w) ==
    /\ worker[w] = "received"
    /\ worker' = [worker EXCEPT ![w] = "processing"]
    /\ processing' = processing + 1
    /\ UNCHANGED <<fetcher, toFetch, batch, holds, fetchCtx, item>>

\* An error cancels the fetching.
CancelOnError(ok) == fetchCtx' = IF ~ok /\ fetchCtx = "live" THEN "failed" ELSE fetchCtx

\* The work is over; an error cancels the fetching, and the counter goes down, in one step here.
FinishItem(w, ok) ==
    /\ w \in Worker /\ worker[w] = "processing"
    /\ worker' = [worker EXCEPT ![w] = "notifying"]
    /\ holds' = [holds EXCEPT ![w] = None]
    /\ processing' = processing - 1
    /\ item' = [item EXCEPT ![holds[w]] = "handled"]
    /\ CancelOnError(ok)
    /\ UNCHANGED <<fetcher, toFetch, batch>>

\* The work on item i is over, in a goroutine of its own or in the fetcher's, which returns an error.
FinishAlone(i, ok) ==
    /\ i \in Item /\ worker[i] = "processing"
    /\ worker' = [worker EXCEPT ![i] = "stopped"]
    /\ holds' = [holds EXCEPT ![i] = None]
    /\ item' = [item EXCEPT ![i] = "handled"]
    /\ IF mode = "single"
       THEN /\ fetcher' = IF ~ok THEN "returned" ELSE IF batch = {} THEN "loop" ELSE "handing"
            /\ UNCHANGED fetchCtx
       ELSE CancelOnError(ok) /\ UNCHANGED fetcher
    /\ UNCHANGED <<toFetch, batch, processing>>

\* case workDone <- struct{}{}: only a fetcher inside its select receives.
WakeFetcher(w) ==
    /\ worker[w] = "notifying" /\ fetcher = "waiting"
    /\ worker' = [worker EXCEPT ![w] = "idle"]
    /\ fetcher' = "loop"
    /\ UNCHANGED <<toFetch, batch, holds, processing, fetchCtx, item>>

\* default: nobody is waiting.
SkipWake(w) ==
    /\ worker[w] = "notifying" /\ fetcher # "waiting"
    /\ worker' = [worker EXCEPT ![w] = "idle"]
    /\ UNCHANGED <<fetcher, toFetch, batch, holds, processing, fetchCtx, item>>

\* workChan is closed: the worker's range loop ends.
StopWorker(w) ==
    /\ worker[w] = "idle" /\ fetcher = "returned"
    /\ worker' = [worker EXCEPT ![w] = "stopped"]
    /\ UNCHANGED <<fetcher, toFetch, batch, holds, processing, fetchCtx, item>>

\* Contexts.StopFetchingNewEvents, or the cancellation of a parent.
CancelFetch ==
    /\ fetchCtx = "live"
    /\ fetchCtx' = "canceled"
    /\ UNCHANGED <<fetcher, toFetch, batch, worker, holds, processing, item>>

\* Contexts.CancelHandler, which cancels the fetching too.
CancelHandler ==
    /\ handlerCtx = "live"
    /\ handlerCtx' = "done"
    /\ fetchCtx' = IF fetchCtx = "live" THEN "canceled" ELSE fetchCtx
    /\ UNCHANGED <<mode, fetcher, toFetch, batch, worker, holds, processing, item>>

-----------------------------------------------------------------------------

Fetcher ==
    \/ CountFree \/ BeginFetch \/ BeginWait \/ SpuriousWakeup \/ FetchFails \/ StopFetching \/ StopWorking
    \/ \E S \in SUBSET Queued : FetchItems(S)
    \/ \E w \in Worker, i \in Item : HandOver(w, i)
    \/ \E i \in Item : Spawn(i)

Bookkeeping(w) == BeginItem(w) \/ WakeFetcher(w) \/ SkipWake(w) \/ StopWorker(w)

Work(g) == \E ok \in BOOLEAN : FinishItem(g, ok) \/ FinishAlone(g, ok)

Next ==
    \/ /\ \/ Fetcher \/ (\E w \in Worker : Bookkeeping(w)) \/ (\E g \in Goroutine : Work(g))
          \/ CancelFetch
       /\ UNCHANGED <<mode, handlerCtx>>
    \/ CancelHandler

Spec == Init /\ [][Next]_vars

\* The goroutines are scheduled; nothing is assumed of the work itself.
FairSpec ==
    /\ Spec
    /\ WF_vars(Fetcher /\ UNCHANGED <<mode, handlerCtx>>)
    /\ \A w \in Worker : WF_vars(Bookkeeping(w) /\ UNCHANGED <<mode, handlerCtx>>)

\* What some properties assume of the work (it runs under the Handler context,
\* which has a deadline).
WorkEnds == \A g \in Goroutine : WF_vars(Work(g) /\ UNCHANGED <<mode, handlerCtx>>)

-----------------------------------------------------------------------------
(* Properties. *)

Busy == {g \in Goroutine : holds[g] # None}

\* Items fetched and not yet handled, dropped ones apart.
Outstanding == IF fetcher = "returned" THEN Busy ELSE {<<w, holds[w]>> : w \in Busy} \union batch

\* The counter never disagrees with the workers, so toFetch cannot go negative
\* and a fetcher that sees room is right to.
CounterAgrees == processing = Cardinality({w \in Worker : worker[w] = "processing"})

\* No item is given to two workers, or is with a worker and still to be handed
\* over, or is with a worker after it has been handled.
OneOwner ==
    /\ \A w, v \in Busy : holds[w] = holds[v] => w = v
    /\ \A w \in Busy : holds[w] \notin batch /\ item[holds[w]] = "fetched"

\* A worker counts an item only after it has received it, so a pool's fetcher can fetch a second
\* batch meanwhile, but never more; a single goroutine has one item at a time.
OverfetchIsBounded ==
    /\ mode = "pool" => Cardinality(Outstanding) <= Cardinality(Busy) + MaxConcurrency
    /\ mode = "single" => Cardinality(Outstanding) <= 1

\* A call whose fetch context is done returns even if all work hangs, unless it does the work itself.
StopsPromptly == fetchCtx # "live" /\ mode # "single" ~> fetcher = "returned"

\* Lost wakeups do not stall the fetching: while nothing cancels it, and no work fails in a single
\* goroutine, every item that the provider has is handled, if work ends.
WorkFlows ==
    WorkEnds => \A i \in Item : item[i] = "queued" ~> (item[i] = "handled" \/ fetchCtx # "live" \/ fetcher = "returned")

\* If work ends, no goroutine outlives the call for good.
WorkersStop == WorkEnds => (fetcher = "returned" ~> \A g \in Goroutine : worker[g] = "stopped")

\* The bookkeeping of the items: exact counter, one owner each, bounded prefetch.
PoolInv == TypeOK /\ CounterAgrees /\ OneOwner /\ OverfetchIsBounded

\* Items are handled and goroutines end, whatever wakeups are lost.
PoolMakesProgress == WorkFlows /\ WorkersStop
=============================================================================
