------------------------------ MODULE Delivery ------------------------------
(***************************************************************************)
(* One published message on its way to a subscription's handler, on each   *)
(* of the providers (pubsub/internal/nsq, azure, aws, gcp): the delivery   *)
(* under a lease of AckDeadline, the callback of NewSubscription, what     *)
(* each provider's code does with its result, the retry policy             *)
(* (utils.GetDelay), the contexts of a shutdown, and crashes.              *)
(*                                                                         *)
(* The queue is external.  A message has copies, because Azure's code      *)
(* retries by scheduling another one; a settling call works while its      *)
(* worker holds the lease, and may fail at any time.                       *)
(***************************************************************************)
EXTENDS Integers, FiniteSets

CONSTANTS
    Provider,       \* the providers to look at
    Policy,         \* the retry policies to look at
    Subscription,   \* the pairs of one and the other to look at
    Worker,         \* concurrent deliveries
    MaxCopies,      \* bound: copies of the message
    MaxFaults,      \* bound: expired leases, failed calls, and results of one handler taken by another
    MaxRestarts,    \* bound: how often the process ends and starts again
    Modulus,        \* 65536: counters of deliveries are, or are converted to, uint16
    Second,         \* durations are counted in parts of a second: how many there are
    DefaultRetries, \* 100
    None

Copy == 1 .. MaxCopies
NoRetries == -2
InfiniteRetries == -1

ASSUME DeliveryAssumption ==
    /\ Provider \subseteq {"nsq", "azure", "aws", "gcp"}
    /\ Policy \subseteq [set : BOOLEAN, maxRetries : Int, minBackoff : Nat, maxBackoff : Nat]
    /\ \A p \in Policy : ~p.set => p.maxRetries = 0
    /\ Subscription \subseteq Provider \X Policy
    /\ IsFiniteSet(Worker) /\ None \notin Worker /\ None \notin Copy
    /\ MaxCopies \in Nat \ {0} /\ DefaultRetries \in Nat \ {0}
    /\ MaxFaults \in Nat /\ MaxRestarts \in Nat
    /\ Modulus \in Nat \ {0, 1} /\ Second \in Nat \ {0}

VARIABLES
    provider, policy,
    parses,     \* the message is a well-formed notification (AWS)
    copy,       \* "none", "queued", "delayed" or "leased"
    count,      \* deliveries of a copy; on Azure, its attribute encore-retry-count; modulo Modulus
    lease,      \* the worker a leased copy is leased to
    worker,     \* where each worker is
    holds,      \* the copy it works on
    attempt,    \* deliveryAttempt, as the uint16 that is passed to GetDelay
    connecting, \* NSQ: the goroutine that connects has not assigned its result to err yet
    overwritten,    \* NSQ: a handler's error was overwritten before it was tested
    restarts,   \* how often the process was started again
    ctx,        \* Contexts: "live", then "noFetch", "noHandler", "closed"
    fetching,   \* the loop of Subscribe: "on", or "failed" and about to try again
    deliveries, successes, faults,  \* of the message; of deliveries, no more than Modulus are counted
    givenUp,    \* it was dropped or dead-lettered
    lastRetry   \* the attempt that was last retried, and after which delay

setup == <<provider, policy, parses>>
nsqErr == <<connecting, overwritten>>
queue == <<copy, count, lease>>
workers == <<worker, holds, attempt>>
tally == <<deliveries, successes, givenUp>>
vars == <<setup, queue, workers, nsqErr, ctx, restarts, fetching, tally, faults, lastRetry>>

TypeOK ==
    /\ provider \in Provider /\ policy \in Policy /\ parses \in BOOLEAN
    /\ copy \in [Copy -> {"none", "queued", "delayed", "leased"}]
    /\ count \in [Copy -> 0 .. Modulus - 1]
    /\ lease \in [Copy -> Worker \union {None}]
    /\ worker \in [Worker -> {"idle", "received", "running", "ok", "failed", "skipped", "scheduled"}]
    /\ holds \in [Worker -> Copy \union {None}]
    /\ attempt \in [Worker -> 0 .. Modulus - 1]
    /\ ctx \in {"live", "noFetch", "noHandler", "closed"}
    /\ restarts \in 0 .. MaxRestarts /\ fetching \in {"on", "failed"}
    /\ connecting \in BOOLEAN /\ overwritten \in BOOLEAN
    /\ deliveries \in 0 .. Modulus /\ successes \in Nat /\ faults \in Nat /\ givenUp \in BOOLEAN
    /\ lastRetry \in [attempt : 0 .. Modulus - 1, delay : Nat]
    /\ \A c \in Copy : (copy[c] = "leased") = (lease[c] # None)
    /\ \A w \in Worker : (worker[w] = "idle") = (holds[w] = None)

Init ==
    /\ provider \in Provider /\ policy \in Policy /\ <<provider, policy>> \in Subscription
    /\ parses \in IF provider = "aws" THEN BOOLEAN ELSE {TRUE}
    /\ copy = [c \in Copy |-> IF c = 1 THEN "queued" ELSE "none"]
    /\ count = [c \in Copy |-> 0] /\ lease = [c \in Copy |-> None]
    /\ worker = [w \in Worker |-> "idle"]
    /\ holds = [w \in Worker |-> None] /\ attempt = [w \in Worker |-> 0]
    /\ ctx = "live" /\ restarts = 0 /\ fetching = "on"
    /\ connecting = (provider = "nsq") /\ overwritten = FALSE
    /\ deliveries = 0 /\ successes = 0 /\ faults = 0 /\ givenUp = FALSE
    /\ lastRetry = [attempt |-> 0, delay |-> 0]

\* Counting in 16 bits.
Inc(n) == (n + 1) % Modulus

-----------------------------------------------------------------------------
(* The retry policy. *)

\* NewSubscription: only a policy that is not set at all is defaulted.
MaxRetries == IF policy.set THEN policy.maxRetries ELSE DefaultRetries
MinBackoff == IF policy.minBackoff = 0 THEN 10 * Second ELSE policy.minBackoff
MaxBackoff == IF policy.maxBackoff = 0 THEN 600 * Second ELSE policy.maxBackoff

\* Mutant: the first delivery is counted as a retry.
RetryBelow(a) == MaxRetries # NoRetries /\ (a < MaxRetries \/ MaxRetries = InfiniteRetries)

\* GetDelay: shouldRetry, for an attempt that is a uint16.
ShouldRetry(a) == MaxRetries # NoRetries /\ (a <= MaxRetries \/ MaxRetries = InfiniteRetries)

\* GetDelay: what its loop has multiplied the delay with after n rounds.
Doubled[n \in 0 .. Modulus - 1] == IF n = 0 THEN 1 ELSE 2 * Doubled[n - 1]

\* GetDelay: at least one second.
Base == IF MinBackoff < Second THEN Second ELSE MinBackoff

\* Mutant: a delay that would be too long starts over.
DelayStartsOver(a) == IF Base * Doubled[a] > MaxBackoff THEN Base ELSE Base * Doubled[a]

\* GetDelay: backoff.  The loop doubles and stops above the maximum, which is not looked at before it.
Delay(a) ==
    IF ~ShouldRetry(a) \/ MaxBackoff < MinBackoff \/ (a > 0 /\ Base * Doubled[a] > MaxBackoff)
    THEN MaxBackoff
    ELSE Base * Doubled[a]

\* What is passed to SQS: whole seconds, from one to twelve hours.
Clamped(d) ==
    LET c == IF d < Second THEN Second ELSE IF d > 43200 * Second THEN 43200 * Second ELSE d
    IN  c - (c % Second)

\* getConsumerConfig: MaxAttempts of NSQ's consumer.
MaxAttempts ==
    CASE MaxRetries = 0 -> DefaultRetries
      [] MaxRetries = InfiniteRetries -> Modulus - 1
      [] OTHER -> IF MaxRetries > Modulus - 1 THEN Modulus - 1 ELSE MaxRetries % Modulus

-----------------------------------------------------------------------------
(* The queue. *)

\* Copy c is no longer leased, but in state s.
Leaves(c, s) ==
    /\ copy' = [copy EXCEPT ![c] = s] /\ lease' = [lease EXCEPT ![c] = None]
    /\ count' = IF s = "none" THEN [count EXCEPT ![c] = 0] ELSE count

\* A worker is given a copy, under a lease.
Deliver(w, c) ==
    LET n == Inc(count[c])
    IN  /\ ctx = "live" /\ fetching = "on"
        /\ worker[w] = "idle" /\ copy[c] = "queued"
        /\ IF provider = "nsq" /\ MaxAttempts > 0 /\ n > MaxAttempts
           THEN \* NSQ's consumer finishes the message without a call of the handler.
                Leaves(c, "none") /\ givenUp' = TRUE /\ UNCHANGED <<workers, deliveries>>
           ELSE /\ copy' = [copy EXCEPT ![c] = "leased"] /\ lease' = [lease EXCEPT ![c] = w]
                /\ count' = IF provider = "azure" THEN count ELSE [count EXCEPT ![c] = n]
                /\ worker' = [worker EXCEPT ![w] = "received"]
                /\ holds' = [holds EXCEPT ![w] = c] /\ attempt' = [attempt EXCEPT ![w] = n]
                /\ deliveries' = IF deliveries < Modulus THEN deliveries + 1 ELSE deliveries
                /\ UNCHANGED givenUp
        /\ UNCHANGED <<setup, nsqErr, ctx, restarts, fetching, successes, faults, lastRetry>>

Abandoned(c) == copy[c] = "leased" /\ holds[lease[c]] # c

\* The lease ends, in time or because nobody settled the copy.
Expire(c) ==
    /\ copy[c] = "leased"
    /\ Abandoned(c) \/ faults < MaxFaults
    /\ Leaves(c, "queued")
    /\ faults' = IF Abandoned(c) THEN faults ELSE faults + 1
    /\ UNCHANGED <<setup, nsqErr, workers, ctx, restarts, fetching, tally, lastRetry>>

DelayEnds(c) ==
    /\ copy[c] = "delayed"
    /\ copy' = [copy EXCEPT ![c] = "queued"]
    /\ UNCHANGED <<setup, nsqErr, count, lease, workers, ctx, restarts, fetching, tally, faults, lastRetry>>

-----------------------------------------------------------------------------
(* The callback. *)

\* It is called, unless the handler context is done already.
Call(w) ==
    /\ worker[w] = "received" /\ parses
    /\ worker' = [worker EXCEPT ![w] = IF ctx \in {"live", "noFetch"} THEN "running" ELSE "failed"]
    /\ UNCHANGED <<setup, nsqErr, queue, holds, attempt, ctx, restarts, fetching, tally, faults, lastRetry>>

\* The user's handler returns.
Return(w, ok) ==
    /\ worker[w] = "running"
    /\ successes' = IF ok THEN successes + 1 ELSE successes
    /\ worker' = [worker EXCEPT ![w] = IF ok THEN "ok" ELSE "failed"]
    /\ UNCHANGED <<setup, nsqErr, queue, holds, attempt, ctx, restarts, fetching, deliveries, givenUp, faults, lastRetry>>

\* NSQ: err belongs to Subscribe, not to the handler, so that concurrent handlers share it.
Shared == provider = "nsq" /\ Cardinality(Worker) > 1

\* Another handler writes err between w's assignment and w's test: after json.Unmarshal, or after the
\* callback.
ErrOverwritten(w) ==
    /\ Shared /\ faults < MaxFaults
    /\ \/ worker[w] = "received" /\ worker' = [worker EXCEPT ![w] = "skipped"] /\ UNCHANGED overwritten
       \/ worker[w] = "ok" /\ worker' = [worker EXCEPT ![w] = "failed"] /\ UNCHANGED overwritten
       \/ worker[w] = "failed" /\ worker' = [worker EXCEPT ![w] = "ok"] /\ overwritten' = TRUE
    /\ faults' = faults + 1
    /\ UNCHANGED <<setup, queue, holds, attempt, connecting, ctx, restarts, fetching, tally, lastRetry>>

\* NSQ: ConnectToNSQD has worked, messages may be at the handlers already, and its nil goes to the same
\* err: handlers that have failed and not tested it are told that they succeeded, one alone too.  (A
\* result that is not nil, or a handler's error that is taken for it, is a panic: Restart.)
Connected ==
    /\ connecting /\ connecting' = FALSE
    /\ \E hit \in SUBSET {w \in Worker : worker[w] = "failed"} :
         /\ worker' = [w \in Worker |-> IF w \in hit THEN "ok" ELSE worker[w]]
         /\ overwritten' = (overwritten \/ hit # {})
    /\ UNCHANGED <<setup, queue, holds, attempt, ctx, restarts, fetching, tally, faults, lastRetry>>

-----------------------------------------------------------------------------
(* What the providers' code does next. *)

Holds(w) == lease[holds[w]] = w

\* A settling call on w's copy works, and leaves it in state s.
Works(w, s) ==
    /\ Holds(w) /\ (ctx = "closed" => provider = "nsq")
    /\ Leaves(holds[w], s) /\ UNCHANGED faults

\* It fails: the lease is over, the connection is closed, or by a fault.
Fails(w) ==
    /\ Holds(w) => ctx = "closed" \/ faults < MaxFaults
    /\ faults' = IF Holds(w) THEN faults + 1 ELSE faults
    /\ UNCHANGED queue

\* The worker's function returns.
Free(w) ==
    /\ worker' = [worker EXCEPT ![w] = "idle"] /\ holds' = [holds EXCEPT ![w] = None]
    /\ attempt' = [attempt EXCEPT ![w] = 0]

\* An error ends WorkConcurrently.
PoolFails == fetching' = "failed"

Retried(w, d) == lastRetry' = [attempt |-> attempt[w], delay |-> d]

\* NSQ, and Google: the handler succeeded, and the copy is finished.
Finish(w) ==
    /\ provider \in {"nsq", "gcp"} /\ worker[w] = "ok"
    /\ Works(w, "none") \/ Fails(w)
    /\ Free(w)
    /\ UNCHANGED <<setup, nsqErr, ctx, restarts, fetching, tally, lastRetry>>

\* NSQ: the handler failed, and GetDelay says when to try again.
NsqRequeue(w) ==
    /\ provider = "nsq" /\ worker[w] \in {"failed", "skipped"} /\ ShouldRetry(attempt[w])
    /\ Works(w, "delayed") \/ Fails(w)
    /\ Retried(w, Delay(attempt[w])) /\ Free(w)
    /\ UNCHANGED <<setup, nsqErr, ctx, restarts, fetching, tally>>

\* NSQ: or that the retries are used up, and the message is dropped.
NsqDrop(w) ==
    /\ provider = "nsq" /\ worker[w] \in {"failed", "skipped"} /\ ~ShouldRetry(attempt[w])
    /\ \/ Works(w, "none") /\ givenUp' = TRUE
       \/ Fails(w) /\ UNCHANGED givenUp
    /\ Free(w)
    /\ UNCHANGED <<setup, nsqErr, ctx, restarts, fetching, deliveries, successes, lastRetry>>

\* Google: the handler failed; the subscription's own policy decides when it is tried again.
GcpNack(w) ==
    /\ provider = "gcp" /\ worker[w] = "failed"
    /\ Works(w, "delayed") \/ Fails(w)
    /\ Free(w)
    /\ UNCHANGED <<setup, nsqErr, ctx, restarts, fetching, tally, lastRetry>>

\* AWS: a notification that does not parse is left to its visibility timeout.
AwsSkip(w) ==
    /\ provider = "aws" /\ worker[w] = "received" /\ ~parses
    /\ Free(w)
    /\ UNCHANGED <<setup, nsqErr, queue, ctx, restarts, fetching, tally, faults, lastRetry>>

Cancelled == ctx \in {"noHandler", "closed"}

\* AWS: after a cancellation nothing is settled, even if the handler succeeded.
AwsCancelled(w) ==
    /\ provider = "aws" /\ worker[w] \in {"ok", "failed"} /\ Cancelled
    /\ faults' = IF worker[w] = "ok" /\ Holds(w) THEN faults + 1 ELSE faults
    /\ Free(w) /\ PoolFails
    /\ UNCHANGED <<setup, nsqErr, queue, ctx, restarts, tally, lastRetry>>

\* AWS: DeleteMessage; with the receipt of an earlier delivery it may or may not delete.
AwsDelete(w) ==
    /\ provider = "aws" /\ worker[w] = "ok" /\ ~Cancelled
    /\ \/ Works(w, "none") \/ Fails(w)
       \/ ~Holds(w) /\ Leaves(holds[w], "none") /\ UNCHANGED faults
    /\ Free(w)
    /\ UNCHANGED <<setup, nsqErr, ctx, restarts, fetching, tally, lastRetry>>

\* Mutant: a message that is out of retries is deleted.
AwsGiveUp(w) ==
    /\ provider = "aws" /\ worker[w] = "failed" /\ ~Cancelled
    /\ Works(w, IF ShouldRetry(attempt[w]) THEN "delayed" ELSE "none") \/ Fails(w)
    /\ Retried(w, Clamped(Delay(attempt[w]))) /\ Free(w)
    /\ UNCHANGED <<setup, nsqErr, ctx, restarts, fetching, tally>>

\* AWS: ChangeMessageVisibility, by the delay of GetDelay even when it says not to try again.
AwsBackoff(w) ==
    /\ provider = "aws" /\ worker[w] = "failed" /\ ~Cancelled
    /\ Works(w, "delayed") \/ Fails(w)
    /\ Retried(w, Clamped(Delay(attempt[w]))) /\ Free(w)
    /\ UNCHANGED <<setup, nsqErr, ctx, restarts, fetching, tally>>

\* Another copy is made where there is none and none is worked on.
Unused(c) == copy[c] = "none" /\ \A w \in Worker : holds[w] # c
NextCopy == CHOOSE c \in Copy : Unused(c)

\* Azure: the retry is scheduled, and the copy is to be completed.
ToComplete(w) == worker' = [worker EXCEPT ![w] = "scheduled"] /\ UNCHANGED <<holds, attempt>>

\* Azure: scheduleRetry sends another copy, with a higher retry count; a send that fails may have sent.
AzureSchedule(w) ==
    /\ provider = "azure" /\ worker[w] = "failed" /\ ShouldRetry(attempt[w])
    /\ \E c \in Copy : Unused(c)
    /\ \E sent, ok \in BOOLEAN :
         /\ ok => sent /\ ctx # "closed"
         /\ ~ok => ctx = "closed" \/ faults < MaxFaults
         /\ faults' = IF ok THEN faults ELSE faults + 1
         /\ IF sent /\ ctx # "closed"
            THEN copy' = [copy EXCEPT ![NextCopy] = "delayed"] /\ count' = [count EXCEPT ![NextCopy] = attempt[w]]
            ELSE UNCHANGED <<copy, count>>
         /\ IF ok
            THEN ToComplete(w) /\ UNCHANGED fetching
            ELSE Free(w) /\ PoolFails
    /\ Retried(w, Delay(attempt[w]))
    /\ UNCHANGED <<setup, nsqErr, lease, ctx, restarts, tally>>

\* Azure: CompleteMessage; its error ends WorkConcurrently.
AzureComplete(w) ==
    /\ provider = "azure" /\ worker[w] \in {"ok", "scheduled"}
    /\ \/ Works(w, "none") /\ UNCHANGED fetching
       \/ Fails(w) /\ PoolFails
    /\ Free(w)
    /\ UNCHANGED <<setup, nsqErr, ctx, restarts, tally, lastRetry>>

\* Azure: DeadLetterMessage; CompleteMessage is called next, fails on a settled message, and ends
\* WorkConcurrently like a failure of the first call does.
AzureDeadLetter(w) ==
    /\ provider = "azure" /\ worker[w] = "failed" /\ ~ShouldRetry(attempt[w])
    /\ \/ Works(w, "none") /\ givenUp' = TRUE
       \/ Fails(w) /\ UNCHANGED givenUp
    /\ Free(w) /\ PoolFails
    /\ UNCHANGED <<setup, nsqErr, ctx, restarts, deliveries, successes, lastRetry>>

-----------------------------------------------------------------------------
(* The loop of Subscribe, and the process. *)

\* The fetch fails.
FetchFails ==
    /\ provider # "nsq" /\ ctx = "live" /\ fetching = "on"
    /\ PoolFails
    /\ UNCHANGED <<setup, nsqErr, queue, workers, ctx, restarts, tally, faults, lastRetry>>

\* Mutant: the loop ends with an error.
EndLoop == FALSE /\ UNCHANGED vars

\* After five seconds it fetches again.
Resume ==
    /\ fetching = "failed" /\ ctx = "live"
    /\ fetching' = "on"
    /\ UNCHANGED <<setup, nsqErr, queue, workers, ctx, restarts, tally, faults, lastRetry>>

\* A copy that was fetched and not handed to a worker when the fetching ends is dropped, unsettled.
Abandon(w) ==
    /\ provider \in {"aws", "azure"} /\ worker[w] = "received"
    /\ ctx # "live" \/ fetching = "failed"
    /\ Free(w)
    /\ UNCHANGED <<setup, nsqErr, queue, ctx, restarts, fetching, tally, faults, lastRetry>>

\* Manager.Shutdown ends the contexts one after another.
Shutdown ==
    /\ restarts < MaxRestarts
    /\ \/ ctx = "live" /\ ctx' = "noFetch"
       \/ ctx = "noFetch" /\ ctx' = "noHandler"
       \/ ctx \in {"noFetch", "noHandler"} /\ ctx' = "closed"
    /\ UNCHANGED <<setup, nsqErr, queue, workers, restarts, fetching, tally, faults, lastRetry>>

\* The process exits or crashes, and another one is started.
Restart ==
    /\ restarts < MaxRestarts
    /\ restarts' = restarts + 1
    /\ ctx' = "live" /\ fetching' = "on" /\ connecting' = (provider = "nsq")
    /\ worker' = [w \in Worker |-> "idle"]
    /\ holds' = [w \in Worker |-> None] /\ attempt' = [w \in Worker |-> 0]
    /\ faults' = faults + Cardinality({w \in Worker : worker[w] \in {"ok", "scheduled"} /\ Holds(w)})
    /\ UNCHANGED <<setup, overwritten, queue, tally, lastRetry>>

-----------------------------------------------------------------------------
DeliverStep == \E w \in Worker, c \in Copy : Deliver(w, c)
QueueStep == \E c \in Copy : DelayEnds(c) \/ (Abandoned(c) /\ Expire(c))
Settle(w) ==
    \/ Finish(w) \/ NsqRequeue(w) \/ NsqDrop(w) \/ GcpNack(w)
    \/ AwsSkip(w) \/ AwsCancelled(w) \/ AwsDelete(w) \/ AwsBackoff(w)
    \/ AzureSchedule(w) \/ AzureComplete(w) \/ AzureDeadLetter(w)
WorkerStep(w) == Call(w) \/ Settle(w)
Handler(w) == \E ok \in BOOLEAN : Return(w, ok)

Next ==
    \/ DeliverStep \/ QueueStep \/ \E c \in Copy : Expire(c)
    \/ \E w \in Worker : WorkerStep(w) \/ Handler(w) \/ ErrOverwritten(w) \/ Abandon(w)
    \/ Connected \/ FetchFails \/ Resume \/ Shutdown \/ Restart

Spec == Init /\ [][Next]_vars

\* The provider delivers; delays and leases end; goroutines run.
FairSpec ==
    /\ Spec
    /\ WF_vars(DeliverStep) /\ WF_vars(QueueStep) /\ WF_vars(Resume)
    /\ \A w \in Worker : WF_vars(WorkerStep(w))

-----------------------------------------------------------------------------
(* Properties. *)

\* The message is never lost: until the handler has succeeded, or the retries are used up, a copy of
\* it is with the provider, whatever expires, fails, crashes or is cancelled.
NotLost == successes > 0 \/ givenUp \/ \E c \in Copy : copy[c] # "none"

\* The handler succeeds more than once only for a lease that expired under it, a call that failed, a
\* result that was overwritten, or a process that ended between the success and the call.
DuplicatesHaveACause == successes <= 1 + faults

\* Nothing is lost except through NSQ's shared err, and nothing is handled twice without a cause.
DeliveryInv == TypeOK /\ (NotLost \/ overwritten) /\ DuplicatesHaveACause

\* A message is dropped or dead-lettered only after the code was given it, and that as often as the
\* MaxRetries it runs with says: once more than that on Azure, that often on NSQ, whose consumer counts
\* the first delivery as one of MaxAttempts; never if the policy says InfiniteRetries.
GivenUpAfterItsAttempts ==
    givenUp => /\ MaxRetries # InfiniteRetries /\ deliveries >= 1
               /\ (IF provider = "nsq" THEN deliveries + 1 ELSE deliveries) > MaxRetries

\* What RetryPolicy promises: 100 retries for 0, n for n > 0, and none for NoRetries.
PromisedRetries ==
    CASE policy.maxRetries = 0 -> DefaultRetries
      [] policy.maxRetries = NoRetries -> 0
      [] OTHER -> policy.maxRetries

\* As RetryPolicy documents it: a message is given up only after it was delivered once and then as
\* often as the policy says.
GivenUpOnlyAfterRetries ==
    givenUp => policy.maxRetries # InfiniteRetries /\ deliveries > PromisedRetries

\* A retry comes sooner than the one before it only if its attempt has a lower number, as one of another
\* copy has, or if the counter has gone round at 65536 attempts; and never later than MaxBackoff says, or
\* a second.
BackoffGrows ==
    [][/\ lastRetry'.delay < lastRetry.delay => lastRetry'.attempt < lastRetry.attempt \/ lastRetry.attempt = 0
       /\ lastRetry'.delay <= MaxBackoff \/ lastRetry'.delay <= Second]_lastRetry

\* If the handler, called again and again, does not fail for ever, nor fetching, and faults and
\* restarts come to an end, a message that parses is handled or given up, unless NSQ's err was
\* overwritten or the process has shut down for good.
EventuallySettled ==
    SF_vars(\E w \in Worker : Return(w, TRUE)) /\ <>[][~FetchFails]_vars /\ parses
        => <>(successes > 0 \/ givenUp \/ overwritten \/ [](ctx # "live"))
=============================================================================
