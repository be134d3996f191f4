------------------------------- MODULE Trace -------------------------------
(***************************************************************************)
(* One traced operation of the Go runtime: the request tracker             *)
(* (shared/reqtrack) that counts references to it from any number of       *)
(* goroutines, the trace log (trace2.Log) they write to, and the streamer  *)
(* (platform.Client.StreamTrace) that empties it.                          *)
(*                                                                         *)
(* Goroutine 1 serves an incoming request (processRequest), or is the      *)
(* goroutine of a test.  The others are started by it: the auth handler's, *)
(* one per service-to-service call (runCall), and those that user code     *)
(* starts, which inherit the operation and the request without a reference *)
(* and may outlive both.  A goroutine begins at most one request, so a     *)
(* request is named by its goroutine.                                      *)
(***************************************************************************)
EXTENDS Naturals, Sequences, FiniteSets, SequencesExt

CONSTANTS
    MaxGoroutines,  \* bound: how many goroutines the operation has
    MaxEvents,      \* bound: how many events user code logs by itself
    None            \* no request, no parent

ASSUME TraceAssumption ==
    /\ MaxGoroutines \in Nat \ {0}
    /\ MaxEvents \in Nat
    /\ None \notin Nat

Goroutine == 1 .. MaxGoroutines
Main == 1

VARIABLES
    mode,       \* who streams: the "platform" client, under "testing", or the "noop" streamer
    started,    \* how many goroutines have been started
    kind,       \* why a goroutine was started
    pc,         \* where it is
    cur,        \* encoreG.req: the request it is tagged with
    parent,     \* who waits for it
    refs,       \* encoreOp.refs
    sampled,    \* model.Request.Traced
    traced,     \* encoreOp.trace is not nil
    events,     \* how many events user code has logged
    data, done, \* trace2.Log
    streamer,   \* the goroutine of initStream
    chunk,      \* traceLogReader.data, or the body of a request that is sent at once
    atEnd,      \* traceLogReader.done
    sent,       \* what the platform has received
    logged,     \* history: every event added to the log
    doneAt,     \* history: how many of them when it was first marked done
    zeroed,     \* history: refs has been zero
    late        \* history: the requests begun after that

tracker == <<started, kind, pc, cur, parent, refs, sampled, traced, events, zeroed, late>>
log == <<data, done, logged, doneAt>>
stream == <<streamer, chunk, atEnd, sent>>
vars == <<mode, tracker, log, stream>>

Event == {"start", "end", "call", "returned", "user"} \X Goroutine

\* Where a goroutine that has begun a request holds a reference for it; "aborted" it keeps.
HoldsRef == {"span", "validate", "run", "callwait", "callquiet", "end", "finish", "aborted"}
Open == {g \in 1 .. started : kind[g] # "user" /\ pc[g] \in HoldsRef}

\* BeginOperation's own reference, until FinishOperation.
OpHeld == mode # "testing" /\ pc[Main] \notin {"start", "mark", "gone"}

TypeOK ==
    /\ mode \in {"platform", "testing", "noop"}
    /\ started \in Goroutine
    /\ kind \in [Goroutine -> {"main", "auth", "call", "user"}]
    /\ pc \in [Goroutine -> {"start", "auth", "authwait", "begin", "release", "mark",
                             "waitsent", "gone"} \union HoldsRef]
    /\ cur \in [Goroutine -> Goroutine \union {None}]
    /\ parent \in [Goroutine -> Goroutine \union {None}]
    /\ refs \in 0 .. MaxGoroutines + 1
    /\ sampled \in [Goroutine -> BOOLEAN]
    /\ traced \in BOOLEAN
    /\ events \in 0 .. MaxEvents
    /\ data \in Seq(Event) /\ chunk \in Seq(Event) /\ sent \in Seq(Event) /\ logged \in Seq(Event)
    /\ done \in BOOLEAN /\ atEnd \in BOOLEAN
    /\ doneAt \in Nat
    /\ streamer \in {"off", "waiting", "reading", "ended", "failed"}
    /\ zeroed \in BOOLEAN
    /\ late \subseteq Goroutine

Init ==
    /\ mode \in {"platform", "testing", "noop"}
    /\ started = 1
    /\ kind = [g \in Goroutine |-> IF g = Main THEN "main" ELSE "user"]
    /\ pc = [g \in Goroutine |-> "start"]
    /\ cur = [g \in Goroutine |-> None]
    /\ parent = [g \in Goroutine |-> None]
    /\ refs = 0
    /\ sampled = [g \in Goroutine |-> FALSE]
    /\ traced = FALSE
    /\ events = 0
    /\ data = <<>> /\ done = FALSE
    /\ streamer = "off" /\ chunk = <<>> /\ atEnd = FALSE /\ sent = <<>>
    /\ logged = <<>> /\ doneAt = 0
    /\ zeroed = FALSE /\ late = {}

-----------------------------------------------------------------------------
(* The trace log and its lazy streamer. *)

\* initStream, under its sync.Once.
InitStream ==
    streamer' = IF streamer # "off" THEN streamer
                ELSE IF mode = "noop" THEN "reading" ELSE "waiting"

\* Current().Trace is the log of a traced operation, and asking for it starts the streamer;
\* Log.Add appends under the log's lock.
LogEvent(e) ==
    IF traced
    THEN /\ InitStream
         /\ data' = Append(data, e)
         /\ logged' = Append(logged, e)
         /\ UNCHANGED <<mode, done, doneAt, chunk, atEnd, sent>>
    ELSE UNCHANGED <<mode, log, stream>>

\* Current() without an event.
Look == /\ IF traced THEN InitStream ELSE UNCHANGED streamer
        /\ UNCHANGED <<mode, log, chunk, atEnd, sent>>

\* lazyTraceInit.MarkDone.
LogDone == /\ done' = TRUE
           /\ doneAt' = IF done THEN doneAt ELSE Len(logged)
           /\ InitStream

-----------------------------------------------------------------------------
(* The request tracker, and the code that calls it. *)

Goto(g, l) == pc' = [pc EXCEPT ![g] = l]

\* A new goroutine of kind k, at l, that inherits the operation and the request of g (startEncoreG).
Start(g, k, l, waits) ==
    LET c == started + 1 IN
    /\ started < MaxGoroutines
    /\ started' = c
    /\ kind' = [kind EXCEPT ![c] = k]
    /\ pc' = [pc EXCEPT ![c] = l, ![g] = waits]
    /\ cur' = [cur EXCEPT ![c] = cur[g]]
    /\ parent' = [parent EXCEPT ![c] = IF waits = "run" THEN None ELSE g]

Child(g) == {c \in 1 .. started : parent[c] = g /\ pc[c] \notin {"gone", "aborted"}}

\* processRequest: a new operation, referenced by this goroutine.
BeginOperation ==
    /\ mode # "testing" /\ pc[Main] = "start"
    /\ refs' = 1
    /\ Goto(Main, "auth")
    /\ UNCHANGED <<mode, started, kind, cur, parent, sampled, traced, events, zeroed, late, log, stream>>

\* runAuthHandler: the handler runs in a goroutine of its own, and its caller waits.
Authenticate ==
    /\ pc[Main] = "auth"
    /\ Start(Main, "auth", "begin", "authwait")
    /\ UNCHANGED <<mode, refs, sampled, traced, events, zeroed, late, log, stream>>

\* No auth handler runs: none is needed, or the request is refused without one.
SkipAuth ==
    /\ pc[Main] = "auth"
    /\ \E l \in {"begin", "release"} : Goto(Main, l)
    /\ UNCHANGED <<mode, started, kind, cur, parent, refs, sampled, traced, events, zeroed, late, log, stream>>

\* The auth handler lets the request proceed, or does not.
AuthReturns ==
    /\ pc[Main] = "authwait" /\ Child(Main) = {}
    /\ \E l \in {"begin", "release"} : Goto(Main, l)
    /\ UNCHANGED <<mode, started, kind, cur, parent, refs, sampled, traced, events, zeroed, late, log, stream>>

\* Mutant: the new request takes over the reference of the one it replaces.
TakeOverRef(g) == IF cur[g] = None THEN refs + 1 ELSE refs

\* beginReq on a goroutine that is part of an operation.
IncRef(g) == refs + 1

\* BeginRequest: a request that replaces another inherits whether it is traced; otherwise it is
\* sampled.  The first traced request of an operation begins its trace.
BeginRequest(g) ==
    /\ pc[g] = "begin"
    /\ \E s \in IF cur[g] = None THEN BOOLEAN ELSE {sampled[cur[g]]} :
          /\ sampled' = [sampled EXCEPT ![g] = s]
          /\ traced' = (traced \/ s)
    /\ refs' = IncRef(g)
    /\ cur' = [cur EXCEPT ![g] = g]
    /\ late' = IF zeroed THEN late \union {g} ELSE late
    /\ Goto(g, "span")
    /\ Look
    /\ UNCHANGED <<started, kind, parent, events, zeroed>>

\* beginRequest fails before it calls the tracker.
BeginFails(g) ==
    /\ pc[g] = "begin"
    /\ Goto(g, IF g = Main THEN "release" ELSE "gone")
    /\ UNCHANGED <<mode, started, kind, cur, parent, refs, sampled, traced, events, zeroed, late, log, stream>>

\* StartTest: the goroutine is not part of an operation, so beginReq makes one for the request.
StartTest ==
    /\ mode = "testing" /\ pc[Main] = "start"
    /\ refs' = 1
    /\ cur' = [cur EXCEPT ![Main] = Main]
    /\ sampled' = [sampled EXCEPT ![Main] = TRUE]
    /\ traced' = TRUE
    /\ Goto(Main, "span")
    /\ UNCHANGED <<mode, started, kind, parent, events, zeroed, late, log, stream>>

\* The span start, once the request has begun.
SpanStart(g) ==
    /\ pc[g] = "span"
    /\ LogEvent(<<"start", g>>)
    /\ Goto(g, IF kind[g] = "call" THEN "validate" ELSE "run")
    /\ UNCHANGED <<started, kind, cur, parent, refs, sampled, traced, events, zeroed, late>>

\* runCall: the parameters of a call are valid and its handler runs...
Validate(g) ==
    /\ pc[g] = "validate"
    /\ Goto(g, "run")
    /\ UNCHANGED <<mode, started, kind, cur, parent, refs, sampled, traced, events, zeroed, late, log, stream>>

\* ... or they are not, or auth data does not round-trip: it returns without finishRequest.
ReturnInvalid(g) ==
    /\ pc[g] = "validate"
    /\ Goto(g, "aborted")
    /\ UNCHANGED <<mode, started, kind, cur, parent, refs, sampled, traced, events, zeroed, late, log, stream>>

\* User code logs an event; so does a call that beginCall refuses after its start.
UserEvent(g) ==
    /\ pc[g] = "run" /\ traced /\ events < MaxEvents
    /\ events' = events + 1
    /\ LogEvent(<<"user", g>>)
    /\ UNCHANGED <<started, kind, pc, cur, parent, refs, sampled, traced, zeroed, late>>

\* User code starts a goroutine.
Go(g) ==
    /\ pc[g] = "run"
    /\ Start(g, "user", "run", "run")
    /\ UNCHANGED <<mode, refs, sampled, traced, events, zeroed, late, log, stream>>

\* User code calls an endpoint: beginCall, and a goroutine to run it.
Call(g) ==
    /\ pc[g] = "run"
    /\ LogEvent(<<"call", started + 1>>)
    /\ Start(g, "call", "begin", IF traced THEN "callwait" ELSE "callquiet")
    /\ UNCHANGED <<refs, sampled, traced, events, zeroed, late>>

\* The call has ended: finishCall logs its end if its start was logged.
CallReturns(g) ==
    /\ pc[g] \in {"callwait", "callquiet"} /\ Child(g) = {}
    /\ Goto(g, "run")
    /\ IF pc[g] = "callwait" THEN LogEvent(<<"returned", g>>) ELSE Look
    /\ UNCHANGED <<started, kind, cur, parent, refs, sampled, traced, events, zeroed, late>>

\* User code returns.
UserReturns(g) ==
    /\ pc[g] = "run"
    /\ Goto(g, IF kind[g] = "user" THEN "gone" ELSE "end")
    /\ UNCHANGED <<mode, started, kind, cur, parent, refs, sampled, traced, events, zeroed, late, log, stream>>

\* finishRequest: the span end is logged before the reference is given up.
SpanEnd(g) ==
    /\ pc[g] = "end"
    /\ LogEvent(<<"end", g>>)
    /\ Goto(g, "finish")
    /\ UNCHANGED <<started, kind, cur, parent, refs, sampled, traced, events, zeroed, late>>

\* Mutant: tracing is left to whoever is next.
NeverLast(n) == FALSE

\* decRef: the one that takes the count to zero sends off the trace.
IsLast(n) == n = 1 /\ traced

\* decRef, on the way to l.  (The code looks at the trace after the decrement; one step here.)
DecRef(g, l) ==
    /\ refs' = refs - 1
    /\ zeroed' = (zeroed \/ refs = 1)
    /\ Goto(g, IF IsLast(refs) THEN "mark" ELSE l)

FinishRequest(g) ==
    /\ pc[g] = "finish"
    /\ DecRef(g, IF g = Main /\ mode # "testing" THEN "release" ELSE "gone")
    /\ cur' = [cur EXCEPT ![g] = None]
    /\ UNCHANGED <<mode, started, kind, parent, sampled, traced, events, late, log, stream>>

FinishOperation ==
    /\ pc[Main] = "release"
    /\ DecRef(Main, "gone")
    /\ UNCHANGED <<mode, started, kind, cur, parent, sampled, traced, events, late, log, stream>>

\* Mutant: EndTest does not wait.
BlockNever(g) == FALSE

\* blockOnTraceSend: only EndTest asks for it.
BlockOnTraceSend(g) == g = Main /\ mode = "testing"

MarkDone(g) ==
    /\ pc[g] = "mark"
    /\ LogDone
    /\ Goto(g, IF BlockOnTraceSend(g) THEN "waitsent" ELSE "gone")
    /\ UNCHANGED <<mode, started, kind, cur, parent, refs, sampled, traced, events, zeroed, late,
                   data, logged, chunk, atEnd, sent>>

WaitForStreamSent(g) ==
    /\ pc[g] = "waitsent" /\ streamer \in {"ended", "failed"}
    /\ Goto(g, "gone")
    /\ UNCHANGED <<mode, started, kind, cur, parent, refs, sampled, traced, events, zeroed, late, log, stream>>

-----------------------------------------------------------------------------
(* The streamer. *)

\* blockingTrace, and streamingTrace when WaitAtLeast reports that the trace is done: one body.
TakeAll ==
    /\ streamer = "waiting" /\ done
    /\ chunk' = data /\ data' = <<>>
    /\ atEnd' = TRUE
    /\ streamer' = IF data = <<>> THEN "ended" ELSE "reading"
    /\ UNCHANGED <<mode, tracker, done, logged, doneAt, sent>>

\* WaitAtLeast returns before that: its second is over, and an event has woken it up.
BeginStreaming ==
    /\ streamer = "waiting" /\ mode = "platform" /\ ~done /\ data # <<>>
    /\ streamer' = "reading"
    /\ UNCHANGED <<mode, tracker, log, chunk, atEnd, sent>>

\* readMoreIfNeeded, with WaitAndClear.
ReadMore ==
    /\ streamer = "reading" /\ chunk = <<>> /\ ~atEnd
    /\ data # <<>> \/ done
    /\ chunk' = data /\ atEnd' = done
    /\ data' = <<>>
    /\ UNCHANGED <<mode, tracker, done, logged, doneAt, streamer, sent>>

\* traceLogReader.Read: net/http sends what it has read.
Send ==
    /\ streamer = "reading" /\ chunk # <<>>
    /\ sent' = sent \o chunk /\ chunk' = <<>>
    /\ UNCHANGED <<mode, tracker, log, streamer, atEnd>>

\* Mutant: done is looked at before the data.
EOFWhenDone == done

\* The reader has nothing left.
EOF == chunk = <<>> /\ atEnd

\* io.EOF, and a response.
EndStream ==
    /\ streamer = "reading" /\ EOF
    /\ streamer' = "ended"
    /\ UNCHANGED <<mode, tracker, log, chunk, atEnd, sent>>

\* sendTraceRequest fails: the error is logged and the goroutine ends.
StreamFails ==
    /\ streamer = "reading" /\ mode # "noop"
    /\ chunk # <<>> \/ sent # <<>>
    /\ streamer' = "failed"
    /\ UNCHANGED <<mode, tracker, log, chunk, atEnd, sent>>

-----------------------------------------------------------------------------
RuntimeStep(g) ==
    \/ BeginRequest(g) \/ BeginFails(g) \/ SpanStart(g) \/ Validate(g) \/ ReturnInvalid(g)
    \/ CallReturns(g) \/ SpanEnd(g) \/ FinishRequest(g) \/ MarkDone(g) \/ WaitForStreamSent(g)

UserStep(g) == UserEvent(g) \/ Go(g) \/ Call(g) \/ UserReturns(g)

Streaming == TakeAll \/ BeginStreaming \/ ReadMore \/ Send \/ EndStream \/ StreamFails

Next ==
    \/ BeginOperation \/ Authenticate \/ SkipAuth \/ AuthReturns \/ FinishOperation \/ StartTest
    \/ \E g \in 1 .. started : RuntimeStep(g) \/ UserStep(g)
    \/ Streaming

Spec == Init /\ [][Next]_vars

\* Goroutines run, and the platform takes what is sent to it or refuses it; user code need not end.
FairSpec ==
    /\ Spec
    /\ \A g \in Goroutine : WF_vars(g <= started /\ RuntimeStep(g))
    /\ WF_vars(Authenticate \/ SkipAuth \/ AuthReturns \/ FinishOperation)
    /\ WF_vars(TakeAll \/ ReadMore \/ Send \/ EndStream)

-----------------------------------------------------------------------------
(* Properties. *)

\* impl.go on refs: "1 + number of requests that reference this op", whatever order goroutines
\* begin and finish in, after the operation has been finished too.
RefsCountRequests == refs = Cardinality(Open) + (IF OpHeld THEN 1 ELSE 0)

\* The log is marked done only when nobody holds the operation: whoever still runs a request began
\* it after the count had reached zero, in a goroutine that outlived its own request.
DoneMeansNobodyCounted ==
    done => ~OpHeld /\ Open \subseteq late

\* Until the streamer ends, every event is in the log, in its hands or sent: once, in order.  When
\* it ends well, everything logged before the log was marked done has been sent.
NothingLostBeforeDone ==
    /\ streamer \notin {"ended", "failed"} => logged = sent \o chunk \o data
    /\ streamer = "ended" => IsPrefix(sent, logged) /\ Len(sent) >= doneAt

\* A trace that has been sent holds the end of every span whose start it holds, of the requests
\* that were counted.
SpansAreComplete ==
    streamer = "ended" =>
        \A g \in Goroutine \ late :
            (\E i \in DOMAIN sent : sent[i] = <<"start", g>>) =>
                \E i \in DOMAIN sent : sent[i] = <<"end", g>>

\* EndTest, if it gave up the last reference, returns after all that was logged until then has been
\* sent, or the platform has refused it.
TestReturnsAfterSend ==
    [][mode = "testing" /\ zeroed' /\ pc[Main] # "gone" /\ pc'[Main] = "gone" =>
           streamer = "failed" \/ (done /\ Len(sent) >= doneAt)]_vars

\* Once the count of a traced operation is zero, its stream ends.
SentWhenUnreferenced == zeroed /\ traced ~> streamer \in {"ended", "failed"}

\* The reference count is exact, and says when the log is done.
RefsInv == TypeOK /\ RefsCountRequests /\ DoneMeansNobodyCounted

\* No event that was logged in time is missing from the trace.
TraceIsComplete == NothingLostBeforeDone /\ SpansAreComplete
=============================================================================
