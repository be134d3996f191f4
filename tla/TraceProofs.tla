---------------------------- MODULE TraceProofs ----------------------------
(***************************************************************************)
(* Proofs about module Trace, for any number of goroutines and events: the *)
(* reference count is exact, no event that was logged in time is missing   *)
(* from a trace that was sent, and EndTest waits for the trace.            *)
(***************************************************************************)
EXTENDS Trace, FiniteSetTheorems, SequenceTheorems, TLAPS

-----------------------------------------------------------------------------
(* The inductive invariant. *)

TrackerTypes ==
    /\ mode \in {"platform", "testing", "noop"}
    /\ started \in Goroutine
    /\ kind \in [Goroutine -> {"main", "auth", "call", "user"}]
    /\ pc \in [Goroutine -> {"start", "auth", "authwait", "begin", "release", "mark",
                             "waitsent", "gone"} \union HoldsRef]

DataTypes ==
    /\ cur \in [Goroutine -> Goroutine \union {None}]
    /\ parent \in [Goroutine -> Goroutine \union {None}]
    /\ sampled \in [Goroutine -> BOOLEAN]
    /\ events \in 0 .. MaxEvents
    /\ late \subseteq Goroutine

Flags == traced \in BOOLEAN /\ done \in BOOLEAN /\ atEnd \in BOOLEAN /\ zeroed \in BOOLEAN

LogTypes ==
    /\ data \in Seq(Event) /\ chunk \in Seq(Event) /\ sent \in Seq(Event) /\ logged \in Seq(Event)
    /\ doneAt \in Nat
    /\ streamer \in {"off", "waiting", "reading", "ended", "failed"}

\* Where goroutines can be: those of user code hold no reference, and that of a test
\* has no operation but its own, which is traced.
Places ==
    /\ kind[Main] = "main"
    /\ \A g \in Goroutine : kind[g] = "user" => pc[g] \in {"start", "run", "callwait", "callquiet", "gone"}
    /\ pc[Main] = "start" => started = 1 /\ ~zeroed
    /\ \A g \in Goroutine : pc[g] = "waitsent" => mode = "testing"
    /\ mode = "testing" => /\ pc[Main] \notin {"auth", "authwait", "begin", "release"}
                           /\ pc[Main] # "start" => traced
                           /\ Main \notin late

\* Once the count has been zero only requests begun later are counted, and the log is
\* marked done after that.
Zeroed ==
    /\ zeroed => ~OpHeld /\ Open \subseteq late
    /\ \A g \in Goroutine : pc[g] = "mark" => zeroed
    /\ done => zeroed

\* What was logged is sent, about to be sent, or waiting; the reader knows that it is at
\* the end only when it has all that was logged before the log was done.
LogKept ==
    /\ streamer \in {"off", "waiting"} => chunk = <<>>
    /\ streamer \notin {"ended", "failed"} => logged = sent \o chunk \o data
    /\ doneAt <= Len(logged)
    /\ atEnd /\ streamer \notin {"ended", "failed"} => done /\ Len(sent) + Len(chunk) >= doneAt
    /\ streamer = "ended" => done /\ IsPrefix(sent, logged) /\ Len(sent) >= doneAt

StartLogged(g) == \E i \in 1 .. Len(logged) : logged[i] = <<"start", g>>
EndLogged(g, n) == \E i \in 1 .. n : logged[i] = <<"end", g>>

\* Where a request is whose span has started and not ended.
InSpan == {"validate", "run", "callwait", "callquiet", "end", "aborted"}

\* A span that was started is ended before its request gives up its reference, and
\* before the log is done.
SpansLogged ==
    /\ logged # <<>> => traced
    /\ \A g \in Goroutine : StartLogged(g) => (g \in Open /\ pc[g] \in InSpan) \/ EndLogged(g, Len(logged))
    /\ done => \A g \in Goroutine \ late : StartLogged(g) => EndLogged(g, doneAt)

TraceInv ==
    /\ TrackerTypes /\ DataTypes /\ Flags /\ LogTypes
    /\ Places /\ RefsCountRequests /\ Zeroed /\ LogKept /\ SpansLogged

-----------------------------------------------------------------------------
(* Facts about numbers, sets and sequences. *)

(* The main goroutine is one of the goroutines. *)
LEMMA MainIsOne == MaxGoroutines \in Nat \ {0} /\ MaxEvents \in Nat /\ None \notin Goroutine /\ Main \in Goroutine
  BY TraceAssumption DEF TraceAssumption, Goroutine, Main

(* A prefix agrees with the whole at every place it has. *)
LEMMA PrefixAgrees ==
  ASSUME NEW S, NEW s \in Seq(S), NEW t \in Seq(S)
  PROVE  IsPrefix(s, t) <=> Len(s) <= Len(t) /\ \A i \in 1 .. Len(s) : s[i] = t[i]
  <1>1. SubSeq(s, 1, Len(s)) = s
    OBVIOUS
  <1>2. CASE Len(s) <= Len(t)
    <2>1. SubSeq(t, 1, Len(s)) \in Seq(S) /\ Len(SubSeq(t, 1, Len(s))) = Len(s)
      BY <1>2
    <2>2. \A i \in 1 .. Len(s) : SubSeq(t, 1, Len(s))[i] = t[i]
      BY <1>2
    <2>3. s = SubSeq(t, 1, Len(s)) <=> \A i \in 1 .. Len(s) : s[i] = SubSeq(t, 1, Len(s))[i]
      BY <2>1
    <2> QED BY <1>1, <1>2, <2>2, <2>3 DEF IsPrefix
  <1>3. CASE ~(Len(s) <= Len(t))
    BY <1>3 DEF IsPrefix
  <1> QED BY <1>2, <1>3

(* A sequence is a prefix of what begins with it. *)
LEMMA PrefixOfConcat ==
  ASSUME NEW S, NEW s \in Seq(S), NEW t \in Seq(S)
  PROVE  IsPrefix(s, s \o t)
  <1>1. s \o t \in Seq(S) /\ Len(s) <= Len(s \o t) /\ \A i \in 1 .. Len(s) : s[i] = (s \o t)[i]
    OBVIOUS
  <1> QED BY <1>1, PrefixAgrees

(* It stays one when the whole grows. *)
LEMMA PrefixOfAppend ==
  ASSUME NEW S, NEW s \in Seq(S), NEW t \in Seq(S), NEW e \in S, IsPrefix(s, t)
  PROVE  IsPrefix(s, Append(t, e))
  <1>1. Len(s) <= Len(t) /\ \A i \in 1 .. Len(s) : s[i] = t[i]
    BY PrefixAgrees
  <1>2. Append(t, e) \in Seq(S) /\ Len(s) <= Len(Append(t, e))
        /\ \A i \in 1 .. Len(s) : s[i] = Append(t, e)[i]
    BY <1>1
  <1> QED BY <1>2, PrefixAgrees

(* What is added at the end of a part is added at the end of the whole. *)
LEMMA AppendToConcat ==
  ASSUME NEW S, NEW s \in Seq(S), NEW t \in Seq(S), NEW u \in Seq(S), NEW e \in S
  PROVE  Append(s \o t \o u, e) = s \o t \o Append(u, e)
  <1>1. s \o t \in Seq(S) /\ s \o t \o u \in Seq(S)
    OBVIOUS
  <1>2. Append(s \o t \o u, e) = (s \o t \o u) \o <<e>> /\ Append(u, e) = u \o <<e>>
    BY <1>1, AppendIsConcat
  <1>3. <<e>> \in Seq(S)
    OBVIOUS
  <1> QED BY <1>1, <1>2, <1>3, ConcatAssociative

(* The number of elements of a set of goroutines that have been started. *)
LEMMA CountStarted ==
  ASSUME NEW n \in Nat, NEW T \in SUBSET (1 .. n)
  PROVE  IsFiniteSet(T) /\ Cardinality(T) \in Nat /\ Cardinality(T) <= n
  <1>1. IsFiniteSet(1 .. n) /\ Cardinality(1 .. n) = n
    BY FS_Interval
  <1>2. IsFiniteSet(T) /\ Cardinality(T) <= Cardinality(1 .. n)
    BY <1>1, FS_Subset
  <1> QED BY <1>1, <1>2, FS_CardinalityType

-----------------------------------------------------------------------------
(* The log. *)

\* The log is marked done; nothing is added or taken.
Done == mode' = mode /\ LogDone /\ UNCHANGED <<data, logged, chunk, atEnd, sent>>

\* Neither the log nor the streamer is touched.
NoLog == UNCHANGED <<mode, log, stream>>

(* What a step does to the log, and what it can have logged. *)
LEMMA LogSteps ==
  ASSUME TrackerTypes, Next
  PROVE  \/ \E e \in Event : LogEvent(e)
         \/ Look
         \/ Done /\ \E g \in Goroutine : pc[g] = "mark"
         \/ NoLog
         \/ Streaming
  <1>1. \A g \in 1 .. started : g \in Goroutine
    BY MainIsOne DEF TrackerTypes, Goroutine
  <1>2. CASE BeginOperation \/ Authenticate \/ SkipAuth \/ AuthReturns \/ FinishOperation \/ StartTest
    BY <1>2, Zenon DEF BeginOperation, Authenticate, SkipAuth, AuthReturns, FinishOperation, StartTest,
                NoLog, log, stream
  <1>3. ASSUME NEW g \in 1 .. started, RuntimeStep(g)
        PROVE  (\E e \in Event : LogEvent(e)) \/ Look \/ (Done /\ pc[g] = "mark") \/ NoLog
    <2>1. <<"start", g>> \in Event /\ <<"end", g>> \in Event /\ <<"returned", g>> \in Event
      BY <1>1 DEF Event
    <2>2. CASE BeginRequest(g)
      BY <2>2, Zenon DEF BeginRequest
    <2>3. CASE SpanStart(g) \/ SpanEnd(g)
      BY <2>1, <2>3, Zenon DEF SpanStart, SpanEnd
    <2>4. CASE CallReturns(g)
      BY <2>1, <2>4, Zenon DEF CallReturns
    <2>5. CASE MarkDone(g)
      BY <2>5 DEF MarkDone, Done
    <2>6. CASE BeginFails(g) \/ Validate(g) \/ ReturnInvalid(g) \/ FinishRequest(g) \/ WaitForStreamSent(g)
      BY <2>6, Zenon DEF BeginFails, Validate, ReturnInvalid, FinishRequest, WaitForStreamSent,
                         NoLog, log, stream
    <2> QED BY <1>3, <2>2, <2>3, <2>4, <2>5, <2>6 DEF RuntimeStep
  <1>4. ASSUME NEW g \in 1 .. started, UserStep(g)
        PROVE  (\E e \in Event : LogEvent(e)) \/ NoLog
    <2>1. CASE UserEvent(g)
      <3>1. <<"user", g>> \in Event
        BY <1>1 DEF Event
      <3> QED BY <2>1, <3>1, Zenon DEF UserEvent
    <2>2. CASE Call(g)
      <3>1. <<"call", started + 1>> \in Event
        BY <2>2, MainIsOne DEF Event, Call, Start, TrackerTypes, Goroutine
      <3> QED BY <2>2, <3>1, Zenon DEF Call
    <2>3. CASE Go(g) \/ UserReturns(g)
      BY <2>3, Zenon DEF Go, UserReturns, NoLog, log, stream
    <2> QED BY <1>4, <2>1, <2>2, <2>3 DEF UserStep
  <1> QED BY <1>1, <1>2, <1>3, <1>4, Zenon DEF Next

(* Starting the streamer leaves it one of its states, and it has nothing in its hands. *)
LEMMA InitStreamStarts ==
  ASSUME LogTypes, InitStream
  PROVE  /\ streamer' \in {"off", "waiting", "reading", "ended", "failed"}
         /\ streamer' = streamer \/ (streamer = "off" /\ streamer' \in {"waiting", "reading"})
  BY DEF LogTypes, InitStream

(* Every step keeps the types of the log. *)
LEMMA LogTypesKept ==
  ASSUME TrackerTypes, LogTypes, [Next]_vars
  PROVE  LogTypes'
  <1>1. CASE UNCHANGED vars \/ NoLog
    BY <1>1 DEF LogTypes, NoLog, vars, log, stream
  <1>2. ASSUME NEW e \in Event, LogEvent(e) PROVE LogTypes'
    <2>1. CASE traced
      <3>1. streamer' \in {"off", "waiting", "reading", "ended", "failed"}
        BY <1>2, <2>1, InitStreamStarts, Zenon DEF LogEvent
      <3>2. Append(data, e) \in Seq(Event) /\ Append(logged, e) \in Seq(Event)
        BY DEF LogTypes
      <3>3. data' = Append(data, e) /\ logged' = Append(logged, e) /\ UNCHANGED <<doneAt, chunk, sent>>
        BY <1>2, <2>1, Zenon DEF LogEvent
      <3> QED BY <3>1, <3>2, <3>3 DEF LogTypes
    <2>2. CASE ~traced
      BY <1>2, <2>2 DEF LogTypes, LogEvent, log, stream
    <2> QED BY <2>1, <2>2
  <1>3. CASE Look
    BY <1>3, InitStreamStarts DEF LogTypes, Look, log
  <1>4. CASE Done
    BY <1>4, InitStreamStarts DEF LogTypes, Done, LogDone
  <1>5. CASE Streaming
    <2>1. CASE Send
      <3>1. sent \o chunk \in Seq(Event) /\ <<>> \in Seq(Event)
        BY DEF LogTypes
      <3> QED BY <2>1, <3>1 DEF LogTypes, Send, log
    <2>2. CASE TakeAll \/ BeginStreaming \/ ReadMore \/ EndStream \/ StreamFails
      <3>1. <<>> \in Seq(Event)
        OBVIOUS
      <3> QED BY <2>2, <3>1 DEF LogTypes, TakeAll, BeginStreaming, ReadMore, EndStream, StreamFails, log
    <2> QED BY <1>5, <2>1, <2>2, Zenon DEF Streaming
  <1> QED BY <1>1, <1>2, <1>3, <1>4, <1>5, LogSteps

(* Adding an event keeps what was logged together. *)
LEMMA AddKept ==
  ASSUME LogTypes, LogKept, NEW e \in Event, LogEvent(e), traced
  PROVE  LogKept'
  <1>1. /\ data' = Append(data, e) /\ logged' = Append(logged, e)
        /\ done' = done /\ doneAt' = doneAt /\ chunk' = chunk /\ atEnd' = atEnd /\ sent' = sent
    BY Zenon DEF LogEvent
  <1>2. streamer' = streamer \/ (streamer = "off" /\ streamer' \in {"waiting", "reading"})
    BY InitStreamStarts, Zenon DEF LogEvent
  <1>3. /\ data \in Seq(Event) /\ chunk \in Seq(Event) /\ sent \in Seq(Event) /\ logged \in Seq(Event)
        /\ doneAt \in Nat
    BY DEF LogTypes
  <1>4. streamer \notin {"ended", "failed"} => logged' = sent' \o chunk' \o data'
    <2>1. Append(sent \o chunk \o data, e) = sent \o chunk \o Append(data, e)
      <3>1. \A s, t, u \in Seq(Event) : \A x \in Event : Append(s \o t \o u, x) = s \o t \o Append(u, x)
        BY AppendToConcat
      <3> QED BY <1>3, <3>1, Zenon
    <2>2. streamer \notin {"ended", "failed"} => logged = sent \o chunk \o data
      BY DEF LogKept
    <2> QED BY <1>1, <2>1, <2>2, Zenon
  <1>5. doneAt' <= Len(logged')
    <2>1. doneAt <= Len(logged) /\ Len(logged) \in Nat /\ Len(Append(logged, e)) = Len(logged) + 1
      BY <1>3 DEF LogKept
    <2> QED BY <1>1, <1>3, <2>1
  <1>6. streamer = "ended" => IsPrefix(sent', logged')
    BY <1>1, <1>3, PrefixOfAppend DEF LogKept
  <1>7. streamer' \in {"off", "waiting"} => chunk' = <<>>
    BY <1>1, <1>2 DEF LogKept
  <1>8. streamer' \notin {"ended", "failed"} => streamer \notin {"ended", "failed"}
    BY <1>2
  <1>9. streamer' = "ended" => streamer = "ended"
    BY <1>2
  <1>10. atEnd' /\ streamer' \notin {"ended", "failed"} => done' /\ Len(sent') + Len(chunk') >= doneAt'
    BY <1>1, <1>8, Zenon DEF LogKept
  <1>11. streamer' = "ended" => done' /\ IsPrefix(sent', logged') /\ Len(sent') >= doneAt'
    BY <1>1, <1>6, <1>9, Zenon DEF LogKept
  <1> QED BY <1>4, <1>5, <1>7, <1>8, <1>10, <1>11, Zenon DEF LogKept

(* Marking it done does too: all that was logged counts from then on, the first time. *)
LEMMA DoneKept ==
  ASSUME Flags, LogTypes, LogKept, Done
  PROVE  LogKept'
  <1>1. /\ data' = data /\ logged' = logged /\ chunk' = chunk /\ atEnd' = atEnd /\ sent' = sent
        /\ done' = TRUE /\ doneAt' = IF done THEN doneAt ELSE Len(logged)
    BY DEF Done, LogDone
  <1>2. streamer' = streamer \/ (streamer = "off" /\ streamer' \in {"waiting", "reading"})
    BY InitStreamStarts, Zenon DEF Done, LogDone
  <1>3. logged \in Seq(Event) /\ doneAt \in Nat /\ Len(logged) \in Nat
    BY DEF LogTypes
  <1>4. doneAt' <= Len(logged')
    BY <1>1, <1>3 DEF LogKept
  <1>5. streamer' \notin {"ended", "failed"} => streamer \notin {"ended", "failed"}
    BY <1>2
  <1>6. streamer' = "ended" => streamer = "ended"
    BY <1>2
  <1>7. streamer' \in {"off", "waiting"} => chunk' = <<>>
    BY <1>1, <1>2 DEF LogKept
  <1>8. done => doneAt' = doneAt
    BY <1>1
  <1>9. atEnd' /\ streamer' \notin {"ended", "failed"} => done' /\ Len(sent') + Len(chunk') >= doneAt'
    BY <1>1, <1>5, <1>8, Zenon DEF LogKept
  <1>10. streamer' = "ended" => done' /\ IsPrefix(sent', logged') /\ Len(sent') >= doneAt'
    BY <1>1, <1>6, <1>8, Zenon DEF LogKept
  <1>11. streamer' \notin {"ended", "failed"} => logged' = sent' \o chunk' \o data'
    BY <1>1, <1>5, Zenon DEF LogKept
  <1> QED BY <1>4, <1>7, <1>9, <1>10, <1>11, Zenon DEF LogKept

(* The streamer takes everything there is, and knows whether more can come. *)
LEMMA StreamingKept ==
  ASSUME Flags, LogTypes, LogKept, Streaming
  PROVE  LogKept'
  <1>1. /\ data \in Seq(Event) /\ chunk \in Seq(Event) /\ sent \in Seq(Event) /\ logged \in Seq(Event)
        /\ doneAt \in Nat
    BY DEF LogTypes
  <1>2. /\ sent \o chunk \in Seq(Event)
        /\ \A s \in Seq(Event) : s \o <<>> = s /\ <<>> \o s = s
        /\ \A s, t \in Seq(Event) : Len(s \o t) = Len(s) + Len(t) /\ Len(s) \in Nat /\ Len(t) \in Nat
    BY <1>1, ConcatEmptySeq
  <1>3. Len(<<>>) = 0
    OBVIOUS
  <1>4. ASSUME streamer \in {"waiting", "reading"}, chunk = <<>>,
               chunk' = data, data' = <<>>, UNCHANGED <<done, logged, doneAt, sent>>
        PROVE  /\ logged' = sent' \o chunk' \o data'
               /\ doneAt' <= Len(logged')
               /\ Len(sent') + Len(chunk') >= doneAt'
    <2>1. logged = sent \o data
      BY <1>1, <1>2, <1>4 DEF LogKept
    <2>2. sent \o data \in Seq(Event)
      BY <1>1
    <2>3. doneAt <= Len(logged)
      BY DEF LogKept
    <2>4. Len(logged) = Len(sent) + Len(data)
      BY <1>1, <1>2, <2>1
    <2> QED BY <1>1, <1>2, <1>4, <2>1, <2>2, <2>3, <2>4
  <1>5. CASE TakeAll
    <2>1. streamer = "waiting" /\ chunk = <<>>
      BY <1>5 DEF TakeAll, LogKept
    <2>2. chunk' = data /\ data' = <<>> /\ UNCHANGED <<done, logged, doneAt, sent>> /\ atEnd' /\ done'
      BY <1>5 DEF TakeAll
    <2>3. /\ logged' = sent' \o chunk' \o data'
          /\ doneAt' <= Len(logged')
          /\ Len(sent') + Len(chunk') >= doneAt'
      BY <1>4, <2>1, <2>2
    <2>4. streamer' = IF data = <<>> THEN "ended" ELSE "reading"
      BY <1>5 DEF TakeAll
    <2>5. streamer' = "ended" => IsPrefix(sent', logged') /\ Len(sent') >= doneAt'
      <3>1. SUFFICES ASSUME streamer' = "ended" PROVE IsPrefix(sent, logged) /\ Len(sent) >= doneAt
        BY <2>2
      <3>2. data = <<>>
        BY <2>4, <3>1
      <3>3. logged = sent
        BY <1>1, <1>2, <2>2, <2>3, <3>2
      <3>4. Len(sent) >= doneAt
        BY <1>1, <3>3 DEF LogKept
      <3>5. IsPrefix(sent, sent)
        BY <1>1, PrefixAgrees
      <3> QED BY <3>3, <3>4, <3>5
    <2>6. streamer' \notin {"off", "waiting"}
      BY <2>4
    <2> QED BY <2>2, <2>3, <2>5, <2>6, Zenon DEF LogKept
  <1>6. CASE BeginStreaming
    <2>1. streamer = "waiting" /\ streamer' = "reading" /\ UNCHANGED <<data, done, logged, doneAt, chunk, atEnd, sent>>
      BY <1>6, Zenon DEF BeginStreaming, log
    <2> QED BY <2>1 DEF LogKept
  <1>7. CASE ReadMore
    <2>1. /\ streamer = "reading" /\ streamer' = "reading" /\ chunk = <<>>
          /\ chunk' = data /\ data' = <<>> /\ UNCHANGED <<done, logged, doneAt, sent>> /\ atEnd' = done
      BY <1>7 DEF ReadMore
    <2>2. /\ logged' = sent' \o chunk' \o data'
          /\ doneAt' <= Len(logged')
          /\ Len(sent') + Len(chunk') >= doneAt'
      BY <1>4, <2>1
    <2>3. streamer' # "ended" /\ streamer' \notin {"off", "waiting"} /\ (atEnd' => done')
      BY <2>1
    <2> QED BY <2>2, <2>3, Zenon DEF LogKept
  <1>8. CASE Send
    <2>1. /\ streamer = "reading" /\ sent' = sent \o chunk /\ chunk' = <<>>
          /\ UNCHANGED <<data, done, logged, doneAt, streamer, atEnd>>
      BY <1>8 DEF Send, log
    <2>2. logged' = sent' \o chunk' \o data'
      BY <1>1, <1>2, <2>1 DEF LogKept
    <2>3. atEnd => done /\ Len(sent) + Len(chunk) >= doneAt
      BY <2>1 DEF LogKept
    <2>4. Len(sent') + Len(chunk') = Len(sent) + Len(chunk)
      BY <1>1, <1>2, <1>3, <2>1
    <2>5. doneAt <= Len(logged) /\ streamer # "ended" /\ streamer \notin {"off", "waiting"}
      BY <2>1 DEF LogKept
    <2>6. atEnd' => done' /\ Len(sent') + Len(chunk') >= doneAt'
      BY <2>1, <2>3, <2>4, Zenon
    <2> QED BY <2>1, <2>2, <2>5, <2>6, Zenon DEF LogKept
  <1>9. CASE EndStream
    <2>1. /\ streamer = "reading" /\ chunk = <<>> /\ atEnd /\ streamer' = "ended"
          /\ UNCHANGED <<data, done, logged, doneAt, chunk, atEnd, sent>>
      BY <1>9, Zenon DEF EndStream, EOF, log
    <2>2. done /\ Len(sent) + Len(chunk) >= doneAt
      BY <2>1 DEF LogKept
    <2>3. Len(sent) >= doneAt
      BY <1>1, <1>2, <1>3, <2>1, <2>2
    <2>4. logged = sent \o data
      BY <1>1, <1>2, <2>1 DEF LogKept
    <2>5. IsPrefix(sent, logged)
      BY <1>1, <2>4, PrefixOfConcat
    <2>6. doneAt <= Len(logged)
      BY DEF LogKept
    <2>7. streamer' \notin {"off", "waiting"} /\ streamer' \in {"ended", "failed"}
      BY <2>1
    <2> QED BY <2>1, <2>2, <2>3, <2>5, <2>6, <2>7, Zenon DEF LogKept
  <1>10. CASE StreamFails
    <2>1. streamer' = "failed" /\ UNCHANGED <<data, done, logged, doneAt, chunk, atEnd, sent>>
      BY <1>10, Zenon DEF StreamFails, log
    <2> QED BY <2>1 DEF LogKept
  <1> QED BY <1>5, <1>6, <1>7, <1>8, <1>9, <1>10, Zenon DEF Streaming

(* Every step keeps what was logged together. *)
LEMMA LogKeptKept ==
  ASSUME TrackerTypes, Flags, LogTypes, LogKept, [Next]_vars
  PROVE  LogKept'
  <1>1. CASE UNCHANGED vars \/ NoLog
    <2>1. UNCHANGED <<data, done, logged, doneAt, chunk, atEnd, sent, streamer>>
      BY <1>1, Zenon DEF NoLog, vars, log, stream
    <2> QED BY <2>1 DEF LogKept
  <1>2. ASSUME NEW e \in Event, LogEvent(e) PROVE LogKept'
    <2>1. CASE traced
      BY <1>2, <2>1, AddKept
    <2>2. CASE ~traced
      <3>1. UNCHANGED <<data, done, logged, doneAt, chunk, atEnd, sent, streamer>>
        BY <1>2, <2>2, Zenon DEF LogEvent, log, stream
      <3> QED BY <3>1 DEF LogKept
    <2> QED BY <2>1, <2>2
  <1>3. CASE Look
    <2>1. UNCHANGED <<data, done, logged, doneAt, chunk, atEnd, sent>>
      BY <1>3, Zenon DEF Look, log
    <2>2. streamer' = streamer \/ (streamer = "off" /\ streamer' \in {"waiting", "reading"})
      BY <1>3, InitStreamStarts, Zenon DEF Look
    <2> QED BY <2>1, <2>2 DEF LogKept
  <1>4. CASE Done
    BY <1>4, DoneKept
  <1>5. CASE Streaming
    BY <1>5, StreamingKept
  <1> QED BY <1>1, <1>2, <1>3, <1>4, <1>5, LogSteps

-----------------------------------------------------------------------------
(* The goroutines and the references they hold. *)

(* A goroutine that moves can gain or give up a reference, and no other does. *)
LEMMA GotoOpen ==
  ASSUME TrackerTypes, NEW g \in 1 .. started, NEW l, Goto(g, l), UNCHANGED <<started, kind>>
  PROVE  Open' = IF kind[g] # "user" /\ l \in HoldsRef THEN Open \union {g} ELSE Open \ {g}
  <1>1. \A h \in 1 .. started : h \in Goroutine
    BY MainIsOne DEF TrackerTypes, Goroutine
  <1>2. pc' = [pc EXCEPT ![g] = l] /\ DOMAIN pc = Goroutine
    BY DEF Goto, TrackerTypes
  <1>3. pc'[g] = l /\ \A h \in 1 .. started : h # g => pc'[h] = pc[h]
    BY <1>1, <1>2
  <1>4. \A h : h \in Open' <=> h \in 1 .. started /\ kind[h] # "user" /\ pc'[h] \in HoldsRef
    BY DEF Open
  <1>5. \A h : h \in Open <=> h \in 1 .. started /\ kind[h] # "user" /\ pc[h] \in HoldsRef
    BY DEF Open
  <1> QED BY <1>3, <1>4, <1>5, Zenon

(* A goroutine is started without a reference, and its parent keeps what it had. *)
LEMMA StartOpen ==
  ASSUME TrackerTypes, Places, NEW g \in 1 .. started,
         NEW k, NEW l, NEW w, Start(g, k, l, w),
         k = "user" \/ l \notin HoldsRef, w \in HoldsRef <=> pc[g] \in HoldsRef
  PROVE  Open' = Open
  <1>1. \A h \in 1 .. started : h \in Goroutine
    BY MainIsOne DEF TrackerTypes, Goroutine
  <1>2. started + 1 \in Goroutine /\ started + 1 \notin 1 .. started
        /\ 1 .. started' = (1 .. started) \union {started + 1}
    BY MainIsOne DEF Start, TrackerTypes, Goroutine
  <1>3. DOMAIN pc = Goroutine /\ DOMAIN kind = Goroutine
    BY DEF TrackerTypes
  <1>4. /\ kind' = [kind EXCEPT ![started + 1] = k]
        /\ pc' = [pc EXCEPT ![started + 1] = l, ![g] = w]
    BY Zenon DEF Start
  <1>5. kind'[started + 1] = k /\ pc'[started + 1] = l /\ pc'[g] = w
    BY <1>1, <1>2, <1>3, <1>4
  <1>6. \A h \in 1 .. started : kind'[h] = kind[h] /\ (h # g => pc'[h] = pc[h])
    BY <1>1, <1>2, <1>3, <1>4
  <1>7. \A h : h \in Open' <=> h \in 1 .. started' /\ kind'[h] # "user" /\ pc'[h] \in HoldsRef
    BY DEF Open
  <1>8. \A h : h \in Open <=> h \in 1 .. started /\ kind[h] # "user" /\ pc[h] \in HoldsRef
    BY DEF Open
  <1>9. started + 1 \notin Open'
    BY <1>5, <1>7, Zenon
  <1>10. \A h : h \in Open' <=> h \in Open
    BY <1>2, <1>5, <1>6, <1>7, <1>8, <1>9, Zenon
  <1> QED BY <1>10, Zenon

(* Every step keeps the types of the goroutines. *)
LEMMA TrackerTypesKept ==
  ASSUME TrackerTypes, [Next]_vars
  PROVE  TrackerTypes'
  <1> USE MainIsOne DEF HoldsRef
  <1>1. \A g \in 1 .. started : g \in Goroutine
    BY DEF TrackerTypes, Goroutine
  <1>2. ASSUME NEW g \in Goroutine,
               NEW l \in {"start", "auth", "authwait", "begin", "release", "mark",
                          "waitsent", "gone"} \union HoldsRef,
               Goto(g, l), UNCHANGED <<mode, started, kind>>
        PROVE  TrackerTypes'
    BY <1>2 DEF TrackerTypes, Goto
  <1>3. ASSUME NEW g \in Goroutine, NEW k \in {"auth", "call", "user"}, NEW l \in {"begin", "run"},
               NEW w \in {"authwait", "run", "callwait", "callquiet"}, Start(g, k, l, w), mode' = mode
        PROVE  TrackerTypes'
    <2>1. started + 1 \in Goroutine
      BY <1>3 DEF TrackerTypes, Start, Goroutine
    <2>2. /\ kind' = [kind EXCEPT ![started + 1] = k]
          /\ pc' = [pc EXCEPT ![started + 1] = l, ![g] = w]
          /\ started' = started + 1
      BY <1>3, Zenon DEF Start
    <2> QED BY <1>3, <2>1, <2>2 DEF TrackerTypes
  <1>4. CASE UNCHANGED vars \/ Streaming
    <2>1. UNCHANGED <<mode, started, kind, pc>>
      BY <1>4, Zenon DEF vars, tracker, Streaming, TakeAll, BeginStreaming, ReadMore, Send, EndStream, StreamFails
    <2> QED BY <2>1 DEF TrackerTypes
  <1>5. CASE BeginOperation \/ SkipAuth \/ AuthReturns \/ StartTest
    BY <1>2, <1>5 DEF BeginOperation, SkipAuth, AuthReturns, StartTest
  <1>6. CASE Authenticate
    BY <1>3, <1>6 DEF Authenticate
  <1>7. CASE FinishOperation
    BY <1>2, <1>7 DEF FinishOperation, DecRef
  <1>8. ASSUME NEW g \in 1 .. started, RuntimeStep(g) PROVE TrackerTypes'
    <2>1. g \in Goroutine
      BY <1>1
    <2>2. CASE BeginRequest(g)
      BY <1>2, <2>1, <2>2 DEF BeginRequest, Look
    <2>3. CASE BeginFails(g) \/ Validate(g) \/ ReturnInvalid(g) \/ WaitForStreamSent(g) \/ MarkDone(g)
      BY <1>2, <2>1, <2>3 DEF BeginFails, Validate, ReturnInvalid, WaitForStreamSent, MarkDone
    <2>4. CASE SpanStart(g) \/ SpanEnd(g)
      BY <1>2, <2>1, <2>4 DEF SpanStart, SpanEnd, LogEvent
    <2>5. CASE CallReturns(g)
      BY <1>2, <2>1, <2>5 DEF CallReturns, LogEvent, Look
    <2>6. CASE FinishRequest(g)
      BY <1>2, <2>1, <2>6 DEF FinishRequest, DecRef
    <2> QED BY <1>8, <2>2, <2>3, <2>4, <2>5, <2>6, Zenon DEF RuntimeStep
  <1>9. ASSUME NEW g \in 1 .. started, UserStep(g) PROVE TrackerTypes'
    <2>1. g \in Goroutine
      BY <1>1
    <2>2. CASE UserEvent(g)
      <3>1. UNCHANGED <<mode, started, kind, pc>>
        BY <2>2 DEF UserEvent, LogEvent
      <3> QED BY <3>1 DEF TrackerTypes
    <2>3. CASE Go(g)
      BY <1>3, <2>1, <2>3 DEF Go
    <2>4. CASE Call(g)
      <3>1. mode' = mode
        BY <2>4 DEF Call, LogEvent
      <3> QED BY <1>3, <2>1, <2>4, <3>1 DEF Call
    <2>5. CASE UserReturns(g)
      BY <1>2, <2>1, <2>5 DEF UserReturns
    <2> QED BY <1>9, <2>2, <2>3, <2>4, <2>5, Zenon DEF UserStep
  <1> QED BY <1>4, <1>5, <1>6, <1>7, <1>8, <1>9, Zenon DEF Next

(* Every step keeps the types of what is known of the requests. *)
LEMMA DataTypesKept ==
  ASSUME TrackerTypes, DataTypes, [Next]_vars
  PROVE  DataTypes'
  <1> USE MainIsOne
  <1>1. \A g \in 1 .. started : g \in Goroutine
    BY DEF TrackerTypes, Goroutine
  <1>2. ASSUME UNCHANGED <<cur, parent, sampled, events, late>> PROVE DataTypes'
    BY <1>2 DEF DataTypes
  <1>3. ASSUME NEW g \in Goroutine, NEW k, NEW l, NEW w, Start(g, k, l, w),
               UNCHANGED <<sampled, events, late>>
        PROVE  DataTypes'
    <2>1. started + 1 \in Goroutine
      BY <1>3 DEF TrackerTypes, Start, Goroutine
    <2>2. /\ cur' = [cur EXCEPT ![started + 1] = cur[g]]
          /\ parent' = [parent EXCEPT ![started + 1] = IF w = "run" THEN None ELSE g]
      BY <1>3, Zenon DEF Start
    <2> QED BY <1>3, <2>1, <2>2 DEF DataTypes
  <1>4. CASE UNCHANGED vars \/ Streaming
    BY <1>2, <1>4, Zenon DEF vars, tracker, Streaming, TakeAll, BeginStreaming, ReadMore, Send, EndStream, StreamFails
  <1>5. CASE BeginOperation \/ SkipAuth \/ AuthReturns \/ FinishOperation
    BY <1>2, <1>5, Zenon DEF BeginOperation, SkipAuth, AuthReturns, FinishOperation
  <1>6. CASE Authenticate
    BY <1>3, <1>6 DEF Authenticate
  <1>7. CASE StartTest
    BY <1>7 DEF StartTest, DataTypes
  <1>8. ASSUME NEW g \in 1 .. started, RuntimeStep(g) PROVE DataTypes'
    <2>1. g \in Goroutine
      BY <1>1
    <2>2. CASE BeginRequest(g)
      <3>1. PICK s \in IF cur[g] = None THEN BOOLEAN ELSE {sampled[cur[g]]} : sampled' = [sampled EXCEPT ![g] = s]
        BY <2>2, Zenon DEF BeginRequest
      <3>2. s \in BOOLEAN
        BY <2>1, <3>1 DEF DataTypes
      <3>3. sampled' \in [Goroutine -> BOOLEAN]
        BY <3>1, <3>2 DEF DataTypes
      <3>4. late' \subseteq Goroutine
        BY <2>1, <2>2 DEF BeginRequest, DataTypes
      <3>5. cur' \in [Goroutine -> Goroutine \union {None}]
        BY <2>1, <2>2 DEF BeginRequest, DataTypes
      <3>6. UNCHANGED <<parent, events>>
        BY <2>2, Zenon DEF BeginRequest
      <3> QED BY <3>3, <3>4, <3>5, <3>6 DEF DataTypes
    <2>3. CASE FinishRequest(g)
      BY <2>1, <2>3 DEF FinishRequest, DataTypes
    <2>4. CASE BeginFails(g) \/ Validate(g) \/ ReturnInvalid(g) \/ WaitForStreamSent(g) \/ MarkDone(g)
               \/ SpanStart(g) \/ SpanEnd(g) \/ CallReturns(g)
      BY <1>2, <2>4, Zenon DEF BeginFails, Validate, ReturnInvalid, WaitForStreamSent, MarkDone,
                               SpanStart, SpanEnd, CallReturns
    <2> QED BY <1>8, <2>2, <2>3, <2>4, Zenon DEF RuntimeStep
  <1>9. ASSUME NEW g \in 1 .. started, UserStep(g) PROVE DataTypes'
    <2>1. g \in Goroutine
      BY <1>1
    <2>2. CASE UserEvent(g)
      <3>1. UNCHANGED <<cur, parent, sampled, late>> /\ events' = events + 1 /\ events < MaxEvents
        BY <2>2, Zenon DEF UserEvent
      <3> QED BY <3>1 DEF DataTypes
    <2>3. CASE Go(g)
      BY <1>3, <2>1, <2>3 DEF Go
    <2>4. CASE Call(g)
      BY <1>3, <2>1, <2>4 DEF Call
    <2>5. CASE UserReturns(g)
      BY <1>2, <2>5 DEF UserReturns
    <2> QED BY <1>9, <2>2, <2>3, <2>4, <2>5, Zenon DEF UserStep
  <1> QED BY <1>4, <1>5, <1>6, <1>7, <1>8, <1>9, Zenon DEF Next

\* What is true of an operation stays true: that it is traced, that its count has been
\* zero, that its log is done.
Ratchets == (traced => traced') /\ (zeroed => zeroed') /\ (done => done') /\ late \subseteq late'

(* Flags stay flags, and the history of an operation is not undone. *)
LEMMA FlagsKept ==
  ASSUME TrackerTypes, DataTypes, Flags, [Next]_vars
  PROVE  Flags' /\ Ratchets
  <1>1. \A g \in 1 .. started : g \in Goroutine
    BY MainIsOne DEF TrackerTypes, Goroutine
  <1>2. /\ done' \in BOOLEAN /\ (done => done')
        /\ atEnd' \in BOOLEAN
    <2>1. CASE UNCHANGED vars \/ NoLog
      BY <2>1, Zenon DEF vars, NoLog, log, stream, Flags
    <2>2. CASE \E e \in Event : LogEvent(e)
      BY <2>2, Zenon DEF LogEvent, log, stream, Flags
    <2>3. CASE Look \/ Done
      BY <2>3, Zenon DEF Look, Done, LogDone, log, Flags
    <2>4. CASE Streaming
      BY <2>4, Zenon DEF Streaming, TakeAll, BeginStreaming, ReadMore, Send, EndStream, StreamFails, log, Flags
    <2> QED BY <2>1, <2>2, <2>3, <2>4, LogSteps, Zenon
  <1>3. /\ traced' \in BOOLEAN /\ (traced => traced')
        /\ zeroed' \in BOOLEAN /\ (zeroed => zeroed')
        /\ late \subseteq late'
    <2>1. CASE UNCHANGED <<traced, zeroed, late>>
      BY <2>1, Zenon DEF Flags
    <2>2. ASSUME NEW g \in Goroutine, BeginRequest(g)
          PROVE  traced' \in BOOLEAN /\ (traced => traced') /\ UNCHANGED zeroed /\ late \subseteq late'
      <3>1. PICK s \in IF cur[g] = None THEN BOOLEAN ELSE {sampled[cur[g]]} : traced' = (traced \/ s)
        BY <2>2, Zenon DEF BeginRequest
      <3>2. s \in BOOLEAN
        BY <3>1, MainIsOne DEF DataTypes
      <3> QED BY <2>2, <3>1, <3>2, Zenon DEF BeginRequest, Flags
    <2>3. CASE FinishOperation \/ \E g \in Goroutine : FinishRequest(g)
      BY <2>3, Zenon DEF FinishOperation, FinishRequest, DecRef, Flags
    <2>4. CASE StartTest
      BY <2>4, Zenon DEF StartTest, Flags
    <2>5. CASE UNCHANGED vars \/ Streaming
      BY <2>1, <2>5, Zenon DEF vars, tracker, Streaming, TakeAll, BeginStreaming, ReadMore, Send, EndStream, StreamFails
    <2>6. CASE BeginOperation \/ Authenticate \/ SkipAuth \/ AuthReturns
      BY <2>1, <2>6, Zenon DEF BeginOperation, Authenticate, SkipAuth, AuthReturns
    <2>7. ASSUME NEW g \in 1 .. started, RuntimeStep(g) \/ UserStep(g)
          PROVE  UNCHANGED <<traced, zeroed, late>> \/ BeginRequest(g) \/ FinishRequest(g)
      BY <2>7, Zenon DEF RuntimeStep, UserStep, BeginFails, Validate, ReturnInvalid, WaitForStreamSent, MarkDone,
              SpanStart, SpanEnd, CallReturns, UserEvent, Go, Call, UserReturns
    <2>8. zeroed' = zeroed => zeroed' \in BOOLEAN /\ (zeroed => zeroed')
      BY DEF Flags
    <2> QED BY <1>1, <2>1, <2>2, <2>3, <2>4, <2>5, <2>6, <2>7, <2>8, Zenon DEF Next
  <1> QED BY <1>2, <1>3, Zenon DEF Flags, Ratchets

(* A goroutine moves to a place that it can be in. *)
LEMMA GotoPlaces ==
  ASSUME TrackerTypes, Places, Ratchets, NEW g \in 1 .. started, NEW l, Goto(g, l),
         UNCHANGED <<mode, started, kind>>,
         l # "start",
         kind[g] = "user" => l \in {"run", "callwait", "callquiet", "gone"},
         l = "waitsent" => mode = "testing",
         mode = "testing" /\ g = Main => l \notin {"auth", "authwait", "begin", "release"},
         pc[Main] = "start" /\ mode = "testing" => traced',
         mode = "testing" => Main \notin late'
  PROVE  Places'
  <1>1. \A h \in 1 .. started : h \in Goroutine
    BY MainIsOne DEF TrackerTypes, Goroutine
  <1>2. pc' = [pc EXCEPT ![g] = l] /\ DOMAIN pc = Goroutine
    BY DEF Goto, TrackerTypes
  <1>3. g \in Goroutine /\ pc'[g] = l /\ \A h \in Goroutine : h # g => pc'[h] = pc[h]
    BY <1>1, <1>2
  <1>4. pc[Main] = "start" => g = Main
    BY DEF Places, Main
  <1>5. pc'[Main] # "start"
    BY <1>3, <1>4, MainIsOne, Zenon
  <1>6. \A h \in Goroutine : kind'[h] = "user" => pc'[h] \in {"start", "run", "callwait", "callquiet", "gone"}
    <2>1. kind' = kind
      OBVIOUS
    <2>2. ASSUME NEW h \in Goroutine, kind[h] = "user"
          PROVE  pc'[h] \in {"start", "run", "callwait", "callquiet", "gone"}
      <3>1. CASE h = g
        BY <1>3, <2>2, <3>1
      <3>2. CASE h # g
        BY <1>3, <2>2, <3>2, Zenon DEF Places
      <3> QED BY <3>1, <3>2
    <2> QED BY <2>1, <2>2, Zenon
  <1>7. \A h \in Goroutine : pc'[h] = "waitsent" => mode' = "testing"
    BY <1>3, Zenon DEF Places
  <1>8. mode' = "testing" => pc'[Main] \notin {"auth", "authwait", "begin", "release"}
    BY <1>3, MainIsOne, Zenon DEF Places
  <1>9. mode' = "testing" => traced' /\ Main \notin late'
    BY Zenon DEF Places, Ratchets
  <1> QED BY <1>5, <1>6, <1>7, <1>8, <1>9, Zenon DEF Places

(* So is a goroutine that is started. *)
LEMMA StartPlaces ==
  ASSUME TrackerTypes, Places, NEW g \in 1 .. started, NEW k, NEW l, NEW w, Start(g, k, l, w),
         UNCHANGED <<mode, traced, zeroed, late>>,
         l # "start" /\ l # "waitsent" /\ w # "start" /\ w # "waitsent",
         k = "user" => l = "run",
         kind[g] = "user" => w \in {"run", "callwait", "callquiet"},
         pc[g] # "start",
         mode = "testing" => w \notin {"auth", "authwait", "begin", "release"}
  PROVE  Places'
  <1>1. \A h \in 1 .. started : h \in Goroutine
    BY MainIsOne DEF TrackerTypes, Goroutine
  <1>2. started + 1 \in Goroutine /\ started + 1 # Main /\ started + 1 # g
    BY MainIsOne DEF Start, TrackerTypes, Goroutine, Main
  <1>3. DOMAIN pc = Goroutine /\ DOMAIN kind = Goroutine
    BY DEF TrackerTypes
  <1>4. /\ kind' = [kind EXCEPT ![started + 1] = k]
        /\ pc' = [pc EXCEPT ![started + 1] = l, ![g] = w]
    BY Zenon DEF Start
  <1>5. /\ kind'[started + 1] = k /\ pc'[started + 1] = l /\ pc'[g] = w
        /\ \A h \in Goroutine : h # started + 1 => kind'[h] = kind[h] /\ (h # g => pc'[h] = pc[h])
    BY <1>1, <1>2, <1>3, <1>4
  <1>6. pc[Main] = "start" => g = Main
    BY DEF Places, Main
  <1>7. pc[Main] # "start"
    BY <1>6, Zenon
  <1>8. pc'[Main] # "start"
    BY <1>2, <1>5, <1>7, MainIsOne, Zenon
  <1>9. kind'[Main] = "main"
    BY <1>2, <1>5, MainIsOne, Zenon DEF Places
  <1>10. ASSUME NEW h \in Goroutine, kind'[h] = "user"
         PROVE  pc'[h] \in {"start", "run", "callwait", "callquiet", "gone"}
    <2>1. CASE h = started + 1
      BY <1>5, <1>10, <2>1
    <2>2. CASE h # started + 1 /\ h = g
      BY <1>5, <1>10, <2>2
    <2>3. CASE h # started + 1 /\ h # g
      <3>1. kind[h] = "user" /\ pc'[h] = pc[h]
        BY <1>5, <1>10, <2>3, Zenon
      <3> QED BY <3>1, Zenon DEF Places
    <2> QED BY <2>1, <2>2, <2>3
  <1>11. \A h \in Goroutine : pc'[h] = "waitsent" => mode' = "testing"
    BY <1>5, Zenon DEF Places
  <1>12. mode' = "testing" => pc'[Main] \notin {"auth", "authwait", "begin", "release"}
    BY <1>2, <1>5, MainIsOne, Zenon DEF Places
  <1>13. mode' = "testing" => traced' /\ Main \notin late'
    BY <1>7, Zenon DEF Places
  <1> QED BY <1>8, <1>9, <1>10, <1>11, <1>12, <1>13, Zenon DEF Places

(* Every step leaves goroutines in places that they can be in. *)
LEMMA PlacesKept ==
  ASSUME TrackerTypes, DataTypes, Flags, Places, [Next]_vars
  PROVE  Places'
  <1>1. Ratchets
    BY FlagsKept
  <1>2. Main \in 1 .. started
    BY DEF TrackerTypes, Goroutine, Main
  <1>3. \A g \in 1 .. started : g \in Goroutine
    BY MainIsOne DEF TrackerTypes, Goroutine
  <1>4. \A g \in 1 .. started : pc[g] \notin {"start", "run", "callwait", "callquiet", "gone"} => kind[g] # "user"
    BY <1>3, Zenon DEF Places
  <1>5. /\ mode = "testing" => pc[Main] \notin {"auth", "authwait", "begin", "release"} /\ Main \notin late
        /\ kind[Main] = "main"
    BY Zenon DEF Places
  <1>6. CASE UNCHANGED vars \/ Streaming
    <2>1. UNCHANGED <<mode, started, kind, pc, traced, zeroed, late>>
      BY <1>6, Zenon DEF vars, tracker, Streaming, TakeAll, BeginStreaming, ReadMore, Send, EndStream, StreamFails
    <2> QED BY <2>1 DEF Places
  <1>7. CASE BeginOperation
    BY <1>1, <1>2, <1>5, <1>7, GotoPlaces DEF BeginOperation
  <1>8. CASE Authenticate
    BY <1>2, <1>5, <1>8, StartPlaces DEF Authenticate
  <1>9. CASE SkipAuth
    BY <1>1, <1>2, <1>5, <1>9, GotoPlaces DEF SkipAuth
  <1>10. CASE AuthReturns
    BY <1>1, <1>2, <1>5, <1>10, GotoPlaces DEF AuthReturns
  <1>11. CASE FinishOperation
    BY <1>1, <1>2, <1>5, <1>11, GotoPlaces DEF FinishOperation, DecRef
  <1>12. CASE StartTest
    BY <1>1, <1>2, <1>5, <1>12, GotoPlaces DEF StartTest
  <1>13. ASSUME NEW g \in 1 .. started, RuntimeStep(g) PROVE Places'
    <2>1. pc[Main] = "start" => g = Main
      BY DEF Places, Main
    <2>2. CASE BeginRequest(g)
      <3>1. Goto(g, "span") /\ UNCHANGED <<mode, started, kind>> /\ pc[g] = "begin"
        BY <2>2, Zenon DEF BeginRequest, Look
      <3>2. late' = IF zeroed THEN late \union {g} ELSE late
        BY <2>2, Zenon DEF BeginRequest
      <3>3. kind[g] # "user" /\ (mode = "testing" => g # Main)
        BY <1>4, <1>5, <3>1
      <3>4. mode = "testing" => Main \notin late'
        BY <1>5, <3>2, <3>3
      <3>5. pc[Main] # "start"
        BY <2>1, <3>1
      <3> QED BY <1>1, <3>1, <3>3, <3>4, <3>5, GotoPlaces
    <2>3. CASE BeginFails(g)
      BY <1>1, <1>4, <1>5, <2>1, <2>3, GotoPlaces DEF BeginFails
    <2>4. CASE SpanStart(g) \/ SpanEnd(g)
      <3>1. pc[g] \in {"span", "end"} /\ UNCHANGED <<mode, started, kind, late>>
        BY <2>4 DEF SpanStart, SpanEnd, LogEvent
      <3>2. kind[g] # "user" /\ pc[Main] # "start"
        BY <1>4, <2>1, <3>1
      <3>3. PICK l \in {"validate", "run", "finish"} : Goto(g, l)
        BY <2>4 DEF SpanStart, SpanEnd
      <3> QED BY <1>1, <1>5, <3>1, <3>2, <3>3, GotoPlaces
    <2>5. CASE Validate(g) \/ ReturnInvalid(g)
      BY <1>1, <1>4, <1>5, <2>1, <2>5, GotoPlaces DEF Validate, ReturnInvalid
    <2>6. CASE CallReturns(g)
      <3>1. pc[g] # "start" /\ Goto(g, "run") /\ UNCHANGED <<mode, started, kind, late>>
        BY <2>6 DEF CallReturns, LogEvent, Look
      <3> QED BY <1>1, <1>5, <2>1, <3>1, GotoPlaces
    <2>7. CASE FinishRequest(g)
      <3>1. pc[g] = "finish" /\ UNCHANGED <<mode, started, kind, late>>
        BY <2>7 DEF FinishRequest
      <3>2. PICK l \in {"release", "gone", "mark"} : Goto(g, l) /\ (l = "release" => mode # "testing")
        BY <2>7 DEF FinishRequest, DecRef
      <3> QED BY <1>1, <1>4, <1>5, <2>1, <3>1, <3>2, GotoPlaces
    <2>8. CASE MarkDone(g)
      BY <1>1, <1>4, <1>5, <2>1, <2>8, GotoPlaces DEF MarkDone, BlockOnTraceSend
    <2>9. CASE WaitForStreamSent(g)
      BY <1>1, <1>5, <2>1, <2>9, GotoPlaces DEF WaitForStreamSent
    <2> QED BY <1>13, <2>2, <2>3, <2>4, <2>5, <2>6, <2>7, <2>8, <2>9, Zenon DEF RuntimeStep
  <1>14. ASSUME NEW g \in 1 .. started, UserStep(g) PROVE Places'
    <2>1. pc[Main] = "start" => g = Main
      BY DEF Places, Main
    <2>2. CASE UserEvent(g)
      <3>1. UNCHANGED <<mode, started, kind, pc, traced, zeroed, late>>
        BY <2>2 DEF UserEvent, LogEvent
      <3> QED BY <3>1 DEF Places
    <2>3. CASE Go(g)
      BY <2>3, StartPlaces DEF Go
    <2>4. CASE Call(g)
      <3>1. UNCHANGED <<mode, traced, zeroed, late>> /\ pc[g] = "run"
        BY <2>4 DEF Call, LogEvent
      <3>2. PICK w \in {"callwait", "callquiet"} : Start(g, "call", "begin", w)
        BY <2>4 DEF Call
      <3> QED BY <3>1, <3>2, StartPlaces
    <2>5. CASE UserReturns(g)
      BY <1>1, <1>5, <2>1, <2>5, GotoPlaces DEF UserReturns
    <2> QED BY <1>14, <2>2, <2>3, <2>4, <2>5, Zenon DEF UserStep
  <1> QED BY <1>6, <1>7, <1>8, <1>9, <1>10, <1>11, <1>12, <1>13, <1>14, Zenon DEF Next

\* A step that neither takes a reference nor gives one up.
NoRef == Open' = Open /\ OpHeld' = OpHeld /\ UNCHANGED <<refs, zeroed, late>>

(* A goroutine that moves from where it holds a reference to another such place, or from *)
(* where it holds none to another such place.                                            *)
LEMMA GotoNoRef ==
  ASSUME TrackerTypes, NEW g \in 1 .. started, NEW l, Goto(g, l),
         UNCHANGED <<mode, started, kind, refs, zeroed, late>>,
         kind[g] = "user" \/ (l \in HoldsRef <=> pc[g] \in HoldsRef),
         g = Main /\ mode # "testing" =>
            (l \in {"start", "mark", "gone"} <=> pc[g] \in {"start", "mark", "gone"})
  PROVE  NoRef
  <1>1. g \in Goroutine
    BY MainIsOne DEF TrackerTypes, Goroutine
  <1>2. pc' = [pc EXCEPT ![g] = l] /\ DOMAIN pc = Goroutine
    BY DEF Goto, TrackerTypes
  <1>3. pc'[Main] = IF g = Main THEN l ELSE pc[Main]
    BY <1>1, <1>2, MainIsOne
  <1>4. OpHeld' = OpHeld
    BY <1>3, Zenon DEF OpHeld
  <1>5. Open' = IF kind[g] # "user" /\ l \in HoldsRef THEN Open \union {g} ELSE Open \ {g}
    BY GotoOpen
  <1>6. g \in Open <=> kind[g] # "user" /\ pc[g] \in HoldsRef
    BY DEF Open
  <1>7. Open' = Open
    BY <1>5, <1>6
  <1> QED BY <1>4, <1>7, Zenon DEF NoRef

(* Starting a goroutine is such a step. *)
LEMMA StartNoRef ==
  ASSUME TrackerTypes, Places, NEW g \in 1 .. started,
         NEW k, NEW l, NEW w, Start(g, k, l, w), UNCHANGED <<mode, refs, zeroed, late>>,
         k = "user" \/ l \notin HoldsRef, w \in HoldsRef <=> pc[g] \in HoldsRef,
         w \notin {"start", "mark", "gone"}, pc[g] \notin {"start", "mark", "gone"}
  PROVE  NoRef
  <1>1. Open' = Open
    BY StartOpen
  <1>2. started + 1 \in Goroutine /\ started + 1 # Main /\ g \in Goroutine
    BY MainIsOne DEF Start, TrackerTypes, Goroutine, Main
  <1>3. pc' = [pc EXCEPT ![started + 1] = l, ![g] = w] /\ DOMAIN pc = Goroutine
    BY Zenon DEF Start, TrackerTypes
  <1>4. pc'[Main] = IF g = Main THEN w ELSE pc[Main]
    BY <1>2, <1>3, MainIsOne
  <1>5. OpHeld' = OpHeld
    BY <1>4, Zenon DEF OpHeld
  <1> QED BY <1>1, <1>5, Zenon DEF NoRef

(* The steps that take a reference or give one up. *)
LEMMA RefSteps ==
  ASSUME TrackerTypes, Places, [Next]_vars
  PROVE  \/ NoRef
         \/ BeginOperation \/ StartTest \/ FinishOperation
         \/ \E g \in 1 .. started : BeginRequest(g) \/ FinishRequest(g)
  <1>1. Main \in 1 .. started
    BY DEF TrackerTypes, Goroutine, Main
  <1>2. \A g \in 1 .. started : pc[g] \notin {"start", "run", "callwait", "callquiet", "gone"} => kind[g] # "user"
    BY MainIsOne DEF Places, TrackerTypes, Goroutine
  <1>3. CASE UNCHANGED vars \/ Streaming
    <2>1. UNCHANGED <<mode, started, kind, pc, refs, zeroed, late>>
      BY <1>3, Zenon DEF vars, tracker, Streaming, TakeAll, BeginStreaming, ReadMore, Send, EndStream, StreamFails
    <2> QED BY <2>1 DEF NoRef, Open, OpHeld
  <1>4. CASE Authenticate
    BY <1>1, <1>4, StartNoRef DEF Authenticate, HoldsRef
  <1>5. CASE SkipAuth
    BY <1>1, <1>5, GotoNoRef DEF SkipAuth, HoldsRef
  <1>6. CASE AuthReturns
    BY <1>1, <1>6, GotoNoRef DEF AuthReturns, HoldsRef
  <1>7. ASSUME NEW g \in 1 .. started, RuntimeStep(g), ~BeginRequest(g), ~FinishRequest(g) PROVE NoRef
    <2>1. CASE BeginFails(g)
      BY <2>1, GotoNoRef DEF BeginFails, HoldsRef, Places
    <2>2. CASE SpanStart(g)
      <3>1. UNCHANGED <<mode, started, kind, refs, zeroed, late>> /\ pc[g] = "span"
        BY <2>2 DEF SpanStart, LogEvent
      <3>2. PICK l \in {"validate", "run"} : Goto(g, l)
        BY <2>2 DEF SpanStart
      <3> QED BY <3>1, <3>2, GotoNoRef DEF HoldsRef
    <2>3. CASE SpanEnd(g)
      <3>1. UNCHANGED <<mode, started, kind, refs, zeroed, late>> /\ pc[g] = "end" /\ Goto(g, "finish")
        BY <2>3 DEF SpanEnd, LogEvent
      <3> QED BY <3>1, GotoNoRef DEF HoldsRef
    <2>4. CASE Validate(g)
      BY <2>4, GotoNoRef DEF Validate, HoldsRef
    <2>5. CASE ReturnInvalid(g)
      BY <2>5, GotoNoRef DEF ReturnInvalid, HoldsRef
    <2>6. CASE CallReturns(g)
      <3>1. UNCHANGED <<mode, started, kind, refs, zeroed, late>> /\ pc[g] \in {"callwait", "callquiet"} /\ Goto(g, "run")
        BY <2>6 DEF CallReturns, LogEvent, Look
      <3> QED BY <3>1, GotoNoRef DEF HoldsRef
    <2>7. CASE MarkDone(g)
      BY <2>7, GotoNoRef DEF MarkDone, BlockOnTraceSend, HoldsRef
    <2>8. CASE WaitForStreamSent(g)
      <3>1. UNCHANGED <<mode, started, kind, refs, zeroed, late>> /\ pc[g] = "waitsent" /\ Goto(g, "gone")
        BY <2>8 DEF WaitForStreamSent
      <3>2. mode = "testing"
        BY <3>1, MainIsOne DEF Places, TrackerTypes, Goroutine
      <3> QED BY <3>1, <3>2, GotoNoRef DEF HoldsRef
    <2> QED BY <1>7, <2>1, <2>2, <2>3, <2>4, <2>5, <2>6, <2>7, <2>8, Zenon DEF RuntimeStep
  <1>8. ASSUME NEW g \in 1 .. started, UserStep(g) PROVE NoRef
    <2>1. CASE UserEvent(g)
      <3>1. UNCHANGED <<mode, started, kind, pc, refs, zeroed, late>>
        BY <2>1 DEF UserEvent, LogEvent
      <3> QED BY <3>1 DEF NoRef, Open, OpHeld
    <2>2. CASE Go(g)
      BY <2>2, StartNoRef DEF Go, HoldsRef
    <2>3. CASE Call(g)
      <3>1. UNCHANGED <<mode, refs, zeroed, late>> /\ pc[g] = "run"
        BY <2>3 DEF Call, LogEvent
      <3>2. PICK w \in {"callwait", "callquiet"} : Start(g, "call", "begin", w)
        BY <2>3 DEF Call
      <3> QED BY <3>1, <3>2, StartNoRef DEF HoldsRef
    <2>4. CASE UserReturns(g)
      <3>1. UNCHANGED <<mode, started, kind, refs, zeroed, late>> /\ pc[g] = "run"
            /\ Goto(g, IF kind[g] = "user" THEN "gone" ELSE "end")
        BY <2>4, Zenon DEF UserReturns
      <3>2. kind[g] = "user" => g # Main
        BY DEF Places
      <3>3. CASE kind[g] = "user"
        BY <3>1, <3>2, <3>3, GotoNoRef
      <3>4. CASE kind[g] # "user"
        BY <3>1, <3>4, GotoNoRef DEF HoldsRef
      <3> QED BY <3>3, <3>4
    <2> QED BY <1>8, <2>1, <2>2, <2>3, <2>4, Zenon DEF UserStep
  <1> QED BY <1>3, <1>4, <1>5, <1>6, <1>7, <1>8, Zenon DEF Next

(* The count is exact after a step if it was before, and once it has been zero nobody *)
(* holds the operation but requests begun later.                                      *)
LEMMA CountKept ==
  ASSUME TrackerTypes, Flags, Places, RefsCountRequests, zeroed => ~OpHeld /\ Open \subseteq late, [Next]_vars
  PROVE  RefsCountRequests' /\ (zeroed' => ~OpHeld' /\ Open' \subseteq late')
  <1>1. started \in Nat /\ Open \subseteq 1 .. started /\ \A g \in 1 .. started : g \in Goroutine
    BY MainIsOne DEF TrackerTypes, Goroutine, Open
  <1>2. IsFiniteSet(Open) /\ Cardinality(Open) \in Nat
    BY <1>1, CountStarted
  <1>3. OpHeld \in BOOLEAN /\ OpHeld' \in BOOLEAN
    BY DEF OpHeld
  <1>4. \A g \in 1 .. started : pc[g] \notin {"start", "run", "callwait", "callquiet", "gone"} => kind[g] # "user"
    BY <1>1, Zenon DEF Places
  <1>5. Main \in 1 .. started /\ DOMAIN pc = Goroutine
    BY DEF TrackerTypes, Goroutine, Main
  <1>6. refs = Cardinality(Open) + (IF OpHeld THEN 1 ELSE 0)
    BY DEF RefsCountRequests
  <1>7. CASE NoRef
    <2>1. Open' = Open /\ OpHeld' = OpHeld /\ refs' = refs /\ zeroed' = zeroed /\ late' = late
      BY <1>7, Zenon DEF NoRef
    <2> QED BY <1>6, <2>1, Zenon DEF RefsCountRequests
  <1>8. CASE BeginOperation \/ StartTest
    <2>1. pc[Main] = "start" /\ refs' = 1 /\ UNCHANGED <<mode, started, kind, zeroed>>
      BY <1>8 DEF BeginOperation, StartTest
    <2>2. started = 1 /\ ~zeroed
      BY <2>1, Zenon DEF Places
    <2>3. Open = {}
      BY <2>1, <2>2 DEF Open, Main, HoldsRef
    <2>4. CASE BeginOperation
      <3>1. Goto(Main, "auth") /\ mode # "testing"
        BY <2>4, Zenon DEF BeginOperation
      <3>2. Open' = {}
        BY <1>5, <2>1, <2>3, <3>1, GotoOpen DEF HoldsRef
      <3>3. pc'[Main] = "auth"
        BY <1>5, <3>1, MainIsOne DEF Goto
      <3>4. OpHeld'
        BY <2>1, <3>1, <3>3 DEF OpHeld
      <3>5. Cardinality(Open') = 0
        BY <3>2, FS_EmptySet
      <3>6. RefsCountRequests'
        BY <2>1, <3>4, <3>5 DEF RefsCountRequests
      <3> QED BY <2>1, <2>2, <3>6
    <2>5. CASE StartTest
      <3>1. Goto(Main, "span") /\ mode = "testing"
        BY <2>5, Zenon DEF StartTest
      <3>2. kind[Main] # "user"
        BY DEF Places
      <3>3. Open' = {Main}
        BY <1>5, <2>1, <2>3, <3>1, <3>2, GotoOpen DEF HoldsRef
      <3>4. ~OpHeld'
        BY <2>1, <3>1 DEF OpHeld
      <3>5. Cardinality(Open') = 1
        BY <3>3, FS_Singleton
      <3>6. RefsCountRequests'
        BY <2>1, <3>4, <3>5 DEF RefsCountRequests
      <3> QED BY <2>1, <2>2, <3>6
    <2> QED BY <1>8, <2>4, <2>5
  <1>9. ASSUME NEW g \in 1 .. started, BeginRequest(g)
        PROVE  RefsCountRequests' /\ (zeroed' => ~OpHeld' /\ Open' \subseteq late')
    <2>1. /\ pc[g] = "begin" /\ Goto(g, "span") /\ UNCHANGED <<mode, started, kind, zeroed>>
          /\ refs' = refs + 1 /\ late' = IF zeroed THEN late \union {g} ELSE late
      BY <1>9, Zenon DEF BeginRequest, Look, IncRef
    <2>2. kind[g] # "user" /\ g \notin Open
      BY <1>4, <2>1 DEF Open, HoldsRef
    <2>3. Open' = Open \union {g}
      BY <2>1, <2>2, GotoOpen DEF HoldsRef
    <2>4. Cardinality(Open') = Cardinality(Open) + 1
      BY <1>2, <2>2, <2>3, FS_AddElement
    <2>5. pc'[Main] = IF g = Main THEN "span" ELSE pc[Main]
      BY <1>1, <1>5, <2>1, MainIsOne DEF Goto
    <2>6. OpHeld' = OpHeld
      BY <2>1, <2>5 DEF OpHeld
    <2>7. RefsCountRequests'
      BY <1>2, <1>3, <1>6, <2>1, <2>4, <2>6 DEF RefsCountRequests
    <2>8. zeroed => Open' \subseteq late'
      BY <2>1, <2>3
    <2> QED BY <2>1, <2>6, <2>7, <2>8, Zenon
  <1>10. ASSUME NEW g \in 1 .. started, FinishRequest(g)
         PROVE  RefsCountRequests' /\ (zeroed' => ~OpHeld' /\ Open' \subseteq late')
    <2>1. /\ pc[g] = "finish" /\ UNCHANGED <<mode, started, kind, late>>
          /\ refs' = refs - 1 /\ zeroed' = (zeroed \/ refs = 1)
      BY <1>10, Zenon DEF FinishRequest, DecRef
    <2>2. kind[g] # "user" /\ g \in Open
      BY <1>4, <2>1 DEF Open, HoldsRef
    <2>3. PICK l : l = (IF IsLast(refs) THEN "mark" ELSE IF g = Main /\ mode # "testing" THEN "release" ELSE "gone")
      OBVIOUS
    <2>4. Goto(g, l) /\ l \notin HoldsRef
      <3>1. Goto(g, l)
        BY <1>10, <2>3, Zenon DEF FinishRequest, DecRef
      <3>2. l \notin HoldsRef
        BY <2>3 DEF HoldsRef
      <3> QED BY <3>1, <3>2
    <2>5. Open' = Open \ {g}
      BY <2>1, <2>2, <2>4, GotoOpen
    <2>6. Cardinality(Open') = Cardinality(Open) - 1 /\ Cardinality(Open) # 0 /\ IsFiniteSet(Open')
      BY <1>2, <2>2, <2>5, FS_RemoveElement, FS_EmptySet
    <2>7. pc'[Main] = IF g = Main THEN l ELSE pc[Main]
      BY <1>1, <1>5, <2>4, MainIsOne DEF Goto
    <2>8. OpHeld => refs # 1
      BY <1>2, <1>6, <2>6
    <2>9. OpHeld' = OpHeld
      <3>1. CASE g = Main /\ mode # "testing"
        <4>1. OpHeld
          BY <2>1, <3>1 DEF OpHeld
        <4>2. l = "release"
          BY <2>3, <2>8, <3>1, <4>1 DEF IsLast
        <4>3. OpHeld'
          BY <2>1, <2>7, <3>1, <4>2 DEF OpHeld
        <4> QED BY <4>1, <4>3
      <3>2. CASE ~(g = Main /\ mode # "testing")
        BY <2>1, <2>7, <3>2, Zenon DEF OpHeld
      <3> QED BY <3>1, <3>2
    <2>10. RefsCountRequests'
      BY <1>2, <1>3, <1>6, <2>1, <2>6, <2>9 DEF RefsCountRequests
    <2>11. zeroed => ~OpHeld' /\ Open' \subseteq late'
      BY <2>1, <2>5, <2>9, Zenon
    <2>12. refs = 1 => ~OpHeld' /\ Open' = {}
      <3>1. refs = 1 => ~OpHeld'
        BY <2>8, <2>9
      <3>2. refs = 1 => Cardinality(Open') = 0
        BY <1>2, <1>6, <2>6
      <3> QED BY <2>6, <3>1, <3>2, FS_EmptySet
    <2>13. refs = 1 => Open' \subseteq late'
      BY <2>12
    <2> QED BY <2>1, <2>10, <2>11, <2>12, <2>13, Zenon
  <1>11. CASE FinishOperation
    <2>1. /\ pc[Main] = "release" /\ UNCHANGED <<mode, started, kind, late>>
          /\ refs' = refs - 1 /\ zeroed' = (zeroed \/ refs = 1)
      BY <1>11, Zenon DEF FinishOperation, DecRef
    <2>2. mode # "testing"
      BY <2>1 DEF Places
    <2>3. OpHeld
      BY <2>1, <2>2 DEF OpHeld
    <2>4. PICK l : l = (IF IsLast(refs) THEN "mark" ELSE "gone")
      OBVIOUS
    <2>5. Goto(Main, l)
      BY <1>11, <2>4, Zenon DEF FinishOperation, DecRef
    <2>6. pc'[Main] = l
      BY <1>5, <2>5, MainIsOne DEF Goto
    <2>7. ~OpHeld'
      BY <2>1, <2>4, <2>6 DEF OpHeld
    <2>8. Open' = Open
      <3>1. Open' = Open \ {Main}
        BY <1>5, <2>1, <2>4, <2>5, GotoOpen DEF HoldsRef
      <3>2. Main \notin Open
        BY <2>1 DEF Open, HoldsRef
      <3> QED BY <3>1, <3>2
    <2>9. RefsCountRequests'
      BY <1>2, <1>6, <2>1, <2>3, <2>7, <2>8 DEF RefsCountRequests
    <2>10. ~zeroed
      BY <2>3
    <2>11. refs = 1 => Open' \subseteq late'
      <3>1. refs = 1 => Cardinality(Open) = 0
        BY <1>2, <1>6, <2>3
      <3>2. refs = 1 => Open = {}
        BY <1>2, <3>1, FS_EmptySet
      <3> QED BY <2>8, <3>2
    <2> QED BY <2>1, <2>7, <2>9, <2>10, <2>11, Zenon
  <1> QED BY <1>7, <1>8, <1>9, <1>10, <1>11, RefSteps, Zenon

(* Only who takes the count to zero goes on to mark the log. *)
LEMMA MarkMeansZeroed ==
  ASSUME TrackerTypes, DataTypes, Flags, Places, \A g \in Goroutine : pc[g] = "mark" => zeroed, [Next]_vars
  PROVE  \A g \in Goroutine : pc'[g] = "mark" => zeroed'
  <1>1. zeroed => zeroed'
    BY FlagsKept DEF Ratchets
  <1>2. \A g \in 1 .. started : g \in Goroutine
    BY MainIsOne DEF TrackerTypes, Goroutine
  <1>3. Main \in 1 .. started /\ DOMAIN pc = Goroutine
    BY DEF TrackerTypes, Goroutine, Main
  <1>4. ASSUME UNCHANGED pc PROVE \A g \in Goroutine : pc'[g] = "mark" => zeroed'
    BY <1>1, <1>4, Zenon
  <1>5. ASSUME NEW g \in 1 .. started, NEW l, Goto(g, l), l = "mark" => zeroed'
        PROVE  \A h \in Goroutine : pc'[h] = "mark" => zeroed'
    <2>1. \A h \in Goroutine : pc'[h] = IF h = g THEN l ELSE pc[h]
      BY <1>2, <1>3, <1>5 DEF Goto
    <2> QED BY <1>1, <1>5, <2>1, Zenon
  <1>6. ASSUME NEW g \in 1 .. started, NEW k, NEW l, NEW w, Start(g, k, l, w), l # "mark", w # "mark"
        PROVE  \A h \in Goroutine : pc'[h] = "mark" => zeroed'
    <2>1. pc' = [pc EXCEPT ![started + 1] = l, ![g] = w]
      BY <1>6, Zenon DEF Start
    <2>2. \A h \in Goroutine : pc'[h] \in {l, w, pc[h]}
      BY <1>3, <2>1
    <2> QED BY <1>1, <1>6, <2>2
  <1>7. CASE UNCHANGED vars \/ Streaming
    BY <1>4, <1>7, Zenon DEF vars, tracker, Streaming, TakeAll, BeginStreaming, ReadMore, Send, EndStream, StreamFails
  <1>8. CASE BeginOperation \/ SkipAuth \/ AuthReturns \/ StartTest
    BY <1>3, <1>5, <1>8 DEF BeginOperation, SkipAuth, AuthReturns, StartTest
  <1>9. CASE Authenticate
    BY <1>3, <1>6, <1>9 DEF Authenticate
  <1>10. ASSUME NEW g \in 1 .. started, NEW m \in {"release", "gone"}, DecRef(g, m)
         PROVE  \A h \in Goroutine : pc'[h] = "mark" => zeroed'
    <2>1. zeroed' = (zeroed \/ refs = 1) /\ Goto(g, IF IsLast(refs) THEN "mark" ELSE m)
      BY <1>10, Zenon DEF DecRef
    <2>2. IsLast(refs) => zeroed'
      BY <2>1, Zenon DEF IsLast
    <2> QED BY <1>5, <2>1, <2>2
  <1>11. CASE FinishOperation
    BY <1>3, <1>10, <1>11 DEF FinishOperation
  <1>12. ASSUME NEW g \in 1 .. started, RuntimeStep(g)
         PROVE  \A h \in Goroutine : pc'[h] = "mark" => zeroed'
    <2>1. CASE FinishRequest(g)
      BY <1>10, <2>1 DEF FinishRequest
    <2>2. CASE ~FinishRequest(g)
      <3>1. \E l : Goto(g, l) /\ l # "mark"
        BY <1>12, <2>2 DEF RuntimeStep, BeginRequest, BeginFails, Validate, ReturnInvalid, WaitForStreamSent,
                           MarkDone, SpanStart, SpanEnd, CallReturns
      <3> QED BY <1>5, <3>1
    <2> QED BY <2>1, <2>2
  <1>13. ASSUME NEW g \in 1 .. started, UserStep(g)
         PROVE  \A h \in Goroutine : pc'[h] = "mark" => zeroed'
    <2>1. CASE UserEvent(g)
      BY <1>4, <2>1 DEF UserEvent
    <2>2. CASE Go(g) \/ Call(g)
      BY <1>6, <2>2 DEF Go, Call
    <2>3. CASE UserReturns(g)
      BY <1>5, <2>3 DEF UserReturns
    <2> QED BY <1>13, <2>1, <2>2, <2>3, Zenon DEF UserStep
  <1> QED BY <1>7, <1>8, <1>9, <1>11, <1>12, <1>13, Zenon DEF Next

(* The log is marked done only when the count has been zero. *)
LEMMA ZeroedKept ==
  ASSUME TrackerTypes, DataTypes, Flags, Places, RefsCountRequests, Zeroed, [Next]_vars
  PROVE  Zeroed'
  <1>1. zeroed => zeroed'
    BY FlagsKept DEF Ratchets
  <1>2. done' => done \/ \E g \in Goroutine : pc[g] = "mark"
    <2>1. CASE UNCHANGED vars \/ NoLog
      BY <2>1, Zenon DEF vars, NoLog, log, stream
    <2>2. CASE (\E e \in Event : LogEvent(e)) \/ Look
      BY <2>2, Zenon DEF LogEvent, Look, log, stream
    <2>3. CASE Streaming
      BY <2>3, Zenon DEF Streaming, TakeAll, BeginStreaming, ReadMore, Send, EndStream, StreamFails, log
    <2> QED BY <2>1, <2>2, <2>3, LogSteps, Zenon
  <1>3. done' => zeroed'
    BY <1>1, <1>2, Zenon DEF Zeroed
  <1>4. zeroed' => ~OpHeld' /\ Open' \subseteq late'
    BY CountKept, Zenon DEF Zeroed
  <1>5. \A g \in Goroutine : pc'[g] = "mark" => zeroed'
    BY MarkMeansZeroed, Zenon DEF Zeroed
  <1> QED BY <1>3, <1>4, <1>5, Zenon DEF Zeroed

-----------------------------------------------------------------------------
(* The spans. *)

(* A span that has started goes on until its end is logged. *)
LEMMA InSpanStays ==
  ASSUME TrackerTypes, Places, [Next]_vars, NEW h \in Open, pc[h] \in InSpan
  PROVE  (h \in Open' /\ pc'[h] \in InSpan) \/ SpanEnd(h)
  <1>1. h \in 1 .. started /\ kind[h] # "user"
    BY DEF Open
  <1>2. \A g \in 1 .. started : g \in Goroutine
    BY MainIsOne DEF TrackerTypes, Goroutine
  <1>3. Main \in 1 .. started /\ started \in Nat /\ DOMAIN pc = Goroutine /\ DOMAIN kind = Goroutine
    BY MainIsOne DEF TrackerTypes, Goroutine, Main
  <1>4. InSpan \subseteq HoldsRef
    BY DEF InSpan, HoldsRef
  <1>5. ASSUME h \in 1 .. started', kind'[h] = kind[h], pc'[h] \in InSpan
        PROVE  h \in Open' /\ pc'[h] \in InSpan
    BY <1>1, <1>4, <1>5, Zenon DEF Open
  <1>6. ASSUME NEW g \in 1 .. started, NEW l, Goto(g, l), UNCHANGED <<started, kind>>, g = h => l \in InSpan
        PROVE  h \in Open' /\ pc'[h] \in InSpan
    <2>1. pc'[h] = IF h = g THEN l ELSE pc[h]
      BY <1>1, <1>2, <1>3, <1>6 DEF Goto
    <2>2. pc'[h] \in InSpan
      BY <1>6, <2>1, Zenon
    <2> QED BY <1>1, <1>5, <1>6, <2>2, Zenon
  <1>7. ASSUME NEW g \in 1 .. started, NEW k, NEW l, NEW w, Start(g, k, l, w), g = h => w \in InSpan
        PROVE  h \in Open' /\ pc'[h] \in InSpan
    <2>1. /\ started' = started + 1 /\ kind' = [kind EXCEPT ![started + 1] = k]
          /\ pc' = [pc EXCEPT ![started + 1] = l, ![g] = w]
      BY <1>7, Zenon DEF Start
    <2>2. h # started + 1 /\ h \in 1 .. started' /\ started' \in Nat
      BY <1>1, <1>3, <2>1
    <2>3. pc'[h] = (IF h = g THEN w ELSE pc[h]) /\ kind'[h] = kind[h]
      BY <1>1, <1>2, <1>3, <2>1, <2>2
    <2>4. pc'[h] \in InSpan
      BY <1>7, <2>3, Zenon
    <2> QED BY <1>5, <2>2, <2>3, <2>4, Zenon
  <1>8. CASE UNCHANGED vars \/ Streaming
    <2>1. UNCHANGED <<started, kind, pc>>
      BY <1>8, Zenon DEF vars, tracker, Streaming, TakeAll, BeginStreaming, ReadMore, Send, EndStream, StreamFails
    <2> QED BY <1>1, <1>5, <2>1
  <1>9. CASE BeginOperation \/ SkipAuth \/ AuthReturns \/ StartTest \/ FinishOperation
    <2>1. pc[Main] \notin InSpan /\ UNCHANGED <<started, kind>> /\ \E l : Goto(Main, l)
      BY <1>9 DEF BeginOperation, SkipAuth, AuthReturns, StartTest, FinishOperation, DecRef, InSpan
    <2> QED BY <1>3, <1>6, <2>1
  <1>10. CASE Authenticate
    <2>1. pc[Main] \notin InSpan /\ Start(Main, "auth", "begin", "authwait")
      BY <1>10 DEF Authenticate, InSpan
    <2> QED BY <1>3, <1>7, <2>1
  <1>11. ASSUME NEW g \in 1 .. started, RuntimeStep(g), ~SpanEnd(g) PROVE h \in Open' /\ pc'[h] \in InSpan
    <2>1. CASE Validate(g) \/ ReturnInvalid(g) \/ CallReturns(g) \/ SpanStart(g)
      <3>1. UNCHANGED <<started, kind>> /\ \E l \in InSpan : Goto(g, l)
        BY <2>1 DEF Validate, ReturnInvalid, CallReturns, SpanStart, InSpan
      <3> QED BY <1>6, <3>1
    <2>2. CASE BeginRequest(g) \/ BeginFails(g) \/ FinishRequest(g) \/ MarkDone(g) \/ WaitForStreamSent(g)
      <3>1. pc[g] \notin InSpan /\ UNCHANGED <<started, kind>> /\ \E l : Goto(g, l)
        BY <2>2 DEF BeginRequest, BeginFails, FinishRequest, MarkDone, WaitForStreamSent, DecRef, InSpan
      <3> QED BY <1>6, <3>1
    <2> QED BY <1>11, <2>1, <2>2, Zenon DEF RuntimeStep
  <1>12. ASSUME NEW g \in 1 .. started, UserStep(g) PROVE h \in Open' /\ pc'[h] \in InSpan
    <2>1. CASE UserEvent(g)
      BY <1>1, <1>5, <2>1 DEF UserEvent
    <2>2. CASE Go(g) \/ Call(g)
      <3>1. \E k, l : \E w \in InSpan : Start(g, k, l, w)
        BY <2>2 DEF Go, Call, InSpan
      <3> QED BY <1>7, <3>1
    <2>3. CASE UserReturns(g)
      <3>1. UNCHANGED <<started, kind>> /\ Goto(g, IF kind[g] = "user" THEN "gone" ELSE "end")
        BY <2>3, Zenon DEF UserReturns
      <3>2. g = h => "end" \in InSpan /\ kind[g] # "user"
        BY <1>1 DEF InSpan
      <3> QED BY <1>6, <3>1, <3>2
    <2> QED BY <1>12, <2>1, <2>2, <2>3, Zenon DEF UserStep
  <1>13. ASSUME NEW g \in 1 .. started, SpanEnd(g), g # h PROVE h \in Open' /\ pc'[h] \in InSpan
    <2>1. UNCHANGED <<started, kind>> /\ Goto(g, "finish")
      BY <1>13, Zenon DEF SpanEnd
    <2> QED BY <1>6, <1>13, <2>1
  <1> QED BY <1>8, <1>9, <1>10, <1>11, <1>12, <1>13, Zenon DEF Next

(* What a step adds to the log: nothing, or one event of a traced operation, which is the *)
(* start of a span only when a span starts.                                               *)
LEMMA LoggedSteps ==
  ASSUME TrackerTypes, [Next]_vars
  PROVE  \/ logged' = logged
         \/ /\ traced
            /\ \E e \in Event : /\ logged' = Append(logged, e)
                                /\ \A h : e = <<"start", h>> => h \in 1 .. started /\ SpanStart(h)
  <1>1. \A g \in 1 .. started : g \in Goroutine
    BY MainIsOne DEF TrackerTypes, Goroutine
  <1>2. \A e : LogEvent(e) => logged' = logged \/ (traced /\ logged' = Append(logged, e))
    BY Zenon DEF LogEvent, log
  <1>3. Look => logged' = logged
    BY Zenon DEF Look, log
  <1>4. CASE UNCHANGED vars \/ Streaming
    BY <1>4, Zenon DEF vars, log, Streaming, TakeAll, BeginStreaming, ReadMore, Send, EndStream, StreamFails
  <1>5. CASE BeginOperation \/ Authenticate \/ SkipAuth \/ AuthReturns \/ FinishOperation \/ StartTest
    BY <1>5, Zenon DEF BeginOperation, Authenticate, SkipAuth, AuthReturns, FinishOperation, StartTest, log
  <1>6. ASSUME NEW g \in 1 .. started, RuntimeStep(g) \/ UserStep(g)
        PROVE  \/ logged' = logged
               \/ /\ traced
                  /\ \E e \in Event : /\ logged' = Append(logged, e)
                                      /\ \A h : e = <<"start", h>> => h \in 1 .. started /\ SpanStart(h)
    <2>1. CASE SpanStart(g)
      <3>1. LogEvent(<<"start", g>>) /\ <<"start", g>> \in Event
        BY <1>1, <2>1 DEF SpanStart, Event
      <3>2. \A h : <<"start", g>> = <<"start", h>> => h = g
        OBVIOUS
      <3> QED BY <1>2, <2>1, <3>1, <3>2, Zenon
    <2>2. ASSUME NEW n \in {"end", "call", "returned", "user"}, NEW m \in Goroutine, LogEvent(<<n, m>>)
          PROVE  \/ logged' = logged
                 \/ /\ traced
                    /\ \E e \in Event : /\ logged' = Append(logged, e)
                                        /\ \A h : e = <<"start", h>> => h \in 1 .. started /\ SpanStart(h)
      <3>1. <<n, m>> \in Event
        BY DEF Event
      <3>2. \A h : <<n, m>> # <<"start", h>>
        OBVIOUS
      <3> QED BY <1>2, <2>2, <3>1, <3>2, Zenon
    <2>3. CASE SpanEnd(g)
      BY <1>1, <2>2, <2>3 DEF SpanEnd
    <2>4. CASE UserEvent(g)
      BY <1>1, <2>2, <2>4 DEF UserEvent
    <2>5. CASE Call(g)
      <3>1. started + 1 \in Goroutine /\ LogEvent(<<"call", started + 1>>)
        BY <2>5, MainIsOne DEF Call, Start, TrackerTypes, Goroutine
      <3> QED BY <2>2, <3>1
    <2>6. CASE CallReturns(g)
      <3>1. LogEvent(<<"returned", g>>) \/ Look
        BY <2>6, Zenon DEF CallReturns
      <3> QED BY <1>1, <1>3, <2>2, <3>1
    <2>7. CASE BeginRequest(g)
      BY <1>3, <2>7, Zenon DEF BeginRequest
    <2>8. CASE MarkDone(g)
      BY <2>8, Zenon DEF MarkDone
    <2>9. CASE BeginFails(g) \/ Validate(g) \/ ReturnInvalid(g) \/ FinishRequest(g) \/ WaitForStreamSent(g)
               \/ Go(g) \/ UserReturns(g)
      BY <2>9, Zenon DEF BeginFails, Validate, ReturnInvalid, FinishRequest, WaitForStreamSent, Go, UserReturns, log
    <2> QED BY <1>6, <2>1, <2>3, <2>4, <2>5, <2>6, <2>7, <2>8, <2>9, Zenon DEF RuntimeStep, UserStep
  <1> QED BY <1>4, <1>5, <1>6, Zenon DEF Next

(* Which starts and ends are logged after an event is added. *)
LEMMA AddedEvent ==
  ASSUME LogTypes, NEW e \in Event, logged' = Append(logged, e)
  PROVE  /\ \A g : StartLogged(g)' <=> StartLogged(g) \/ e = <<"start", g>>
         /\ \A g : EndLogged(g, Len(logged))' <=> EndLogged(g, Len(logged)) \/ e = <<"end", g>>
         /\ Len(logged') = Len(logged) + 1 /\ logged' # <<>>
         /\ \A i \in 1 .. Len(logged) : logged'[i] = logged[i]
  <1>1. logged \in Seq(Event) /\ Len(logged) \in Nat
    BY DEF LogTypes
  <1>2. /\ Len(logged') = Len(logged) + 1 /\ logged' # <<>>
        /\ \A i \in 1 .. Len(logged) : logged'[i] = logged[i]
        /\ logged'[Len(logged) + 1] = e
    BY <1>1, AppendProperties
  <1>3. \A i : i \in 1 .. Len(logged') <=> i \in 1 .. Len(logged) \/ i = Len(logged) + 1
    BY <1>1, <1>2
  <1>4. \A g : StartLogged(g)' <=> StartLogged(g) \/ e = <<"start", g>>
    BY <1>2, <1>3, Zenon DEF StartLogged
  <1>5. \A g : EndLogged(g, Len(logged))' <=> EndLogged(g, Len(logged)) \/ e = <<"end", g>>
    BY <1>2, <1>3, Zenon DEF EndLogged
  <1> QED BY <1>2, <1>4, <1>5

(* Every step keeps the spans complete. *)
LEMMA SpansKept ==
  ASSUME TrackerTypes, DataTypes, Flags, LogTypes, Places, Zeroed, LogKept, SpansLogged, [Next]_vars
  PROVE  SpansLogged'
  <1>1. Ratchets
    BY FlagsKept
  <1>2. \/ logged' = logged
        \/ /\ traced
           /\ \E e \in Event : /\ logged' = Append(logged, e)
                               /\ \A h : e = <<"start", h>> => h \in 1 .. started /\ SpanStart(h)
    BY LoggedSteps
  <1>3. logged' # <<>> => traced'
    <2>1. logged # <<>> => traced
      BY DEF SpansLogged
    <2> QED BY <1>1, <1>2, <2>1, Zenon DEF Ratchets
  <1>4. /\ logged \in Seq(Event) /\ Len(logged) \in Nat /\ doneAt \in Nat /\ doneAt <= Len(logged)
        /\ \A g : StartLogged(g) => logged # <<>>
    <2>1. logged \in Seq(Event) /\ Len(logged) \in Nat /\ doneAt \in Nat /\ doneAt <= Len(logged)
      BY DEF LogTypes, LogKept
    <2>2. \A g : StartLogged(g) => logged # <<>>
      BY <2>1 DEF StartLogged
    <2> QED BY <2>1, <2>2
  <1>5. \A g \in 1 .. started : pc[g] = "span" => kind[g] # "user" /\ g \in Open /\ g \in Goroutine
    BY MainIsOne DEF TrackerTypes, Goroutine, Open, Places, HoldsRef
  <1>6. ASSUME NEW g \in Goroutine, StartLogged(g)
        PROVE  (g \in Open' /\ pc'[g] \in InSpan) \/ EndLogged(g, Len(logged))'
    <2>1. (g \in Open /\ pc[g] \in InSpan) \/ EndLogged(g, Len(logged))
      BY <1>6, Zenon DEF SpansLogged
    <2>2. CASE EndLogged(g, Len(logged))
      <3>1. CASE logged' = logged
        BY <2>2, <3>1 DEF EndLogged
      <3>2. CASE \E e \in Event : logged' = Append(logged, e)
        BY <2>2, <3>2, AddedEvent, Zenon
      <3> QED BY <1>2, <3>1, <3>2, Zenon
    <2>3. CASE g \in Open /\ pc[g] \in InSpan
      <3>1. CASE SpanEnd(g)
        <4>1. traced
          BY <1>4, <1>6, Zenon DEF SpansLogged
        <4>2. logged' = Append(logged, <<"end", g>>)
          BY <3>1, <4>1, Zenon DEF SpanEnd, LogEvent
        <4>3. <<"end", g>> \in Event
          BY DEF Event
        <4> QED BY <4>2, <4>3, AddedEvent, Zenon
      <3> QED BY <2>3, <3>1, InSpanStays, Zenon
    <2> QED BY <2>1, <2>2, <2>3
  <1>7. ASSUME NEW g \in 1 .. started, SpanStart(g)
        PROVE  g \in Open' /\ pc'[g] \in InSpan
    <2>1. pc[g] = "span" /\ UNCHANGED <<started, kind>>
      BY <1>7, Zenon DEF SpanStart
    <2>2. PICK l \in {"validate", "run"} : Goto(g, l)
      BY <1>7 DEF SpanStart
    <2>3. kind[g] # "user" /\ g \in Goroutine /\ DOMAIN pc = Goroutine
      BY <1>5, <2>1 DEF TrackerTypes
    <2>4. pc'[g] = l
      BY <2>2, <2>3 DEF Goto
    <2> QED BY <2>1, <2>2, <2>3, <2>4 DEF Open, HoldsRef, InSpan
  <1>8. \A g : StartLogged(g)' => StartLogged(g) \/ (g \in 1 .. started /\ SpanStart(g))
    <2>1. CASE logged' = logged
      BY <2>1 DEF StartLogged
    <2>2. CASE logged' # logged
      BY <1>2, <2>2, AddedEvent, Zenon
    <2> QED BY <2>1, <2>2
  <1>9. \A g \in Goroutine : StartLogged(g)' =>
            (g \in Open' /\ pc'[g] \in InSpan) \/ EndLogged(g, Len(logged))'
    BY <1>6, <1>7, <1>8, Zenon
  <1>10. \A g \in Goroutine \ late' : done' /\ StartLogged(g)' => EndLogged(g, doneAt)'
    <2>1. \/ UNCHANGED <<done, doneAt>>
          \/ Done /\ \E g \in Goroutine : pc[g] = "mark"
      <3>1. CASE UNCHANGED vars \/ NoLog
        BY <3>1, Zenon DEF vars, NoLog, log, stream
      <3>2. CASE (\E e \in Event : LogEvent(e)) \/ Look
        BY <3>2, Zenon DEF LogEvent, Look, log, stream
      <3>3. CASE Streaming
        BY <3>3, Zenon DEF Streaming, TakeAll, BeginStreaming, ReadMore, Send, EndStream, StreamFails, log
      <3> QED BY <3>1, <3>2, <3>3, LogSteps, Zenon
    <2>2. CASE done
      <3>1. doneAt' = doneAt
        BY <2>1, <2>2 DEF Done, LogDone
      <3>2. \A i \in 1 .. doneAt : logged'[i] = logged[i]
        <4>1. \A i \in 1 .. Len(logged) : logged'[i] = logged[i]
          BY <1>2, AddedEvent, Zenon
        <4> QED BY <1>4, <4>1
      <3>3. ASSUME NEW g \in Goroutine \ late', StartLogged(g)' PROVE EndLogged(g, doneAt)'
        <4>1. g \notin late
          BY <1>1 DEF Ratchets
        <4>2. ~(g \in 1 .. started /\ SpanStart(g))
          <5>1. Open \subseteq late
            BY <2>2, Zenon DEF Zeroed
          <5> QED BY <1>5, <4>1, <5>1 DEF SpanStart
        <4>3. EndLogged(g, doneAt)
          BY <1>8, <2>2, <3>3, <4>1, <4>2, Zenon DEF SpansLogged
        <4> QED BY <3>1, <3>2, <4>3, Zenon DEF EndLogged
      <3> QED BY <3>3, Zenon
    <2>3. CASE ~done /\ Done /\ \E g \in Goroutine : pc[g] = "mark"
      <3>1. doneAt' = Len(logged) /\ logged' = logged
        BY <2>3 DEF Done, LogDone
      <3>2. Open \subseteq late
        BY <2>3, Zenon DEF Zeroed
      <3>3. ASSUME NEW g \in Goroutine \ late', StartLogged(g)' PROVE EndLogged(g, doneAt)'
        <4>1. StartLogged(g) /\ g \notin Open
          BY <1>1, <3>1, <3>2, <3>3, Zenon DEF Ratchets, StartLogged
        <4>2. EndLogged(g, Len(logged))
          BY <4>1, Zenon DEF SpansLogged
        <4> QED BY <3>1, <4>2, Zenon DEF EndLogged
      <3> QED BY <3>3, Zenon
    <2>4. CASE ~done /\ UNCHANGED <<done, doneAt>>
      BY <2>4, Zenon
    <2> QED BY <2>1, <2>2, <2>3, <2>4, Zenon
  <1> QED BY <1>3, <1>9, <1>10, Zenon DEF SpansLogged

-----------------------------------------------------------------------------
(* The theorems. *)

(* An operation that has not begun. *)
LEMMA InitTraceInv == Init => TraceInv
  <1> SUFFICES ASSUME Init PROVE TraceInv
    OBVIOUS
  <1> USE MainIsOne
  <1>1. TrackerTypes
    BY DEF Init, TrackerTypes, Goroutine, Main
  <1>2. DataTypes
    BY DEF Init, DataTypes
  <1>3. Flags
    BY Zenon DEF Init, Flags
  <1>4. LogTypes
    BY DEF Init, LogTypes
  <1>5. Places
    BY DEF Init, Places
  <1>6. Open = {} /\ ~OpHeld
    BY DEF Init, Open, OpHeld, HoldsRef, Goroutine
  <1>7. RefsCountRequests
    <2>1. Cardinality(Open) = 0
      BY <1>6, FS_EmptySet
    <2> QED BY <1>6, <2>1 DEF Init, RefsCountRequests
  <1>8. Zeroed
    BY <1>6 DEF Init, Zeroed
  <1>9. LogKept
    <2>1. <<>> \o <<>> \o <<>> = <<>>
      OBVIOUS
    <2> QED BY <2>1 DEF Init, LogKept
  <1>10. SpansLogged
    BY DEF Init, SpansLogged, StartLogged
  <1> QED BY <1>1, <1>2, <1>3, <1>4, <1>5, <1>7, <1>8, <1>9, <1>10, Zenon DEF TraceInv

(* The invariant behind the results below: for any number of goroutines that begin and    *)
(* finish requests in any order (beginReq, finishReq, decRef), the count of references is *)
(* that of the requests which hold one, and the log and its streamer lose nothing.        *)
THEOREM TraceInvariance == Spec => []TraceInv
  <1>1. Init => TraceInv
    BY InitTraceInv
  <1>2. TraceInv /\ [Next]_vars => TraceInv'
    <2> SUFFICES ASSUME TraceInv, [Next]_vars PROVE TraceInv'
      OBVIOUS
    <2>1. TrackerTypes /\ DataTypes /\ Flags /\ LogTypes /\ Places /\ RefsCountRequests /\ Zeroed /\ LogKept /\ SpansLogged
      BY Zenon DEF TraceInv
    <2>2. TrackerTypes' /\ DataTypes' /\ Flags' /\ LogTypes'
      BY <2>1, TrackerTypesKept, DataTypesKept, FlagsKept, LogTypesKept, Zenon
    <2>3. Places'
      BY <2>1, PlacesKept, Zenon
    <2>4. RefsCountRequests' /\ Zeroed'
      <3>1. zeroed => ~OpHeld /\ Open \subseteq late
        BY <2>1, Zenon DEF Zeroed
      <3> QED BY <2>1, <3>1, CountKept, ZeroedKept, Zenon
    <2>5. LogKept' /\ SpansLogged'
      BY <2>1, LogKeptKept, SpansKept, Zenon
    <2> QED BY <2>2, <2>3, <2>4, <2>5, Zenon DEF TraceInv
  <1> QED BY <1>1, <1>2, PTL DEF Spec

(* The count of references of an operation is exact whatever goroutines do, and its log is *)
(* marked done only when no request is counted but those begun after the count was zero.   *)
THEOREM RefsAreExact == Spec => []RefsInv
  <1>1. TraceInv => RefsInv
    <2> SUFFICES ASSUME TraceInv PROVE RefsInv
      OBVIOUS
    <2>1. TrackerTypes /\ DataTypes /\ Flags /\ LogTypes /\ RefsCountRequests /\ Zeroed
      BY Zenon DEF TraceInv
    <2>2. refs \in 0 .. MaxGoroutines + 1
      <3>1. started \in Nat /\ started <= MaxGoroutines /\ Open \in SUBSET (1 .. started)
        BY <2>1, MainIsOne DEF TrackerTypes, Goroutine, Open
      <3>2. Cardinality(Open) \in Nat /\ Cardinality(Open) <= started
        BY <3>1, CountStarted
      <3> QED BY <2>1, <3>1, <3>2, MainIsOne DEF RefsCountRequests
    <2>3. TypeOK
      BY <2>1, <2>2, Zenon DEF TypeOK, TrackerTypes, DataTypes, Flags, LogTypes
    <2>4. DoneMeansNobodyCounted
      BY <2>1, Zenon DEF DoneMeansNobodyCounted, Zeroed
    <2> QED BY <2>1, <2>3, <2>4, Zenon DEF RefsInv
  <1> QED BY <1>1, TraceInvariance, PTL

(* No event is lost or sent twice between Log.Add and the platform, however the streamer's *)
(* reads fall, and a trace that has been sent holds the end of every span it starts, of    *)
(* the requests that were counted.                                                         *)
THEOREM NoEventIsLost == Spec => []TraceIsComplete
  <1>1. TraceInv => TraceIsComplete
    <2> SUFFICES ASSUME TraceInv PROVE TraceIsComplete
      OBVIOUS
    <2>1. LogTypes /\ LogKept /\ SpansLogged
      BY Zenon DEF TraceInv
    <2>2. NothingLostBeforeDone
      BY <2>1, Zenon DEF NothingLostBeforeDone, LogKept
    <2>3. ASSUME streamer = "ended", NEW g \in Goroutine \ late,
                 NEW i \in DOMAIN sent, sent[i] = <<"start", g>>
          PROVE  \E j \in DOMAIN sent : sent[j] = <<"end", g>>
      <3>1. sent \in Seq(Event) /\ logged \in Seq(Event) /\ doneAt \in Nat
        BY <2>1 DEF LogTypes
      <3>2. done /\ IsPrefix(sent, logged) /\ Len(sent) >= doneAt
        BY <2>1, <2>3 DEF LogKept
      <3>3. Len(sent) <= Len(logged) /\ (\A k \in 1 .. Len(sent) : sent[k] = logged[k]) /\ DOMAIN sent = 1 .. Len(sent)
        BY <3>1, <3>2, PrefixAgrees
      <3>4. i \in 1 .. Len(logged) /\ logged[i] = <<"start", g>>
        BY <2>3, <3>1, <3>3
      <3>5. EndLogged(g, doneAt)
        BY <2>1, <3>2, <3>4, Zenon DEF SpansLogged, StartLogged
      <3>6. PICK j \in 1 .. doneAt : logged[j] = <<"end", g>>
        BY <3>5 DEF EndLogged
      <3>7. j \in 1 .. Len(sent)
        BY <3>1, <3>2
      <3> QED BY <3>3, <3>6, <3>7, Zenon
    <2>4. SpansAreComplete
      BY <2>3, Zenon DEF SpansAreComplete
    <2> QED BY <2>2, <2>4 DEF TraceIsComplete
  <1> QED BY <1>1, TraceInvariance, PTL

(* EndTest, where it gives up the last reference, returns only when what was logged until *)
(* then has been sent, or the platform has refused it.                                    *)
THEOREM EndTestWaits == Spec => TestReturnsAfterSend
  <1> DEFINE Waits == mode = "testing" /\ zeroed' /\ pc[Main] # "gone" /\ pc'[Main] = "gone" =>
                        streamer = "failed" \/ (done /\ Len(sent) >= doneAt)
  <1>1. TraceInv /\ [Next]_vars => [Waits]_vars
    <2> SUFFICES ASSUME TraceInv, Next,
                        mode = "testing", zeroed', pc[Main] # "gone", pc'[Main] = "gone"
                 PROVE  streamer = "failed" \/ (done /\ Len(sent) >= doneAt)
      BY Zenon
    <2>1. TrackerTypes /\ Flags /\ Places /\ RefsCountRequests /\ Zeroed /\ LogKept
      BY Zenon DEF TraceInv
    <2>2. DOMAIN pc = Goroutine /\ Main \in Goroutine /\ \A g \in 1 .. started : g \in Goroutine
      BY <2>1, MainIsOne DEF TrackerTypes, Goroutine
    <2>3. kind[Main] = "main" /\ pc[Main] \notin {"auth", "authwait", "begin", "release"} /\ Main \notin late
      BY <2>1, Zenon DEF Places
    <2>4. ASSUME NEW g \in Goroutine, NEW l, Goto(g, l) PROVE g = Main /\ l = "gone"
      <3>1. pc'[Main] = IF g = Main THEN l ELSE pc[Main]
        BY <2>2, <2>4 DEF Goto
      <3> QED BY <3>1
    <2>5. ASSUME NEW g \in 1 .. started, NEW k, NEW l, NEW w, Start(g, k, l, w), w # "gone" PROVE FALSE
      <3>1. pc' = [pc EXCEPT ![started + 1] = l, ![g] = w]
        BY <2>5, Zenon DEF Start
      <3>2. started + 1 # Main
        BY <2>1 DEF TrackerTypes, Goroutine, Main
      <3> QED BY <2>2, <2>5, <3>1, <3>2
    <2>6. pc' # pc
      BY Zenon
    <2>7. CASE BeginOperation \/ SkipAuth \/ AuthReturns \/ StartTest \/ FinishOperation \/ Authenticate
      <3>1. BeginOperation \/ StartTest
        BY <2>3, <2>7, Zenon DEF BeginOperation, SkipAuth, AuthReturns, StartTest, FinishOperation, Authenticate
      <3>2. \E l : Goto(Main, l) /\ l # "gone"
        BY <3>1 DEF BeginOperation, StartTest
      <3> QED BY <2>2, <2>4, <3>2
    <2>8. CASE Streaming
      BY <2>6, <2>8, Zenon DEF tracker, Streaming, TakeAll, BeginStreaming, ReadMore, Send, EndStream, StreamFails
    <2>9. ASSUME NEW g \in 1 .. started, UserStep(g) PROVE FALSE
      <3>1. CASE UserEvent(g)
        BY <2>6, <3>1 DEF UserEvent
      <3>2. CASE Go(g) \/ Call(g)
        BY <2>5, <3>2 DEF Go, Call
      <3>3. CASE UserReturns(g)
        <4>1. g = Main => Goto(g, "end")
          BY <2>3, <3>3 DEF UserReturns
        <4>2. g = Main
          BY <2>2, <2>4, <3>3 DEF UserReturns
        <4> QED BY <2>2, <2>4, <4>1, <4>2
      <3> QED BY <2>9, <3>1, <3>2, <3>3, Zenon DEF UserStep
    <2>10. ASSUME NEW g \in 1 .. started, RuntimeStep(g)
           PROVE  streamer = "failed" \/ (done /\ Len(sent) >= doneAt)
      <3>1. g \in Goroutine
        BY <2>2
      <3>2. CASE BeginRequest(g) \/ Validate(g) \/ ReturnInvalid(g) \/ CallReturns(g) \/ SpanEnd(g) \/ SpanStart(g)
        <4>1. \E l \in {"span", "run", "validate", "aborted", "finish"} : Goto(g, l)
          BY <3>2 DEF BeginRequest, Validate, ReturnInvalid, CallReturns, SpanEnd, SpanStart
        <4> QED BY <2>4, <3>1, <4>1
      <3>3. CASE BeginFails(g)
        BY <2>3, <2>4, <3>1, <3>3 DEF BeginFails
      <3>4. CASE MarkDone(g)
        <4>1. g = Main /\ Goto(g, "waitsent")
          BY <2>4, <3>1, <3>4 DEF MarkDone, BlockOnTraceSend
        <4> QED BY <2>4, <3>1, <4>1
      <3>5. CASE FinishRequest(g)
        <4>1. g = Main
          BY <2>4, <3>1, <3>5 DEF FinishRequest, DecRef
        <4>2. pc[Main] = "finish"
          BY <3>5, <4>1 DEF FinishRequest
        <4>3. Main \in Open
          BY <2>3, <4>1, <4>2 DEF Open, HoldsRef
        <4>4. ~zeroed
          BY <2>1, <2>3, <4>3 DEF Zeroed
        <4>5. refs = 1
          BY <3>5, <4>4, Zenon DEF FinishRequest, DecRef
        <4>6. traced
          BY <2>1, <4>2 DEF Places
        <4>7. Goto(g, "mark")
          BY <3>5, <4>5, <4>6 DEF FinishRequest, DecRef, IsLast
        <4> QED BY <2>4, <3>1, <4>7
      <3>6. CASE WaitForStreamSent(g)
        BY <2>1, <3>6 DEF WaitForStreamSent, LogKept
      <3> QED BY <2>10, <3>2, <3>3, <3>4, <3>5, <3>6, Zenon DEF RuntimeStep
    <2> QED BY <2>7, <2>8, <2>9, <2>10, Zenon DEF Next
  <1> QED BY <1>1, TraceInvariance, PTL DEF Spec, TestReturnsAfterSend
=============================================================================
