------------------------------- MODULE Upload -------------------------------
(***************************************************************************)
(* The S3 uploader of the Go runtime (objects/internal/providers/s3): the  *)
(* application writes into buffers taken from a shared pool and sends the  *)
(* full ones over a channel to a goroutine, which puts the object in one   *)
(* request or uploads the buffers as parts, concurrently, and completes    *)
(* the multipart upload.  Another goroutine of the application may abort.  *)
(*                                                                         *)
(* The i-th byte written is the number i; 0 is a byte of another upload.   *)
(***************************************************************************)
EXTENDS Integers, Sequences, FiniteSets, SequencesExt

CONSTANTS
    Buffer,     \* the buffers that the pool gives out
    BufSize,    \* bufSize
    ChanCap,    \* the capacity of the channel out
    MaxWritten, \* bound: how many bytes the application writes
    None        \* no buffer, no object

ASSUME UploadAssumption ==
    /\ IsFiniteSet(Buffer) /\ None \notin Buffer
    /\ BufSize \in Nat \ {0} /\ ChanCap \in Nat \ {0}
    /\ MaxWritten \in Nat
    /\ None \notin Seq(Nat)

VARIABLES
    client,     \* where the application is: in Write, in Complete, or between calls
    rest,       \* how much of Write's argument is not copied yet
    written,    \* how many bytes Write has copied
    curr,       \* uploader.curr, and the buffer that Write is filling
    aborter,    \* where a call of Abort is
    mem,        \* the bytes in each buffer
    pool,       \* the buffers in bufPool
    out,        \* the channel out
    upl,        \* where the goroutine of doUpload is
    body,       \* the buffer of a single-part upload
    part,       \* the goroutines of the parts, by part number
    result,     \* uploader.err once done is closed
    cleanup,    \* the goroutine that aborts the multipart upload
    mpu,        \* the multipart upload at the storage service
    stored,     \* its parts
    object,     \* the object at the storage service
    abortFirst  \* history: Abort was sent, and Complete was not yet

app == <<client, rest, written, curr, aborter, abortFirst>>
worker == <<upl, body, part, result, cleanup>>
service == <<mpu, stored, object>>
vars == <<app, mem, pool, out, worker, service>>

OptBuffer == Buffer \union {None}
UploadEvent == [data: OptBuffer, abort: BOOLEAN, done: BOOLEAN]
Bytes(i, j) == [k \in 1 .. (j - i + 1) |-> i + k - 1]

\* done is closed.
Closed == upl = "done"

TypeOK ==
    /\ client \in {"idle", "writing", "completing", "waiting", "returned"}
    /\ rest \in Nat /\ written \in 0 .. MaxWritten
    /\ curr \in OptBuffer
    /\ aborter \in {"idle", "sending", "returned"}
    /\ \A b \in Buffer : Len(mem[b]) <= BufSize
    /\ pool \subseteq Buffer
    /\ Len(out) <= ChanCap /\ \A i \in DOMAIN out : out[i] \in UploadEvent
    /\ upl \in {"off", "first", "put", "create", "loop", "wait", "complete", "done"}
    /\ body \in OptBuffer
    /\ \A i \in DOMAIN part : part[i] \in [buf: Buffer, state: {"running", "ok", "failed"}]
    /\ result \in {"none", "ok", "failed"}
    /\ cleanup \in {"none", "pending", "sent"}
    /\ mpu \in {"none", "open", "completed", "aborted", "orphan"}
    /\ abortFirst \in BOOLEAN

Init ==
    /\ client = "idle" /\ rest = 0 /\ written = 0 /\ curr = None
    /\ aborter = "idle" /\ abortFirst = FALSE
    /\ mem = [b \in Buffer |-> <<>>] /\ pool = Buffer
    /\ out = <<>>
    /\ upl = "off" /\ body = None /\ part = <<>> /\ result = "none" /\ cleanup = "none"
    /\ mpu = "none" /\ stored = <<>> /\ object = None

-----------------------------------------------------------------------------
(* The application. *)

\* initUpload: the first call of Write, Complete or Abort starts the goroutine.
InitUpload == upl' = IF upl = "off" THEN "first" ELSE upl

\* How many of n bytes copy puts behind those in a buffer.
Copied(old, n) == IF n <= BufSize - Len(old) THEN n ELSE BufSize - Len(old)

\* Copy the next of n bytes into b, the current buffer or one just taken from the pool (getBuf
\* resets its length).  A buffer that they fill with bytes left over is to be sent.
CopyInto(b, n) ==
    LET old == IF b = curr THEN mem[b] ELSE <<>>
        copied == Copied(old, n)
    IN /\ mem' = [mem EXCEPT ![b] = old \o Bytes(written + 1, written + copied)]
       /\ pool' = pool \ {b}
       /\ written' = written + copied
       /\ curr' = b
       /\ rest' = n - copied
       /\ client' = IF copied < n THEN "writing" ELSE "idle"

\* The buffer that Write goes on with.
NextBuf == IF curr = None THEN pool ELSE {curr}

\* Write of n bytes, as far as it does not block.
Write(n) ==
    /\ client = "idle" /\ written + n <= MaxWritten
    /\ InitUpload
    /\ \E b \in NextBuf : CopyInto(b, n)
    /\ UNCHANGED <<aborter, abortFirst, out, body, part, result, cleanup, service>>

\* Mutant: u.curr is not reset.
SentBuf == {curr}

\* u.curr is nil after a send.
FreshBuf == pool

\* The full buffer fits into the channel, and Write copies the rest.
SendBuffer ==
    /\ client = "writing" /\ Len(out) < ChanCap
    /\ out' = Append(out, [data |-> curr, abort |-> FALSE, done |-> FALSE])
    /\ \E b \in FreshBuf : CopyInto(b, rest)
    /\ UNCHANGED <<aborter, abortFirst, worker, service>>

\* Mutant: Write only sends.
NoDoneCase == FALSE

\* The other case of the selects.
DoneCase == Closed

\* The upload is over: Write returns its error.  u.curr is still the full buffer, or nil if Write
\* took that buffer from the pool.
WriteFails ==
    /\ client = "writing" /\ DoneCase
    /\ rest' = 0
    /\ curr' \in {curr, None}
    /\ client' = "idle"
    /\ UNCHANGED <<written, aborter, abortFirst, mem, pool, out, worker, service>>

BeginComplete ==
    /\ client = "idle"
    /\ InitUpload
    /\ client' = "completing"
    /\ UNCHANGED <<rest, written, curr, aborter, abortFirst, mem, pool, out, body, part, result, cleanup, service>>

\* Complete sends what is left, unless the upload is over.
SendDone ==
    /\ client = "completing"
    /\ \/ /\ Len(out) < ChanCap
          /\ out' = Append(out, [data |-> curr, abort |-> FALSE, done |-> TRUE])
       \/ DoneCase /\ UNCHANGED out
    /\ curr' = None
    /\ client' = "waiting"
    /\ UNCHANGED <<rest, written, aborter, abortFirst, mem, pool, worker, service>>

CompleteReturns ==
    /\ client = "waiting" /\ Closed
    /\ client' = "returned"
    /\ UNCHANGED <<rest, written, curr, aborter, abortFirst, mem, pool, out, worker, service>>

BeginAbort ==
    /\ aborter = "idle"
    /\ InitUpload
    /\ aborter' = "sending"
    /\ UNCHANGED <<client, rest, written, curr, abortFirst, mem, pool, out, body, part, result, cleanup, service>>

\* Abort does not wait for the upload to end.
SendAbort ==
    /\ aborter = "sending"
    /\ \/ /\ Len(out) < ChanCap
          /\ out' = Append(out, [data |-> None, abort |-> TRUE, done |-> FALSE])
          /\ abortFirst' = (client \in {"idle", "writing", "completing"})
       \/ DoneCase /\ UNCHANGED <<out, abortFirst>>
    /\ aborter' = "returned"
    /\ UNCHANGED <<client, rest, written, curr, mem, pool, worker, service>>

\* Another upload takes a buffer from the pool, fills it and puts it back.
OtherUpload ==
    /\ \E b \in pool : mem' = [mem EXCEPT ![b] = <<0>>]
    /\ UNCHANGED <<app, pool, out, worker, service>>

-----------------------------------------------------------------------------
(* The goroutine of doUpload. *)

Return(r) == upl' = "done" /\ result' = r

\* multiPartUpload returns an error: the deferred function starts the abort.
ReturnError == Return("failed") /\ cleanup' = "pending"

\* uploadPart: the buffers become parts in the order they arrive in.
StartPart(b) == part' = IF b = None THEN part ELSE Append(part, [buf |-> b, state |-> "running"])

\* Mutant: an abort is taken for an event without data.
AbortIgnored(ev) == FALSE

Aborts(ev) == ev.abort

\* The first event decides how to upload.
FirstEvent ==
    /\ upl = "first" /\ out # <<>>
    /\ out' = Tail(out)
    /\ LET ev == Head(out) IN
       \/ /\ Aborts(ev)
          /\ Return("failed")
          /\ UNCHANGED body
       \/ /\ ~Aborts(ev)
          /\ upl' = IF ev.done THEN "put" ELSE "create"
          /\ body' = ev.data
          /\ UNCHANGED result
    /\ UNCHANGED <<app, mem, pool, part, cleanup, service>>

ReturnPut(ok) == Return(IF ok THEN "ok" ELSE "failed")

\* singlePartUpload.  A failed request may have been carried out all the same.
PutObject ==
    /\ upl = "put"
    /\ \E committed, ok \in BOOLEAN :
          /\ ok => committed
          /\ object' = IF committed THEN (IF body = None THEN <<>> ELSE mem[body]) ELSE object
          /\ ReturnPut(ok)
    /\ UNCHANGED <<app, mem, pool, out, body, part, cleanup, mpu, stored>>

\* One that is created without an answer is unknown to the uploader: nobody can abort it.
CreateMultipartUpload ==
    /\ upl = "create"
    /\ \/ /\ mpu' = "open" /\ upl' = "loop"
          /\ StartPart(body)
          /\ UNCHANGED result
       \/ /\ Return("failed")
          /\ mpu' \in {"none", "orphan"}
          /\ UNCHANGED part
    /\ UNCHANGED <<app, mem, pool, out, body, cleanup, stored, object>>

\* The loop of multiPartUpload: nothing but an event wakes it up, not a part that has failed.
\* An abort returns without waiting for the parts that are running.
NextEvent ==
    /\ upl = "loop" /\ out # <<>>
    /\ out' = Tail(out)
    /\ LET ev == Head(out) IN
       \/ /\ Aborts(ev)
          /\ ReturnError
          /\ UNCHANGED part
       \/ /\ ~Aborts(ev)
          /\ StartPart(ev.data)
          /\ upl' = IF ev.done THEN "wait" ELSE "loop"
          /\ UNCHANGED <<result, cleanup>>
    /\ UNCHANGED <<app, mem, pool, body, service>>

\* The request of part i ends, and its buffer goes back to the pool (defer putBuf).
EndPart(i, s) == /\ part' = [part EXCEPT ![i].state = s]
                 /\ pool' = pool \union {part[i].buf}

\* UploadPart: the service reads the buffer while the request runs.  (The code passes no Key, and no list
\* of parts to CompleteMultipartUpload.  Here, as with the mock of its tests, both may succeed; a service
\* that refuses them is one whose requests fail.)
UploadPart(i) ==
    /\ part[i].state = "running"
    /\ \E arrived, ok \in BOOLEAN :
          /\ ok => arrived
          /\ arrived => mpu = "open"
          /\ stored' = IF arrived
                       THEN [k \in DOMAIN stored \union {i} |-> IF k = i THEN mem[part[i].buf] ELSE stored[k]]
                       ELSE stored
          /\ EndPart(i, IF ok THEN "ok" ELSE "failed")
    /\ UNCHANGED <<app, mem, out, upl, body, result, cleanup, mpu, object>>

\* Mutant: the last part is not waited for.
AllButLast == {i \in DOMAIN part : i < Len(part)}

\* The parts that g.Wait waits for.
Waited == DOMAIN part

\* g.Wait returns, with an error if a part has failed.
GroupWait ==
    /\ upl = "wait" /\ \A i \in Waited : part[i].state # "running"
    /\ \/ /\ \A i \in Waited : part[i].state = "ok"
          /\ upl' = "complete" /\ UNCHANGED <<result, cleanup>>
       \/ /\ \E i \in Waited : part[i].state = "failed"
          /\ ReturnError
    /\ UNCHANGED <<app, mem, pool, out, body, part, service>>

\* The service puts the parts together, by number.
Assemble == FlattenSeq([i \in 1 .. Cardinality(DOMAIN stored) |->
                            stored[CHOOSE k \in DOMAIN stored :
                                Cardinality({j \in DOMAIN stored : j <= k}) = i]])

\* The result of CompleteMultipartUpload is the named one.
ReturnCompleted(ok) == IF ok THEN Return("ok") /\ UNCHANGED cleanup ELSE ReturnError

CompleteMultipartUpload ==
    /\ upl = "complete"
    /\ \E committed, ok \in BOOLEAN :
          /\ ok => committed
          /\ IF committed THEN object' = Assemble /\ mpu' = "completed" ELSE UNCHANGED <<object, mpu>>
          /\ ReturnCompleted(ok)
    /\ UNCHANGED <<app, mem, pool, out, body, part, stored>>

\* AbortMultipartUpload, in a goroutine of its own; the service may refuse or not answer in time.
AbortMultipartUpload ==
    /\ cleanup = "pending"
    /\ cleanup' = "sent"
    /\ \/ mpu = "open" /\ mpu' = "aborted" /\ stored' = <<>>
       \/ UNCHANGED <<mpu, stored>>
    /\ UNCHANGED <<app, mem, pool, out, upl, body, part, result, object>>

-----------------------------------------------------------------------------
ClientStep == SendBuffer \/ WriteFails \/ SendDone \/ CompleteReturns
AbortStep == SendAbort
UploadStep == FirstEvent \/ PutObject \/ CreateMultipartUpload \/ NextEvent \/ GroupWait
                \/ CompleteMultipartUpload

Next ==
    \/ \E n \in 1 .. MaxWritten : Write(n)
    \/ ClientStep \/ BeginComplete \/ BeginAbort \/ AbortStep \/ OtherUpload
    \/ UploadStep \/ (\E i \in DOMAIN part : UploadPart(i)) \/ AbortMultipartUpload

Spec == Init /\ [][Next]_vars

\* Goroutines run and requests end, well or not; the application need not call anything.
FairSpec ==
    /\ Spec
    /\ WF_vars(ClientStep) /\ WF_vars(AbortStep) /\ WF_vars(UploadStep)
    /\ \A i \in 1 .. MaxWritten : WF_vars(i \in DOMAIN part /\ UploadPart(i))
    /\ WF_vars(AbortMultipartUpload)

-----------------------------------------------------------------------------
(* Properties. *)

\* There is an object only if all was written and Complete was called, and it is what was written:
\* never a part of it, never out of order, never bytes of another upload, whichever requests fail,
\* are carried out without an answer, or are overtaken by another.
ObjectIsWhatWasWritten ==
    object # None => client \in {"waiting", "returned"} /\ object = Bytes(1, written)

\* Complete succeeds only if the object is there.
SuccessMeansStored == client = "returned" /\ result = "ok" => object # None

\* An Abort that is sent before Complete is never overtaken by it.
AbortWins == abortFirst => object = None /\ result # "ok"

\* A buffer has one owner: the pool, the writer, the channel, or the goroutine that uploads it.
OneOwner ==
    \A b \in Buffer :
        Cardinality({i \in DOMAIN out : out[i].data = b})
        + Cardinality({i \in DOMAIN part : part[i].buf = b /\ part[i].state = "running"})
        + (IF b = curr THEN 1 ELSE 0) + (IF b \in pool THEN 1 ELSE 0)
        + (IF b = body /\ upl \in {"put", "create"} THEN 1 ELSE 0) <= 1

\* No call blocks for good, on a full channel or on an upload that is over.
CallsReturn ==
    /\ client = "writing" ~> client # "writing"
    /\ client \in {"completing", "waiting"} ~> client = "returned"
    /\ aborter = "sending" ~> aborter = "returned"

\* A multipart upload that the uploader gave up is aborted.
GivenUpIsAborted == result = "failed" /\ mpu = "open" ~> cleanup = "sent"

\* Buffers are used by one goroutine at a time, and a success is one.
UploadInv == TypeOK /\ OneOwner /\ SuccessMeansStored

\* Calls return, and a multipart upload that fails is cleaned up.
UploadsEnd == CallsReturn /\ GivenUpIsAborted
=============================================================================
