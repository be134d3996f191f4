---------------------------- MODULE UploadProofs ----------------------------
(***************************************************************************)
(* Proofs about module Upload, for any number of buffers, buffer size and  *)
(* channel capacity: a buffer has one owner, an object is what was written *)
(* and no abort is overtaken.                                              *)
(***************************************************************************)
EXTENDS Upload, FiniteSetTheorems, SequenceTheorems, WellFoundedInduction, TLAPS

-----------------------------------------------------------------------------
(* The inductive invariant. *)

Types ==
    /\ mem \in [Buffer -> Seq(Nat)]
    /\ out \in Seq(UploadEvent)
    /\ part \in Seq([buf: Buffer, state: {"running", "ok", "failed"}])
    /\ DOMAIN stored \subseteq DOMAIN part
    /\ written + rest <= MaxWritten

\* Who has called what: the goroutine is started by the first call, a writer that waits has a full
\* buffer, and one that has called Complete has none.
Calls ==
    /\ upl = "off" => out = <<>> /\ client = "idle" /\ aborter = "idle"
    /\ client = "writing" => curr # None
    /\ client \in {"waiting", "returned"} => curr = None

\* What the channel holds: full buffers, then the end, and an abort anywhere.
Events ==
    /\ \A i \in DOMAIN out : ~out[i].abort /\ ~out[i].done => out[i].data # None
    /\ \A i \in DOMAIN out : out[i].abort => out[i].data = None /\ ~out[i].done /\ aborter = "returned"
    /\ \A i, j \in DOMAIN out : out[i].abort /\ out[j].abort => i = j
    /\ \A i, j \in DOMAIN out : out[i].done /\ i < j => out[j].abort
    /\ \A i \in DOMAIN out : out[i].done => /\ client \in {"waiting", "returned"}
                                            /\ upl \notin {"put", "wait", "complete"}

\* How far the goroutine has come: parts are for a multipart upload, its cleanup for a failed one.
Stages ==
    /\ upl \in {"off", "first", "put", "create"} => part = <<>>
    /\ upl \in {"put", "wait", "complete"} => client \in {"waiting", "returned"}
    /\ upl = "create" => body # None
    /\ upl = "complete" => \A i \in DOMAIN part : part[i].state = "ok"
    /\ cleanup # "none" => upl = "done"
    /\ result # "none" => upl = "done"
    /\ object # None => upl = "done"

\* The goroutine holds the buffer of the first event.
Held == upl \in {"put", "create"} /\ body # None

\* OneOwner, for each pair of owners.
Separate ==
    /\ \A i, j \in DOMAIN out : out[i].data # None /\ out[i].data = out[j].data => i = j
    /\ \A i, j \in DOMAIN part :
          part[i].state = "running" /\ part[j].state = "running" /\ part[i].buf = part[j].buf => i = j
    /\ \A i \in DOMAIN out : out[i].data # None =>
          /\ out[i].data # curr /\ out[i].data \notin pool /\ (Held => out[i].data # body)
          /\ \A j \in DOMAIN part : part[j].state = "running" => part[j].buf # out[i].data
    /\ \A j \in DOMAIN part : part[j].state = "running" => part[j].buf # curr /\ part[j].buf \notin pool
    /\ curr # None => curr \notin pool /\ (Held => curr # body)
    /\ Held => body \notin pool

\* The k-th buffer holds the k-th piece of what was written, and all but the last are full.
Offset(k) == k * BufSize
PieceOf(k, w) == Bytes(Offset(k - 1) + 1, IF Offset(k) <= w THEN Offset(k) ELSE w)
Piece(k) == PieceOf(k, written)

\* How many buffers the goroutine has received, and the place of the one in event i among all: an
\* abort has none.
Taken == Len(part) + (IF Held THEN 1 ELSE 0)
Skipped(i) == IF \E j \in 1 .. i - 1 : out[j].abort THEN 1 ELSE 0
Place(i) == Taken + i - Skipped(i)
CurrPlace == Place(Len(out) + 1)

Writing == client \in {"idle", "writing", "completing"}

\* Until the upload is over, every byte is in its piece.
CurrFlow ==
    Writing =>
        /\ curr = None => written = 0 /\ CurrPlace = 1
        /\ curr # None => /\ mem[curr] = Piece(CurrPlace)
                          /\ Offset(CurrPlace - 1) <= written /\ written <= Offset(CurrPlace)
                          /\ client = "writing" => written = Offset(CurrPlace)

OutFlow ==
    \A i \in DOMAIN out :
        /\ out[i].data # None => mem[out[i].data] = Piece(Place(i)) /\ Offset(Place(i) - 1) <= written
        /\ ~out[i].abort /\ ~out[i].done => Offset(Place(i)) <= written
        /\ out[i].done => IF out[i].data = None THEN written = 0 /\ Place(i) = 1
                                                ELSE written <= Offset(Place(i))

BodyFlow ==
    /\ Held => mem[body] = Piece(1)
    /\ upl = "create" => Offset(1) <= written
    /\ upl = "put" => IF body = None THEN written = 0 ELSE written <= Offset(1)

PartFlow ==
    /\ \A i \in DOMAIN part :
          /\ part[i].state = "running" => mem[part[i].buf] = Piece(i)
          /\ part[i].state = "ok" => i \in DOMAIN stored /\ stored[i] = Piece(i)
    /\ upl = "loop" => Len(part) >= 1 /\ Offset(Len(part)) <= written
    /\ upl \in {"wait", "complete"} =>
          /\ Len(part) >= 1
          /\ Offset(Len(part) - 1) <= written /\ written <= Offset(Len(part))

Flow == upl # "done" => CurrFlow /\ OutFlow /\ BodyFlow /\ PartFlow

\* No success without an object.
OkMeansStored == result = "ok" => object # None

\* Until an Abort that was sent before Complete arrives, nothing that ends the upload does.
AbortInv ==
    abortFirst =>
        /\ object = None /\ result # "ok"
        /\ upl # "done" => /\ upl \in {"first", "create", "loop"}
                           /\ \E i \in DOMAIN out : out[i].abort /\ \A j \in DOMAIN out : out[j].done => i < j

Inv ==
    /\ TypeOK /\ Types /\ Calls /\ Events /\ Stages /\ Separate /\ Flow
    /\ ObjectIsWhatWasWritten /\ OkMeansStored /\ AbortInv

-----------------------------------------------------------------------------
(* Facts about numbers, bytes and sequences. *)

(* The constants. *)
LEMMA Constants ==
  /\ IsFiniteSet(Buffer) /\ None \notin Buffer
  /\ BufSize \in Nat \ {0} /\ ChanCap \in Nat \ {0} /\ MaxWritten \in Nat
  /\ None \notin Seq(Nat)
  BY UploadAssumption DEF UploadAssumption

(* Where the pieces begin and end. *)
LEMMA Offsets ==
  /\ Offset(0) = 0 /\ Offset(1) = BufSize
  /\ \A k \in Int : Offset(k) \in Int /\ Offset(k + 1) = Offset(k) + BufSize
                    /\ Offset(k - 1) = Offset(k) - BufSize
  /\ \A k \in Nat : Offset(k) \in Nat
  <1>1. BufSize \in Nat
    BY Constants
  <1>2. Offset(0) = 0 /\ Offset(1) = BufSize
    BY <1>1 DEF Offset
  <1>3. ASSUME NEW k \in Int
        PROVE  Offset(k) \in Int /\ Offset(k + 1) = Offset(k) + BufSize /\ Offset(k - 1) = Offset(k) - BufSize
    BY <1>1, <1>3 DEF Offset
  <1>4. ASSUME NEW k \in Nat PROVE Offset(k) \in Nat
    BY <1>1, <1>4 DEF Offset
  <1> QED BY <1>2, <1>3, <1>4

(* A later piece does not end before an earlier one. *)
LEMMA OffsetsGrow ==
  ASSUME NEW j \in Nat, NEW k \in Nat, j <= k
  PROVE  Offset(j) <= Offset(k)
  <1>1. BufSize \in Nat
    BY Constants
  <1>2. PICK d \in Nat : k = j + d
    <2>1. k - j \in Nat /\ k = j + (k - j)
      OBVIOUS
    <2> QED BY <2>1
  <1>3. k * BufSize = j * BufSize + d * BufSize /\ d * BufSize \in Nat /\ j * BufSize \in Nat
    BY <1>1, <1>2
  <1> QED BY <1>3 DEF Offset

(* The bytes from i to j. *)
LEMMA BytesType ==
  ASSUME NEW i \in Nat, NEW j \in Nat, i <= j + 1
  PROVE  /\ Bytes(i, j) \in Seq(Nat)
         /\ Len(Bytes(i, j)) = j - i + 1
         /\ \A k \in 1 .. (j - i + 1) : Bytes(i, j)[k] = i + k - 1
  <1>1. j - i + 1 \in Nat
    OBVIOUS
  <1>2. \A k \in 1 .. (j - i + 1) : i + k - 1 \in Nat
    OBVIOUS
  <1> QED BY <1>1, <1>2 DEF Bytes

(* The bytes after w. *)
LEMMA BytesAfter ==
  ASSUME NEW w \in Nat, NEW v \in Nat, w <= v
  PROVE  Bytes(w + 1, v) \in Seq(Nat) /\ Len(Bytes(w + 1, v)) = v - w
  <1>1. w + 1 \in Nat /\ w + 1 <= v + 1 /\ v - (w + 1) + 1 = v - w
    OBVIOUS
  <1> QED BY <1>1, BytesType

(* Bytes that follow each other. *)
LEMMA BytesConcat ==
  ASSUME NEW i \in Nat, NEW j \in Nat, NEW k \in Nat, i <= j + 1, j <= k
  PROVE  Bytes(i, j) \o Bytes(j + 1, k) = Bytes(i, k)
  <1> DEFINE a == Bytes(i, j)  b == Bytes(j + 1, k)  c == Bytes(i, k)
  <1>1. a \in Seq(Nat) /\ Len(a) = j - i + 1 /\ \A m \in 1 .. (j - i + 1) : a[m] = i + m - 1
    BY BytesType
  <1>2. b \in Seq(Nat) /\ Len(b) = k - j /\ \A m \in 1 .. (k - j) : b[m] = j + m
    <2>0. j + 1 \in Nat /\ j + 1 <= k + 1
      OBVIOUS
    <2>1. /\ Bytes(j + 1, k) \in Seq(Nat)
          /\ Len(Bytes(j + 1, k)) = k - (j + 1) + 1
          /\ \A m \in 1 .. (k - (j + 1) + 1) : Bytes(j + 1, k)[m] = (j + 1) + m - 1
      BY <2>0, BytesType
    <2> QED BY <2>1
  <1>3. c \in Seq(Nat) /\ Len(c) = k - i + 1 /\ \A m \in 1 .. (k - i + 1) : c[m] = i + m - 1
    <2>1. i <= k + 1
      OBVIOUS
    <2> QED BY <2>1, BytesType
  <1> HIDE DEF a, b, c
  <1>4. a \o b \in Seq(Nat) /\ Len(a \o b) = k - i + 1
    <2>1. Len(a) + Len(b) = k - i + 1
      BY <1>1, <1>2
    <2>2. a \o b \in Seq(Nat) /\ Len(a \o b) = Len(a) + Len(b)
      BY <1>1, <1>2, ConcatProperties
    <2> QED BY <2>1, <2>2
  <1>5. \A m \in 1 .. (k - i + 1) : (a \o b)[m] = c[m]
    <2> TAKE m \in 1 .. (k - i + 1)
    <2>1. CASE m <= j - i + 1
      <3>1. m \in 1 .. Len(a) + Len(b) /\ m <= Len(a) /\ m \in 1 .. (j - i + 1)
        BY <1>1, <1>2, <2>1
      <3>2. (a \o b)[m] = a[m]
        BY <1>1, <1>2, <3>1, ConcatProperties
      <3> QED BY <1>1, <1>3, <3>1, <3>2
    <2>2. CASE ~(m <= j - i + 1)
      <3>1. (a \o b)[m] = b[m - (j - i + 1)] /\ m - (j - i + 1) \in 1 .. (k - j)
        <4>1. m \in 1 .. Len(a) + Len(b) /\ ~(m <= Len(a))
          BY <1>1, <1>2, <2>2
        <4>2. (a \o b)[m] = b[m - Len(a)]
          BY <1>1, <1>2, <4>1, ConcatProperties
        <4> QED BY <1>1, <2>2, <4>2
      <3>2. b[m - (j - i + 1)] = j + (m - (j - i + 1))
        BY <1>2, <3>1
      <3>3. c[m] = i + m - 1
        BY <1>3
      <3>4. j + (m - (j - i + 1)) = i + m - 1
        OBVIOUS
      <3> QED BY <3>1, <3>2, <3>3, <3>4
    <2> QED BY <2>1, <2>2
  <1>6. a \o b = c
    BY <1>3, <1>4, <1>5, SeqEqual
  <1> QED BY <1>6 DEF a, b, c

(* Sending over the channel. *)
LEMMA Sends ==
  ASSUME NEW e \in UploadEvent, out \in Seq(UploadEvent), out' = Append(out, e)
  PROVE  /\ out' \in Seq(UploadEvent) /\ Len(out) \in Nat /\ Len(out') = Len(out) + 1
         /\ DOMAIN out = 1 .. Len(out) /\ DOMAIN out' = 1 .. Len(out) + 1
         /\ \A i \in 1 .. Len(out) : out'[i] = out[i]
         /\ out'[Len(out) + 1] = e
  OBVIOUS

(* Receiving from it. *)
LEMMA Receives ==
  ASSUME out \in Seq(UploadEvent), out # <<>>, out' = Tail(out)
  PROVE  /\ out' \in Seq(UploadEvent) /\ Len(out) \in Nat \ {0} /\ Len(out') = Len(out) - 1
         /\ DOMAIN out = 1 .. Len(out) /\ DOMAIN out' = 1 .. Len(out) - 1
         /\ \A i \in 1 .. Len(out) - 1 : out'[i] = out[i + 1]
         /\ Head(out) = out[1] /\ 1 \in DOMAIN out /\ out[1] \in UploadEvent
  OBVIOUS

-----------------------------------------------------------------------------
(* What Write does to a buffer. *)

Old(b) == IF b = curr THEN mem[b] ELSE <<>>

\* The next bytes are copied behind those in the buffer b, which is then u.curr; it is full if there
\* are more.
Copies(b) ==
    /\ mem' \in [Buffer -> Seq(Nat)] /\ \A c \in Buffer \ {b} : mem'[c] = mem[c]
    /\ mem'[b] = Old(b) \o Bytes(written + 1, written')
    /\ Len(mem'[b]) = Len(Old(b)) + (written' - written) /\ Len(mem'[b]) <= BufSize
    /\ written' \in 0 .. MaxWritten /\ written <= written' /\ rest' \in Nat
    /\ written' + rest' <= MaxWritten
    /\ curr' = b /\ pool' = pool \ {b}
    /\ client' \in {"idle", "writing"}
    /\ client' = "writing" => Len(mem'[b]) = BufSize

(* Write copies as many of the next n bytes as fit. *)
LEMMA Copying ==
  ASSUME TypeOK, Types, NEW b \in Buffer, NEW n \in Nat, written + n <= MaxWritten, CopyInto(b, n)
  PROVE  Copies(b)
  <1> DEFINE copied == Copied(Old(b), n)
  <1>1. Old(b) \in Seq(Nat) /\ Len(Old(b)) \in Nat /\ Len(Old(b)) <= BufSize
    BY Constants DEF Old, TypeOK, Types
  <1>2. copied \in Nat /\ copied <= n /\ Len(Old(b)) + copied <= BufSize
        /\ (copied < n => Len(Old(b)) + copied = BufSize)
    BY <1>1, Constants DEF Copied
  <1>3. /\ mem' = [mem EXCEPT ![b] = Old(b) \o Bytes(written + 1, written + copied)]
        /\ pool' = pool \ {b} /\ written' = written + copied /\ curr' = b /\ rest' = n - copied
        /\ client' = IF copied < n THEN "writing" ELSE "idle"
    BY DEF CopyInto, Old
  <1> HIDE DEF copied
  <1>4. written \in Nat /\ written' \in Nat /\ written <= written'
    BY <1>2, <1>3, Constants DEF TypeOK
  <1>5. /\ Bytes(written + 1, written') \in Seq(Nat)
        /\ Len(Bytes(written + 1, written')) = written' - written
    BY <1>4, BytesAfter
  <1>6. /\ Old(b) \o Bytes(written + 1, written') \in Seq(Nat)
        /\ Len(Old(b) \o Bytes(written + 1, written')) = Len(Old(b)) + (written' - written)
    BY <1>1, <1>5, ConcatProperties
  <1>7. mem' = [mem EXCEPT ![b] = Old(b) \o Bytes(written + 1, written')]
    BY <1>3
  <1>8. /\ mem' \in [Buffer -> Seq(Nat)] /\ \A c \in Buffer \ {b} : mem'[c] = mem[c]
        /\ mem'[b] = Old(b) \o Bytes(written + 1, written')
    BY <1>6, <1>7, Zenon DEF Types
  <1>9. written' - written = copied
    BY <1>2, <1>3, <1>4
  <1>10. Len(mem'[b]) = Len(Old(b)) + copied
    BY <1>6, <1>8, <1>9
  <1>11. written' \in 0 .. MaxWritten /\ rest' \in Nat /\ written' + rest' <= MaxWritten
    BY <1>2, <1>3, <1>4, Constants
  <1> QED BY <1>1, <1>2, <1>3, <1>4, <1>8, <1>9, <1>10, <1>11 DEF Copies

(* A call of Write goes on with u.curr, or takes a buffer from the pool. *)
LEMMA WriteCopies ==
  ASSUME TypeOK, Types, NEW n \in 1 .. MaxWritten, Write(n)
  PROVE  \E b \in Buffer : (b = curr \/ (curr = None /\ b \in pool)) /\ Copies(b)
  <1>1. n \in Nat /\ written + n <= MaxWritten
    BY Constants DEF Write
  <1>2. PICK b \in NextBuf : CopyInto(b, n)
    BY DEF Write
  <1>3. b \in Buffer /\ (b = curr \/ (curr = None /\ b \in pool))
    BY <1>2 DEF NextBuf, TypeOK, OptBuffer
  <1>4. Copies(b)
    BY <1>1, <1>2, <1>3, Copying
  <1> QED BY <1>3, <1>4

(* After a send it takes one from the pool. *)
LEMMA SendCopies ==
  ASSUME TypeOK, Types, SendBuffer
  PROVE  \E b \in pool : b \in Buffer /\ Copies(b)
  <1>1. rest \in Nat /\ written + rest <= MaxWritten
    BY DEF TypeOK, Types
  <1>2. PICK b \in pool : CopyInto(b, rest)
    BY DEF SendBuffer, FreshBuf
  <1>3. b \in Buffer
    BY <1>2 DEF TypeOK
  <1> QED BY <1>1, <1>2, <1>3, Copying

-----------------------------------------------------------------------------
(* Every step keeps the types. *)

DataTypes ==
    /\ mem \in [Buffer -> Seq(Nat)] /\ \A b \in Buffer : Len(mem[b]) <= BufSize
    /\ rest \in Nat /\ written \in 0 .. MaxWritten /\ written + rest <= MaxWritten

ChannelTypes == out \in Seq(UploadEvent) /\ Len(out) <= ChanCap

PartTypes ==
    /\ part \in Seq([buf: Buffer, state: {"running", "ok", "failed"}])
    /\ DOMAIN stored \subseteq DOMAIN part

PlaceTypes ==
    /\ client \in {"idle", "writing", "completing", "waiting", "returned"}
    /\ curr \in OptBuffer /\ body \in OptBuffer /\ pool \subseteq Buffer
    /\ aborter \in {"idle", "sending", "returned"}
    /\ upl \in {"off", "first", "put", "create", "loop", "wait", "complete", "done"}
    /\ result \in {"none", "ok", "failed"}
    /\ cleanup \in {"none", "pending", "sent"}
    /\ mpu \in {"none", "open", "completed", "aborted", "orphan"}
    /\ abortFirst \in BOOLEAN

(* The types in four parts. *)
LEMMA TypeParts == TypeOK /\ Types <=> DataTypes /\ ChannelTypes /\ PartTypes /\ PlaceTypes
  <1>1. ASSUME TypeOK, Types PROVE DataTypes /\ ChannelTypes /\ PartTypes /\ PlaceTypes
    BY <1>1 DEF TypeOK, Types, DataTypes, ChannelTypes, PartTypes, PlaceTypes
  <1>2. ASSUME DataTypes, ChannelTypes, PartTypes, PlaceTypes PROVE TypeOK /\ Types
    <2>1. Types
      BY <1>2 DEF Types, DataTypes, ChannelTypes, PartTypes
    <2>2. \A i \in DOMAIN out : out[i] \in UploadEvent
      BY <1>2 DEF ChannelTypes
    <2>3. \A i \in DOMAIN part : part[i] \in [buf: Buffer, state: {"running", "ok", "failed"}]
      <3> DEFINE P == [buf: Buffer, state: {"running", "ok", "failed"}]
      <3>1. part \in Seq(P)
        BY <1>2 DEF PartTypes
      <3> HIDE DEF P
      <3>2. \A i \in DOMAIN part : part[i] \in P
        BY <3>1
      <3> QED BY <3>2 DEF P
    <2> QED BY <1>2, <2>1, <2>2, <2>3 DEF TypeOK, DataTypes, ChannelTypes, PlaceTypes
  <1> QED BY <1>1, <1>2

(* What happens to each part of the upload in a step. *)
LEMMA NextSteps ==
  ASSUME Next
  PROVE  \/ \E n \in 1 .. MaxWritten : Write(n)
         \/ SendBuffer \/ WriteFails \/ BeginComplete \/ SendDone \/ CompleteReturns
         \/ BeginAbort \/ SendAbort \/ OtherUpload
         \/ FirstEvent \/ PutObject \/ CreateMultipartUpload \/ NextEvent
         \/ \E i \in DOMAIN part : UploadPart(i)
         \/ GroupWait \/ CompleteMultipartUpload \/ AbortMultipartUpload
  BY DEF Next, ClientStep, AbortStep, UploadStep

(* The bytes. *)
LEMMA DataTypesKept == ASSUME TypeOK, Types, Next PROVE DataTypes'
  <1>1. ASSUME NEW b \in Buffer, Copies(b) PROVE DataTypes'
    <2>1. \A c \in Buffer : Len(mem'[c]) <= BufSize
      BY <1>1 DEF Copies, TypeOK
    <2> QED BY <1>1, <2>1 DEF DataTypes, Copies
  <1>2. ASSUME UNCHANGED <<mem, written>>, rest' \in {rest, 0} PROVE DataTypes'
    <2>1. DataTypes
      BY TypeParts
    <2>2. rest' \in Nat /\ written + rest' <= MaxWritten
      <3>1. rest \in Nat /\ written \in 0 .. MaxWritten /\ written + rest <= MaxWritten
        BY <2>1 DEF DataTypes
      <3>2. MaxWritten \in Nat
        BY Constants
      <3>3. CASE rest' = rest
        BY <3>1, <3>3
      <3>4. CASE rest' = 0
        BY <3>1, <3>2, <3>4
      <3> QED BY <1>2, <3>3, <3>4
    <2> QED BY <1>2, <2>1, <2>2 DEF DataTypes
  <1>3. ASSUME OtherUpload PROVE DataTypes'
    <2>1. PICK b \in pool : mem' = [mem EXCEPT ![b] = <<0>>]
      BY <1>3 DEF OtherUpload
    <2>2. <<0>> \in Seq(Nat) /\ Len(<<0>>) <= BufSize
      BY Constants
    <2>3. mem' \in [Buffer -> Seq(Nat)] /\ \A c \in Buffer : Len(mem'[c]) <= BufSize
      BY <2>1, <2>2 DEF TypeOK, Types
    <2> QED BY <1>3, <2>3 DEF OtherUpload, app, DataTypes, TypeOK, Types
  <1>4. CASE \E n \in 1 .. MaxWritten : Write(n)
    BY <1>1, <1>4, WriteCopies
  <1>5. CASE SendBuffer
    BY <1>1, <1>5, SendCopies
  <1>6. CASE OtherUpload
    BY <1>3, <1>6
  <1>7. CASE WriteFails \/ BeginComplete \/ SendDone \/ CompleteReturns \/ BeginAbort \/ SendAbort
    BY <1>2, <1>7 DEF WriteFails, BeginComplete, SendDone, CompleteReturns, BeginAbort, SendAbort
  <1>8. CASE \/ FirstEvent \/ PutObject \/ CreateMultipartUpload \/ NextEvent
             \/ (\E i \in DOMAIN part : UploadPart(i))
             \/ GroupWait \/ CompleteMultipartUpload \/ AbortMultipartUpload
    BY <1>2, <1>8 DEF FirstEvent, PutObject, CreateMultipartUpload, NextEvent, UploadPart, GroupWait,
       CompleteMultipartUpload, AbortMultipartUpload, app
  <1> QED BY <1>4, <1>5, <1>6, <1>7, <1>8, NextSteps

(* The channel. *)
LEMMA ChannelTypesKept == ASSUME TypeOK, Types, Next PROVE ChannelTypes'
  <1>1. out \in Seq(UploadEvent) /\ Len(out) \in Nat /\ Len(out) <= ChanCap
    BY DEF TypeOK, Types
  <1>2. ASSUME NEW e \in UploadEvent, Len(out) < ChanCap, out' = Append(out, e) PROVE ChannelTypes'
    BY <1>1, <1>2, Constants, Sends DEF ChannelTypes
  <1>3. ASSUME out # <<>>, out' = Tail(out) PROVE ChannelTypes'
    BY <1>1, <1>3, Constants, Receives DEF ChannelTypes
  <1>4. ASSUME UNCHANGED out PROVE ChannelTypes'
    BY <1>1, <1>4 DEF ChannelTypes
  <1>5. ASSUME NEW a \in BOOLEAN, NEW d \in BOOLEAN, NEW b \in OptBuffer
        PROVE  [data |-> b, abort |-> a, done |-> d] \in UploadEvent
    BY DEF UploadEvent
  <1>6. curr \in OptBuffer /\ None \in OptBuffer
    BY DEF TypeOK, OptBuffer
  <1>7. CASE SendBuffer
    BY <1>2, <1>5, <1>6, <1>7 DEF SendBuffer
  <1>8. CASE SendDone
    BY <1>2, <1>4, <1>5, <1>6, <1>8 DEF SendDone
  <1>9. CASE SendAbort
    BY <1>2, <1>4, <1>5, <1>6, <1>9 DEF SendAbort
  <1>10. CASE FirstEvent \/ NextEvent
    BY <1>3, <1>10 DEF FirstEvent, NextEvent
  <1>11. CASE \/ (\E n \in 1 .. MaxWritten : Write(n)) \/ WriteFails \/ BeginComplete \/ CompleteReturns
              \/ BeginAbort \/ OtherUpload \/ PutObject \/ CreateMultipartUpload
              \/ (\E i \in DOMAIN part : UploadPart(i))
              \/ GroupWait \/ CompleteMultipartUpload \/ AbortMultipartUpload
    BY <1>4, <1>11 DEF Write, WriteFails, BeginComplete, CompleteReturns, BeginAbort, OtherUpload, PutObject,
       CreateMultipartUpload, UploadPart, GroupWait, CompleteMultipartUpload, AbortMultipartUpload
  <1> QED BY <1>7, <1>8, <1>9, <1>10, <1>11, NextSteps

PartRec == [buf: Buffer, state: {"running", "ok", "failed"}]

(* The parts before and after another is started. *)
LEMMA StartsPart ==
  ASSUME part \in Seq(PartRec), NEW b \in OptBuffer, StartPart(b)
  PROVE  /\ part' \in Seq(PartRec) /\ DOMAIN part \subseteq DOMAIN part'
         /\ b = None => part' = part
         /\ b # None => /\ Len(part) \in Nat /\ Len(part') = Len(part) + 1
                        /\ DOMAIN part = 1 .. Len(part) /\ DOMAIN part' = 1 .. Len(part) + 1
                        /\ \A i \in 1 .. Len(part) : part'[i] = part[i]
                        /\ part'[Len(part) + 1] = [buf |-> b, state |-> "running"]
  <1>1. CASE b = None
    BY <1>1 DEF StartPart
  <1>2. CASE b # None
    <2>1. [buf |-> b, state |-> "running"] \in PartRec
      BY <1>2 DEF PartRec, OptBuffer
    <2>2. part' = Append(part, [buf |-> b, state |-> "running"])
      BY <1>2 DEF StartPart
    <2> DEFINE r == [buf |-> b, state |-> "running"]
    <2> HIDE DEF r
    <2>3. r \in PartRec /\ part' = Append(part, r)
      BY <2>1, <2>2 DEF r
    <2>4. /\ part' \in Seq(PartRec) /\ Len(part) \in Nat /\ Len(part') = Len(part) + 1
          /\ DOMAIN part = 1 .. Len(part) /\ DOMAIN part' = 1 .. Len(part) + 1
          /\ \A i \in 1 .. Len(part) : part'[i] = part[i]
          /\ part'[Len(part) + 1] = r
      BY <2>3
    <2> QED BY <1>2, <2>4 DEF r
  <1> QED BY <1>1, <1>2

(* The parts before and after one has ended. *)
LEMMA EndsPart ==
  ASSUME part \in Seq(PartRec), NEW i \in DOMAIN part, NEW s \in {"ok", "failed"}, EndPart(i, s)
  PROVE  /\ part' \in Seq(PartRec) /\ Len(part') = Len(part) /\ DOMAIN part' = DOMAIN part
         /\ part'[i] = [buf |-> part[i].buf, state |-> s]
         /\ \A j \in DOMAIN part : j # i => part'[j] = part[j]
  <1>1. part[i] \in PartRec /\ DOMAIN part = 1 .. Len(part)
    OBVIOUS
  <1>2. [part[i] EXCEPT !.state = s] = [buf |-> part[i].buf, state |-> s]
    BY <1>1 DEF PartRec
  <1>3. [buf |-> part[i].buf, state |-> s] \in PartRec
    BY <1>1 DEF PartRec
  <1> DEFINE r == [buf |-> part[i].buf, state |-> s]
  <1>4. part' = [part EXCEPT ![i] = r]
    BY <1>2 DEF EndPart
  <1> HIDE DEF r
  <1>5. r \in PartRec
    BY <1>3 DEF r
  <1>6. part' \in Seq(PartRec) /\ Len(part') = Len(part) /\ \A j \in 1 .. Len(part) : part'[j] = IF j = i THEN r ELSE part[j]
    BY <1>1, <1>4, <1>5, ExceptSeq
  <1>7. DOMAIN part' = DOMAIN part
    BY <1>4
  <1> QED BY <1>1, <1>6, <1>7 DEF r

(* The parts. *)
LEMMA PartTypesKept == ASSUME TypeOK, Types, Next PROVE PartTypes'
  <1>1. part \in Seq(PartRec) /\ DOMAIN stored \subseteq DOMAIN part
    BY DEF Types, PartRec
  <1>2. ASSUME NEW b \in OptBuffer, StartPart(b), UNCHANGED stored PROVE PartTypes'
    BY <1>1, <1>2, StartsPart DEF PartTypes, PartRec
  <1>3. ASSUME UNCHANGED part, stored' = stored \/ stored' = <<>> PROVE PartTypes'
    BY <1>1, <1>3 DEF PartTypes, PartRec
  <1>4. ASSUME NEW i \in DOMAIN part, UploadPart(i) PROVE PartTypes'
    <2>1. PICK s \in {"ok", "failed"} : EndPart(i, s)
      BY <1>4 DEF UploadPart
    <2>2. part' \in Seq(PartRec) /\ DOMAIN part' = DOMAIN part
      BY <1>1, <2>1, EndsPart
    <2>3. DOMAIN stored' \subseteq DOMAIN stored \union {i}
      BY <1>4 DEF UploadPart
    <2> QED BY <1>1, <2>2, <2>3 DEF PartTypes, PartRec
  <1>5. CASE CreateMultipartUpload
    BY <1>2, <1>3, <1>5 DEF CreateMultipartUpload, TypeOK
  <1>6. CASE NextEvent
    <2>1. Head(out).data \in OptBuffer
      BY <1>6, Receives DEF NextEvent, Types, UploadEvent
    <2> QED BY <1>2, <1>3, <1>6, <2>1 DEF NextEvent, service
  <1>7. CASE AbortMultipartUpload
    BY <1>3, <1>7 DEF AbortMultipartUpload
  <1>8. CASE \/ (\E n \in 1 .. MaxWritten : Write(n)) \/ SendBuffer \/ WriteFails \/ BeginComplete \/ SendDone
             \/ CompleteReturns \/ BeginAbort \/ SendAbort \/ OtherUpload
    BY <1>3, <1>8 DEF Write, SendBuffer, WriteFails, BeginComplete, SendDone, CompleteReturns, BeginAbort,
       SendAbort, OtherUpload, worker, service
  <1>9. CASE FirstEvent \/ PutObject \/ GroupWait \/ CompleteMultipartUpload
    BY <1>3, <1>9 DEF FirstEvent, PutObject, GroupWait, CompleteMultipartUpload, service
  <1> QED BY <1>4, <1>5, <1>6, <1>7, <1>8, <1>9, NextSteps

(* The places. *)
LEMMA PlaceTypesKept == ASSUME TypeOK, Types, Next PROVE PlaceTypes'
  <1>1. PlaceTypes
    BY TypeParts
  <1>2. ASSUME NEW b \in Buffer, Copies(b), InitUpload \/ UNCHANGED upl,
               UNCHANGED <<aborter, abortFirst, body, result, cleanup, mpu>>
        PROVE  PlaceTypes'
    BY <1>1, <1>2 DEF PlaceTypes, Copies, OptBuffer, InitUpload
  <1>3. CASE \E n \in 1 .. MaxWritten : Write(n)
    BY <1>2, <1>3, WriteCopies DEF Write, service
  <1>4. CASE SendBuffer
    BY <1>2, <1>4, SendCopies DEF SendBuffer, worker, service
  <1>5. CASE WriteFails \/ BeginComplete \/ SendDone \/ CompleteReturns
    BY <1>1, <1>5 DEF WriteFails, BeginComplete, SendDone, CompleteReturns, PlaceTypes, InitUpload, OptBuffer,
       worker, service
  <1>6. CASE BeginAbort \/ OtherUpload
    BY <1>1, <1>6 DEF BeginAbort, OtherUpload, PlaceTypes, InitUpload, app, worker, service
  <1>11. CASE SendAbort
    <2>1. abortFirst \in BOOLEAN
      BY <1>1 DEF PlaceTypes
    <2>2. abortFirst' \in BOOLEAN
      <3> DEFINE early == client \in {"idle", "writing", "completing"}
      <3>1. early \in BOOLEAN
        OBVIOUS
      <3>2. abortFirst' = early \/ abortFirst' = abortFirst
        BY <1>11 DEF SendAbort
      <3> HIDE DEF early
      <3> QED BY <2>1, <3>1, <3>2
    <2> QED BY <1>1, <1>11, <2>2 DEF SendAbort, PlaceTypes, worker, service
  <1>7. CASE FirstEvent
    <2>1. Head(out).data \in OptBuffer
      BY <1>7, Receives DEF FirstEvent, Types, UploadEvent
    <2> QED BY <1>1, <1>7, <2>1 DEF FirstEvent, Return, PlaceTypes, app, service
  <1>8. CASE PutObject \/ CreateMultipartUpload \/ NextEvent
    BY <1>1, <1>8 DEF PutObject, ReturnPut, Return, CreateMultipartUpload, NextEvent, ReturnError, PlaceTypes,
       app, service
  <1>9. ASSUME NEW i \in DOMAIN part, UploadPart(i) PROVE PlaceTypes'
    <2>1. part[i].buf \in Buffer
      BY DEF TypeOK
    <2> QED BY <1>1, <1>9, <2>1 DEF UploadPart, EndPart, PlaceTypes, app
  <1>10. CASE GroupWait \/ CompleteMultipartUpload \/ AbortMultipartUpload
    BY <1>1, <1>10 DEF GroupWait, ReturnError, Return, CompleteMultipartUpload, ReturnCompleted,
       AbortMultipartUpload, PlaceTypes, app, service
  <1> QED BY <1>3, <1>4, <1>5, <1>6, <1>7, <1>8, <1>9, <1>10, <1>11, NextSteps

(* All of them. *)
LEMMA TypesKept == ASSUME TypeOK, Types, Next PROVE TypeOK' /\ Types'
  <1>1. DataTypes' /\ ChannelTypes' /\ PartTypes' /\ PlaceTypes'
    BY DataTypesKept, ChannelTypesKept, PartTypesKept, PlaceTypesKept
  <1>2. (TypeOK /\ Types)' <=> (DataTypes /\ ChannelTypes /\ PartTypes /\ PlaceTypes)'
    BY TypeParts, PTL
  <1> QED BY <1>1, <1>2

-----------------------------------------------------------------------------
(* Every step keeps to the protocol. *)

Shape == TypeOK /\ Types /\ Calls /\ Events /\ Stages /\ Separate

(* Who has called what. *)
LEMMA CallsKept == ASSUME Shape, Next PROVE Calls'
  <1> USE DEF Shape
  <1>1. CASE \E n \in 1 .. MaxWritten : Write(n)
    BY <1>1, WriteCopies, Constants DEF Write, InitUpload, Copies, Calls
  <1>2. CASE SendBuffer
    BY <1>2, SendCopies, Constants DEF SendBuffer, Copies, Calls, worker
  <1>3. CASE WriteFails \/ BeginComplete \/ SendDone \/ CompleteReturns
    BY <1>3 DEF WriteFails, BeginComplete, SendDone, CompleteReturns, Calls, InitUpload, worker
  <1>4. CASE BeginAbort \/ SendAbort \/ OtherUpload
    BY <1>4 DEF BeginAbort, SendAbort, OtherUpload, Calls, InitUpload, app, worker
  <1>5. CASE FirstEvent \/ PutObject \/ CreateMultipartUpload \/ NextEvent
    BY <1>5 DEF FirstEvent, PutObject, ReturnPut, CreateMultipartUpload, NextEvent, ReturnError, Return, Calls, app
  <1>6. CASE \/ (\E i \in DOMAIN part : UploadPart(i)) \/ GroupWait \/ CompleteMultipartUpload
             \/ AbortMultipartUpload
    BY <1>6 DEF UploadPart, GroupWait, CompleteMultipartUpload, ReturnCompleted, ReturnError, Return,
       AbortMultipartUpload, Calls, app
  <1> QED BY <1>1, <1>2, <1>3, <1>4, <1>5, <1>6, NextSteps

(* What is in the channel. *)
LEMMA EventsKept == ASSUME Shape, Next PROVE Events'
  <1> USE DEF Shape
  <1>a. out \in Seq(UploadEvent) /\ DOMAIN out = 1 .. Len(out)
    BY DEF Types
  <1>b. curr \in OptBuffer /\ None \in OptBuffer
    BY DEF TypeOK, OptBuffer
  <1>1. ASSUME UNCHANGED <<out, aborter>>, client' = client \/ (\A i \in DOMAIN out : ~out[i].done),
               upl' = upl \/ upl' \in {"first", "loop", "done"}
                  \/ (upl \in {"put", "wait", "complete"} /\ client' = client)
        PROVE  Events'
    BY <1>1 DEF Events
  <1>2. ASSUME client \in {"idle", "writing", "completing"}
        PROVE  \A i \in DOMAIN out : ~out[i].done
    BY <1>2 DEF Events
  <1>3. CASE \E n \in 1 .. MaxWritten : Write(n)
    BY <1>1, <1>2, <1>3 DEF Write, InitUpload
  <1>4. CASE SendBuffer
    <2> DEFINE e == [data |-> curr, abort |-> FALSE, done |-> FALSE]
    <2>1. e \in UploadEvent /\ e.data # None /\ ~e.abort /\ ~e.done
      BY <1>4, <1>b DEF SendBuffer, Calls, UploadEvent
    <2>2. out' = Append(out, e)
      BY <1>4 DEF SendBuffer
    <2>3. UNCHANGED <<aborter, upl>>
      BY <1>4 DEF SendBuffer, worker
    <2>4. \A i \in DOMAIN out : ~out[i].done
      BY <1>2, <1>4 DEF SendBuffer
    <2> HIDE DEF e
    <2> QED BY <1>a, <2>1, <2>2, <2>3, <2>4, Sends DEF Events
  <1>5. CASE SendDone /\ out' # out
    <2> DEFINE e == [data |-> curr, abort |-> FALSE, done |-> TRUE]
    <2>1. e \in UploadEvent /\ ~e.abort /\ e.done
      BY <1>b DEF UploadEvent
    <2>2. out' = Append(out, e)
      BY <1>5 DEF SendDone
    <2>3. UNCHANGED <<aborter, upl>> /\ client' = "waiting" /\ upl \notin {"put", "wait", "complete"}
      BY <1>5 DEF SendDone, worker, Stages
    <2>4. \A i \in DOMAIN out : ~out[i].done
      BY <1>2, <1>5 DEF SendDone
    <2> HIDE DEF e
    <2> QED BY <1>a, <2>1, <2>2, <2>3, <2>4, Sends DEF Events
  <1>6. CASE SendAbort /\ out' # out
    <2> DEFINE e == [data |-> None, abort |-> TRUE, done |-> FALSE]
    <2>1. e \in UploadEvent /\ e.abort /\ ~e.done /\ e.data = None
      BY <1>b DEF UploadEvent
    <2>2. out' = Append(out, e)
      BY <1>6 DEF SendAbort
    <2>3. UNCHANGED <<client, upl>> /\ aborter' = "returned"
      BY <1>6 DEF SendAbort, worker
    <2>4. \A i \in DOMAIN out : ~out[i].abort
      BY <1>6 DEF SendAbort, Events
    <2> HIDE DEF e
    <2> QED BY <1>a, <2>1, <2>2, <2>3, <2>4, Sends DEF Events
  <1>7. CASE FirstEvent \/ NextEvent
    <2>1. out # <<>> /\ out' = Tail(out) /\ UNCHANGED <<client, aborter>>
      BY <1>7 DEF FirstEvent, NextEvent, app
    <2>2. upl' \in {"create", "loop", "done"} \/ out[1].done
      BY <1>7, <2>1, Receives, <1>a DEF FirstEvent, NextEvent, ReturnError, Return
    <2>3. \A i \in DOMAIN out' : i + 1 \in DOMAIN out /\ out'[i] = out[i + 1]
      BY <1>a, <2>1, Receives
    <2>4. out[1].done => \A i \in DOMAIN out' : ~out'[i].done
      <3> SUFFICES ASSUME out[1].done, NEW i \in DOMAIN out' PROVE ~out'[i].done
        OBVIOUS
      <3>1. 1 \in DOMAIN out /\ i + 1 \in DOMAIN out /\ 1 < i + 1
        BY <1>a, <2>1, Receives
      <3> QED BY <2>3, <3>1 DEF Events
    <2>5. \A i, j \in DOMAIN out' : i \in Int /\ j \in Int
      BY <1>a, <2>1, Receives
    <2> QED BY <2>1, <2>2, <2>3, <2>4, <2>5 DEF Events
  <1>8. CASE WriteFails \/ BeginComplete \/ CompleteReturns \/ BeginAbort \/ OtherUpload
    <2>1. CASE WriteFails \/ BeginComplete
      BY <1>1, <1>2, <2>1 DEF WriteFails, BeginComplete, InitUpload, worker
    <2>2. CASE CompleteReturns \/ BeginAbort \/ OtherUpload
      BY <2>2 DEF CompleteReturns, BeginAbort, OtherUpload, InitUpload, worker, app, Events
    <2> QED BY <1>8, <2>1, <2>2
  <1>9. CASE (SendDone \/ SendAbort) /\ UNCHANGED out
    BY <1>9 DEF SendDone, SendAbort, worker, Events
  <1>10. CASE PutObject \/ CreateMultipartUpload \/ GroupWait
    BY <1>1, <1>10 DEF PutObject, ReturnPut, CreateMultipartUpload, GroupWait, ReturnError, Return, app
  <1>11. CASE (\E i \in DOMAIN part : UploadPart(i)) \/ CompleteMultipartUpload \/ AbortMultipartUpload
    BY <1>1, <1>11 DEF UploadPart, CompleteMultipartUpload, ReturnCompleted, ReturnError, Return,
       AbortMultipartUpload, app
  <1> QED BY <1>3, <1>4, <1>5, <1>6, <1>7, <1>8, <1>9, <1>10, <1>11, NextSteps

(* How far the goroutine has come. *)
LEMMA StagesKept == ASSUME Shape, Next PROVE Stages'
  <1> USE DEF Shape
  <1>a. \A i : i \in DOMAIN part => part # <<>>
    OBVIOUS
  <1>1. ASSUME client \in {"idle", "writing", "completing"}, UNCHANGED <<body, part, cleanup, result, object>>,
               InitUpload \/ UNCHANGED upl
        PROVE  Stages'
    BY <1>1 DEF Stages, InitUpload
  <1>2. ASSUME InitUpload \/ UNCHANGED upl, UNCHANGED <<client, body, part, cleanup, result, object>>
        PROVE  Stages'
    BY <1>2 DEF Stages, InitUpload
  <1>3. CASE (\E n \in 1 .. MaxWritten : Write(n)) \/ SendBuffer \/ WriteFails \/ BeginComplete \/ SendDone
    BY <1>1, <1>3 DEF Write, SendBuffer, WriteFails, BeginComplete, SendDone, worker, service
  <1>4. CASE CompleteReturns
    BY <1>4 DEF CompleteReturns, Closed, Stages, worker, service
  <1>5. CASE BeginAbort \/ SendAbort \/ OtherUpload
    BY <1>2, <1>5 DEF BeginAbort, SendAbort, OtherUpload, app, worker, service
  <1>6. CASE FirstEvent
    <2>1. Head(out) = out[1] /\ 1 \in DOMAIN out
      BY <1>6, Receives DEF FirstEvent, Types
    <2>2. out[1].done => client \in {"waiting", "returned"}
      BY <2>1 DEF Events
    <2>3. ~out[1].abort /\ ~out[1].done => out[1].data # None
      BY <2>1 DEF Events
    <2> QED BY <1>6, <2>1, <2>2, <2>3 DEF FirstEvent, Aborts, Return, Stages, app, service
  <1>7. CASE PutObject
    BY <1>7 DEF PutObject, ReturnPut, Return, Stages, app
  <1>8. CASE CreateMultipartUpload
    BY <1>8 DEF CreateMultipartUpload, Return, Stages, app
  <1>9. CASE NextEvent
    <2>1. Head(out) = out[1] /\ 1 \in DOMAIN out
      BY <1>9, Receives DEF NextEvent, Types
    <2>2. out[1].done => client \in {"waiting", "returned"}
      BY <2>1 DEF Events
    <2> QED BY <1>9, <2>1, <2>2 DEF NextEvent, ReturnError, Return, Stages, app, service
  <1>10. ASSUME NEW i \in DOMAIN part, UploadPart(i) PROVE Stages'
    BY <1>10, <1>a DEF UploadPart, Stages, app
  <1>11. CASE GroupWait
    BY <1>11 DEF GroupWait, Waited, ReturnError, Return, Stages, app, service
  <1>12. CASE CompleteMultipartUpload
    BY <1>12 DEF CompleteMultipartUpload, ReturnCompleted, ReturnError, Return, Stages, app
  <1>13. CASE AbortMultipartUpload
    BY <1>13 DEF AbortMultipartUpload, Stages, app
  <1> QED BY <1>3, <1>4, <1>5, <1>6, <1>7, <1>8, <1>9, <1>10, <1>11, <1>12, <1>13, NextSteps

(* Buffers keep one owner. *)
LEMMA SeparateKept == ASSUME Shape, Next PROVE Separate'
  <1> USE DEF Shape
  <1>a. out \in Seq(UploadEvent) /\ DOMAIN out = 1 .. Len(out) /\ Len(out) \in Nat
    BY DEF Types
  <1>b. part \in Seq(PartRec) /\ DOMAIN part = 1 .. Len(part) /\ Len(part) \in Nat
    BY DEF Types, PartRec
  <1>c. curr \in OptBuffer /\ None \in OptBuffer /\ None \notin Buffer
    BY Constants DEF TypeOK, OptBuffer
  <1>d. \A i \in DOMAIN part : part[i].buf \in Buffer
    BY DEF TypeOK
  <1>1. ASSUME NEW n \in 1 .. MaxWritten, Write(n) PROVE Separate'
    <2>1. PICK b \in Buffer : (b = curr \/ (curr = None /\ b \in pool)) /\ Copies(b)
      BY <1>1, WriteCopies
    <2>2. curr' = b /\ pool' = pool \ {b}
      BY <2>1 DEF Copies
    <2>3. UNCHANGED <<out, part, body>> /\ Held' = Held
      BY <1>1 DEF Write, InitUpload, Held
    <2> QED BY <1>c, <2>1, <2>2, <2>3 DEF Separate
  <1>2. CASE SendBuffer
    <2>1. PICK b \in pool : b \in Buffer /\ Copies(b)
      BY <1>2, SendCopies
    <2>2. curr' = b /\ pool' = pool \ {b}
      BY <2>1 DEF Copies
    <2>3. UNCHANGED <<part, body>> /\ Held' = Held
      BY <1>2 DEF SendBuffer, worker, Held
    <2> DEFINE e == [data |-> curr, abort |-> FALSE, done |-> FALSE]
    <2>4. e \in UploadEvent /\ e.data = curr /\ curr # None
      BY <1>2, <1>c DEF SendBuffer, Calls, UploadEvent
    <2>5. out' = Append(out, e)
      BY <1>2 DEF SendBuffer
    <2> HIDE DEF e
    <2>6. /\ DOMAIN out' = 1 .. Len(out) + 1 /\ out'[Len(out) + 1].data = curr
          /\ \A i \in DOMAIN out : out'[i] = out[i]
      BY <1>a, <2>4, <2>5, Sends
    <2>7. \A i \in DOMAIN out' : i \in DOMAIN out \/ i = Len(out) + 1
      BY <1>a, <2>6
    <2> QED BY <1>c, <2>1, <2>2, <2>3, <2>4, <2>6, <2>7 DEF Separate
  <1>3. CASE SendDone /\ out' # out
    <2>1. UNCHANGED <<part, body, pool>> /\ Held' = Held /\ curr' = None
      BY <1>3 DEF SendDone, worker, Held
    <2> DEFINE e == [data |-> curr, abort |-> FALSE, done |-> TRUE]
    <2>2. e \in UploadEvent /\ e.data = curr
      BY <1>c DEF UploadEvent
    <2>3. out' = Append(out, e)
      BY <1>3 DEF SendDone
    <2> HIDE DEF e
    <2>4. /\ DOMAIN out' = 1 .. Len(out) + 1 /\ out'[Len(out) + 1].data = curr
          /\ \A i \in DOMAIN out : out'[i] = out[i]
      BY <1>a, <2>2, <2>3, Sends
    <2>5. \A i \in DOMAIN out' : i \in DOMAIN out \/ i = Len(out) + 1
      BY <1>a, <2>4
    <2> QED BY <1>c, <1>d, <2>1, <2>4, <2>5 DEF Separate
  <1>4. CASE SendAbort /\ out' # out
    <2>1. UNCHANGED <<part, body, pool, curr>> /\ Held' = Held
      BY <1>4 DEF SendAbort, worker, Held
    <2> DEFINE e == [data |-> None, abort |-> TRUE, done |-> FALSE]
    <2>2. e \in UploadEvent /\ e.data = None
      BY <1>c DEF UploadEvent
    <2>3. out' = Append(out, e)
      BY <1>4 DEF SendAbort
    <2> HIDE DEF e
    <2>4. /\ DOMAIN out' = 1 .. Len(out) + 1 /\ out'[Len(out) + 1].data = None
          /\ \A i \in DOMAIN out : out'[i] = out[i]
      BY <1>a, <2>2, <2>3, Sends
    <2>5. \A i \in DOMAIN out' : i \in DOMAIN out \/ i = Len(out) + 1
      BY <1>a, <2>4
    <2> QED BY <2>1, <2>4, <2>5 DEF Separate
  <1>5. ASSUME UNCHANGED <<out, pool, part>>, Held' => Held /\ body' = body, curr' = curr \/ curr' = None
        PROVE  Separate'
    BY <1>5, <1>c, <1>d DEF Separate
  <1>6. CASE FirstEvent
    <2>1. out # <<>> /\ out' = Tail(out) /\ UNCHANGED <<part, pool, curr>>
      BY <1>6 DEF FirstEvent, app
    <2>2. Head(out) = out[1] /\ 1 \in DOMAIN out
      BY <1>a, <2>1, Receives
    <2>3. Held' => body' = out[1].data /\ out[1].data # None
      BY <1>6, <2>2 DEF FirstEvent, Return, Held
    <2>4. \A i \in DOMAIN out' : i + 1 \in DOMAIN out /\ out'[i] = out[i + 1] /\ i \in Nat /\ i # 0
      BY <1>a, <2>1, Receives
    <2>5. part = <<>>
      BY <1>6 DEF FirstEvent, Stages
    <2>6. \A i \in DOMAIN out' : Held' => out'[i].data # body'
      BY <2>2, <2>3, <2>4 DEF Separate
    <2>7. \A i, j \in DOMAIN out' : out'[i].data # None /\ out'[i].data = out'[j].data => i = j
      <3> SUFFICES ASSUME NEW i \in DOMAIN out', NEW j \in DOMAIN out', out'[i].data # None,
                          out'[i].data = out'[j].data
                   PROVE  i = j
        OBVIOUS
      <3>1. i + 1 = j + 1
        BY <2>4 DEF Separate
      <3> QED BY <2>4, <3>1
    <2>8. Held' => body' \notin pool /\ body' # curr
      BY <2>2, <2>3 DEF Separate
    <2> QED BY <1>c, <2>1, <2>4, <2>5, <2>6, <2>7, <2>8 DEF Separate
  <1>7. CASE CreateMultipartUpload /\ upl' = "loop"
    <2>1. upl = "create" /\ StartPart(body) /\ UNCHANGED <<out, pool, curr, body>> /\ ~Held'
      BY <1>7 DEF CreateMultipartUpload, Return, app, Held
    <2>2. body \in OptBuffer /\ body # None /\ Held /\ part = <<>>
      BY <2>1 DEF Stages, TypeOK, Held
    <2>3. /\ DOMAIN part' = 1 .. Len(part) + 1 /\ part'[Len(part) + 1] = [buf |-> body, state |-> "running"]
      BY <1>b, <2>1, <2>2, StartsPart
    <2>4. \A j \in DOMAIN part' : j = 1 /\ part'[j].buf = body
      <3>1. Len(part) = 0
        BY <2>2
      <3>2. DOMAIN part' = 1 .. 1 /\ part'[1] = [buf |-> body, state |-> "running"]
        BY <2>3, <3>1
      <3> QED BY <3>2
    <2> QED BY <2>1, <2>2, <2>4 DEF Separate
  <1>8. CASE NextEvent
    <2>1. out # <<>> /\ out' = Tail(out) /\ UNCHANGED <<pool, curr>> /\ ~Held'
      BY <1>8 DEF NextEvent, app, Held, ReturnError, Return
    <2>2. Head(out) = out[1] /\ 1 \in DOMAIN out /\ out[1].data \in OptBuffer
      BY <1>a, <2>1, Receives DEF UploadEvent
    <2>3. \A i \in DOMAIN out' : i + 1 \in DOMAIN out /\ out'[i] = out[i + 1] /\ i \in Nat /\ i # 0
      BY <1>a, <2>1, Receives
    <2>4. \A i, j \in DOMAIN out' : out'[i].data # None /\ out'[i].data = out'[j].data => i = j
      <3> SUFFICES ASSUME NEW i \in DOMAIN out', NEW j \in DOMAIN out', out'[i].data # None,
                          out'[i].data = out'[j].data
                   PROVE  i = j
        OBVIOUS
      <3>1. i + 1 = j + 1
        BY <2>3 DEF Separate
      <3> QED BY <2>3, <3>1
    <2>5. CASE part' = part
      BY <2>1, <2>3, <2>4, <2>5 DEF Separate
    <2>6. CASE part' # part
      <3>1. StartPart(out[1].data) /\ out[1].data # None
        BY <1>8, <2>2, <2>6 DEF NextEvent, StartPart
      <3>2. /\ DOMAIN part' = 1 .. Len(part) + 1
            /\ part'[Len(part) + 1] = [buf |-> out[1].data, state |-> "running"]
            /\ \A i \in DOMAIN part : part'[i] = part[i]
        BY <1>b, <2>2, <3>1, StartsPart
      <3>3. \A j \in DOMAIN part' : \/ j \in DOMAIN part /\ part'[j] = part[j]
                                    \/ j = Len(part) + 1 /\ part'[j].buf = out[1].data
        BY <1>b, <3>2
      <3>4. \A i \in DOMAIN out' : out'[i].data # out[1].data \/ out'[i].data = None
        BY <2>2, <2>3 DEF Separate
      <3>5. out[1].data # curr /\ out[1].data \notin pool
        BY <2>2, <3>1 DEF Separate
      <3>6. \A j \in DOMAIN part : part[j].state = "running" => part[j].buf # out[1].data
        BY <2>2, <3>1 DEF Separate
      <3>7. \A i, j \in DOMAIN part' :
               part'[i].state = "running" /\ part'[j].state = "running" /\ part'[i].buf = part'[j].buf => i = j
        BY <3>3, <3>6 DEF Separate
      <3>8. \A j \in DOMAIN part' : part'[j].state = "running" => part'[j].buf # curr /\ part'[j].buf \notin pool
        BY <3>3, <3>5 DEF Separate
      <3>9. \A i \in DOMAIN out' : out'[i].data # None =>
               \A j \in DOMAIN part' : part'[j].state = "running" => part'[j].buf # out'[i].data
        BY <2>3, <3>3, <3>4 DEF Separate
      <3> QED BY <2>1, <2>3, <2>4, <3>7, <3>8, <3>9 DEF Separate
    <2> QED BY <2>5, <2>6
  <1>9. ASSUME NEW i \in DOMAIN part, UploadPart(i) PROVE Separate'
    <2>1. PICK s \in {"ok", "failed"} : EndPart(i, s)
      BY <1>9 DEF UploadPart
    <2>2. /\ DOMAIN part' = DOMAIN part /\ part'[i].state # "running"
          /\ \A j \in DOMAIN part : j # i => part'[j] = part[j]
      <3>1. /\ DOMAIN part' = DOMAIN part /\ part'[i] = [buf |-> part[i].buf, state |-> s]
            /\ \A j \in DOMAIN part : j # i => part'[j] = part[j]
        BY <1>b, <1>9, <2>1, EndsPart
      <3>2. s # "running"
        BY <2>1
      <3> QED BY <3>1, <3>2
    <2>3. pool' = pool \union {part[i].buf}
      BY <2>1 DEF EndPart
    <2>4. UNCHANGED <<out, curr, body, upl>> /\ Held' = Held /\ part[i].state = "running"
      BY <1>9 DEF UploadPart, app, Held
    <2>5. ~Held
      BY DEF Held, Stages
    <2> QED BY <1>c, <1>d, <2>2, <2>3, <2>4, <2>5 DEF Separate
  <1>10. CASE OtherUpload \/ WriteFails \/ BeginComplete \/ CompleteReturns \/ BeginAbort
    BY <1>5, <1>10 DEF OtherUpload, WriteFails, BeginComplete, CompleteReturns, BeginAbort, InitUpload, Held, app, worker
  <1>11. CASE (SendDone \/ SendAbort) /\ UNCHANGED out
    BY <1>5, <1>11 DEF SendDone, SendAbort, Held, worker
  <1>12. CASE PutObject \/ (CreateMultipartUpload /\ upl' # "loop") \/ GroupWait \/ CompleteMultipartUpload
              \/ AbortMultipartUpload
    BY <1>5, <1>12 DEF PutObject, ReturnPut, CreateMultipartUpload, GroupWait, CompleteMultipartUpload, ReturnCompleted,
       ReturnError, Return, AbortMultipartUpload, Held, app
  <1> QED BY <1>1, <1>2, <1>3, <1>4, <1>6, <1>7, <1>8, <1>9, <1>10, <1>11, <1>12, NextSteps

-----------------------------------------------------------------------------
(* Every step keeps the bytes in their pieces. *)

(* A piece that is not full ends with the last byte written. *)
LEMMA LastPiece ==
  ASSUME NEW k \in Nat \ {0}, NEW w \in Nat, w <= Offset(k)
  PROVE  PieceOf(k, w) = Bytes(Offset(k - 1) + 1, w)
  <1>1. Offset(k) \in Nat
    BY Offsets
  <1>2. (IF Offset(k) <= w THEN Offset(k) ELSE w) = w
    BY <1>1
  <1> QED BY <1>2 DEF PieceOf

(* A full piece stays what it is. *)
LEMMA FullPiece ==
  ASSUME NEW k \in Nat \ {0}, NEW w \in Nat, NEW v \in Nat, Offset(k) <= w, w <= v
  PROVE  PieceOf(k, w) = PieceOf(k, v)
  <1>1. Offset(k) \in Nat
    BY Offsets
  <1>2. Offset(k) <= v
    BY <1>1
  <1> QED BY <1>2 DEF PieceOf

(* A buffer just taken is an empty piece. *)
LEMMA EmptyPiece == ASSUME NEW w \in Nat PROVE Bytes(w + 1, w) = <<>>
  <1>1. Bytes(w + 1, w) \in Seq(Nat) /\ Len(Bytes(w + 1, w)) = w - w
    BY BytesAfter
  <1>2. w - w = 0
    OBVIOUS
  <1> QED BY <1>1, <1>2, EmptySeq

(* Write fills the k-th piece. *)
LEMMA Fills ==
  ASSUME NEW k \in Nat \ {0}, NEW b \in Buffer, written \in Nat, Copies(b),
         Old(b) = Bytes(Offset(k - 1) + 1, written), Offset(k - 1) <= written
  PROVE  /\ mem'[b] = PieceOf(k, written')
         /\ Offset(k - 1) <= written' /\ written' <= Offset(k)
         /\ client' = "writing" => written' = Offset(k)
  <1> DEFINE o == Offset(k - 1)
  <1>1. k - 1 \in Nat /\ o \in Nat /\ Offset(k) \in Nat /\ o = Offset(k) - BufSize /\ BufSize \in Nat
    BY Offsets, Constants
  <1>2. written' \in Nat /\ written <= written'
    BY Constants DEF Copies
  <1>3. o <= written /\ Len(Old(b)) = written - o
    BY <1>1, BytesAfter
  <1> HIDE DEF o
  <1>4. mem'[b] = Bytes(o + 1, written')
    <2>1. o + 1 \in Nat /\ o + 1 <= written + 1
      BY <1>1, <1>3
    <2>2. Bytes(o + 1, written) \o Bytes(written + 1, written') = Bytes(o + 1, written')
      BY <1>2, <2>1, BytesConcat
    <2> QED BY <2>2 DEF Copies, o
  <1>8. o <= written'
    BY <1>1, <1>2, <1>3
  <1>5. Len(mem'[b]) = written' - o
    <2>1. Len(Bytes(o + 1, written')) = written' - o
      BY <1>1, <1>2, <1>8, BytesAfter
    <2> QED BY <1>4, <2>1
  <1>6. written' <= Offset(k) /\ (client' = "writing" => written' = Offset(k))
    <2>1. Len(mem'[b]) <= BufSize /\ (client' = "writing" => Len(mem'[b]) = BufSize)
      BY DEF Copies
    <2> QED BY <1>1, <1>2, <1>5, <2>1
  <1>7. mem'[b] = PieceOf(k, written')
    BY <1>2, <1>4, <1>6, LastPiece DEF o
  <1> QED BY <1>6, <1>7, <1>8 DEF o

(* Places are numbers. *)
LEMMA Places ==
  ASSUME Types
  PROVE  /\ Taken \in Nat /\ Place(1) = Taken + 1
         /\ \A i \in Nat \ {0} : Place(i) \in Nat \ {0} /\ Place(i) > Taken
         /\ CurrPlace \in Nat \ {0} /\ CurrPlace > Taken
  <1>1. Len(part) \in Nat /\ Len(out) \in Nat
    BY DEF Types
  <1>2. Taken \in Nat
    BY <1>1 DEF Taken
  <1>3. Skipped(1) = 0
    BY DEF Skipped
  <1>4. \A i \in Nat \ {0} : Skipped(i) \in {0, 1} /\ (i = 1 => Skipped(i) = 0)
    BY <1>3 DEF Skipped
  <1>5. \A i \in Nat \ {0} : Place(i) \in Nat \ {0} /\ Place(i) > Taken
    BY <1>2, <1>4 DEF Place
  <1>6. Place(1) = Taken + 1
    BY <1>2, <1>3 DEF Place
  <1> QED BY <1>1, <1>2, <1>5, <1>6 DEF CurrPlace

(* They do not change unless something is sent or received. *)
LEMMA SamePlaces ==
  ASSUME UNCHANGED out, Taken' = Taken
  PROVE  (\A i : Place(i)' = Place(i)) /\ CurrPlace' = CurrPlace
  BY DEF Place, Skipped, CurrPlace

(* A send takes the next place, unless it is an abort. *)
LEMMA SendPlaces ==
  ASSUME Types, NEW e \in UploadEvent, out' = Append(out, e), Taken' = Taken,
         e.abort => \A i \in DOMAIN out : ~out[i].abort
  PROVE  /\ \A i \in 1 .. Len(out) + 1 : Place(i)' = Place(i)
         /\ e.abort => CurrPlace' = CurrPlace
         /\ ~e.abort => CurrPlace' = CurrPlace + 1
  <1>1. /\ Len(out) \in Nat /\ Len(out') = Len(out) + 1 /\ DOMAIN out = 1 .. Len(out)
        /\ \A i \in 1 .. Len(out) : out'[i] = out[i]
        /\ out'[Len(out) + 1] = e
    BY Sends DEF Types
  <1>2. \A i \in 1 .. Len(out) + 1 : Skipped(i)' = Skipped(i)
    <2> TAKE i \in 1 .. Len(out) + 1
    <2>1. \A j \in 1 .. i - 1 : out'[j] = out[j]
      BY <1>1
    <2> QED BY <2>1 DEF Skipped
  <1>3. \A i \in 1 .. Len(out) + 1 : Place(i)' = Place(i)
    BY <1>2 DEF Place
  <1>m. PICK m \in Nat : m = Len(out) + 1
    BY <1>1
  <1>4. m \in Nat /\ Taken \in Nat /\ Skipped(m) \in {0, 1}
    BY <1>1, Places DEF Skipped
  <1>5. e.abort => Skipped(m) = 0 /\ Skipped(m + 1)' = 1
    <2> SUFFICES ASSUME e.abort PROVE Skipped(m) = 0 /\ Skipped(m + 1)' = 1
      OBVIOUS
    <2>1. \A j \in 1 .. m - 1 : ~out[j].abort
      BY <1>1, <1>m
    <2>2. m \in 1 .. (m + 1) - 1 /\ out'[m].abort
      BY <1>1, <1>m
    <2> QED BY <2>1, <2>2 DEF Skipped
  <1>6. ~e.abort => Skipped(m + 1)' = Skipped(m)
    <2> SUFFICES ASSUME ~e.abort PROVE Skipped(m + 1)' = Skipped(m)
      OBVIOUS
    <2>1. \A j \in 1 .. (m + 1) - 1 : j \in 1 .. m - 1 \/ j = m
      OBVIOUS
    <2>2. \A j \in 1 .. m - 1 : out'[j] = out[j] /\ j \in 1 .. (m + 1) - 1
      BY <1>1, <1>m
    <2>3. ~out'[m].abort
      BY <1>1, <1>m
    <2>4. (\E j \in 1 .. (m + 1) - 1 : out'[j].abort) <=> (\E j \in 1 .. m - 1 : out[j].abort)
      BY <2>1, <2>2, <2>3
    <2> QED BY <2>4 DEF Skipped
  <1>7. CurrPlace = Taken + m - Skipped(m) /\ CurrPlace' = Taken + (m + 1) - Skipped(m + 1)'
    BY <1>1, <1>m DEF CurrPlace, Place
  <1> QED BY <1>3, <1>4, <1>5, <1>6, <1>7

(* What is received gives up its place. *)
LEMMA ReceivePlaces ==
  ASSUME Types, out # <<>>, out' = Tail(out), ~out[1].abort, Taken' = Taken + 1
  PROVE  (\A i \in 1 .. Len(out) : Place(i)' = Place(i + 1)) /\ CurrPlace' = CurrPlace
  <1>1. /\ Len(out) \in Nat \ {0} /\ Len(out') = Len(out) - 1
        /\ \A i \in 1 .. Len(out) - 1 : out'[i] = out[i + 1]
    BY Receives DEF Types
  <1>2. \A i \in 1 .. Len(out) : Skipped(i)' = Skipped(i + 1)
    <2> TAKE i \in 1 .. Len(out)
    <2>1. \A j \in 1 .. i - 1 : out'[j] = out[j + 1] /\ j + 1 \in 1 .. (i + 1) - 1
      BY <1>1
    <2>2. \A j \in 1 .. (i + 1) - 1 : j # 1 => j - 1 \in 1 .. i - 1 /\ out'[j - 1] = out[j]
      <3> SUFFICES ASSUME NEW j \in 1 .. (i + 1) - 1, j # 1 PROVE j - 1 \in 1 .. i - 1 /\ out'[j - 1] = out[j]
        OBVIOUS
      <3>1. j - 1 \in 1 .. i - 1 /\ j - 1 + 1 = j
        BY <1>1
      <3> QED BY <2>1, <3>1
    <2>3. (\E j \in 1 .. i - 1 : out'[j].abort) <=> (\E j \in 1 .. (i + 1) - 1 : out[j].abort)
      BY <2>1, <2>2
    <2> QED BY <2>3 DEF Skipped
  <1>3. ASSUME NEW i \in 1 .. Len(out) PROVE Place(i)' = Place(i + 1)
    <2>1. i \in Int /\ Taken \in Int /\ Skipped(i + 1) \in Int
      BY <1>1, Places DEF Skipped
    <2>2. Taken + 1 + i - Skipped(i + 1) = Taken + (i + 1) - Skipped(i + 1)
      BY <2>1
    <2> QED BY <1>2, <2>2 DEF Place
  <1>4. PICK m \in 1 .. Len(out) : m = Len(out) /\ m = Len(out') + 1
    <2>1. Len(out) \in 1 .. Len(out) /\ Len(out) = Len(out') + 1
      BY <1>1
    <2> QED BY <2>1
  <1>5. CurrPlace' = Place(m)' /\ CurrPlace = Place(m + 1)
    BY <1>4 DEF CurrPlace, Place
  <1> QED BY <1>3, <1>5

(* Steps that move no byte of this upload. *)
LEMMA FlowFrame ==
  ASSUME Shape, Flow, upl # "done", UNCHANGED <<out, part, stored, written, curr, body>>,
         \A b \in Buffer \ pool : mem'[b] = mem[b],
         client' = client \/ (client = "idle" /\ client' = "completing"),
         upl' = upl \/ (upl = "off" /\ upl' = "first") \/ (upl = "wait" /\ upl' = "complete")
  PROVE  Flow'
  <1> USE DEF Shape
  <1>1. Held' = Held /\ Taken' = Taken
    BY DEF Held, Taken
  <1>2. (\A i : Place(i)' = Place(i)) /\ CurrPlace' = CurrPlace
    BY <1>1, SamePlaces
  <1>3. CurrFlow'
    <2>1. curr # None => mem'[curr] = mem[curr]
      BY DEF Separate, TypeOK, OptBuffer
    <2>2. CurrFlow /\ (Writing' => Writing) /\ (client' = "writing" => client = "writing")
      BY DEF Flow, Writing
    <2> QED BY <1>2, <2>1, <2>2 DEF CurrFlow, Piece
  <1>4. OutFlow'
    <2>1. \A i \in DOMAIN out : out[i].data # None => mem'[out[i].data] = mem[out[i].data]
      BY DEF Separate, TypeOK, UploadEvent, OptBuffer
    <2>2. OutFlow
      BY DEF Flow
    <2> QED BY <1>2, <2>1, <2>2 DEF OutFlow, Piece
  <1>5. BodyFlow'
    <2>1. Held => mem'[body] = mem[body]
      BY DEF Separate, TypeOK, OptBuffer, Held
    <2>2. BodyFlow
      BY DEF Flow
    <2> QED BY <1>1, <2>1, <2>2 DEF BodyFlow, Piece
  <1>6. PartFlow'
    <2>1. \A i \in DOMAIN part : part[i].state = "running" => mem'[part[i].buf] = mem[part[i].buf]
      BY DEF Separate, TypeOK
    <2>2. PartFlow
      BY DEF Flow
    <2> QED BY <2>1, <2>2 DEF PartFlow, Piece
  <1> QED BY <1>3, <1>4, <1>5, <1>6 DEF Flow

(* While the application writes, everything that was sent is a full piece. *)
LEMMA SentAreFull ==
  ASSUME Shape, Flow, upl # "done", client \in {"idle", "writing"}
  PROVE  /\ \A i \in DOMAIN out : out[i].data # None => Offset(Place(i)) <= written
         /\ \A i \in DOMAIN out : ~out[i].done
         /\ upl \in {"off", "first", "create", "loop"}
         /\ Held => Offset(1) <= written
         /\ \A i \in DOMAIN part : upl = "loop" /\ Offset(i) <= written
  <1> USE DEF Shape
  <1>1. \A i \in DOMAIN out : ~out[i].done /\ (out[i].data # None => ~out[i].abort)
    BY DEF Events
  <1>2. upl \in {"off", "first", "create", "loop"}
    BY DEF Stages, TypeOK
  <1>3. \A i \in DOMAIN out : out[i].data # None => Offset(Place(i)) <= written
    BY <1>1 DEF Flow, OutFlow
  <1>4. Held => Offset(1) <= written
    BY <1>2 DEF Flow, BodyFlow, Held
  <1>5. ASSUME NEW i \in DOMAIN part PROVE upl = "loop" /\ Offset(i) <= written
    <2>1. part # <<>>
      OBVIOUS
    <2>2. upl = "loop"
      BY <1>2, <2>1 DEF Stages
    <2>3. Offset(Len(part)) <= written
      BY <2>2 DEF Flow, PartFlow
    <2>4. i \in Nat /\ Len(part) \in Nat /\ i <= Len(part)
      BY DEF Types
    <2>5. Offset(i) <= Offset(Len(part)) /\ Offset(i) \in Nat /\ Offset(Len(part)) \in Nat
      BY <2>4, OffsetsGrow, Offsets
    <2>6. written \in Nat
      BY Constants DEF TypeOK
    <2> QED BY <2>2, <2>3, <2>5, <2>6
  <1> QED BY <1>1, <1>2, <1>3, <1>4, <1>5

(* So nothing happens to it when more is written. *)
LEMMA SentStays ==
  ASSUME Shape, Flow, upl # "done", client \in {"idle", "writing"}, NEW b \in Buffer, Copies(b),
         b = curr \/ b \in pool, UNCHANGED <<part, body, stored>>,
         upl' = upl \/ (upl = "off" /\ upl' = "first")
  PROVE  /\ Held' = Held /\ Taken' = Taken /\ written \in Nat /\ written' \in Nat /\ written <= written'
         /\ \A i \in DOMAIN out : out[i].data # None => /\ mem'[out[i].data] = PieceOf(Place(i), written')
                                                        /\ Offset(Place(i)) <= written'
         /\ BodyFlow' /\ PartFlow'
  <1> USE DEF Shape
  <1>1. Held' = Held /\ Taken' = Taken
    BY DEF Held, Taken
  <1>2. written \in Nat /\ written' \in Nat /\ written <= written'
    BY Constants DEF TypeOK, Copies
  <1>3. \A k \in Nat \ {0} : Offset(k) <= written => Offset(k) <= written' /\ PieceOf(k, written) = PieceOf(k, written')
    <2> SUFFICES ASSUME NEW k \in Nat \ {0}, Offset(k) <= written
                 PROVE  Offset(k) <= written' /\ PieceOf(k, written) = PieceOf(k, written')
      OBVIOUS
    <2>1. Offset(k) \in Nat
      BY Offsets
    <2> QED BY <1>2, <2>1, FullPiece
  <1>4. ASSUME NEW i \in DOMAIN out, out[i].data # None
        PROVE  mem'[out[i].data] = PieceOf(Place(i), written') /\ Offset(Place(i)) <= written'
    <2>1. mem'[out[i].data] = mem[out[i].data]
      BY <1>4 DEF Separate, TypeOK, UploadEvent, OptBuffer, Copies
    <2>2. Offset(Place(i)) <= written
      BY <1>4, SentAreFull
    <2>3. Place(i) \in Nat \ {0}
      <3>1. i \in Nat \ {0}
        BY DEF Types
      <3> QED BY <3>1, Places
    <2>4. mem[out[i].data] = PieceOf(Place(i), written)
      BY <1>4 DEF Flow, OutFlow, Piece
    <2> QED BY <1>3, <2>1, <2>2, <2>3, <2>4
  <1>5. BodyFlow'
    <2>1. Held => mem'[body] = mem[body]
      BY DEF Separate, TypeOK, OptBuffer, Held, Copies
    <2>2. Held => mem'[body] = PieceOf(1, written')
      BY <1>3, <2>1, SentAreFull DEF Flow, BodyFlow, Piece
    <2>3. upl' = "create" => Offset(1) <= written'
      <3>1. 1 \in Nat \ {0}
        OBVIOUS
      <3> QED BY <1>3, <3>1 DEF Flow, BodyFlow
    <2>4. upl' # "put"
      BY SentAreFull
    <2> QED BY <1>1, <2>2, <2>3, <2>4 DEF BodyFlow, Piece
  <1>6. PartFlow'
    <2>1. ASSUME NEW i \in DOMAIN part
          PROVE  /\ part[i].state = "running" => mem'[part[i].buf] = PieceOf(i, written')
                 /\ part[i].state = "ok" => i \in DOMAIN stored /\ stored[i] = PieceOf(i, written')
      <3>1. Offset(i) <= written /\ i \in Nat \ {0}
        BY SentAreFull DEF Types
      <3>2. PieceOf(i, written) = PieceOf(i, written')
        BY <1>3, <3>1
      <3>3. part[i].state = "running" => mem'[part[i].buf] = mem[part[i].buf]
        BY DEF Separate, TypeOK, Copies
      <3> QED BY <3>2, <3>3 DEF Flow, PartFlow, Piece
    <2>2. upl' = "loop" => Len(part) >= 1 /\ Offset(Len(part)) <= written'
      <3> SUFFICES ASSUME upl' = "loop" PROVE Len(part) >= 1 /\ Offset(Len(part)) <= written'
        OBVIOUS
      <3>1. Len(part) >= 1 /\ Offset(Len(part)) <= written
        BY DEF Flow, PartFlow
      <3>2. Len(part) \in Nat \ {0}
        BY <3>1 DEF Types
      <3> QED BY <1>3, <3>1, <3>2
    <2>3. upl' \notin {"wait", "complete"}
      BY SentAreFull
    <2> QED BY <2>1, <2>2, <2>3 DEF PartFlow, Piece
  <1> QED BY <1>1, <1>2, <1>4, <1>5, <1>6

(* A call of Write. *)
LEMMA WriteFlow ==
  ASSUME Shape, Flow, upl # "done", NEW n \in 1 .. MaxWritten, Write(n) PROVE Flow'
  <1> USE DEF Shape
  <1>1. PICK b \in Buffer : (b = curr \/ (curr = None /\ b \in pool)) /\ Copies(b)
    BY WriteCopies
  <1>2. client = "idle" /\ UNCHANGED <<out, part, body, stored>> /\ (upl' = upl \/ (upl = "off" /\ upl' = "first"))
    BY DEF Write, InitUpload, service
  <1>3. /\ Held' = Held /\ Taken' = Taken /\ written \in Nat /\ written' \in Nat /\ written <= written'
        /\ \A i \in DOMAIN out : out[i].data # None => /\ mem'[out[i].data] = PieceOf(Place(i), written')
                                                       /\ Offset(Place(i)) <= written'
        /\ BodyFlow' /\ PartFlow'
    BY <1>1, <1>2, SentStays
  <1>4. (\A i : Place(i)' = Place(i)) /\ CurrPlace' = CurrPlace
    BY <1>2, <1>3, SamePlaces
  <1>5. OutFlow'
    <2>1. \A i \in DOMAIN out : /\ ~out[i].done
                                /\ ~out[i].abort => out[i].data # None
                                /\ out[i].data # None => Offset(Place(i) - 1) <= written
      BY <1>2, SentAreFull DEF Events, Flow, OutFlow
    <2>2. \A i \in DOMAIN out : Offset(Place(i) - 1) \in Int
      <3> TAKE i \in DOMAIN out
      <3>1. i \in Nat \ {0}
        BY DEF Types
      <3>2. Place(i) - 1 \in Int
        BY <3>1, Places
      <3> QED BY <3>2, Offsets
    <2>3. \A i \in DOMAIN out : out[i].data # None => Offset(Place(i) - 1) <= written'
      BY <1>3, <2>1, <2>2
    <2> QED BY <1>2, <1>3, <1>4, <2>1, <2>3 DEF OutFlow, Piece
  <1> DEFINE k == CurrPlace
  <1>6. k \in Nat \ {0} /\ Offset(k - 1) \in Nat
    <2>1. k \in Nat \ {0} /\ k - 1 \in Nat
      BY Places
    <2> QED BY <2>1, Offsets
  <1>7. Old(b) = Bytes(Offset(k - 1) + 1, written) /\ Offset(k - 1) <= written
    <2>1. CurrFlow /\ Writing
      BY <1>2 DEF Flow, Writing
    <2>2. CASE b = curr
      <3>1. /\ Old(b) = PieceOf(k, written) /\ Offset(k - 1) <= written /\ written <= Offset(k)
        BY <2>1, <2>2, Constants DEF CurrFlow, Piece, Old
      <3> HIDE DEF k
      <3> QED BY <1>3, <1>6, <3>1, LastPiece
    <2>3. CASE b # curr
      <3>1. curr = None /\ written = 0 /\ k = 1 /\ Old(b) = <<>>
        BY <1>1, <2>1, <2>3 DEF CurrFlow, Old
      <3>2. Offset(k - 1) = 0
        <4>1. k - 1 = 0
          BY <3>1
        <4> QED BY <4>1, Offsets
      <3> HIDE DEF k
      <3>3. Bytes(0 + 1, 0) = <<>>
        BY EmptyPiece
      <3> QED BY <3>1, <3>2, <3>3
    <2> QED BY <2>2, <2>3
  <1> HIDE DEF k
  <1>8. /\ mem'[b] = PieceOf(k, written')
        /\ Offset(k - 1) <= written' /\ written' <= Offset(k)
        /\ client' = "writing" => written' = Offset(k)
    BY <1>1, <1>3, <1>6, <1>7, Fills
  <1>9. curr' = b /\ b # None /\ CurrPlace' = k
    BY <1>1, <1>4, Constants DEF Copies, k
  <1>10. CurrFlow'
    BY <1>8, <1>9 DEF CurrFlow, Piece
  <1> QED BY <1>3, <1>5, <1>10 DEF Flow

(* Write has sent a full buffer. *)
LEMMA SendBufferFlow ==
  ASSUME Shape, Flow, upl # "done", SendBuffer PROVE Flow'
  <1> USE DEF Shape
  <1>1. PICK b \in pool : b \in Buffer /\ Copies(b)
    BY SendCopies
  <1>2. client = "writing" /\ UNCHANGED <<part, body, stored, upl>>
    BY DEF SendBuffer, worker, service
  <1>3. /\ Held' = Held /\ Taken' = Taken /\ written \in Nat /\ written' \in Nat /\ written <= written'
        /\ \A i \in DOMAIN out : out[i].data # None => /\ mem'[out[i].data] = PieceOf(Place(i), written')
                                                       /\ Offset(Place(i)) <= written'
        /\ BodyFlow' /\ PartFlow'
    BY <1>1, <1>2, SentStays
  <1> DEFINE e == [data |-> curr, abort |-> FALSE, done |-> FALSE]
  <1>4. curr \in Buffer /\ curr # None /\ curr \notin pool
    BY <1>2 DEF Calls, TypeOK, OptBuffer, Separate
  <1>5. e \in UploadEvent /\ e.data = curr /\ ~e.abort /\ ~e.done
    BY <1>4 DEF UploadEvent, OptBuffer
  <1>6. out' = Append(out, e)
    BY DEF SendBuffer
  <1> HIDE DEF e
  <1>7. /\ Len(out) \in Nat /\ DOMAIN out = 1 .. Len(out) /\ DOMAIN out' = 1 .. Len(out) + 1
        /\ \A i \in 1 .. Len(out) : out'[i] = out[i]
        /\ out'[Len(out) + 1] = e
    BY <1>5, <1>6, Sends DEF Types
  <1>8. (\A i \in 1 .. Len(out) + 1 : Place(i)' = Place(i)) /\ CurrPlace' = CurrPlace + 1
    BY <1>3, <1>5, <1>6, SendPlaces
  <1>9. PICK k \in Nat \ {0} : k = CurrPlace
    BY Places
  <1>10. /\ Offset(k - 1) \in Nat /\ Offset(k) \in Nat /\ k + 1 \in Nat \ {0} /\ (k + 1) - 1 = k
         /\ Offset(k - 1) <= Offset(k)
    <2>1. k - 1 \in Nat /\ k \in Nat /\ k - 1 <= k /\ k + 1 \in Nat \ {0} /\ (k + 1) - 1 = k
      OBVIOUS
    <2>2. Offset(k - 1) \in Nat /\ Offset(k) \in Nat
      BY <2>1, Offsets
    <2>3. Offset(k - 1) <= Offset(k)
      BY <2>1, OffsetsGrow
    <2> QED BY <2>1, <2>2, <2>3
  <1>11. mem[curr] = PieceOf(k, written) /\ written = Offset(k)
    BY <1>2, <1>4, <1>9 DEF Flow, CurrFlow, Piece, Writing
  <1>12. mem'[curr] = PieceOf(k, written') /\ Offset(k - 1) <= written' /\ Offset(k) <= written'
    <2>1. mem'[curr] = mem[curr]
      BY <1>1, <1>4 DEF Copies
    <2>2. PieceOf(k, written) = PieceOf(k, written')
      BY <1>3, <1>10, <1>11, FullPiece
    <2>3. Offset(k) <= written'
      BY <1>3, <1>11
    <2>4. Offset(k - 1) <= written'
      BY <1>3, <1>10, <2>3
    <2> QED BY <1>11, <2>1, <2>2, <2>3, <2>4
  <1>13. OutFlow'
    <2> SUFFICES ASSUME NEW i \in DOMAIN out'
                 PROVE  /\ out'[i].data # None => /\ mem'[out'[i].data] = PieceOf(Place(i)', written')
                                                  /\ Offset(Place(i)' - 1) <= written'
                        /\ ~out'[i].abort /\ ~out'[i].done => Offset(Place(i)') <= written'
                        /\ ~out'[i].done
      BY DEF OutFlow, Piece
    <2>1. CASE i \in DOMAIN out
      <3>1. out'[i] = out[i] /\ Place(i)' = Place(i) /\ i \in Nat \ {0}
        BY <1>7, <1>8, <2>1
      <3>2. ~out[i].done /\ (~out[i].abort => out[i].data # None)
        BY <1>2, <2>1, SentAreFull DEF Events
      <3>3. Place(i) \in Nat \ {0} /\ Place(i) - 1 \in Nat /\ Place(i) - 1 <= Place(i)
        BY <3>1, Places
      <3>4. Offset(Place(i) - 1) <= Offset(Place(i)) /\ Offset(Place(i) - 1) \in Nat /\ Offset(Place(i)) \in Nat
        BY <3>3, OffsetsGrow, Offsets
      <3>5. out[i].data # None => mem'[out[i].data] = PieceOf(Place(i), written') /\ Offset(Place(i)) <= written'
        BY <1>3, <2>1
      <3>6. out[i].data # None => Offset(Place(i) - 1) <= written'
        BY <1>3, <3>4, <3>5
      <3> QED BY <3>1, <3>2, <3>5, <3>6
    <2>2. CASE i \notin DOMAIN out
      <3>1. i = Len(out) + 1
        BY <1>7, <2>2
      <3>2. out'[i] = e /\ Place(i)' = k
        BY <1>7, <1>8, <1>9, <3>1 DEF CurrPlace
      <3> QED BY <1>5, <1>12, <3>2
    <2> QED BY <2>1, <2>2
  <1>14. CurrFlow'
    <2>1. curr' = b /\ b # None /\ CurrPlace' = k + 1
      BY <1>1, <1>8, <1>9, Constants DEF Copies
    <2>2. Old(b) = Bytes(Offset((k + 1) - 1) + 1, written)
      <3>1. Old(b) = <<>>
        BY <1>1, <1>4 DEF Old
      <3> QED BY <1>3, <1>10, <1>11, <3>1, EmptyPiece
    <2>3. Offset((k + 1) - 1) <= written
      BY <1>10, <1>11
    <2>4. k + 1 \in Nat \ {0}
      BY <1>10
    <2>5. /\ mem'[b] = PieceOf(k + 1, written')
          /\ Offset((k + 1) - 1) <= written' /\ written' <= Offset(k + 1)
          /\ client' = "writing" => written' = Offset(k + 1)
      BY <1>1, <1>3, <2>2, <2>3, <2>4, Fills
    <2> QED BY <2>1, <2>5 DEF CurrFlow, Piece
  <1> QED BY <1>3, <1>13, <1>14 DEF Flow

(* Steps of Complete and Abort leave what was received alone. *)
LEMMA ReceivedStays ==
  ASSUME Flow, upl # "done", UNCHANGED <<mem, written, part, stored, body, upl>>
  PROVE  Held' = Held /\ Taken' = Taken /\ BodyFlow' /\ PartFlow'
  <1>1. Held' = Held /\ Taken' = Taken
    BY DEF Held, Taken
  <1>2. BodyFlow /\ PartFlow
    BY DEF Flow
  <1> QED BY <1>1, <1>2 DEF BodyFlow, PartFlow, Piece

(* Complete sends the last buffer. *)
LEMMA SendDoneFlow ==
  ASSUME Shape, Flow, upl # "done", SendDone PROVE Flow'
  <1> USE DEF Shape
  <1>1. client = "completing" /\ client' = "waiting" /\ UNCHANGED <<mem, written, part, stored, body, upl>>
    BY DEF SendDone, worker, service
  <1>2. Held' = Held /\ Taken' = Taken /\ BodyFlow' /\ PartFlow'
    BY <1>1, ReceivedStays
  <1> DEFINE e == [data |-> curr, abort |-> FALSE, done |-> TRUE]
  <1>3. e \in UploadEvent /\ e.data = curr /\ ~e.abort /\ e.done
    BY DEF UploadEvent, TypeOK
  <1>4. out' = Append(out, e)
    BY DEF SendDone, DoneCase, Closed
  <1> HIDE DEF e
  <1>5. /\ Len(out) \in Nat /\ DOMAIN out = 1 .. Len(out) /\ DOMAIN out' = 1 .. Len(out) + 1
        /\ \A i \in 1 .. Len(out) : out'[i] = out[i]
        /\ out'[Len(out) + 1] = e
    BY <1>3, <1>4, Sends DEF Types
  <1>6. \A i \in 1 .. Len(out) + 1 : Place(i)' = Place(i)
    BY <1>2, <1>3, <1>4, SendPlaces
  <1>7. OutFlow'
    <2> SUFFICES ASSUME NEW i \in DOMAIN out'
                 PROVE  /\ out'[i].data # None => /\ mem[out'[i].data] = PieceOf(Place(i), written)
                                                  /\ Offset(Place(i) - 1) <= written
                        /\ ~out'[i].abort /\ ~out'[i].done => Offset(Place(i)) <= written
                        /\ out'[i].done => IF out'[i].data = None THEN written = 0 /\ Place(i) = 1
                                                                  ELSE written <= Offset(Place(i))
      BY <1>1, <1>5, <1>6 DEF OutFlow, Piece
    <2>1. CASE i \in DOMAIN out
      <3>1. out'[i] = out[i]
        BY <1>5, <2>1
      <3> QED BY <2>1, <3>1 DEF Flow, OutFlow, Piece
    <2>2. CASE i \notin DOMAIN out
      <3>1. i = Len(out) + 1
        BY <1>5, <2>2
      <3>2. out'[i] = e /\ Place(i) = CurrPlace
        BY <1>5, <3>1 DEF CurrPlace
      <3> QED BY <1>1, <1>3, <3>2 DEF Flow, CurrFlow, Piece, Writing
    <2> QED BY <2>1, <2>2
  <1>8. CurrFlow'
    BY <1>1 DEF CurrFlow, Writing
  <1> QED BY <1>2, <1>7, <1>8 DEF Flow

(* Abort sends no buffer. *)
LEMMA SendAbortFlow ==
  ASSUME Shape, Flow, upl # "done", SendAbort PROVE Flow'
  <1> USE DEF Shape
  <1>1. UNCHANGED <<client, curr, mem, written, part, stored, body, upl>> /\ aborter = "sending"
    BY DEF SendAbort, worker, service
  <1>2. Held' = Held /\ Taken' = Taken /\ BodyFlow' /\ PartFlow'
    BY <1>1, ReceivedStays
  <1> DEFINE e == [data |-> None, abort |-> TRUE, done |-> FALSE]
  <1>3. e \in UploadEvent /\ e.data = None /\ e.abort /\ ~e.done
    BY DEF UploadEvent, OptBuffer
  <1>4. out' = Append(out, e)
    BY DEF SendAbort, DoneCase, Closed
  <1> HIDE DEF e
  <1>5. /\ Len(out) \in Nat /\ DOMAIN out = 1 .. Len(out) /\ DOMAIN out' = 1 .. Len(out) + 1
        /\ \A i \in 1 .. Len(out) : out'[i] = out[i]
        /\ out'[Len(out) + 1] = e
    BY <1>3, <1>4, Sends DEF Types
  <1>6. \A i \in DOMAIN out : ~out[i].abort
    BY <1>1 DEF Events
  <1>7. (\A i \in 1 .. Len(out) + 1 : Place(i)' = Place(i)) /\ CurrPlace' = CurrPlace
    BY <1>2, <1>3, <1>4, <1>6, SendPlaces
  <1>8. OutFlow'
    <2> SUFFICES ASSUME NEW i \in DOMAIN out'
                 PROVE  /\ out'[i].data # None => /\ mem[out'[i].data] = PieceOf(Place(i), written)
                                                  /\ Offset(Place(i) - 1) <= written
                        /\ ~out'[i].abort /\ ~out'[i].done => Offset(Place(i)) <= written
                        /\ out'[i].done => IF out'[i].data = None THEN written = 0 /\ Place(i) = 1
                                                                  ELSE written <= Offset(Place(i))
      BY <1>1, <1>5, <1>7 DEF OutFlow, Piece
    <2>1. CASE i \in DOMAIN out
      <3>1. out'[i] = out[i]
        BY <1>5, <2>1
      <3> QED BY <2>1, <3>1 DEF Flow, OutFlow, Piece
    <2>2. CASE i \notin DOMAIN out
      <3>1. i = Len(out) + 1
        BY <1>5, <2>2
      <3> QED BY <1>3, <1>5, <3>1
    <2> QED BY <2>1, <2>2
  <1>9. CurrFlow'
    <2>1. CurrFlow
      BY DEF Flow
    <2> QED BY <1>1, <1>7, <2>1 DEF CurrFlow, Writing, Piece
  <1> QED BY <1>2, <1>8, <1>9 DEF Flow

(* What is left in the channel, when the goroutine has received a buffer. *)
LEMMA ReceiveFlow ==
  ASSUME Shape, Flow, upl # "done", out # <<>>, out' = Tail(out), ~out[1].abort, Taken' = Taken + 1,
         UNCHANGED <<client, curr, mem, written>>
  PROVE  CurrFlow' /\ OutFlow'
  <1> USE DEF Shape
  <1>1. (\A i \in 1 .. Len(out) : Place(i)' = Place(i + 1)) /\ CurrPlace' = CurrPlace
    BY ReceivePlaces
  <1>2. CurrFlow'
    <2>1. CurrFlow
      BY DEF Flow
    <2> QED BY <1>1, <2>1 DEF CurrFlow, Writing, Piece
  <1>3. \A i \in DOMAIN out' : i + 1 \in DOMAIN out /\ i \in 1 .. Len(out) /\ out'[i] = out[i + 1]
    BY Receives DEF Types
  <1>4. OutFlow'
    <2>1. OutFlow
      BY DEF Flow
    <2> QED BY <1>1, <1>3, <2>1 DEF OutFlow, Piece
  <1> QED BY <1>2, <1>4

(* The first event. *)
LEMMA FirstEventFlow ==
  ASSUME Shape, Flow, upl # "done", FirstEvent, upl' # "done" PROVE Flow'
  <1> USE DEF Shape
  <1>1. /\ upl = "first" /\ out # <<>> /\ out' = Tail(out)
        /\ UNCHANGED <<client, curr, mem, written, part, stored>>
    BY DEF FirstEvent, app, service
  <1>2. Head(out) = out[1] /\ 1 \in DOMAIN out /\ out[1].data \in OptBuffer
    BY <1>1, Receives DEF Types, UploadEvent
  <1>3. ~out[1].abort /\ body' = out[1].data /\ upl' = IF out[1].done THEN "put" ELSE "create"
    BY <1>2 DEF FirstEvent, Aborts, Return
  <1>4. part = <<>> /\ ~Held
    BY <1>1 DEF Stages, Held
  <1>5. Taken = 0 /\ Place(1) = 1 /\ (out[1].data # None => Taken' = 1)
    <2>1. Len(part) = 0
      BY <1>4
    <2>2. Taken = 0
      BY <1>4, <2>1 DEF Taken
    <2>3. out[1].data # None => Held'
      BY <1>3 DEF Held
    <2>4. out[1].data # None => Taken' = 1
      BY <1>1, <2>1, <2>3 DEF Taken
    <2> QED BY <2>2, <2>4, Places
  <1>6. PartFlow'
    BY <1>1, <1>3, <1>4 DEF PartFlow
  <1>7. /\ out[1].data # None => mem[out[1].data] = PieceOf(1, written)
        /\ ~out[1].done => Offset(1) <= written
        /\ out[1].done => IF out[1].data = None THEN written = 0 ELSE written <= Offset(1)
    BY <1>2, <1>3, <1>5 DEF Flow, OutFlow, Piece
  <1>8. BodyFlow'
    BY <1>1, <1>3, <1>7 DEF BodyFlow, Held, Piece
  <1>9. CurrFlow' /\ OutFlow'
    <2>1. CASE out[1].data # None
      BY <1>1, <1>3, <1>5, <2>1, ReceiveFlow
    <2>2. CASE out[1].data = None
      <3>1. out[1].done /\ client \in {"waiting", "returned"}
        BY <1>2, <1>3, <2>2 DEF Events
      <3>2. ASSUME NEW i \in DOMAIN out' PROVE out'[i].abort /\ out'[i].data = None /\ ~out'[i].done
        <4>1. i + 1 \in DOMAIN out /\ out'[i] = out[i + 1] /\ 1 < i + 1
          BY <1>1, Receives DEF Types
        <4> QED BY <1>2, <3>1, <4>1 DEF Events
      <3> QED BY <1>1, <3>1, <3>2 DEF CurrFlow, Writing, OutFlow
    <2> QED BY <2>1, <2>2
  <1> QED BY <1>6, <1>8, <1>9 DEF Flow

(* The first part. *)
LEMMA CreateFlow ==
  ASSUME Shape, Flow, upl # "done", CreateMultipartUpload, upl' # "done" PROVE Flow'
  <1> USE DEF Shape
  <1>1. /\ upl = "create" /\ upl' = "loop" /\ StartPart(body)
        /\ UNCHANGED <<client, curr, mem, written, out, body, stored>>
    BY DEF CreateMultipartUpload, Return, app
  <1>2. part = <<>> /\ body \in OptBuffer /\ body # None /\ part \in Seq(PartRec)
    BY <1>1 DEF Stages, TypeOK, Types, PartRec
  <1>3. Len(part) = 0 /\ Len(part') = 1 /\ DOMAIN part' = 1 .. 1 /\ part'[1] = [buf |-> body, state |-> "running"]
    <2>1. Len(part) = 0
      BY <1>2
    <2>2. /\ Len(part') = Len(part) + 1 /\ DOMAIN part' = 1 .. Len(part) + 1
          /\ part'[Len(part) + 1] = [buf |-> body, state |-> "running"]
      BY <1>1, <1>2, StartsPart
    <2> QED BY <2>1, <2>2
  <1>4. Held /\ ~Held' /\ Taken' = Taken
    <2>1. Held /\ ~Held'
      BY <1>1, <1>2 DEF Held
    <2> QED BY <1>3, <2>1 DEF Taken
  <1>5. (\A i : Place(i)' = Place(i)) /\ CurrPlace' = CurrPlace
    BY <1>1, <1>4, SamePlaces
  <1>6. CurrFlow' /\ OutFlow'
    <2>1. CurrFlow /\ OutFlow
      BY DEF Flow
    <2> QED BY <1>1, <1>5, <2>1 DEF CurrFlow, Writing, OutFlow, Piece
  <1>7. BodyFlow'
    BY <1>1, <1>4 DEF BodyFlow
  <1>8. PartFlow'
    <2>1. mem[body] = PieceOf(1, written) /\ Offset(1) <= written
      BY <1>1, <1>4 DEF Flow, BodyFlow, Piece
    <2>2. \A i \in DOMAIN part' : i = 1 /\ part'[i].buf = body /\ part'[i].state = "running"
      BY <1>3
    <2> QED BY <1>1, <1>3, <2>1, <2>2 DEF PartFlow, Piece
  <1> QED BY <1>6, <1>7, <1>8 DEF Flow

(* The next part. *)
LEMMA NextEventFlow ==
  ASSUME Shape, Flow, upl # "done", NextEvent, upl' # "done" PROVE Flow'
  <1> USE DEF Shape
  <1>1. /\ upl = "loop" /\ out # <<>> /\ out' = Tail(out)
        /\ UNCHANGED <<client, curr, mem, written, body, stored>>
    BY DEF NextEvent, app, service
  <1>2. Head(out) = out[1] /\ 1 \in DOMAIN out /\ out[1].data \in OptBuffer
    BY <1>1, Receives DEF Types, UploadEvent
  <1>3. ~out[1].abort /\ StartPart(out[1].data) /\ upl' = IF out[1].done THEN "wait" ELSE "loop"
    BY <1>2 DEF NextEvent, Aborts, ReturnError, Return
  <1>4. part \in Seq(PartRec) /\ Len(part) \in Nat /\ Len(part) >= 1 /\ DOMAIN part = 1 .. Len(part)
    BY <1>1 DEF Types, PartRec, Flow, PartFlow
  <1>5. ~Held /\ ~Held' /\ Taken = Len(part) /\ Place(1) = Len(part) + 1
    <2>1. ~Held /\ ~Held'
      BY <1>1, <1>3 DEF Held
    <2>2. Taken = Len(part)
      BY <1>4, <2>1 DEF Taken
    <2> QED BY <2>1, <2>2, Places
  <1>6. PICK k \in Nat \ {0} : k = Len(part) + 1 /\ k # 1
    <2>1. Len(part) + 1 \in Nat \ {0} /\ Len(part) + 1 # 1
      BY <1>4
    <2> QED BY <2>1
  <1>7. /\ out[1].data # None => mem[out[1].data] = PieceOf(k, written) /\ Offset(k - 1) <= written
        /\ ~out[1].done => Offset(k) <= written
        /\ out[1].done => out[1].data # None /\ written <= Offset(k)
    BY <1>2, <1>3, <1>5, <1>6 DEF Flow, OutFlow, Piece
  <1>8. out[1].data # None
    BY <1>2, <1>3, <1>7 DEF Events
  <1>9. /\ Len(part') = k /\ DOMAIN part' = 1 .. k
        /\ \A i \in 1 .. Len(part) : part'[i] = part[i]
        /\ part'[k] = [buf |-> out[1].data, state |-> "running"]
    BY <1>2, <1>3, <1>4, <1>6, <1>8, StartsPart
  <1>10. Taken' = Taken + 1
    BY <1>5, <1>6, <1>9 DEF Taken
  <1>11. CurrFlow' /\ OutFlow'
    BY <1>1, <1>3, <1>10, ReceiveFlow
  <1>12. BodyFlow'
    BY <1>3, <1>5 DEF BodyFlow
  <1>13. PartFlow'
    <2>1. ASSUME NEW i \in DOMAIN part'
          PROVE  /\ part'[i].state = "running" => mem[part'[i].buf] = PieceOf(i, written)
                 /\ part'[i].state = "ok" => i \in DOMAIN stored /\ stored[i] = PieceOf(i, written)
      <3>1. CASE i \in DOMAIN part
        BY <1>4, <1>9, <3>1 DEF Flow, PartFlow, Piece
      <3>2. CASE i \notin DOMAIN part
        <4>1. i = k
          BY <1>4, <1>6, <1>9, <3>2
        <4> QED BY <1>7, <1>8, <1>9, <4>1
      <3> QED BY <3>1, <3>2
    <2>2. Len(part') >= 1
      BY <1>9
    <2>3. /\ upl' = "loop" => Offset(Len(part')) <= written
          /\ upl' = "wait" => Offset(Len(part') - 1) <= written /\ written <= Offset(Len(part'))
          /\ upl' # "complete"
      BY <1>3, <1>7, <1>8, <1>9
    <2> QED BY <1>1, <2>1, <2>2, <2>3 DEF PartFlow, Piece
  <1> QED BY <1>11, <1>12, <1>13 DEF Flow

(* The end of a part. *)
LEMMA UploadPartFlow ==
  ASSUME Shape, Flow, upl # "done", NEW i \in DOMAIN part, UploadPart(i) PROVE Flow'
  <1> USE DEF Shape
  <1>1. /\ part[i].state = "running" /\ UNCHANGED <<client, curr, mem, written, out, body, upl>>
    BY DEF UploadPart, app
  <1>2. PICK arrived \in BOOLEAN, ok \in BOOLEAN :
           /\ ok => arrived
           /\ stored' = IF arrived
                        THEN [k \in DOMAIN stored \union {i} |-> IF k = i THEN mem[part[i].buf] ELSE stored[k]]
                        ELSE stored
           /\ EndPart(i, IF ok THEN "ok" ELSE "failed")
    BY DEF UploadPart
  <1>3. part \in Seq(PartRec)
    BY DEF Types, PartRec
  <1> DEFINE s == IF ok THEN "ok" ELSE "failed"
  <1>4. s \in {"ok", "failed"} /\ EndPart(i, s)
    BY <1>2
  <1>5. (ok <=> s = "ok") /\ s # "running"
    OBVIOUS
  <1> HIDE DEF s
  <1>6. /\ Len(part') = Len(part) /\ DOMAIN part' = DOMAIN part
        /\ part'[i] = [buf |-> part[i].buf, state |-> s]
        /\ \A j \in DOMAIN part : j # i => part'[j] = part[j]
    BY <1>3, <1>4, EndsPart
  <1>7. Held' = Held /\ Taken' = Taken
    BY <1>1, <1>6 DEF Held, Taken
  <1>8. (\A k : Place(k)' = Place(k)) /\ CurrPlace' = CurrPlace
    BY <1>1, <1>7, SamePlaces
  <1>9. CurrFlow' /\ OutFlow' /\ BodyFlow'
    <2>1. CurrFlow /\ OutFlow /\ BodyFlow
      BY DEF Flow
    <2>2. CurrFlow' /\ OutFlow'
      BY <1>1, <1>8, <2>1 DEF CurrFlow, Writing, OutFlow, Piece
    <2> QED BY <1>1, <1>7, <2>1, <2>2 DEF BodyFlow, Piece
  <1>10. PartFlow'
    <2>1. PartFlow
      BY DEF Flow
    <2>2. mem[part[i].buf] = PieceOf(i, written)
      BY <1>1, <2>1 DEF PartFlow, Piece
    <2>3. ASSUME NEW j \in DOMAIN stored, j # i PROVE j \in DOMAIN stored' /\ stored'[j] = stored[j]
      BY <1>2, <2>3
    <2>4. ok => i \in DOMAIN stored' /\ stored'[i] = PieceOf(i, written)
      BY <1>2, <2>2
    <2>5. ASSUME NEW j \in DOMAIN part
          PROVE  /\ part'[j].state = "running" => mem[part'[j].buf] = PieceOf(j, written)
                 /\ part'[j].state = "ok" => j \in DOMAIN stored' /\ stored'[j] = PieceOf(j, written)
      <3>1. CASE j = i
        BY <1>5, <1>6, <2>4, <3>1
      <3>2. CASE j # i
        BY <1>6, <2>1, <2>3, <3>2 DEF PartFlow, Piece
      <3> QED BY <3>1, <3>2
    <2> QED BY <1>1, <1>6, <2>1, <2>5 DEF PartFlow, Piece
  <1> QED BY <1>9, <1>10 DEF Flow

(* Nothing goes on after the end. *)
LEMMA DoneStays == ASSUME Next, upl' # "done" PROVE upl # "done"
  <1>1. CASE (\E n \in 1 .. MaxWritten : Write(n)) \/ SendBuffer \/ WriteFails \/ BeginComplete \/ SendDone
             \/ CompleteReturns \/ BeginAbort \/ SendAbort \/ OtherUpload
    BY <1>1 DEF Write, SendBuffer, WriteFails, BeginComplete, SendDone, CompleteReturns, BeginAbort, SendAbort,
       OtherUpload, InitUpload, worker
  <1>2. CASE \/ FirstEvent \/ PutObject \/ CreateMultipartUpload \/ NextEvent
             \/ (\E i \in DOMAIN part : UploadPart(i))
             \/ GroupWait \/ CompleteMultipartUpload \/ AbortMultipartUpload
    BY <1>2 DEF FirstEvent, PutObject, CreateMultipartUpload, NextEvent, UploadPart, GroupWait,
       CompleteMultipartUpload, AbortMultipartUpload
  <1> QED BY <1>1, <1>2, NextSteps

(* Every byte stays in its piece. *)
LEMMA FlowKept == ASSUME Shape, Flow, Next PROVE Flow'
  <1>1. CASE upl' = "done"
    BY <1>1 DEF Flow
  <1>2. CASE upl' # "done"
    <2>1. upl # "done"
      BY <1>2, DoneStays
    <2>2. CASE \E n \in 1 .. MaxWritten : Write(n)
      BY <2>1, <2>2, WriteFlow
    <2>3. CASE SendBuffer
      BY <2>1, <2>3, SendBufferFlow
    <2>4. CASE SendDone
      BY <2>1, <2>4, SendDoneFlow
    <2>5. CASE SendAbort
      BY <2>1, <2>5, SendAbortFlow
    <2>6. CASE WriteFails \/ CompleteReturns
      BY <2>1, <2>6 DEF WriteFails, CompleteReturns, DoneCase, Closed
    <2>7. CASE BeginComplete \/ BeginAbort
      BY <2>1, <2>7, FlowFrame DEF BeginComplete, BeginAbort, InitUpload, service
    <2>8. CASE OtherUpload
      <3>1. \A b \in Buffer \ pool : mem'[b] = mem[b]
        BY <2>8 DEF OtherUpload, Shape, Types
      <3> QED BY <2>1, <2>8, <3>1, FlowFrame DEF OtherUpload, app, worker, service
    <2>9. CASE FirstEvent
      BY <1>2, <2>1, <2>9, FirstEventFlow
    <2>10. CASE CreateMultipartUpload
      BY <1>2, <2>1, <2>10, CreateFlow
    <2>11. CASE NextEvent
      BY <1>2, <2>1, <2>11, NextEventFlow
    <2>12. CASE \E i \in DOMAIN part : UploadPart(i)
      BY <2>1, <2>12, UploadPartFlow
    <2>13. CASE GroupWait
      BY <1>2, <2>1, <2>13, FlowFrame DEF GroupWait, ReturnError, Return, app, service
    <2>14. CASE PutObject \/ CompleteMultipartUpload
      BY <1>2, <2>14 DEF PutObject, ReturnPut, CompleteMultipartUpload, ReturnCompleted, ReturnError, Return
    <2>15. CASE AbortMultipartUpload
      BY <2>1, <2>15 DEF AbortMultipartUpload, Shape, Stages
    <2> QED BY <2>2, <2>3, <2>4, <2>5, <2>6, <2>7, <2>8, <2>9, <2>10, <2>11, <2>12, <2>13, <2>14, <2>15, NextSteps
  <1> QED BY <1>1, <1>2

-----------------------------------------------------------------------------
(* The pieces put together are what was written. *)

(* Some element of a set of numbers is the least one. *)
LEMMA LeastNumber ==
  ASSUME NEW T \in SUBSET Nat, T # {}
  PROVE  \E x \in T : \A y \in T : x <= y
  <1>1. PICK x \in T : \A y \in T : ~(<<y, x>> \in OpToRel(<, Nat))
    BY NatLessThanWellFounded, WFMin, Zenon
  <1>2. \A y \in T : ~(y < x)
    BY <1>1 DEF OpToRel
  <1> QED BY <1>2

\* f joins s: the i-th value is what the first i members of s are together.
Joins(f, s, n) == f = [i \in 1 .. n |-> IF i = 1 THEN s[i] ELSE f[i - 1] \o s[i]]

(* There is only one such function. *)
LEMMA JoinsOnce ==
  ASSUME NEW n \in Nat, NEW s, NEW f, NEW g, Joins(f, s, n), Joins(g, s, n)
  PROVE  \A i \in 1 .. n : f[i] = g[i]
  <1>1. \A i \in 1 .. n : /\ f[i] = IF i = 1 THEN s[i] ELSE f[i - 1] \o s[i]
                          /\ g[i] = IF i = 1 THEN s[i] ELSE g[i - 1] \o s[i]
    BY Zenon DEF Joins
  <1> DEFINE Differ == {i \in 1 .. n : f[i] # g[i]}
  <1>2. Differ \in SUBSET Nat
    OBVIOUS
  <1>3. ASSUME NEW i \in Differ, \A j \in Differ : i <= j PROVE FALSE
    <2>1. i \in 1 .. n /\ f[i] # g[i]
      OBVIOUS
    <2>2. CASE i = 1
      BY <1>1, <2>1, <2>2
    <2>3. CASE i # 1
      <3>1. i - 1 \in 1 .. n /\ ~(i <= i - 1)
        BY <2>1, <2>3
      <3>2. f[i - 1] = g[i - 1]
        BY <1>3, <3>1
      <3> QED BY <1>1, <2>1, <2>3, <3>2
    <2> QED BY <2>2, <2>3
  <1>4. Differ = {}
    <2> HIDE DEF Differ
    <2> QED BY <1>2, <1>3, LeastNumber
  <1> QED BY <1>4

(* FlattenSeq joins. *)
LEMMA FlattenJoins ==
  ASSUME NEW n \in Nat \ {0}, NEW s, Len(s) = n, NEW g, Joins(g, s, n)
  PROVE  FlattenSeq(s) = g[n]
  <1> DEFINE f == CHOOSE h : h = [i \in 1 .. Len(s) |-> IF i = 1 THEN s[i] ELSE h[i - 1] \o s[i]]
  <1>1. FlattenSeq(s) = f[n]
    <2>1. Len(s) # 0
      OBVIOUS
    <2> QED BY <2>1, Zenon DEF FlattenSeq
  <1>2. Joins(f, s, n)
    BY Zenon DEF Joins
  <1> HIDE DEF f
  <1>3. n \in Nat /\ n \in 1 .. n
    OBVIOUS
  <1>4. f[n] = g[n]
    BY <1>2, <1>3, JoinsOnce
  <1> QED BY <1>1, <1>4

(* All pieces together are the bytes that were written. *)
LEMMA PiecesJoined ==
  ASSUME NEW n \in Nat \ {0}, NEW w \in Nat, NEW s, Len(s) = n, \A i \in 1 .. n : s[i] = PieceOf(i, w),
         Offset(n - 1) <= w, w <= Offset(n)
  PROVE  FlattenSeq(s) = Bytes(1, w)
  <1> DEFINE End(i) == IF Offset(i) <= w THEN Offset(i) ELSE w
             g == [i \in 1 .. n |-> Bytes(1, End(i))]
  <1>1. \A i \in 1 .. n : End(i) \in Nat
    BY Offsets
  <1>2. ASSUME NEW i \in 1 .. n, i # 1
        PROVE  i - 1 \in 1 .. n /\ End(i - 1) = Offset(i - 1) /\ Offset(i - 1) \in Nat /\ Offset(i - 1) <= End(i)
    <2>1. i - 1 \in 1 .. n /\ i - 1 \in Nat /\ n - 1 \in Nat /\ i - 1 <= n - 1 /\ i \in Nat /\ i - 1 <= i
      BY <1>2
    <2>2. Offset(i - 1) \in Nat /\ Offset(n - 1) \in Nat /\ Offset(i) \in Nat
      BY <2>1, Offsets
    <2>3. Offset(i - 1) <= Offset(n - 1) /\ Offset(i - 1) <= Offset(i)
      BY <2>1, OffsetsGrow
    <2>4. Offset(i - 1) <= w
      BY <2>2, <2>3
    <2> QED BY <2>1, <2>2, <2>3, <2>4
  <1>3. ASSUME NEW i \in 1 .. n
        PROVE  Bytes(1, End(i)) = IF i = 1 THEN s[i] ELSE g[i - 1] \o s[i]
    <2>1. CASE i = 1
      <3>1. Offset(i - 1) + 1 = 1
        <4>1. i - 1 = 0
          BY <2>1
        <4> QED BY <4>1, Offsets
      <3>2. s[i] = Bytes(Offset(i - 1) + 1, End(i))
        BY DEF PieceOf
      <3> QED BY <2>1, <3>1, <3>2
    <2>2. CASE i # 1
      <3> DEFINE a == Offset(i - 1)  b == End(i)
      <3>1. a \in Nat /\ b \in Nat /\ a <= b /\ g[i - 1] = Bytes(1, a)
        BY <1>1, <1>2, <2>2
      <3>2. s[i] = Bytes(a + 1, b)
        BY DEF PieceOf
      <3> HIDE DEF a, b
      <3>3. 1 \in Nat /\ 1 <= a + 1
        BY <3>1
      <3>4. Bytes(1, a) \o Bytes(a + 1, b) = Bytes(1, b)
        BY <3>1, <3>3, BytesConcat
      <3> QED BY <2>2, <3>1, <3>2, <3>4 DEF b
    <2> QED BY <2>1, <2>2
  <1>4. Joins(g, s, n)
    <2>1. g = [i \in 1 .. n |-> IF i = 1 THEN s[i] ELSE g[i - 1] \o s[i]]
      BY <1>3, Zenon
    <2> HIDE DEF g
    <2> QED BY <2>1, Zenon DEF Joins
  <1>5. g[n] = Bytes(1, w)
    <2>1. n \in 1 .. n /\ Offset(n) \in Nat
      BY Offsets
    <2>2. End(n) = w
      BY <2>1
    <2> QED BY <2>1, <2>2
  <1> HIDE DEF g
  <1> QED BY <1>4, <1>5, FlattenJoins

(* The service assembles what was written: when all parts are there, the i-th is the i-th piece. *)
LEMMA Assembled ==
  ASSUME Shape, Flow, upl = "complete"
  PROVE  Assemble = Bytes(1, written)
  <1> USE DEF Shape
  <1>1. PICK n \in Nat \ {0} : n = Len(part) /\ DOMAIN part = 1 .. n
    <2>1. Len(part) \in Nat /\ Len(part) >= 1 /\ DOMAIN part = 1 .. Len(part)
      BY DEF Types, Flow, PartFlow
    <2>2. Len(part) \in Nat \ {0}
      BY <2>1
    <2> QED BY <2>1, <2>2
  <1>2. DOMAIN stored = 1 .. n /\ \A i \in 1 .. n : stored[i] = PieceOf(i, written)
    <2>1. \A i \in DOMAIN part : i \in DOMAIN stored /\ stored[i] = PieceOf(i, written)
      BY DEF Stages, Flow, PartFlow, Piece
    <2> QED BY <1>1, <2>1 DEF Types
  <1>3. \A k \in 0 .. n : Cardinality(1 .. k) = k
    <2> TAKE k \in 0 .. n
    <2>1. 1 \in Int /\ k \in Int /\ (IF 1 > k THEN 0 ELSE k - 1 + 1) = k
      OBVIOUS
    <2>2. Cardinality(1 .. k) = IF 1 > k THEN 0 ELSE k - 1 + 1
      BY <2>1, FS_Interval
    <2> QED BY <2>1, <2>2
  <1>4. Cardinality(DOMAIN stored) = n
    <2>1. n \in 0 .. n
      OBVIOUS
    <2> QED BY <1>2, <1>3, <2>1
  <1>5. ASSUME NEW k \in 1 .. n PROVE Cardinality({j \in DOMAIN stored : j <= k}) = k
    <2>1. {j \in DOMAIN stored : j <= k} = 1 .. k
      BY <1>2
    <2>2. k \in 0 .. n
      OBVIOUS
    <2> QED BY <1>3, <2>1, <2>2
  <1> DEFINE At(i) == CHOOSE k \in DOMAIN stored : Cardinality({j \in DOMAIN stored : j <= k}) = i
             s == [i \in 1 .. n |-> stored[At(i)]]
  <1>6. ASSUME NEW i \in 1 .. n PROVE At(i) = i
    <2>1. \E k \in DOMAIN stored : Cardinality({j \in DOMAIN stored : j <= k}) = i
      BY <1>2, <1>5
    <2>2. At(i) \in DOMAIN stored /\ Cardinality({j \in DOMAIN stored : j <= At(i)}) = i
      BY <2>1, Zenon
    <2> HIDE DEF At
    <2> QED BY <1>2, <1>5, <2>2
  <1>7. Assemble = FlattenSeq(s)
    BY <1>4, Zenon DEF Assemble
  <1>8. \A i \in 1 .. n : s[i] = PieceOf(i, written)
    <2> HIDE DEF At
    <2> QED BY <1>2, <1>6
  <1>9. Len(s) = n
    <2> HIDE DEF At
    <2> QED OBVIOUS
  <1>10. written \in Nat /\ Offset(n - 1) <= written /\ written <= Offset(n)
    BY <1>1, Constants DEF TypeOK, Flow, PartFlow
  <1> HIDE DEF s
  <1> QED BY <1>7, <1>8, <1>9, <1>10, PiecesJoined

(* Putting the object in one request stores what was written. *)
LEMMA PutStores ==
  ASSUME Shape, Flow, upl = "put"
  PROVE  (IF body = None THEN <<>> ELSE mem[body]) = Bytes(1, written)
  <1> USE DEF Shape
  <1>1. BodyFlow /\ written \in Nat
    BY Constants DEF Flow, TypeOK
  <1>2. CASE body = None
    <2>1. written = 0
      BY <1>1, <1>2 DEF BodyFlow
    <2>2. Bytes(0 + 1, 0) = <<>>
      BY EmptyPiece
    <2> QED BY <1>2, <2>1, <2>2
  <1>3. CASE body # None
    <2>1. mem[body] = PieceOf(1, written) /\ written <= Offset(1)
      BY <1>1, <1>3 DEF BodyFlow, Held, Piece
    <2>2. 1 \in Nat \ {0} /\ 1 - 1 = 0 /\ Offset(0) + 1 = 1
      BY Offsets
    <2>3. PieceOf(1, written) = Bytes(Offset(1 - 1) + 1, written)
      BY <1>1, <2>1, <2>2, LastPiece
    <2> QED BY <1>3, <2>1, <2>2, <2>3
  <1> QED BY <1>2, <1>3

(* Only two requests make an object, and it is what was written. *)
LEMMA ObjectSteps ==
  ASSUME Shape, Flow, Next, object' # object
  PROVE  /\ upl \in {"put", "complete"} /\ client \in {"waiting", "returned"} /\ UNCHANGED <<client, written>>
         /\ object' = Bytes(1, written)
  <1> USE DEF Shape
  <1>1. PutObject \/ CompleteMultipartUpload
    <2>1. CASE \/ (\E n \in 1 .. MaxWritten : Write(n)) \/ SendBuffer \/ WriteFails \/ BeginComplete \/ SendDone
               \/ CompleteReturns \/ BeginAbort \/ SendAbort \/ OtherUpload
      BY <2>1 DEF Write, SendBuffer, WriteFails, BeginComplete, SendDone, CompleteReturns, BeginAbort, SendAbort,
         OtherUpload, service
    <2>2. CASE \/ FirstEvent \/ CreateMultipartUpload \/ NextEvent \/ (\E i \in DOMAIN part : UploadPart(i))
               \/ GroupWait \/ AbortMultipartUpload
      BY <2>2 DEF FirstEvent, CreateMultipartUpload, NextEvent, UploadPart, GroupWait, AbortMultipartUpload, service
    <2> QED BY <2>1, <2>2, NextSteps
  <1>2. upl \in {"put", "complete"} /\ UNCHANGED <<client, written>>
    BY <1>1 DEF PutObject, CompleteMultipartUpload, app
  <1>3. client \in {"waiting", "returned"}
    BY <1>2 DEF Stages
  <1>4. CASE PutObject
    <2>1. upl = "put" /\ object' \in {object, IF body = None THEN <<>> ELSE mem[body]}
      BY <1>4 DEF PutObject
    <2>2. object' = Bytes(1, written)
      BY <2>1, PutStores, Zenon
    <2> QED BY <1>2, <1>3, <2>2
  <1>5. CASE CompleteMultipartUpload
    <2>1. upl = "complete" /\ object' \in {object, Assemble}
      BY <1>5 DEF CompleteMultipartUpload
    <2>2. object' = Bytes(1, written)
      BY <2>1, Assembled, Zenon
    <2> QED BY <1>2, <1>3, <2>2
  <1> QED BY <1>1, <1>4, <1>5

(* What was written is an object. *)
LEMMA WrittenIsObject == ASSUME TypeOK PROVE Bytes(1, written) # None
  <1>1. written \in Nat /\ 1 \in Nat /\ 1 <= written + 1
    BY Constants DEF TypeOK
  <1> QED BY <1>1, BytesType, Constants

(* An object is what was written. *)
LEMMA ObjectKept ==
  ASSUME Shape, Flow, ObjectIsWhatWasWritten, Next PROVE ObjectIsWhatWasWritten'
  <1> USE DEF Shape
  <1>1. CASE object' # object
    BY <1>1, ObjectSteps DEF ObjectIsWhatWasWritten
  <1>2. CASE object' = object /\ object # None
    <2>1. upl = "done" /\ client \in {"waiting", "returned"} /\ object = Bytes(1, written)
      BY <1>2 DEF Stages, ObjectIsWhatWasWritten
    <2>2. client' \in {"waiting", "returned"} /\ written' = written
      <3>1. CASE (\E n \in 1 .. MaxWritten : Write(n)) \/ SendBuffer \/ WriteFails \/ BeginComplete \/ SendDone
        BY <2>1, <3>1 DEF Write, SendBuffer, WriteFails, BeginComplete, SendDone
      <3>2. CASE CompleteReturns \/ BeginAbort \/ SendAbort \/ OtherUpload
        BY <2>1, <3>2 DEF CompleteReturns, BeginAbort, SendAbort, OtherUpload, app
      <3>3. CASE \/ FirstEvent \/ PutObject \/ CreateMultipartUpload \/ NextEvent
                 \/ (\E i \in DOMAIN part : UploadPart(i))
                 \/ GroupWait \/ CompleteMultipartUpload \/ AbortMultipartUpload
        BY <2>1, <3>3 DEF FirstEvent, PutObject, CreateMultipartUpload, NextEvent, UploadPart, GroupWait,
           CompleteMultipartUpload, AbortMultipartUpload, app
      <3> QED BY <3>1, <3>2, <3>3, NextSteps
    <2> QED BY <1>2, <2>1, <2>2 DEF ObjectIsWhatWasWritten
  <1>3. CASE object' = None
    BY <1>3 DEF ObjectIsWhatWasWritten
  <1> QED BY <1>1, <1>2, <1>3

(* No success without an object. *)
LEMMA OkKept ==
  ASSUME Shape, Flow, OkMeansStored, Next PROVE OkMeansStored'
  <1> USE DEF Shape
  <1>1. Bytes(1, written) # None
    BY WrittenIsObject
  <1>2. object # None => object' # None
    BY <1>1, ObjectSteps
  <1>3. CASE result' = result \/ result' # "ok"
    BY <1>2, <1>3 DEF OkMeansStored
  <1>4. CASE PutObject
    BY <1>1, <1>4, PutStores DEF PutObject, ReturnPut, Return, OkMeansStored
  <1>5. CASE CompleteMultipartUpload
    BY <1>1, <1>5, Assembled DEF CompleteMultipartUpload, ReturnCompleted, ReturnError, Return, OkMeansStored
  <1>6. CASE \/ (\E n \in 1 .. MaxWritten : Write(n)) \/ SendBuffer \/ WriteFails \/ BeginComplete \/ SendDone
             \/ CompleteReturns \/ BeginAbort \/ SendAbort \/ OtherUpload
    BY <1>3, <1>6 DEF Write, SendBuffer, WriteFails, BeginComplete, SendDone, CompleteReturns, BeginAbort,
       SendAbort, OtherUpload, worker
  <1>7. CASE \/ FirstEvent \/ CreateMultipartUpload \/ NextEvent \/ (\E i \in DOMAIN part : UploadPart(i))
             \/ GroupWait \/ AbortMultipartUpload
    BY <1>3, <1>7 DEF FirstEvent, CreateMultipartUpload, NextEvent, UploadPart, GroupWait, AbortMultipartUpload,
       ReturnError, Return
  <1> QED BY <1>4, <1>5, <1>6, <1>7, NextSteps

\* An abort in the channel, with no end of the upload before it.
AbortAhead(i) == i \in DOMAIN out /\ out[i].abort /\ \A j \in DOMAIN out : out[j].done => i < j

(* An abort stays ahead of the end until it arrives. *)
LEMMA AbortKept ==
  ASSUME Shape, Flow, ObjectIsWhatWasWritten, OkMeansStored, AbortInv, Next PROVE AbortInv'
  <1> USE DEF Shape
  <1>a. out \in Seq(UploadEvent) /\ DOMAIN out = 1 .. Len(out) /\ Len(out) \in Nat
    BY DEF Types
  <1>b. curr \in OptBuffer /\ None \in OptBuffer
    BY DEF TypeOK, OptBuffer
  <1>c. AbortInv <=> (abortFirst => /\ object = None /\ result # "ok"
                                    /\ upl # "done" => upl \in {"first", "create", "loop"} /\ \E i : AbortAhead(i))
    BY DEF AbortInv, AbortAhead
  <1>d. AbortInv' <=> (abortFirst' => /\ object' = None /\ result' # "ok"
                                      /\ upl' # "done" => upl' \in {"first", "create", "loop"} /\ \E i : AbortAhead(i)')
    BY DEF AbortInv, AbortAhead
  <1>1. ASSUME NEW e \in UploadEvent, out' = Append(out, e), NEW i, AbortAhead(i) PROVE AbortAhead(i)'
    <2>1. /\ DOMAIN out' = 1 .. Len(out) + 1 /\ \A j \in DOMAIN out : out'[j] = out[j]
      BY <1>a, <1>1, Sends
    <2>2. i \in DOMAIN out' /\ out'[i].abort
      BY <1>a, <1>1, <2>1 DEF AbortAhead
    <2>3. \A j \in DOMAIN out' : j \in DOMAIN out \/ i < j
      BY <1>a, <1>1, <2>1 DEF AbortAhead
    <2> QED BY <1>1, <2>1, <2>2, <2>3 DEF AbortAhead
  <1>2. ASSUME UNCHANGED out, NEW i, AbortAhead(i) PROVE AbortAhead(i)'
    BY <1>2 DEF AbortAhead
  <1>3. CASE \E n \in 1 .. MaxWritten : Write(n)
    BY <1>c, <1>d, <1>2, <1>3 DEF Write, InitUpload, service
  <1>4. CASE SendBuffer
    <2>1. [data |-> curr, abort |-> FALSE, done |-> FALSE] \in UploadEvent
      BY <1>b DEF UploadEvent
    <2> QED BY <1>c, <1>d, <1>1, <1>4, <2>1 DEF SendBuffer, worker, service
  <1>5. CASE SendDone
    <2>1. [data |-> curr, abort |-> FALSE, done |-> TRUE] \in UploadEvent
      BY <1>b DEF UploadEvent
    <2> QED BY <1>c, <1>d, <1>1, <1>2, <1>5, <2>1 DEF SendDone, worker, service
  <1>6. CASE WriteFails \/ BeginComplete \/ CompleteReturns \/ BeginAbort \/ OtherUpload
    BY <1>c, <1>d, <1>2, <1>6 DEF WriteFails, BeginComplete, CompleteReturns, BeginAbort, OtherUpload, InitUpload,
       app, worker, service
  <1>7. CASE SendAbort
    <2>1. UNCHANGED <<object, result, upl, client>> /\ aborter = "sending"
      BY <1>7 DEF SendAbort, worker, service
    <2>2. CASE UNCHANGED <<out, abortFirst>>
      BY <1>c, <1>d, <1>2, <2>1, <2>2
    <2>3. CASE ~UNCHANGED <<out, abortFirst>>
      <3> DEFINE e == [data |-> None, abort |-> TRUE, done |-> FALSE]
      <3>1. e \in UploadEvent /\ e.abort /\ ~e.done
        BY <1>b DEF UploadEvent
      <3>2. out' = Append(out, e) /\ (abortFirst' => client \in {"idle", "writing", "completing"})
        BY <1>7, <2>3 DEF SendAbort
      <3> HIDE DEF e
      <3> SUFFICES ASSUME abortFirst' PROVE AbortInv'
        BY <1>d
      <3>3. object = None /\ result # "ok"
        BY <3>2 DEF ObjectIsWhatWasWritten, OkMeansStored
      <3>4. upl # "done" => upl \in {"first", "create", "loop"}
        BY <2>1, <3>2 DEF Stages, Calls, TypeOK
      <3>5. \A j \in DOMAIN out : ~out[j].done
        BY <3>2 DEF Events
      <3>6. /\ DOMAIN out' = 1 .. Len(out) + 1 /\ \A j \in DOMAIN out : out'[j] = out[j]
            /\ out'[Len(out) + 1] = e
        BY <1>a, <3>1, <3>2, Sends
      <3>7. \A j \in DOMAIN out' : ~out'[j].done
        BY <1>a, <3>1, <3>5, <3>6
      <3>8. PICK m : m = Len(out) + 1
        OBVIOUS
      <3>9. AbortAhead(m)'
        BY <1>a, <3>1, <3>6, <3>7, <3>8 DEF AbortAhead
      <3> QED BY <1>d, <2>1, <3>3, <3>4, <3>9
    <2> QED BY <2>2, <2>3
  <1>8. CASE FirstEvent \/ NextEvent
    <2>1. out # <<>> /\ out' = Tail(out) /\ UNCHANGED <<object, abortFirst>> /\ upl \in {"first", "loop"}
      BY <1>8 DEF FirstEvent, NextEvent, app, service
    <2>2. Head(out) = out[1] /\ 1 \in DOMAIN out
      BY <1>a, <2>1, Receives
    <2>3. \/ upl' = "done" /\ result' = "failed"
          \/ /\ ~out[1].abort /\ result' = result
             /\ out[1].done \/ upl' \in {"create", "loop"}
      BY <1>8, <2>2 DEF FirstEvent, NextEvent, Aborts, ReturnError, Return
    <2>4. CASE ~abortFirst
      BY <1>d, <2>1, <2>4
    <2>5. CASE abortFirst /\ upl' = "done" /\ result' = "failed"
      BY <1>c, <1>d, <2>1, <2>5
    <2>6. CASE abortFirst /\ ~(upl' = "done" /\ result' = "failed")
      <3>1. PICK i : AbortAhead(i)
        BY <1>c, <2>1, <2>6
      <3>2. i \in DOMAIN out /\ out[i].abort /\ (\A j \in DOMAIN out : out[j].done => i < j) /\ ~out[1].abort
        BY <2>3, <2>6, <3>1 DEF AbortAhead
      <3>3. i # 1 /\ i \in 1 .. Len(out) /\ ~(i < 1)
        BY <1>a, <3>2
      <3>4. ~out[1].done
        BY <2>2, <3>2, <3>3
      <3>5. \A j \in DOMAIN out' : j + 1 \in DOMAIN out /\ out'[j] = out[j + 1] /\ j \in Nat
        BY <1>a, <2>1, Receives
      <3>6. PICK k \in Nat : k = i - 1 /\ k \in DOMAIN out' /\ k + 1 = i
        <4>1. i - 1 \in Nat /\ i - 1 + 1 = i
          BY <1>a, <3>3
        <4>2. DOMAIN out' = 1 .. Len(out) - 1
          BY <1>a, <2>1, Receives
        <4>3. i - 1 \in DOMAIN out'
          BY <1>a, <3>3, <4>2
        <4> QED BY <4>1, <4>3
      <3>7. AbortAhead(k)'
        <4>1. out'[k].abort
          BY <3>2, <3>5, <3>6
        <4>2. ASSUME NEW j \in DOMAIN out', out'[j].done PROVE k < j
          <5>1. i < j + 1 /\ j \in Nat
            BY <3>2, <3>5, <4>2
          <5> QED BY <3>6, <5>1
        <4> QED BY <3>6, <4>1, <4>2 DEF AbortAhead
      <3> QED BY <1>c, <1>d, <2>1, <2>3, <2>6, <3>4, <3>7
    <2> QED BY <2>4, <2>5, <2>6
  <1>9. CASE CreateMultipartUpload
    BY <1>c, <1>d, <1>2, <1>9 DEF CreateMultipartUpload, Return, app
  <1>10. CASE PutObject \/ GroupWait \/ CompleteMultipartUpload
    <2>1. upl \in {"put", "wait", "complete"} /\ abortFirst' = abortFirst
      BY <1>10 DEF PutObject, GroupWait, CompleteMultipartUpload, app
    <2> QED BY <1>c, <1>d, <2>1
  <1>11. CASE \E i \in DOMAIN part : UploadPart(i)
    BY <1>c, <1>d, <1>2, <1>11 DEF UploadPart, app
  <1>12. CASE AbortMultipartUpload
    BY <1>c, <1>d, <1>2, <1>12 DEF AbortMultipartUpload, app
  <1> QED BY <1>3, <1>4, <1>5, <1>6, <1>7, <1>8, <1>9, <1>10, <1>11, <1>12, NextSteps

-----------------------------------------------------------------------------
(* The theorems. *)

(* At most one element. *)
LEMMA AtMostOne ==
  ASSUME NEW S, \A x, y \in S : x = y
  PROVE  Cardinality(S) = IF S = {} THEN 0 ELSE 1
  <1>1. CASE S = {}
    BY <1>1, FS_EmptySet
  <1>2. CASE S # {}
    <2>1. PICK x \in S : TRUE
      BY <1>2
    <2>2. S = {x}
      BY <2>1
    <2> QED BY <1>2, <2>2, FS_Singleton
  <1> QED BY <1>1, <1>2

(* Owners that exclude each other, pair by pair, are at most one. *)
LEMMA SeparateOwners == ASSUME Shape PROVE OneOwner
  <1> USE DEF Shape
  <1> SUFFICES ASSUME NEW b \in Buffer
               PROVE  Cardinality({i \in DOMAIN out : out[i].data = b})
                      + Cardinality({i \in DOMAIN part : part[i].buf = b /\ part[i].state = "running"})
                      + (IF b = curr THEN 1 ELSE 0) + (IF b \in pool THEN 1 ELSE 0)
                      + (IF b = body /\ upl \in {"put", "create"} THEN 1 ELSE 0) <= 1
    BY DEF OneOwner
  <1> DEFINE Sent == {i \in DOMAIN out : out[i].data = b}
             Running == {i \in DOMAIN part : part[i].buf = b /\ part[i].state = "running"}
             First == b = body /\ upl \in {"put", "create"}
  <1>1. b # None
    BY Constants
  <1>2. Cardinality(Sent) = IF Sent = {} THEN 0 ELSE 1
    <2>1. \A i, j \in Sent : i = j
      BY <1>1 DEF Separate
    <2> QED BY <2>1, AtMostOne
  <1>3. Cardinality(Running) = IF Running = {} THEN 0 ELSE 1
    <2>1. \A i, j \in Running : i = j
      BY DEF Separate
    <2> QED BY <2>1, AtMostOne
  <1>4. First => Held
    BY <1>1 DEF Held
  <1>5. Sent # {} => Running = {} /\ b # curr /\ b \notin pool /\ ~First
    BY <1>1, <1>4 DEF Separate
  <1>6. Running # {} => b # curr /\ b \notin pool /\ ~First
    <2> SUFFICES ASSUME NEW i \in Running PROVE b # curr /\ b \notin pool /\ ~First
      OBVIOUS
    <2>1. part # <<>>
      OBVIOUS
    <2> QED BY <2>1 DEF Separate, Stages
  <1>7. b = curr => b \notin pool /\ ~First
    BY <1>1, <1>4 DEF Separate
  <1>8. First => b \notin pool
    BY <1>4 DEF Separate
  <1> HIDE DEF Sent, Running, First
  <1>9. Cardinality(Sent) + Cardinality(Running) + (IF b = curr THEN 1 ELSE 0) + (IF b \in pool THEN 1 ELSE 0)
        + (IF First THEN 1 ELSE 0) <= 1
    BY <1>2, <1>3, <1>5, <1>6, <1>7, <1>8
  <1> QED BY <1>9 DEF Sent, Running, First

(* The invariant holds before the first call. *)
LEMMA InvHolds == ASSUME Init PROVE Inv
  <1> USE DEF Init
  <1>1. <<>> \in Seq(Nat) /\ Len(<<>>) = 0 /\ DOMAIN <<>> = {} /\ <<>> \in Seq(UploadEvent)
        /\ <<>> \in Seq([buf: Buffer, state: {"running", "ok", "failed"}])
    OBVIOUS
  <1>2. TypeOK /\ Types
    <2>1. DataTypes
      BY <1>1, Constants DEF DataTypes
    <2>2. ChannelTypes /\ PartTypes
      BY <1>1, Constants DEF ChannelTypes, PartTypes
    <2>3. PlaceTypes
      BY DEF PlaceTypes, OptBuffer
    <2> QED BY <2>1, <2>2, <2>3, TypeParts
  <1>3. Calls /\ Events /\ Stages /\ Separate
    BY <1>1 DEF Calls, Events, Stages, Separate, Held
  <1>4. Flow
    <2>1. ~Held /\ Taken = 0
      BY <1>1 DEF Held, Taken
    <2>2. CurrPlace = 1
      <3>1. Len(out) + 1 = 1 /\ Place(1) = Taken + 1
        BY <1>1, <1>2, Places
      <3> QED BY <2>1, <3>1 DEF CurrPlace
    <2> QED BY <1>1, <2>1, <2>2 DEF Flow, CurrFlow, OutFlow, BodyFlow, PartFlow
  <1>5. ObjectIsWhatWasWritten /\ OkMeansStored /\ AbortInv
    BY DEF ObjectIsWhatWasWritten, OkMeansStored, AbortInv
  <1> QED BY <1>2, <1>3, <1>4, <1>5 DEF Inv

(* Every step keeps it. *)
LEMMA InvKept == ASSUME Inv, [Next]_vars PROVE Inv'
  <1>1. CASE Next
    <2>1. Shape /\ Flow /\ ObjectIsWhatWasWritten /\ OkMeansStored /\ AbortInv
      BY DEF Inv, Shape
    <2>2. TypeOK' /\ Types'
      BY <1>1, <2>1, TypesKept DEF Shape
    <2>3. Calls' /\ Events' /\ Stages' /\ Separate'
      BY <1>1, <2>1, CallsKept, EventsKept, StagesKept, SeparateKept
    <2>4. Flow'
      BY <1>1, <2>1, FlowKept
    <2>5. ObjectIsWhatWasWritten' /\ OkMeansStored' /\ AbortInv'
      BY <1>1, <2>1, ObjectKept, OkKept, AbortKept
    <2> QED BY <2>2, <2>3, <2>4, <2>5 DEF Inv
  <1>2. CASE UNCHANGED vars
    <2>1. UNCHANGED <<client, rest, written, curr, aborter, abortFirst, mem, pool, out, upl, body, part, result,
                      cleanup, mpu, stored, object>>
      BY <1>2 DEF vars, app, worker, service
    <2>2. TypeOK' /\ Types' /\ Calls' /\ Events' /\ Stages' /\ Separate'
      BY <2>1 DEF Inv, TypeOK, Types, Calls, Events, Stages, Separate, Held
    <2>3. Flow'
      <3>1. Held' = Held /\ Taken' = Taken
        BY <2>1 DEF Held, Taken
      <3>2. (\A i : Place(i)' = Place(i)) /\ CurrPlace' = CurrPlace
        BY <2>1, <3>1, SamePlaces
      <3> QED BY <2>1, <3>1, <3>2 DEF Inv, Flow, CurrFlow, OutFlow, BodyFlow, PartFlow, Piece, Writing
    <2>4. ObjectIsWhatWasWritten' /\ OkMeansStored' /\ AbortInv'
      BY <2>1 DEF Inv, ObjectIsWhatWasWritten, OkMeansStored, AbortInv
    <2> QED BY <2>2, <2>3, <2>4 DEF Inv
  <1> QED BY <1>1, <1>2

(* The inductive invariant: up to the end of the upload, every byte that Write has copied is in its    *)
(* piece, and every piece in one place.                                                                *)
THEOREM UploadInvariance == Spec => []Inv
  <1>1. Init => Inv
    BY InvHolds
  <1>2. Inv /\ [Next]_vars => Inv'
    BY InvKept
  <1> QED BY <1>1, <1>2, PTL DEF Spec

(* A buffer of the pool is never with two of the writer, the channel, the goroutine of the upload and  *)
(* the requests of its parts, and Complete returns no success without an object.                       *)
THEOREM BuffersHaveOneOwner == Spec => []UploadInv
  <1>1. Inv => UploadInv
    <2> SUFFICES ASSUME Inv PROVE UploadInv
      OBVIOUS
    <2>1. OneOwner
      BY SeparateOwners DEF Inv, Shape
    <2> QED BY <2>1 DEF Inv, UploadInv, SuccessMeansStored, OkMeansStored
  <1> QED BY <1>1, UploadInvariance, PTL

(* The object is what the application wrote, whole and in order, in buffers of any size and however    *)
(* many parts there are, whichever requests fail or are carried out without an answer, and it is there *)
(* only once Complete was called.                                                                      *)
THEOREM ObjectIsWhole == Spec => []ObjectIsWhatWasWritten
  <1>1. Inv => ObjectIsWhatWasWritten
    BY DEF Inv
  <1> QED BY <1>1, UploadInvariance, PTL

(* An Abort that was sent before Complete was is never overtaken by it: there is no object and no      *)
(* success.                                                                                            *)
THEOREM AbortIsNotOvertaken == Spec => []AbortWins
  <1>1. Inv => AbortWins
    BY DEF Inv, AbortInv, AbortWins
  <1> QED BY <1>1, UploadInvariance, PTL
=============================================================================
