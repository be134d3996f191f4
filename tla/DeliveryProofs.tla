-------------------------- MODULE DeliveryProofs --------------------------
(***************************************************************************)
(* Proofs about module Delivery, for any providers, retry policies,        *)
(* workers and bounds: no message is lost, none is handled twice without a *)
(* cause, none is given up early, and delays grow.                         *)
(***************************************************************************)
EXTENDS Delivery, FiniteSetTheorems, WellFoundedInduction, TLAPS

(* The bounds are numbers. *)
LEMMA Bounds ==
  /\ MaxCopies \in Nat \ {0} /\ DefaultRetries \in Nat \ {0}
  /\ MaxFaults \in Nat /\ MaxRestarts \in Nat
  /\ Modulus \in Nat \ {0, 1} /\ Second \in Nat \ {0}
  BY DeliveryAssumption DEF DeliveryAssumption

(* Some element of a set of numbers is the least one. *)
LEMMA LeastElement ==
  ASSUME NEW T \in SUBSET Nat, T # {}
  PROVE  \E x \in T : \A y \in T : x <= y
  <1>1. PICK x \in T : \A y \in T : ~(<<y, x>> \in OpToRel(<, Nat))
    BY NatLessThanWellFounded, WFMin, Zenon
  <1>2. \A y \in T : ~(y < x)
    BY <1>1 DEF OpToRel
  <1> QED BY <1>2

-----------------------------------------------------------------------------
(* The retry policy. *)

\* f doubles, from 1, n times.
Doubles(f, n) ==
    f \in [0 .. n -> Nat \ {0}] /\ f[0] = 1 /\ \A i \in 1 .. n : f[i] = 2 * f[i - 1]

(* A table of the powers that the loop of GetDelay goes through exists: a shortest *)
(* one that does not could be made from the one before it.                         *)
LEMMA DoublesExist == \E f : Doubles(f, Modulus - 1)
  <1> DEFINE Missing == {n \in Nat : ~\E f : Doubles(f, n)}
  <1>1. 0 \notin Missing
    <2>1. Doubles([i \in 0 .. 0 |-> 1], 0)
      BY DEF Doubles
    <2> QED BY <2>1
  <1>2. ASSUME NEW n \in Missing, \A m \in Missing : n <= m PROVE FALSE
    <2>1. n \in Nat \ {0} /\ n - 1 \in Nat /\ n - 1 \notin Missing
      BY <1>1, <1>2
    <2>2. PICK f : Doubles(f, n - 1)
      BY <2>1
    <2> DEFINE g == [i \in 0 .. n |-> IF i = n THEN 2 * f[n - 1] ELSE f[i]]
    <2>3. \A i \in 0 .. n - 1 : f[i] \in Nat \ {0}
      BY <2>1, <2>2 DEF Doubles
    <2>4. g \in [0 .. n -> Nat \ {0}]
      BY <2>1, <2>3
    <2>5. g[0] = 1
      BY <2>1, <2>2 DEF Doubles
    <2>6. ASSUME NEW i \in 1 .. n PROVE g[i] = 2 * g[i - 1]
      <3>1. i \in 0 .. n /\ i - 1 \in 0 .. n /\ i - 1 # n
        BY <2>1
      <3>2. g[i] = (IF i = n THEN 2 * f[n - 1] ELSE f[i]) /\ g[i - 1] = f[i - 1]
        BY <3>1
      <3>3. i # n => f[i] = 2 * f[i - 1]
        <4>1. i # n => i \in 1 .. n - 1
          BY <2>1
        <4> QED BY <2>2, <4>1 DEF Doubles
      <3> HIDE DEF g
      <3> QED BY <3>2, <3>3
    <2>7. Doubles(g, n)
      BY <2>4, <2>5, <2>6 DEF Doubles
    <2> QED BY <2>7
  <1>3. Missing = {}
    <2> SUFFICES ASSUME Missing # {} PROVE FALSE
      OBVIOUS
    <2>1. PICK n \in Missing : \A m \in Missing : n <= m
      BY LeastElement, Zenon
    <2> QED BY <1>2, <2>1
  <1>4. Modulus - 1 \in Nat
    BY Bounds
  <1> QED BY <1>3, <1>4

(* The recursive definition of Doubled defines such a table. *)
LEMMA DoubledEquation ==
  Doubled = [n \in 0 .. Modulus - 1 |-> IF n = 0 THEN 1 ELSE 2 * Doubled[n - 1]]
  <1>1. PICK f : Doubles(f, Modulus - 1)
    BY DoublesExist
  <1>2. f = [n \in 0 .. Modulus - 1 |-> IF n = 0 THEN 1 ELSE 2 * f[n - 1]]
    BY <1>1, Bounds DEF Doubles
  <1> QED BY <1>2, Zenon DEF Doubled

(* It multiplies by at least 1, and by more the more rounds there are. *)
LEMMA DoubledGrows ==
  /\ \A n \in 0 .. Modulus - 1 : Doubled[n] \in Nat \ {0}
  /\ Doubled[0] = 1
  /\ \A m, n \in 0 .. Modulus - 1 : m <= n => Doubled[m] <= Doubled[n]
  <1>1. /\ Doubled[0] = 1
        /\ \A n \in 1 .. Modulus - 1 : Doubled[n] = 2 * Doubled[n - 1]
    <2> HIDE DEF Doubled
    <2> QED BY DoubledEquation, Bounds
  <1> HIDE DEF Doubled
  <1>2. \A n \in 0 .. Modulus - 1 : Doubled[n] \in Nat \ {0}
    <2> DEFINE Wrong == {n \in 0 .. Modulus - 1 : Doubled[n] \notin Nat \ {0}}
    <2>1. ASSUME Wrong # {} PROVE FALSE
      <3>1. Wrong \in SUBSET Nat
        BY Bounds
      <3>2. PICK n \in Wrong : \A m \in Wrong : n <= m
        BY <2>1, <3>1, LeastElement, Zenon
      <3>3. n \in 1 .. Modulus - 1 /\ n - 1 \in 0 .. Modulus - 1 /\ n - 1 \notin Wrong
        BY <1>1, <3>2, Bounds
      <3>4. Doubled[n] = 2 * Doubled[n - 1] /\ Doubled[n - 1] \in Nat \ {0}
        BY <1>1, <3>3
      <3> QED BY <3>2, <3>4
    <2> QED BY <2>1
  <1>3. ASSUME NEW m \in 0 .. Modulus - 1 PROVE \A n \in 0 .. Modulus - 1 : m <= n => Doubled[m] <= Doubled[n]
    <2> DEFINE Wrong == {n \in 0 .. Modulus - 1 : m <= n /\ ~(Doubled[m] <= Doubled[n])}
    <2>1. ASSUME Wrong # {} PROVE FALSE
      <3>1. Wrong \in SUBSET Nat
        BY Bounds
      <3>2. PICK n \in Wrong : \A k \in Wrong : n <= k
        BY <2>1, <3>1, LeastElement, Zenon
      <3>3. n # m
        BY <1>2, <3>2
      <3>4. n \in 1 .. Modulus - 1 /\ n - 1 \in 0 .. Modulus - 1 /\ m <= n - 1 /\ n - 1 \notin Wrong
        BY <3>2, <3>3, Bounds
      <3>5. Doubled[n] = 2 * Doubled[n - 1] /\ Doubled[n - 1] \in Nat \ {0} /\ Doubled[m] \in Nat
        BY <1>1, <1>2, <3>4
      <3>6. Doubled[m] <= Doubled[n - 1]
        BY <3>4
      <3> QED BY <3>2, <3>5, <3>6
    <2> QED BY <2>1
  <1> QED BY <1>1, <1>2, <1>3

-----------------------------------------------------------------------------
(* The inductive invariant. *)

Shape ==
    /\ copy \in [Copy -> {"none", "queued", "delayed", "leased"}]
    /\ lease \in [Copy -> Worker \union {None}]
    /\ worker \in [Worker -> {"idle", "received", "running", "ok", "failed", "skipped", "scheduled"}]
    /\ holds \in [Worker -> Copy \union {None}]
    /\ \A c \in Copy : copy[c] = "leased" <=> lease[c] # None
    /\ \A w \in Worker : worker[w] = "idle" <=> holds[w] = None
    /\ successes \in Nat /\ faults \in Nat /\ overwritten \in BOOLEAN

\* A worker after which its copy has nothing more to do.
Spent(w) == worker[w] \in {"ok", "scheduled"}

\* The copies that can still be handled: they wait, or their lease is with a worker
\* that has left them or is not through with them.
OpenCopies ==
    {c \in Copy : \/ copy[c] \in {"queued", "delayed"}
                  \/ copy[c] = "leased" /\ ~(holds[lease[c]] = c /\ Spent(lease[c]))}

Settled == successes > 0 \/ givenUp

\* While no error was overwritten: until the message is handled or given up a copy of it
\* can still be handled, and a worker says that its handler succeeded only if it did.
Kept ==
    ~overwritten =>
        /\ Settled \/ OpenCopies # {}
        /\ \A w \in Worker : worker[w] = "ok" => successes > 0

\* The workers whose handler may yet succeed although their lease is over.
LostWorkers == {w \in Worker : worker[w] # "idle" /\ ~Spent(w) /\ lease[holds[w]] # w}

\* Each of them can add one success; every further one was added by a fault.
Counted == successes + Cardinality(OpenCopies) + Cardinality(LostWorkers) <= 1 + faults

Books == Shape /\ Kept /\ Counted

\* An attempt is one delivery among those of the message.
Attempts ==
    /\ count \in [Copy -> 0 .. Modulus - 1] /\ attempt \in [Worker -> 0 .. Modulus - 1]
    /\ deliveries \in 0 .. Modulus
    /\ \A c \in Copy : count[c] <= deliveries
    /\ \A w \in Worker : attempt[w] <= deliveries /\ (worker[w] # "idle" => deliveries >= 1)

Fixed == provider \in Provider /\ policy \in Policy /\ parses \in BOOLEAN

Modes ==
    /\ ctx \in {"live", "noFetch", "noHandler", "closed"} /\ fetching \in {"on", "failed"}
    /\ givenUp \in BOOLEAN /\ connecting \in BOOLEAN /\ restarts \in 0 .. MaxRestarts

\* What the provider is told after attempt a.
Told(a) == IF provider = "aws" THEN Clamped(Delay(a)) ELSE Delay(a)

LastTold ==
    /\ lastRetry \in [attempt : 0 .. Modulus - 1, delay : Nat]
    /\ lastRetry = [attempt |-> 0, delay |-> 0] \/ lastRetry.delay = Told(lastRetry.attempt)

DInv == Fixed /\ Modes /\ Books /\ Attempts /\ LastTold

-----------------------------------------------------------------------------
(* Sizes of the sets that are counted. *)

(* What one element more or less does to the size of a finite set. *)
LEMMA Sizes ==
  ASSUME NEW U, IsFiniteSet(U), NEW A \in SUBSET U, NEW B \in SUBSET U
  PROVE  /\ Cardinality(A) \in Nat /\ Cardinality(B) \in Nat
         /\ A \subseteq B => Cardinality(A) <= Cardinality(B)
         /\ \A x : A \subseteq B \union {x} => Cardinality(A) <= Cardinality(B) + 1
         /\ \A x \in B : A \subseteq B \ {x} => Cardinality(A) <= Cardinality(B) - 1
  <1>1. IsFiniteSet(A) /\ IsFiniteSet(B) /\ Cardinality(A) \in Nat /\ Cardinality(B) \in Nat
    BY FS_Subset, FS_CardinalityType
  <1>2. A \subseteq B => Cardinality(A) <= Cardinality(B)
    BY <1>1, FS_Subset
  <1>3. ASSUME NEW x, A \subseteq B \union {x} PROVE Cardinality(A) <= Cardinality(B) + 1
    <2>1. IsFiniteSet(B \union {x}) /\ Cardinality(B \union {x}) = IF x \in B THEN Cardinality(B) ELSE Cardinality(B) + 1
      BY <1>1, FS_AddElement
    <2>2. Cardinality(A) <= Cardinality(B \union {x})
      BY <1>3, <2>1, FS_Subset
    <2> QED BY <1>1, <2>1, <2>2
  <1>4. ASSUME NEW x \in B, A \subseteq B \ {x} PROVE Cardinality(A) <= Cardinality(B) - 1
    <2>1. IsFiniteSet(B \ {x}) /\ Cardinality(B \ {x}) = Cardinality(B) - 1
      BY <1>1, FS_RemoveElement
    <2> QED BY <1>4, <2>1, FS_Subset
  <1> QED BY <1>1, <1>2, <1>3, <1>4

(* There are finitely many copies and workers, None is not among them. *)
LEMMA FinitelyMany ==
  IsFiniteSet(Copy) /\ IsFiniteSet(Worker) /\ None \notin Worker /\ None \notin Copy /\ Copy \subseteq Nat
  <1>1. IsFiniteSet(1 .. MaxCopies)
    BY Bounds, FS_Interval
  <1> QED BY <1>1, Bounds, DeliveryAssumption DEF DeliveryAssumption, Copy

(* The sets that are counted are finite, before and after a step. *)
LEMMA TokenSets ==
  /\ OpenCopies \in SUBSET Copy /\ OpenCopies' \in SUBSET Copy
  /\ LostWorkers \in SUBSET Worker /\ LostWorkers' \in SUBSET Worker
  /\ Cardinality(OpenCopies) \in Nat /\ Cardinality(OpenCopies') \in Nat
  /\ Cardinality(LostWorkers) \in Nat /\ Cardinality(LostWorkers') \in Nat
  <1>1. /\ OpenCopies \in SUBSET Copy /\ OpenCopies' \in SUBSET Copy
        /\ LostWorkers \in SUBSET Worker /\ LostWorkers' \in SUBSET Worker
    BY DEF OpenCopies, LostWorkers
  <1> QED BY <1>1, FinitelyMany, Sizes

-----------------------------------------------------------------------------
(* The books, step by step. *)

(* A worker leaves its copy unsettled; if the handler had succeeded under its lease, *)
(* that is a fault.                                                                  *)
LEMMA LetGoBooks ==
  ASSUME Books, NEW w \in Worker, worker[w] # "idle", Free(w), faults' \in Nat, faults' >= faults,
         Spent(w) /\ Holds(w) => faults' >= faults + 1,
         UNCHANGED <<copy, lease, successes, givenUp, overwritten>>
  PROVE  Books'
  <1>1. Shape'
    BY FinitelyMany DEF Books, Shape, Free
  <1>2. Kept'
    <2>1. OpenCopies \subseteq OpenCopies'
      BY FinitelyMany DEF Books, Shape, OpenCopies, Spent, Free
    <2>2. \A v \in Worker : worker'[v] = "ok" => worker[v] = "ok"
      BY DEF Books, Shape, Free
    <2> QED BY <2>1, <2>2 DEF Books, Kept, Settled
  <1>3. LostWorkers' \subseteq LostWorkers
    BY DEF Books, Shape, LostWorkers, Spent, Free
  <1>4. OpenCopies' \subseteq OpenCopies \union {holds[w]}
    BY FinitelyMany DEF Books, Shape, OpenCopies, Spent, Free
  <1>5. ~(Spent(w) /\ Holds(w)) => OpenCopies' \subseteq OpenCopies
    BY FinitelyMany DEF Books, Shape, OpenCopies, Spent, Free, Holds
  <1>7. Cardinality(LostWorkers') <= Cardinality(LostWorkers)
    BY <1>3, TokenSets, FinitelyMany, Sizes
  <1>8. Cardinality(OpenCopies') <= Cardinality(OpenCopies) + 1
        /\ (~(Spent(w) /\ Holds(w)) => Cardinality(OpenCopies') <= Cardinality(OpenCopies))
    BY <1>4, <1>5, TokenSets, FinitelyMany, Sizes
  <1>9. Counted'
    BY <1>7, <1>8, TokenSets DEF Books, Counted, Shape
  <1> QED BY <1>1, <1>2, <1>9 DEF Books

(* A settling call takes effect: the copy is gone after a success, a retry or the last *)
(* attempt, or is to be delivered again.                                              *)
LEMMA SettledBooks ==
  ASSUME Books, NEW w \in Worker, worker[w] # "idle", Free(w), NEW s \in {"none", "delayed"},
         Leaves(holds[w], s),
         UNCHANGED <<faults, successes, overwritten>>, givenUp => givenUp',
         s = "delayed" => Holds(w) /\ ~Spent(w),
         s = "none" => (Spent(w) /\ Holds(w)) \/ worker[w] = "ok" \/ givenUp'
  PROVE  Books'
  <1>0. PICK c \in Copy : c = holds[w] /\ None \notin Worker /\ None \notin Copy
    BY FinitelyMany DEF Books, Shape
  <1>1. copy' = [copy EXCEPT ![c] = s] /\ lease' = [lease EXCEPT ![c] = None]
    BY <1>0 DEF Leaves
  <1>2. Shape'
    BY <1>0, <1>1 DEF Books, Shape, Free
  <1>3. Kept'
    <2> SUFFICES ASSUME ~overwritten
                 PROVE  /\ Settled' \/ OpenCopies' # {}
                        /\ \A v \in Worker : worker'[v] = "ok" => successes' > 0
      BY DEF Kept
    <2>1. \A v \in Worker : worker'[v] = "ok" => worker[v] = "ok"
      BY DEF Books, Shape, Free
    <2>2. \A v \in Worker : worker'[v] = "ok" => successes' > 0
      BY <2>1 DEF Books, Kept
    <2>3. CASE s = "delayed"
      <3>1. c \in OpenCopies'
        BY <1>1, <2>3 DEF OpenCopies, Books, Shape
      <3> QED BY <2>2, <3>1
    <2>4. CASE s = "none" /\ Spent(w) /\ Holds(w)
      <3>1. copy[c] = "leased" /\ c \notin OpenCopies
        BY <1>0, <2>4 DEF Holds, OpenCopies, Books, Shape
      <3>2. \A d \in Copy \ {c} : copy'[d] = copy[d] /\ lease'[d] = lease[d] /\ (copy[d] = "leased" => lease[d] \in Worker)
        BY <1>1 DEF Books, Shape
      <3>3. \A v \in Worker \ {w} : worker'[v] = worker[v] /\ holds'[v] = holds[v]
        BY DEF Books, Shape, Free
      <3>4. holds'[w] = None
        BY DEF Books, Shape, Free
      <3>5. OpenCopies \subseteq OpenCopies'
        BY <1>0, <3>1, <3>2, <3>3, <3>4 DEF OpenCopies, Spent
      <3> QED BY <2>2, <3>5 DEF Books, Kept, Settled
    <2>5. CASE worker[w] = "ok" \/ givenUp'
      BY <2>2, <2>5 DEF Books, Kept, Settled
    <2> QED BY <2>3, <2>4, <2>5
  <1>6. OpenCopies' \subseteq OpenCopies
    BY <1>0, <1>1 DEF Books, Shape, OpenCopies, Spent, Free, Holds
  <1>7. Cardinality(OpenCopies') <= Cardinality(OpenCopies)
    BY TokenSets, <1>6, FinitelyMany, Sizes
  <1>8. CASE LostWorkers' \subseteq LostWorkers
    <2>1. Cardinality(LostWorkers') <= Cardinality(LostWorkers)
      BY TokenSets, <1>8, FinitelyMany, Sizes
    <2>2. Counted'
      BY TokenSets, <1>7, <2>1 DEF Books, Counted, Shape
    <2> QED BY <1>2, <1>3, <2>2 DEF Books
  <1>9. CASE ~(LostWorkers' \subseteq LostWorkers)
    <2>1. PICK v \in LostWorkers' : v \notin LostWorkers
      BY <1>9
    <2>2. v \in Worker /\ v # w /\ lease[c] = v /\ holds[v] = c /\ ~Spent(v) /\ worker[v] # "idle"
      BY <1>0, <1>1, <2>1 DEF Books, Shape, LostWorkers, Spent, Free
    <2>3. s = "none"
      BY <1>0, <2>2 DEF Holds
    <2>4. c \in OpenCopies /\ OpenCopies' \subseteq OpenCopies \ {c}
      <3>1. copy[c] = "leased" /\ copy'[c] = "none"
        BY <1>0, <1>1, <2>2, <2>3 DEF Books, Shape
      <3>2. c \in OpenCopies /\ c \notin OpenCopies'
        BY <2>2, <3>1 DEF OpenCopies
      <3> QED BY <1>6, <3>2
    <2>5. LostWorkers' \subseteq LostWorkers \union {v}
      BY <1>0, <1>1, <2>2 DEF Books, Shape, LostWorkers, Spent, Free
    <2>6. Cardinality(OpenCopies') <= Cardinality(OpenCopies) - 1
      BY TokenSets, <2>4, FinitelyMany, Sizes
    <2>7. Cardinality(LostWorkers') <= Cardinality(LostWorkers) + 1
      BY TokenSets, <2>5, FinitelyMany, Sizes
    <2>8. Counted'
      BY TokenSets, <2>6, <2>7 DEF Books, Counted, Shape
    <2> QED BY <1>2, <1>3, <2>8 DEF Books
  <1> QED BY <1>8, <1>9

(* A worker's call goes on, its handler returns, or, with NSQ, another handler *)
(* overwrites its error.                                                       *)
LEMMA MoveBooks ==
  ASSUME Books, NEW w \in Worker, worker[w] \notin {"idle", "scheduled"},
         NEW t \in {"running", "ok", "failed", "skipped"},
         worker' = [worker EXCEPT ![w] = t],
         UNCHANGED <<copy, lease, holds, givenUp>>, overwritten' \in BOOLEAN, overwritten => overwritten',
         \/ ~Spent(w) /\ t # "ok" /\ UNCHANGED <<successes, faults>>
         \/ ~Spent(w) /\ t = "ok" /\ successes' = successes + 1 /\ UNCHANGED faults
         \/ successes' = successes /\ faults' = faults + 1 /\ (t = "ok" => overwritten')
  PROVE  Books'
  <1>1. successes' \in Nat /\ faults' \in Nat /\ successes' >= successes /\ faults' >= faults
    BY DEF Books, Shape
  <1>2. Shape'
    BY <1>1 DEF Books, Shape
  <1>4. Kept'
    <2> SUFFICES ASSUME ~overwritten'
                 PROVE  /\ Settled' \/ OpenCopies' # {}
                        /\ \A v \in Worker : worker'[v] = "ok" => successes' > 0
      BY DEF Kept
    <2>1. t = "ok" => successes' > 0
      BY <1>1 DEF Books, Shape
    <2>2. \A v \in Worker : worker'[v] = "ok" => successes' > 0
      BY <1>1, <2>1 DEF Books, Shape, Kept
    <2>3. Settled => Settled'
      BY <1>1 DEF Settled, Books, Shape
    <2>4. t # "ok" => OpenCopies \subseteq OpenCopies'
      BY DEF OpenCopies, Spent, Books, Shape
    <2> QED BY <2>1, <2>2, <2>3, <2>4 DEF Books, Kept, Settled
  <1>5. Counted'
    <2>1. \A c \in Copy : copy[c] = "leased" => lease[c] \in Worker
      BY DEF Books, Shape
    <2>2. \A v \in Worker \ {w} : worker'[v] = worker[v]
      BY DEF Books, Shape
    <2>3. worker'[w] = t /\ worker[w] # "idle"
      BY DEF Books, Shape
    <2>4. CASE ~Spent(w) /\ t # "ok"
      <3>1. OpenCopies' \subseteq OpenCopies /\ LostWorkers' \subseteq LostWorkers
        BY <2>1, <2>2, <2>3, <2>4 DEF OpenCopies, LostWorkers, Spent
      <3>2. Cardinality(OpenCopies') <= Cardinality(OpenCopies) /\ Cardinality(LostWorkers') <= Cardinality(LostWorkers)
        BY <3>1, TokenSets, FinitelyMany, Sizes
      <3> QED BY <1>1, <2>4, <3>2, TokenSets DEF Books, Counted, Shape
    <2>5. CASE ~Spent(w) /\ t = "ok"
      <3>1. OpenCopies' \subseteq OpenCopies /\ LostWorkers' \subseteq LostWorkers
        BY <2>1, <2>2, <2>3, <2>5 DEF OpenCopies, LostWorkers, Spent
      <3>2. Cardinality(OpenCopies') <= Cardinality(OpenCopies) /\ Cardinality(LostWorkers') <= Cardinality(LostWorkers)
        BY <3>1, TokenSets, FinitelyMany, Sizes
      <3>3. CASE lease[holds[w]] = w
        <4>1. PICK c \in Copy : c = holds[w] /\ copy[c] = "leased" /\ lease[c] = w
          BY <2>3, <3>3, FinitelyMany DEF Books, Shape
        <4>2. c \in OpenCopies /\ OpenCopies' \subseteq OpenCopies \ {c}
          BY <2>3, <2>5, <3>1, <4>1 DEF OpenCopies, Spent
        <4>3. Cardinality(OpenCopies') <= Cardinality(OpenCopies) - 1
          BY <4>2, TokenSets, FinitelyMany, Sizes
        <4> QED BY <1>1, <3>2, <4>3, TokenSets DEF Books, Counted, Shape
      <3>4. CASE lease[holds[w]] # w
        <4>1. w \in LostWorkers /\ LostWorkers' \subseteq LostWorkers \ {w}
          BY <2>3, <2>5, <3>1, <3>4 DEF LostWorkers, Spent
        <4>2. Cardinality(LostWorkers') <= Cardinality(LostWorkers) - 1
          BY <4>1, TokenSets, FinitelyMany, Sizes
        <4> QED BY <1>1, <3>2, <4>2, TokenSets DEF Books, Counted, Shape
      <3> QED BY <3>3, <3>4
    <2>6. CASE Spent(w)
      <3>0. successes' = successes /\ faults' = faults + 1
        BY <2>6
      <3>1. CASE lease[holds[w]] = w
        <4>1. OpenCopies' \subseteq OpenCopies \union {holds[w]} /\ LostWorkers' \subseteq LostWorkers
          BY <2>1, <2>2, <2>3, <3>1 DEF OpenCopies, LostWorkers, Spent
        <4>2. Cardinality(OpenCopies') <= Cardinality(OpenCopies) + 1 /\ Cardinality(LostWorkers') <= Cardinality(LostWorkers)
          BY <4>1, TokenSets, FinitelyMany, Sizes
        <4> QED BY <3>0, <4>2, TokenSets DEF Books, Counted, Shape
      <3>2. CASE lease[holds[w]] # w
        <4>1. OpenCopies' \subseteq OpenCopies /\ LostWorkers' \subseteq LostWorkers \union {w}
          BY <2>1, <2>2, <2>3, <3>2 DEF OpenCopies, LostWorkers, Spent
        <4>2. Cardinality(OpenCopies') <= Cardinality(OpenCopies) /\ Cardinality(LostWorkers') <= Cardinality(LostWorkers) + 1
          BY <4>1, TokenSets, FinitelyMany, Sizes
        <4> QED BY <3>0, <4>2, TokenSets DEF Books, Counted, Shape
      <3> QED BY <3>1, <3>2
    <2> QED BY <2>4, <2>5, <2>6
  <1> QED BY <1>2, <1>4, <1>5 DEF Books

(* NSQ: the connection is made, and some handlers that failed take its nil for theirs. *)
LEMMA ConnectedBooks ==
  ASSUME Books, Connected
  PROVE  Books'
  <1>1. PICK hit \in SUBSET {w \in Worker : worker[w] = "failed"} :
          /\ worker' = [w \in Worker |-> IF w \in hit THEN "ok" ELSE worker[w]]
          /\ overwritten' = (overwritten \/ hit # {})
    BY DEF Connected
  <1>2. UNCHANGED <<copy, lease, holds, successes, faults, givenUp>>
    BY DEF Connected, queue, tally
  <1>3. \A w \in Worker : worker'[w] = (IF w \in hit THEN "ok" ELSE worker[w]) /\ (w \in hit => worker[w] = "failed")
    BY <1>1
  <1>4. Shape'
    BY <1>1, <1>2, <1>3 DEF Books, Shape
  <1>5. Kept'
    <2>1. CASE hit # {}
      BY <1>1, <2>1 DEF Kept
    <2>2. CASE hit = {}
      <3>1. overwritten' = overwritten /\ \A w \in Worker : worker'[w] = worker[w]
        BY <1>1, <1>3, <2>2 DEF Books, Shape
      <3>2. OpenCopies \subseteq OpenCopies'
        BY <1>2, <3>1 DEF OpenCopies, Spent, Books, Shape
      <3> QED BY <1>2, <3>1, <3>2 DEF Books, Kept, Settled
    <2> QED BY <2>1, <2>2
  <1>6. OpenCopies' \subseteq OpenCopies /\ LostWorkers' \subseteq LostWorkers
    BY <1>2, <1>3 DEF OpenCopies, LostWorkers, Spent, Books, Shape
  <1>7. Cardinality(OpenCopies') <= Cardinality(OpenCopies) /\ Cardinality(LostWorkers') <= Cardinality(LostWorkers)
    BY <1>6, TokenSets, FinitelyMany, Sizes
  <1>8. Counted'
    BY <1>2, <1>7, TokenSets DEF Books, Counted, Shape
  <1> QED BY <1>4, <1>5, <1>8 DEF Books

(* Azure: another copy is scheduled, and the worker is to complete its own, or gives it *)
(* up because the send failed after all.                                               *)
LEMMA ScheduleBooks ==
  ASSUME Books, NEW w \in Worker, worker[w] = "failed", NEW n \in Copy, Unused(n),
         copy' = [copy EXCEPT ![n] = "delayed"],
         UNCHANGED <<lease, successes, givenUp, overwritten>>,
         \/ worker' = [worker EXCEPT ![w] = "scheduled"] /\ UNCHANGED <<holds, faults>>
         \/ Free(w) /\ faults' = faults + 1
  PROVE  Books'
  <1>0. None \notin Worker /\ None \notin Copy
    BY FinitelyMany
  <1>1. PICK c \in Copy : c = holds[w]
    BY <1>0 DEF Books, Shape
  <1>2. n # c /\ copy[n] = "none"
    BY <1>1 DEF Unused
  <1>3. Shape'
    BY <1>0, <1>2 DEF Books, Shape, Free
  <1>5. Kept'
    <2>1. n \in OpenCopies'
      BY DEF OpenCopies, Books, Shape
    <2>2. \A v \in Worker : worker'[v] = "ok" => worker[v] = "ok"
      BY DEF Books, Shape, Free
    <2> QED BY <2>1, <2>2 DEF Books, Kept
  <1>6. Counted'
    <2>1. n \notin OpenCopies /\ lease[n] = None
      BY <1>2 DEF Books, Shape, OpenCopies
    <2>2. OpenCopies' \subseteq OpenCopies \union {n} /\ LostWorkers' \subseteq LostWorkers
      <3>1. ASSUME NEW v \in Worker
            PROVE  \/ worker'[v] = worker[v] /\ holds'[v] = holds[v]
                   \/ v = w /\ worker'[v] = "idle" /\ holds'[v] = None
                   \/ v = w /\ worker'[v] = "scheduled" /\ holds'[v] = holds[v]
        <4>1. DOMAIN worker = Worker /\ DOMAIN holds = Worker
          BY DEF Books, Shape
        <4>2. CASE v = w
          BY <4>1, <4>2 DEF Free
        <4>3. CASE v # w
          BY <4>1, <4>3 DEF Free
        <4> QED BY <4>2, <4>3
      <3>2. LostWorkers' \subseteq LostWorkers
        BY <3>1 DEF LostWorkers, Spent
      <3>3. \A d \in Copy \ {n} : copy'[d] = copy[d] /\ (copy[d] = "leased" => lease[d] \in Worker)
        BY DEF Books, Shape
      <3>4. ~Spent(w)
        BY DEF Spent
      <3>5. ASSUME NEW d \in Copy \ {n}, d \in OpenCopies' PROVE d \in OpenCopies
        BY <1>0, <3>1, <3>3, <3>4, <3>5 DEF OpenCopies, Spent
      <3> QED BY <3>2, <3>5, TokenSets
    <2>3. Cardinality(OpenCopies') <= Cardinality(OpenCopies) + 1 /\ Cardinality(LostWorkers') <= Cardinality(LostWorkers)
      BY <2>2, TokenSets, FinitelyMany, Sizes
    <2>4. CASE faults' = faults + 1
      BY <2>3, <2>4, TokenSets DEF Books, Counted, Shape
    <2>5. CASE worker' = [worker EXCEPT ![w] = "scheduled"] /\ UNCHANGED <<holds, faults>>
      <3>1. worker'[w] = "scheduled" /\ \A v \in Worker \ {w} : worker'[v] = worker[v]
        BY <2>5 DEF Books, Shape
      <3>2. CASE lease[c] = w
        <4>1. c \in OpenCopies /\ c \notin OpenCopies' /\ copy'[c] = "leased"
          BY <1>0, <1>1, <1>2, <2>5, <3>1, <3>2 DEF Books, Shape, OpenCopies, Spent
        <4>2. OpenCopies' \subseteq (OpenCopies \ {c}) \union {n} /\ OpenCopies \ {c} \in SUBSET Copy
          BY <2>2, <4>1, TokenSets
        <4>3. Cardinality(OpenCopies \ {c}) <= Cardinality(OpenCopies) - 1 /\ Cardinality(OpenCopies \ {c}) \in Nat
          BY <4>1, <4>2, TokenSets, FinitelyMany, Sizes
        <4>4. Cardinality(OpenCopies') <= Cardinality(OpenCopies \ {c}) + 1
          BY <4>2, TokenSets, FinitelyMany, Sizes
        <4> QED BY <2>3, <2>5, <4>3, <4>4, TokenSets DEF Books, Counted, Shape
      <3>3. CASE lease[c] # w
        <4>1. w \in LostWorkers /\ w \notin LostWorkers'
          BY <1>1, <3>1, <3>3 DEF LostWorkers, Spent
        <4>2. Cardinality(LostWorkers') <= Cardinality(LostWorkers) - 1
          BY <2>2, <4>1, TokenSets, FinitelyMany, Sizes
        <4> QED BY <2>3, <2>5, <4>2, TokenSets DEF Books, Counted, Shape
      <3> QED BY <3>2, <3>3
    <2> QED BY <2>4, <2>5
  <1> QED BY <1>3, <1>5, <1>6 DEF Books

(* A copy is leased to a worker, or dropped by NSQ's consumer. *)
LEMMA DeliverBooks ==
  ASSUME Books, NEW w \in Worker, NEW c \in Copy, Deliver(w, c)
  PROVE  Books'
  <1>0. None \notin Worker /\ None \notin Copy /\ Copy \subseteq Nat
    BY FinitelyMany
  <1>1. copy[c] = "queued" /\ worker[w] = "idle" /\ lease[c] = None /\ UNCHANGED <<successes, faults, overwritten>>
    BY DEF Deliver, Books, Shape, nsqErr
  <1>2. CASE Leaves(c, "none") /\ givenUp' = TRUE /\ UNCHANGED <<workers, deliveries>>
    <2>1. UNCHANGED <<worker, holds>> /\ givenUp' /\ copy' = [copy EXCEPT ![c] = "none"] /\ lease' = [lease EXCEPT ![c] = None]
      BY <1>2 DEF workers, Leaves
    <2>2. \A d \in Copy \ {c} : copy'[d] = copy[d] /\ lease'[d] = lease[d]
      BY <2>1 DEF Books, Shape
    <2>3. copy'[c] = "none" /\ lease'[c] = None
      BY <2>1 DEF Books, Shape
    <2>4. Shape'
      BY <1>0, <1>1, <2>1, <2>2, <2>3 DEF Books, Shape
    <2>6. Kept'
      BY <1>1, <2>1 DEF Books, Kept, Settled
    <2>7. OpenCopies' \subseteq OpenCopies /\ LostWorkers' \subseteq LostWorkers
      BY <1>0, <1>1, <2>1, <2>2, <2>3 DEF OpenCopies, LostWorkers, Spent, Books, Shape
    <2>8. Cardinality(OpenCopies') <= Cardinality(OpenCopies) /\ Cardinality(LostWorkers') <= Cardinality(LostWorkers)
      BY <2>7, TokenSets, FinitelyMany, Sizes
    <2>9. Counted'
      BY <1>1, <2>8, TokenSets DEF Books, Counted, Shape
    <2> QED BY <2>4, <2>6, <2>9 DEF Books
  <1>3. CASE /\ copy' = [copy EXCEPT ![c] = "leased"] /\ lease' = [lease EXCEPT ![c] = w]
             /\ worker' = [worker EXCEPT ![w] = "received"] /\ holds' = [holds EXCEPT ![w] = c]
             /\ UNCHANGED givenUp
    <2>1. /\ copy'[c] = "leased" /\ lease'[c] = w /\ worker'[w] = "received" /\ holds'[w] = c
          /\ \A d \in Copy \ {c} : copy'[d] = copy[d] /\ lease'[d] = lease[d]
          /\ \A v \in Worker \ {w} : worker'[v] = worker[v] /\ holds'[v] = holds[v]
      BY <1>3 DEF Books, Shape
    <2>2. Shape'
      BY <1>0, <1>1, <1>3 DEF Books, Shape
    <2>4. Kept'
      <3>1. c \in OpenCopies'
        BY <2>1 DEF OpenCopies, Spent
      <3>2. \A v \in Worker : worker'[v] = "ok" => worker[v] = "ok"
        BY <2>1
      <3> QED BY <1>1, <3>1, <3>2 DEF Books, Kept
    <2>5. OpenCopies' \subseteq OpenCopies
      <3>1. c \in OpenCopies
        BY <1>1 DEF OpenCopies
      <3>2. ASSUME NEW d \in Copy \ {c}, d \in OpenCopies' PROVE d \in OpenCopies
        <4>1. copy[d] = "leased" => lease[d] \in Worker
          BY DEF Books, Shape
        <4>2. holds[w] = None /\ worker[w] = "idle"
          BY <1>1 DEF Books, Shape
        <4> QED BY <1>0, <2>1, <3>2, <4>1, <4>2 DEF OpenCopies, Spent
      <3> QED BY <3>1, <3>2, TokenSets
    <2>6. LostWorkers' \subseteq LostWorkers
      <3>1. w \notin LostWorkers'
        BY <2>1 DEF LostWorkers
      <3>2. ASSUME NEW v \in Worker \ {w}, v \in LostWorkers' PROVE v \in LostWorkers
        <4>1. worker[v] # "idle" => holds[v] \in Copy
          BY <1>0 DEF Books, Shape
        <4> QED BY <1>1, <2>1, <3>2, <4>1, <1>0 DEF LostWorkers, Spent
      <3> QED BY <3>1, <3>2, TokenSets
    <2>7. Cardinality(OpenCopies') <= Cardinality(OpenCopies) /\ Cardinality(LostWorkers') <= Cardinality(LostWorkers)
      BY <2>5, <2>6, TokenSets, FinitelyMany, Sizes
    <2>8. Counted'
      BY <1>1, <2>7, TokenSets DEF Books, Counted, Shape
    <2> QED BY <2>2, <2>4, <2>8 DEF Books
  <1> QED BY <1>2, <1>3 DEF Deliver

(* A lease ends: a fault, unless its worker had left the copy. *)
LEMMA ExpireBooks ==
  ASSUME Books, NEW c \in Copy, Expire(c)
  PROVE  Books'
  <1>0. None \notin Worker /\ None \notin Copy /\ Copy \subseteq Nat
    BY FinitelyMany
  <1>1. /\ copy' = [copy EXCEPT ![c] = "queued"] /\ lease' = [lease EXCEPT ![c] = None]
        /\ UNCHANGED <<worker, holds, successes, givenUp, overwritten>> /\ copy[c] = "leased"
        /\ faults' = IF Abandoned(c) THEN faults ELSE faults + 1
    BY DEF Expire, Leaves, workers, tally, nsqErr
  <1>2. PICK w \in Worker : lease[c] = w
    BY <1>1 DEF Books, Shape
  <1>3. /\ copy'[c] = "queued" /\ lease'[c] = None
        /\ \A d \in Copy \ {c} : copy'[d] = copy[d] /\ lease'[d] = lease[d]
    BY <1>1 DEF Books, Shape
  <1>4. Shape'
    BY <1>0, <1>1, <1>3 DEF Books, Shape
  <1>6. Kept'
    <2>1. c \in OpenCopies'
      BY <1>3 DEF OpenCopies
    <2> QED BY <1>1, <2>1 DEF Books, Kept
  <1>7. Counted'
    <2>1. OpenCopies' \subseteq OpenCopies \union {c}
      BY <1>1, <1>3 DEF OpenCopies, Spent
    <2>2. LostWorkers' \subseteq LostWorkers \union {w}
      BY <1>0, <1>1, <1>2, <1>3 DEF LostWorkers, Spent, Books, Shape
    <2>3. CASE Abandoned(c)
      <3>1. c \in OpenCopies /\ holds[w] # c
        BY <1>1, <1>2, <2>3 DEF OpenCopies, Abandoned
      <3>2. w \in LostWorkers' => w \in LostWorkers
        BY <1>0, <1>1, <1>3, <3>1 DEF LostWorkers, Spent, Books, Shape
      <3>3. OpenCopies' \subseteq OpenCopies /\ LostWorkers' \subseteq LostWorkers
        BY <2>1, <2>2, <3>1, <3>2
      <3>4. Cardinality(OpenCopies') <= Cardinality(OpenCopies) /\ Cardinality(LostWorkers') <= Cardinality(LostWorkers)
        BY <3>3, TokenSets, FinitelyMany, Sizes
      <3> QED BY <1>1, <2>3, <3>4, TokenSets DEF Books, Counted, Shape
    <2>4. CASE ~Abandoned(c) /\ Spent(w)
      <3>1. w \notin LostWorkers'
        BY <1>1, <2>4 DEF LostWorkers, Spent
      <3>2. LostWorkers' \subseteq LostWorkers
        BY <2>2, <3>1
      <3>3. Cardinality(OpenCopies') <= Cardinality(OpenCopies) + 1 /\ Cardinality(LostWorkers') <= Cardinality(LostWorkers)
        BY <2>1, <3>2, TokenSets, FinitelyMany, Sizes
      <3> QED BY <1>1, <2>4, <3>3, TokenSets DEF Books, Counted, Shape
    <2>5. CASE ~Abandoned(c) /\ ~Spent(w)
      <3>1. c \in OpenCopies
        BY <1>1, <1>2, <2>5 DEF OpenCopies
      <3>2. OpenCopies' \subseteq OpenCopies
        BY <2>1, <3>1
      <3>3. Cardinality(OpenCopies') <= Cardinality(OpenCopies) /\ Cardinality(LostWorkers') <= Cardinality(LostWorkers) + 1
        BY <2>2, <3>2, TokenSets, FinitelyMany, Sizes
      <3> QED BY <1>1, <2>5, <3>3, TokenSets DEF Books, Counted, Shape
    <2> QED BY <2>3, <2>4, <2>5
  <1> QED BY <1>4, <1>6, <1>7 DEF Books

(* A delay ends. *)
LEMMA DelayEndsBooks ==
  ASSUME Books, NEW c \in Copy, DelayEnds(c)
  PROVE  Books'
  <1>1. /\ copy[c] = "delayed" /\ copy'[c] = "queued" /\ \A d \in Copy \ {c} : copy'[d] = copy[d]
        /\ copy' \in [Copy -> {"none", "queued", "delayed", "leased"}]
        /\ UNCHANGED <<lease, worker, holds, successes, faults, givenUp, overwritten>>
    BY DEF DelayEnds, workers, tally, nsqErr, Books, Shape
  <1>2. Shape'
    BY <1>1 DEF Books, Shape
  <1>5. OpenCopies' = OpenCopies /\ LostWorkers' = LostWorkers
    BY <1>1 DEF OpenCopies, LostWorkers, Spent
  <1> QED BY <1>1, <1>2, <1>5 DEF Books, Kept, Settled, Counted

(* The process ends: what its workers had finished under their lease and not settled *)
(* is delivered again.                                                               *)
LEMMA RestartBooks ==
  ASSUME Books, Restart
  PROVE  Books'
  <1> DEFINE K == {w \in Worker : worker[w] \in {"ok", "scheduled"} /\ Holds(w)}
             D == {c \in Copy : copy[c] = "leased" /\ holds[lease[c]] = c /\ Spent(lease[c])}
  <1>0. IsFiniteSet(Worker) /\ None \notin Worker /\ None \notin Copy /\ Copy \subseteq Nat
    BY FinitelyMany
  <1>1. /\ UNCHANGED <<copy, lease, successes, givenUp, overwritten>>
        /\ worker' = [w \in Worker |-> "idle"] /\ holds' = [w \in Worker |-> None]
        /\ faults' = faults + Cardinality(K)
    BY DEF Restart, queue, tally
  <1>2. IsFiniteSet(K) /\ Cardinality(K) \in Nat
    BY <1>0, FS_Subset, FS_CardinalityType
  <1>3. D \in SUBSET Copy /\ IsFiniteSet(D) /\ Cardinality(D) \in Nat /\ Cardinality(D) <= Cardinality(K)
    <2> DEFINE f == [c \in D |-> lease[c]]
    <2>1. \A c \in D : lease[c] \in K
      BY <1>0 DEF Books, Shape, Spent, Holds
    <2>2. \A c, d \in D : lease[c] = lease[d] => c = d
      OBVIOUS
    <2>3. f \in Injection(D, K)
      BY <2>1, <2>2 DEF Injection, IsInjective
    <2>4. IsFiniteSet(D) /\ Cardinality(D) <= Cardinality(K)
      BY <1>2, <2>3, FS_Injection
    <2> QED BY <2>4, FS_CardinalityType
  <1>4. Shape'
    BY <1>0, <1>1, <1>2 DEF Books, Shape
  <1>6. Kept'
    <2>1. OpenCopies \subseteq OpenCopies'
      BY <1>0, <1>1 DEF OpenCopies, Books, Shape
    <2> QED BY <1>1, <2>1 DEF Books, Kept, Settled
  <1>7. LostWorkers' = {}
    BY <1>1 DEF LostWorkers
  <1>8. Cardinality(LostWorkers') = 0
    BY <1>7, FS_EmptySet
  <1>9. OpenCopies' \subseteq OpenCopies \union D
    BY <1>1 DEF OpenCopies, Spent
  <1>10. Cardinality(OpenCopies') <= Cardinality(OpenCopies) + Cardinality(D)
    <2>1. IsFiniteSet(OpenCopies) /\ Cardinality(OpenCopies \cap D) \in Nat
      BY <1>3, TokenSets, FinitelyMany, FS_Subset, FS_Intersection, FS_CardinalityType
    <2>2. IsFiniteSet(OpenCopies \union D)
          /\ Cardinality(OpenCopies \union D) = Cardinality(OpenCopies) + Cardinality(D) - Cardinality(OpenCopies \cap D)
      BY <1>3, <2>1, FS_Union
    <2>3. Cardinality(OpenCopies') <= Cardinality(OpenCopies \union D)
      BY <1>9, <2>2, FS_Subset
    <2> QED BY <1>3, <2>1, <2>2, <2>3, TokenSets
  <1>11. Counted'
    <2> HIDE DEF K, D
    <2> QED BY <1>1, <1>2, <1>3, <1>8, <1>10, TokenSets DEF Books, Counted, Shape
  <1> QED BY <1>4, <1>6, <1>11 DEF Books

(* A copy that is to be made is not used yet. *)
LEMMA NextCopyIsUnused ==
  ASSUME \E c \in Copy : Unused(c)
  PROVE  NextCopy \in Copy /\ Unused(NextCopy)
  BY Zenon DEF NextCopy

(* At first the only copy is queued. *)
LEMMA BooksInit == Init => Books
  <1> SUFFICES ASSUME Init PROVE Books
    OBVIOUS
  <1>0. 1 \in Copy
    BY Bounds DEF Copy
  <1>1. Shape
    BY FinitelyMany DEF Init, Shape
  <1>3. Kept
    <2>1. 1 \in OpenCopies
      BY <1>0 DEF Init, OpenCopies
    <2> QED BY <2>1 DEF Init, Kept
  <1>4. OpenCopies \subseteq {1} /\ LostWorkers = {} /\ successes = 0 /\ faults = 0
    BY DEF Init, OpenCopies, LostWorkers
  <1>5. Cardinality({1}) = 1 /\ Cardinality(LostWorkers) = 0 /\ IsFiniteSet({1})
    BY <1>4, FS_Singleton, FS_EmptySet
  <1>6. Cardinality(OpenCopies) <= 1
    <2>1. OpenCopies \in SUBSET {1}
      BY <1>4
    <2>2. Cardinality(OpenCopies) <= Cardinality({1})
      BY <1>5, <2>1, FS_Subset, Zenon
    <2> QED BY <1>5, <2>2
  <1>7. Counted
    BY <1>4, <1>5, <1>6, TokenSets DEF Counted
  <1> QED BY <1>1, <1>3, <1>7 DEF Books

(* Whatever a worker does with the result of its handler keeps the books. *)
LEMMA SettleBooks ==
  ASSUME Books, NEW w \in Worker, Settle(w)
  PROVE  Books'
  <1>1. ASSUME worker[w] # "idle", Fails(w), Free(w), UNCHANGED <<successes, givenUp, overwritten>>
        PROVE  Books'
    <2>1. UNCHANGED <<copy, lease>> /\ faults' = IF Holds(w) THEN faults + 1 ELSE faults
      BY <1>1 DEF Fails, queue
    <2>2. faults' \in Nat /\ faults' >= faults /\ (Spent(w) /\ Holds(w) => faults' >= faults + 1)
      BY <2>1 DEF Books, Shape
    <2> QED BY <1>1, <2>1, <2>2, LetGoBooks
  <1>2. ASSUME worker[w] # "idle", Works(w, "none"), Free(w), UNCHANGED <<successes, overwritten>>,
               givenUp => givenUp', Spent(w) \/ givenUp'
        PROVE  Books'
    BY <1>2, SettledBooks DEF Works
  <1>3. ASSUME worker[w] # "idle", Works(w, "delayed"), Free(w), ~Spent(w),
               UNCHANGED <<successes, givenUp, overwritten>>
        PROVE  Books'
    BY <1>3, SettledBooks DEF Works
  <1>4. CASE Finish(w)
    BY <1>1, <1>2, <1>4 DEF Finish, tally, nsqErr, Spent
  <1>5. CASE NsqRequeue(w)
    BY <1>1, <1>3, <1>5 DEF NsqRequeue, tally, nsqErr, Spent
  <1>6. CASE NsqDrop(w)
    BY <1>1, <1>2, <1>6 DEF NsqDrop, nsqErr
  <1>7. CASE GcpNack(w)
    BY <1>1, <1>3, <1>7 DEF GcpNack, tally, nsqErr, Spent
  <1>8. CASE AwsSkip(w)
    <2>1. ~Spent(w) /\ worker[w] # "idle" /\ Free(w) /\ faults' = faults
          /\ UNCHANGED <<copy, lease, successes, givenUp, overwritten>>
      BY <1>8 DEF AwsSkip, queue, tally, nsqErr, Spent
    <2>2. faults' \in Nat /\ faults' >= faults
      BY <2>1 DEF Books, Shape
    <2> QED BY <2>1, <2>2, LetGoBooks
  <1>9. CASE AwsCancelled(w)
    <2>1. worker[w] \in {"ok", "failed"} /\ Free(w) /\ UNCHANGED <<copy, lease, successes, givenUp, overwritten>>
          /\ faults' = IF worker[w] = "ok" /\ Holds(w) THEN faults + 1 ELSE faults
      BY <1>9 DEF AwsCancelled, queue, tally, nsqErr
    <2>2. faults' \in Nat /\ faults' >= faults /\ (Spent(w) /\ Holds(w) => faults' >= faults + 1)
      BY <2>1 DEF Books, Shape, Spent
    <2> QED BY <2>1, <2>2, LetGoBooks
  <1>10. CASE AwsDelete(w)
    <2>1. Spent(w) /\ worker[w] # "idle" /\ Free(w) /\ UNCHANGED <<successes, givenUp, overwritten>>
      BY <1>10 DEF AwsDelete, tally, nsqErr, Spent
    <2>2. CASE Works(w, "none")
      BY <1>2, <2>1, <2>2
    <2>3. CASE Fails(w)
      BY <1>1, <2>1, <2>3
    <2>4. CASE ~Holds(w) /\ Leaves(holds[w], "none") /\ UNCHANGED faults
      BY <1>10, <2>1, <2>4, SettledBooks DEF AwsDelete
    <2> QED BY <1>10, <2>2, <2>3, <2>4 DEF AwsDelete
  <1>11. CASE AwsBackoff(w)
    BY <1>1, <1>3, <1>11 DEF AwsBackoff, tally, nsqErr, Spent
  <1>12. CASE AzureSchedule(w)
    <2>1. worker[w] = "failed" /\ UNCHANGED <<lease, successes, givenUp, overwritten>>
          /\ \E c \in Copy : Unused(c)
      BY <1>12 DEF AzureSchedule, tally, nsqErr
    <2>2. PICK sent, ok \in BOOLEAN :
            /\ ok => sent /\ ctx # "closed"
            /\ faults' = IF ok THEN faults ELSE faults + 1
            /\ IF sent /\ ctx # "closed"
               THEN copy' = [copy EXCEPT ![NextCopy] = "delayed"] /\ count' = [count EXCEPT ![NextCopy] = attempt[w]]
               ELSE UNCHANGED <<copy, count>>
            /\ IF ok
               THEN ToComplete(w) /\ UNCHANGED fetching
               ELSE Free(w) /\ PoolFails
      BY <1>12 DEF AzureSchedule
    <2>3. \/ worker' = [worker EXCEPT ![w] = "scheduled"] /\ UNCHANGED <<holds, faults>> /\ sent /\ ctx # "closed"
          \/ Free(w) /\ faults' = faults + 1
      BY <2>2 DEF ToComplete
    <2>4. CASE sent /\ ctx # "closed"
      <3>1. PICK n \in Copy : n = NextCopy /\ Unused(n)
        BY <2>1, NextCopyIsUnused
      <3>3. copy' = [copy EXCEPT ![n] = "delayed"]
        BY <2>2, <2>4, <3>1
      <3> QED BY <2>1, <2>3, <3>1, <3>3, ScheduleBooks
    <2>5. CASE ~(sent /\ ctx # "closed")
      <3>1. UNCHANGED copy /\ Free(w) /\ faults' = faults + 1 /\ ~Spent(w) /\ worker[w] # "idle"
        BY <2>1, <2>2, <2>3, <2>5 DEF Spent
      <3>2. faults' \in Nat /\ faults' >= faults
        BY <3>1 DEF Books, Shape
      <3> QED BY <2>1, <3>1, <3>2, LetGoBooks
    <2> QED BY <2>4, <2>5
  <1>13. CASE AzureComplete(w)
    BY <1>1, <1>2, <1>13 DEF AzureComplete, tally, nsqErr, Spent
  <1>14. CASE AzureDeadLetter(w)
    BY <1>1, <1>2, <1>14 DEF AzureDeadLetter, nsqErr
  <1> QED BY <1>4, <1>5, <1>6, <1>7, <1>8, <1>9, <1>10, <1>11, <1>12, <1>13, <1>14 DEF Settle

(* Every step keeps the books. *)
LEMMA BooksNext == Books /\ [Next]_vars => Books'
  <1> SUFFICES ASSUME Books, [Next]_vars PROVE Books'
    OBVIOUS
  <1>1. ASSUME UNCHANGED <<copy, lease, worker, holds, successes, faults, givenUp, overwritten>> PROVE Books'
    BY <1>1 DEF Books, Shape, Kept, Settled, Counted, OpenCopies, LostWorkers, Spent
  <1>2. CASE UNCHANGED vars \/ FetchFails \/ Resume \/ Shutdown
    BY <1>1, <1>2 DEF vars, FetchFails, Resume, Shutdown, queue, workers, tally, nsqErr
  <1>3. ASSUME NEW w \in Worker, Call(w) PROVE Books'
    <2>1. PICK t \in {"running", "failed"} : worker' = [worker EXCEPT ![w] = t]
      BY <1>3 DEF Call
    <2>2. worker[w] = "received" /\ UNCHANGED <<copy, lease, holds, givenUp, overwritten, successes, faults>>
      BY <1>3 DEF Call, queue, tally, nsqErr
    <2>3. ~Spent(w)
      BY <2>2 DEF Spent
    <2>4. overwritten' \in BOOLEAN
      BY <2>2 DEF Books, Shape
    <2> QED BY <2>1, <2>2, <2>3, <2>4, MoveBooks
  <1>4. ASSUME NEW w \in Worker, NEW ok \in BOOLEAN, Return(w, ok) PROVE Books'
    <2>1. worker[w] = "running" /\ ~Spent(w) /\ UNCHANGED <<copy, lease, holds, givenUp, overwritten, faults>>
      BY <1>4 DEF Return, queue, nsqErr, Spent
    <2>0. overwritten' \in BOOLEAN
      BY <2>1 DEF Books, Shape
    <2>2. CASE ok
      BY <1>4, <2>0, <2>1, <2>2, MoveBooks DEF Return
    <2>3. CASE ~ok
      BY <1>4, <2>0, <2>1, <2>3, MoveBooks DEF Return
    <2> QED BY <2>2, <2>3
  <1>5. ASSUME NEW w \in Worker, ErrOverwritten(w) PROVE Books'
    <2>1. faults' = faults + 1 /\ UNCHANGED <<copy, lease, holds, givenUp, successes>>
      BY <1>5 DEF ErrOverwritten, queue, tally
    <2>2. PICK t \in {"skipped", "ok", "failed"} :
            /\ worker' = [worker EXCEPT ![w] = t] /\ worker[w] \in {"received", "failed", "ok"}
            /\ (overwritten' = overwritten) \/ (overwritten' = TRUE)
            /\ t = "ok" => overwritten'
      BY <1>5 DEF ErrOverwritten
    <2>3. overwritten \in BOOLEAN
      BY DEF Books, Shape
    <2>4. overwritten' \in BOOLEAN /\ (overwritten => overwritten')
      <3>1. CASE overwritten' = overwritten
        BY <2>3, <3>1
      <3>2. CASE overwritten' = TRUE
        BY <3>2
      <3> QED BY <2>2, <3>1, <3>2
    <2> QED BY <2>1, <2>2, <2>4, MoveBooks
  <1>6. ASSUME NEW w \in Worker, Abandon(w) PROVE Books'
    <2>1. ~Spent(w) /\ worker[w] # "idle" /\ Free(w) /\ faults' = faults
          /\ UNCHANGED <<copy, lease, successes, givenUp, overwritten>>
      BY <1>6 DEF Abandon, queue, tally, nsqErr, Spent
    <2>2. faults' \in Nat /\ faults' >= faults
      BY <2>1 DEF Books, Shape
    <2> QED BY <2>1, <2>2, LetGoBooks
  <1>7. CASE DeliverStep
    BY <1>7, DeliverBooks DEF DeliverStep
  <1>8. CASE QueueStep \/ \E c \in Copy : Expire(c)
    BY <1>8, ExpireBooks, DelayEndsBooks DEF QueueStep
  <1>9. CASE Restart
    BY <1>9, RestartBooks
  <1>10. CASE Connected
    BY <1>10, ConnectedBooks
  <1> QED BY <1>2, <1>3, <1>4, <1>5, <1>6, <1>7, <1>8, <1>9, <1>10, SettleBooks DEF Next, WorkerStep, Handler

-----------------------------------------------------------------------------
(* The counters of deliveries, and the retry policy. *)

(* Counting in 16 bits stays in range, and below what counts further. *)
LEMMA IncTyped ==
  ASSUME NEW n \in 0 .. Modulus - 1
  PROVE  Inc(n) \in 0 .. Modulus - 1 /\ Inc(n) <= n + 1
  <1>1. CASE n + 1 < Modulus
    <2>1. (n + 1) % Modulus = n + 1
      BY <1>1, Bounds
    <2> QED BY <1>1, <2>1, Bounds DEF Inc
  <1>2. CASE n + 1 = Modulus
    <2>1. Modulus % Modulus = 0
      BY Bounds
    <2> QED BY <1>2, <2>1, Bounds DEF Inc
  <1> QED BY <1>1, <1>2, Bounds

(* What a delivery does to the counters: the number of an attempt is at most that of *)
(* the deliveries, which it is before the counters go round, or lower.              *)
LEMMA DeliveryCounts ==
  ASSUME Attempts, NEW c \in Copy
  PROVE  /\ Inc(count[c]) \in 0 .. Modulus - 1 /\ Inc(count[c]) <= deliveries + 1
         /\ deliveries < Modulus \/ Inc(count[c]) <= deliveries
  <1>1. count[c] \in 0 .. Modulus - 1 /\ deliveries \in 0 .. Modulus /\ count[c] <= deliveries
    BY DEF Attempts
  <1>2. Inc(count[c]) \in 0 .. Modulus - 1 /\ Inc(count[c]) <= count[c] + 1
    BY <1>1, IncTyped
  <1> QED BY <1>1, <1>2, Bounds

(* An attempt stays one of the deliveries of the message. *)
LEMMA AttemptsNext == Books /\ Attempts /\ [Next]_vars => Attempts'
  <1> SUFFICES ASSUME Books, Attempts, [Next]_vars PROVE Attempts'
    OBVIOUS
  <1>0. DOMAIN worker = Worker /\ DOMAIN attempt = Worker /\ DOMAIN count = Copy
    BY DEF Books, Shape, Attempts
  <1>1. ASSUME UNCHANGED <<count, attempt, deliveries>>, \A v \in Worker : worker'[v] # "idle" => worker[v] # "idle"
        PROVE  Attempts'
    BY <1>1 DEF Attempts
  <1>2. ASSUME NEW c, NEW s, Leaves(c, s)
        PROVE  count' \in [Copy -> 0 .. Modulus - 1] /\ \A d \in Copy : count'[d] <= deliveries
    <2>1. count' = count \/ count' = [count EXCEPT ![c] = 0]
      BY <1>2 DEF Leaves
    <2> QED BY <2>1, Bounds DEF Attempts
  <1>3. ASSUME NEW w \in Worker, Free(w), deliveries' = deliveries,
               count' = count \/ \E c, s : Leaves(c, s)
        PROVE  Attempts'
    <2>1. count' \in [Copy -> 0 .. Modulus - 1] /\ \A d \in Copy : count'[d] <= deliveries
      <3>1. CASE count' = count
        BY <3>1 DEF Attempts
      <3> QED BY <1>2, <1>3, <3>1
    <2>2. attempt' \in [Worker -> 0 .. Modulus - 1] /\ \A v \in Worker : attempt'[v] <= deliveries
      BY <1>3, Bounds DEF Free, Attempts
    <2>3. \A v \in Worker : worker'[v] # "idle" => worker[v] # "idle"
      BY <1>0, <1>3 DEF Free
    <2> QED BY <1>3, <2>1, <2>2, <2>3 DEF Attempts
  <1>4. CASE UNCHANGED vars \/ FetchFails \/ Resume \/ Shutdown
    BY <1>1, <1>4 DEF vars, FetchFails, Resume, Shutdown, queue, workers, tally
  <1>5. ASSUME NEW c \in Copy, Expire(c) \/ DelayEnds(c) PROVE Attempts'
    <2>1. UNCHANGED <<count, attempt, deliveries, worker>>
      BY <1>5 DEF Expire, DelayEnds, Leaves, workers, tally
    <2> QED BY <1>1, <2>1
  <1>6. ASSUME NEW w \in Worker, Call(w) \/ Handler(w) \/ ErrOverwritten(w) PROVE Attempts'
    <2>1. UNCHANGED <<count, attempt, deliveries>> /\ worker[w] # "idle" /\ \E t : worker' = [worker EXCEPT ![w] = t]
      BY <1>6 DEF Call, Handler, Return, ErrOverwritten, queue, tally
    <2>2. \A v \in Worker : worker'[v] # "idle" => worker[v] # "idle"
      BY <1>0, <2>1
    <2> QED BY <1>1, <2>1, <2>2
  <1>7. CASE Connected
    <2>1. UNCHANGED <<count, attempt, deliveries>>
      BY <1>7 DEF Connected, queue, tally
    <2>2. PICK hit \in SUBSET {w \in Worker : worker[w] = "failed"} :
            worker' = [w \in Worker |-> IF w \in hit THEN "ok" ELSE worker[w]]
      BY <1>7 DEF Connected
    <2>3. \A v \in Worker : worker'[v] # "idle" => worker[v] # "idle"
      BY <2>2
    <2> QED BY <1>1, <2>1, <2>3
  <1>8. ASSUME NEW w \in Worker, Abandon(w) \/ (Settle(w) /\ ~AzureSchedule(w)) PROVE Attempts'
    <2>1. Free(w) /\ deliveries' = deliveries
      BY <1>8 DEF Abandon, Settle, Finish, NsqRequeue, NsqDrop, GcpNack, AwsSkip, AwsCancelled, AwsDelete, AwsBackoff,
         AzureComplete, AzureDeadLetter, tally
    <2>2. count' = count \/ \E c, s : Leaves(c, s)
      BY <1>8 DEF Abandon, Settle, Finish, NsqRequeue, NsqDrop, GcpNack, AwsSkip, AwsCancelled, AwsDelete, AwsBackoff,
         AzureComplete, AzureDeadLetter, queue, Works, Fails
    <2> QED BY <1>3, <2>1, <2>2
  <1>9. ASSUME NEW w \in Worker, AzureSchedule(w) PROVE Attempts'
    <2>1. /\ \E c \in Copy : Unused(c)
          /\ count' = [count EXCEPT ![NextCopy] = attempt[w]] \/ count' = count
          /\ worker[w] = "failed" /\ deliveries' = deliveries /\ (Free(w) \/ ToComplete(w))
      BY <1>9 DEF AzureSchedule, tally
    <2>2. PICK n \in Copy : n = NextCopy
      BY <2>1, NextCopyIsUnused
    <2>3. count' \in [Copy -> 0 .. Modulus - 1] /\ \A c \in Copy : count'[c] <= deliveries'
      BY <2>1, <2>2 DEF Attempts
    <2>4. attempt' \in [Worker -> 0 .. Modulus - 1] /\ \A v \in Worker : attempt'[v] <= deliveries'
      BY <2>1, Bounds DEF Attempts, Free, ToComplete
    <2>5. \A v \in Worker : worker'[v] # "idle" => worker[v] # "idle"
      BY <1>0, <2>1 DEF Free, ToComplete
    <2> QED BY <2>1, <2>3, <2>4, <2>5 DEF Attempts
  <1>10. ASSUME NEW w \in Worker, NEW c \in Copy, Deliver(w, c) PROVE Attempts'
    <2> DEFINE n == Inc(count[c])
    <2>1. n \in 0 .. Modulus - 1 /\ n <= deliveries + 1 /\ (deliveries < Modulus \/ n <= deliveries)
      BY DeliveryCounts
    <2> HIDE DEF n
    <2>2. CASE Leaves(c, "none") /\ UNCHANGED <<workers, deliveries>>
      <3>1. count' \in [Copy -> 0 .. Modulus - 1] /\ \A d \in Copy : count'[d] <= deliveries
        BY <1>2, <2>2
      <3> QED BY <2>2, <3>1 DEF Attempts, workers
    <2>3. CASE /\ count' = count \/ count' = [count EXCEPT ![c] = n]
               /\ worker' = [worker EXCEPT ![w] = "received"] /\ attempt' = [attempt EXCEPT ![w] = n]
               /\ deliveries' = IF deliveries < Modulus THEN deliveries + 1 ELSE deliveries
      <3>1. deliveries' \in 0 .. Modulus /\ deliveries' >= 1 /\ deliveries' >= deliveries /\ n <= deliveries'
        BY <2>1, <2>3, Bounds DEF Attempts
      <3>2. count' \in [Copy -> 0 .. Modulus - 1] /\ \A d \in Copy : count'[d] <= deliveries'
        BY <2>1, <2>3, <3>1 DEF Attempts
      <3>3. attempt' \in [Worker -> 0 .. Modulus - 1] /\ \A v \in Worker : attempt'[v] <= deliveries'
        BY <2>1, <2>3, <3>1 DEF Attempts
      <3> QED BY <3>1, <3>2, <3>3 DEF Attempts
    <2> QED BY <1>10, <2>2, <2>3 DEF Deliver, n
  <1>11. CASE Restart
    BY <1>11, Bounds DEF Restart, Attempts, queue, tally
  <1> QED BY <1>4, <1>5, <1>6, <1>7, <1>8, <1>9, <1>10, <1>11 DEF Next, WorkerStep, DeliverStep, QueueStep

(* The policy a subscription runs with has numbers for its bounds. *)
LEMMA PolicyTyped ==
  ASSUME Fixed
  PROVE  MaxRetries \in Int /\ MinBackoff \in Nat \ {0} /\ MaxBackoff \in Nat \ {0}
  <1>1. policy \in [set : BOOLEAN, maxRetries : Int, minBackoff : Nat, maxBackoff : Nat]
    BY DeliveryAssumption DEF DeliveryAssumption, Fixed
  <1>2. policy.set \in BOOLEAN /\ policy.maxRetries \in Int /\ policy.minBackoff \in Nat /\ policy.maxBackoff \in Nat
    BY <1>1
  <1>3. 10 * Second \in Nat \ {0} /\ 600 * Second \in Nat \ {0}
    BY Bounds
  <1>4. MinBackoff \in Nat \ {0} /\ MaxBackoff \in Nat \ {0}
    BY <1>2, <1>3 DEF MinBackoff, MaxBackoff
  <1>5. MaxRetries \in Int
    BY <1>2, Bounds DEF MaxRetries
  <1> QED BY <1>4, <1>5

\* At most the maximum, or a second.
WithinBounds(d) == d <= MaxBackoff \/ d <= Second

(* The delay of GetDelay is within bounds, and does not shrink from one attempt to a *)
(* later one, unless that is the number 0 of a counter that has gone round.          *)
LEMMA DelayGrows ==
  ASSUME Fixed, NEW a \in 0 .. Modulus - 1, NEW b \in 0 .. Modulus - 1
  PROVE  Delay(a) \in Nat /\ WithinBounds(Delay(a)) /\ (1 <= a /\ a <= b => Delay(a) <= Delay(b))
  <1>1. /\ MaxRetries \in Int /\ MaxBackoff \in Nat \ {0} /\ MinBackoff \in Nat /\ Second \in Nat \ {0}
        /\ Base \in Nat \ {0} /\ (Base = Second \/ Base = MinBackoff)
    BY PolicyTyped, Bounds DEF Base
  <1>2. Doubled[a] \in Nat /\ Doubled[b] \in Nat /\ (a <= b => Doubled[a] <= Doubled[b]) /\ Doubled[0] = 1
    BY DoubledGrows, Bounds
  <1>3. a <= b /\ ShouldRetry(b) => ShouldRetry(a)
    BY <1>1 DEF ShouldRetry
  <1>4. Base * Doubled[a] \in Nat /\ Base * Doubled[b] \in Nat /\ (a <= b => Base * Doubled[a] <= Base * Doubled[b])
    BY <1>1, <1>2
  <1>5. Base * Doubled[0] = Base
    BY <1>1, <1>2
  <1>6. Delay(a) \in Nat /\ WithinBounds(Delay(a))
    <2>1. CASE a = 0
      BY <1>1, <1>5, <2>1 DEF Delay, WithinBounds
    <2>2. CASE a > 0
      BY <1>1, <1>4, <2>2 DEF Delay, WithinBounds
    <2> QED BY <2>1, <2>2
  <1>7. ASSUME 1 <= a, a <= b PROVE Delay(a) <= Delay(b)
    BY <1>1, <1>3, <1>4, <1>7 DEF Delay
  <1> QED BY <1>6, <1>7

(* Cutting off what is not a whole second keeps the order. *)
LEMMA WholeSeconds ==
  ASSUME NEW d \in Nat, NEW e \in Nat, d <= e
  PROVE  d - (d % Second) \in Nat /\ d - (d % Second) <= d /\ d - (d % Second) <= e - (e % Second)
  <1>0. ASSUME NEW x \in Nat
        PROVE  x = Second * (x \div Second) + (x % Second) /\ x % Second \in 0 .. Second - 1 /\ x \div Second \in Nat
    <2>1. x = Second * (x \div Second) + (x % Second)
      BY Bounds
    <2>2. x % Second \in 0 .. Second - 1
      BY Bounds
    <2>3. x \div Second \in Nat
      BY Bounds
    <2> QED BY <2>1, <2>2, <2>3
  <1> DEFINE p == d \div Second
             q == e \div Second
  <1>1. /\ d = Second * p + (d % Second) /\ d % Second \in 0 .. Second - 1 /\ p \in Nat
        /\ e = Second * q + (e % Second) /\ e % Second \in 0 .. Second - 1 /\ q \in Nat
    BY <1>0
  <1> HIDE DEF p, q
  <1>2. d - (d % Second) = Second * p /\ e - (e % Second) = Second * q /\ Second * p \in Nat /\ Second * q \in Nat
    <2>1. ASSUME NEW n \in Nat PROVE Second * n \in Nat
      BY Bounds
    <2>2. ASSUME NEW x \in Nat, NEW m \in Nat, NEW r \in Int, x = m + r PROVE x - r = m
      BY <2>2
    <2>3. Second * p \in Nat /\ Second * q \in Nat
      BY <1>1, <2>1
    <2>4. d % Second \in Int /\ e % Second \in Int
      BY <1>1, Bounds
    <2>5. d - (d % Second) = Second * p
      BY <1>1, <2>2, <2>3, <2>4, Zenon
    <2>6. e - (e % Second) = Second * q
      BY <1>1, <2>2, <2>3, <2>4, Zenon
    <2> QED BY <2>3, <2>5, <2>6
  <1>3. Second * p <= Second * q
    <2> SUFFICES ASSUME q + 1 <= p PROVE FALSE
      BY <1>1, Bounds
    <2>1. Second * (q + 1) <= Second * p
      BY <1>1, Bounds
    <2>2. Second * (q + 1) = Second * q + Second
      BY <1>1, Bounds
    <2> QED BY <1>1, <1>2, <2>1, <2>2, Bounds
  <1> QED BY <1>1, <1>2, <1>3, Bounds

(* So does the visibility timeout that SQS is told. *)
LEMMA ToldGrows ==
  ASSUME Fixed, NEW a \in 0 .. Modulus - 1, NEW b \in 0 .. Modulus - 1
  PROVE  Told(a) \in Nat /\ WithinBounds(Told(a)) /\ (1 <= a /\ a <= b => Told(a) <= Told(b))
  <1> DEFINE Cut(d) == IF d < Second THEN Second ELSE IF d > 43200 * Second THEN 43200 * Second ELSE d
  <1>1. /\ Delay(a) \in Nat /\ WithinBounds(Delay(a)) /\ Delay(b) \in Nat
        /\ 1 <= a /\ a <= b => Delay(a) <= Delay(b)
    BY DelayGrows
  <1>2. MaxBackoff \in Nat \ {0} /\ Second \in Nat \ {0} /\ 43200 * Second \in Nat /\ 43200 * Second >= Second
    BY PolicyTyped, Bounds
  <1>3. /\ Cut(Delay(a)) \in Nat /\ Cut(Delay(b)) \in Nat /\ WithinBounds(Cut(Delay(a)))
        /\ 1 <= a /\ a <= b => Cut(Delay(a)) <= Cut(Delay(b))
    BY <1>1, <1>2 DEF WithinBounds
  <1>4. Clamped(Delay(a)) = Cut(Delay(a)) - (Cut(Delay(a)) % Second) /\ Clamped(Delay(b)) = Cut(Delay(b)) - (Cut(Delay(b)) % Second)
    BY DEF Clamped
  <1>5. PICK x \in Nat, y \in Nat : x = Cut(Delay(a)) /\ y = Cut(Delay(b))
    BY <1>3
  <1> HIDE DEF Cut
  <1>6. Clamped(Delay(a)) \in Nat /\ Clamped(Delay(a)) <= x
    BY <1>4, <1>5, WholeSeconds
  <1>7. 1 <= a /\ a <= b => Clamped(Delay(a)) <= Clamped(Delay(b))
    BY <1>3, <1>4, <1>5, WholeSeconds
  <1>8. WithinBounds(Clamped(Delay(a)))
    BY <1>2, <1>3, <1>5, <1>6 DEF WithinBounds
  <1> QED BY <1>1, <1>6, <1>7, <1>8 DEF Told

(* Nothing changes the provider and the policy. *)
LEMMA SetupStays ==
  ASSUME [Next]_vars
  PROVE  UNCHANGED <<provider, policy, parses>>
  BY DEF Next, vars, setup, DeliverStep, Deliver, QueueStep, Expire, DelayEnds, WorkerStep, Call, Settle, Finish,
     NsqRequeue, NsqDrop, GcpNack, AwsSkip, AwsCancelled, AwsDelete, AwsBackoff, AzureSchedule, AzureComplete,
     AzureDeadLetter, Handler, Return, ErrOverwritten, Connected, Abandon, FetchFails, Resume, Shutdown, Restart

(* What was told last comes from GetDelay. *)
LEMMA LastToldNext ==
  ASSUME Fixed, Attempts, LastTold, [Next]_vars
  PROVE  LastTold' /\ (UNCHANGED lastRetry \/ lastRetry'.delay = Told(lastRetry'.attempt))
  <1>1. UNCHANGED <<provider, policy>>
    BY SetupStays
  <1>2. UNCHANGED lastRetry \/ \E w \in Worker : lastRetry' = [attempt |-> attempt[w], delay |-> Told(attempt[w])]
    BY DEF Next, vars, DeliverStep, Deliver, QueueStep, Expire, DelayEnds, WorkerStep, Call, Settle, Finish, NsqRequeue,
       NsqDrop, GcpNack, AwsSkip, AwsCancelled, AwsDelete, AwsBackoff, AzureSchedule, AzureComplete, AzureDeadLetter,
       Handler, Return, ErrOverwritten, Connected, Abandon, FetchFails, Resume, Shutdown, Restart, Retried, Told
  <1>3. ASSUME NEW a \in 0 .. Modulus - 1 PROVE Told(a)' = Told(a)
    BY <1>1 DEF Told, Clamped, Delay, Base, ShouldRetry, MaxRetries, MinBackoff, MaxBackoff
  <1>4. CASE UNCHANGED lastRetry
    <2>1. lastRetry.attempt \in 0 .. Modulus - 1
      BY DEF LastTold
    <2>2. Told(lastRetry.attempt)' = Told(lastRetry.attempt)
      BY <1>3, <1>4, <2>1
    <2> QED BY <1>4, <2>2 DEF LastTold
  <1>5. ASSUME NEW w \in Worker, lastRetry' = [attempt |-> attempt[w], delay |-> Told(attempt[w])]
        PROVE  LastTold' /\ lastRetry'.delay = Told(lastRetry'.attempt)
    <2>1. attempt[w] \in 0 .. Modulus - 1
      BY DEF Attempts
    <2>2. Told(attempt[w]) \in Nat
      BY <2>1, ToldGrows
    <2>3. PICK a \in 0 .. Modulus - 1 : a = attempt[w] /\ lastRetry' = [attempt |-> a, delay |-> Told(a)]
      BY <1>5, <2>1
    <2> HIDE DEF Told
    <2> QED BY <1>3, <2>1, <2>2, <2>3 DEF LastTold
  <1> QED BY <1>2, <1>4, <1>5

(* The contexts, the loop of Subscribe and the bounded counters. *)
LEMMA ModesNext == Modes /\ [Next]_vars => Modes'
  <1> SUFFICES ASSUME Modes, [Next]_vars PROVE Modes'
    OBVIOUS
  <1> USE DEF Next, vars, DeliverStep, Deliver, QueueStep, Expire, DelayEnds, WorkerStep, Call, Settle, Finish, NsqRequeue,
       NsqDrop, GcpNack, AwsSkip, AwsCancelled, AwsDelete, AwsBackoff, AzureSchedule, AzureComplete, AzureDeadLetter,
       Handler, Return, ErrOverwritten, Connected, Abandon, FetchFails, Resume, Shutdown, Restart, PoolFails, tally, nsqErr
  <1>1. ctx' \in {"live", "noFetch", "noHandler", "closed"}
    BY DEF Modes
  <1>2. fetching' \in {"on", "failed"}
    BY DEF Modes
  <1>3. givenUp' = givenUp \/ givenUp' = TRUE
    OBVIOUS
  <1>4. connecting' = connecting \/ connecting' \in BOOLEAN
    OBVIOUS
  <1>5. restarts' = restarts \/ (restarts < MaxRestarts /\ restarts' = restarts + 1)
    OBVIOUS
  <1>6. restarts' \in 0 .. MaxRestarts
    <2> USE <1>5, Bounds
    <2> QED BY DEF Modes
  <1> QED BY <1>1, <1>2, <1>3, <1>4, <1>6 DEF Modes

(* The inductive invariant holds at first. *)
LEMMA DInvInit == Init => DInv
  <1> SUFFICES ASSUME Init PROVE DInv
    OBVIOUS
  <1>1. Fixed
    BY DEF Init, Fixed
  <1>2. Modes
    <2>1. restarts \in 0 .. MaxRestarts
      BY Bounds DEF Init
    <2>2. ctx = "live" /\ fetching = "on" /\ givenUp = FALSE /\ connecting \in BOOLEAN
      BY DEF Init
    <2> QED BY <2>1, <2>2, Zenon DEF Modes
  <1>3. Attempts
    BY Bounds DEF Init, Attempts
  <1>4. LastTold
    BY Bounds DEF Init, LastTold
  <1> QED BY <1>1, <1>2, <1>3, <1>4, BooksInit DEF DInv

\* The inductive invariant of a delivery holds in every state.
THEOREM DeliveryInvariance == Spec => []DInv
  <1>1. DInv /\ [Next]_vars => DInv'
    BY SetupStays, ModesNext, BooksNext, AttemptsNext, LastToldNext DEF DInv, Fixed
  <1> QED BY <1>1, DInvInit, PTL DEF Spec

\* On every provider, whatever expires, fails, crashes or is cancelled, a message is
\* with the provider until its handler has succeeded or its retries are used up, unless
\* the err that NSQ's handlers and its connecting goroutine share was overwritten; and its
\* handler succeeds once more than there were faults, at most.
THEOREM MessageIsKeptAndCounted == Spec => []DeliveryInv
  <1>1. ASSUME DInv PROVE TypeOK
    <2>1. \A c \in Copy : (copy[c] = "leased") = (lease[c] # None)
      BY <1>1 DEF DInv, Books, Shape
    <2>2. \A w \in Worker : (worker[w] = "idle") = (holds[w] = None)
      BY <1>1 DEF DInv, Books, Shape
    <2> QED BY <1>1, <2>1, <2>2, Zenon DEF TypeOK, DInv, Fixed, Modes, Books, Shape, Attempts, LastTold
  <1>2. ASSUME DInv PROVE NotLost \/ overwritten
    <2>1. overwritten \/ Settled \/ \E c \in Copy : copy[c] \in {"queued", "delayed", "leased"}
      BY <1>2 DEF DInv, Books, Kept, OpenCopies
    <2> QED BY <2>1 DEF Settled, NotLost
  <1>3. ASSUME DInv PROVE DuplicatesHaveACause
    BY <1>3, TokenSets DEF DInv, Books, Shape, Counted, DuplicatesHaveACause
  <1>4. DInv => DeliveryInv
    BY <1>1, <1>2, <1>3 DEF DeliveryInv
  <1> QED BY <1>4, DeliveryInvariance, PTL

\* For every policy and every number of attempts: a retry comes sooner than the one before
\* it only if its attempt has a lower number or the 16-bit counter has just gone round, and
\* never later than MaxBackoff says, or a second.
THEOREM DelaysGrow == Spec => BackoffGrows
  <1>1. ASSUME DInv, [Next]_vars
        PROVE  [/\ lastRetry'.delay < lastRetry.delay => lastRetry'.attempt < lastRetry.attempt \/ lastRetry.attempt = 0
                /\ lastRetry'.delay <= MaxBackoff \/ lastRetry'.delay <= Second]_lastRetry
    <2> SUFFICES ASSUME ~UNCHANGED lastRetry
                 PROVE  /\ lastRetry'.delay < lastRetry.delay => lastRetry'.attempt < lastRetry.attempt \/ lastRetry.attempt = 0
                        /\ lastRetry'.delay <= MaxBackoff \/ lastRetry'.delay <= Second
      OBVIOUS
    <2>1. LastTold' /\ lastRetry'.delay = Told(lastRetry'.attempt)
      BY <1>1, LastToldNext DEF DInv
    <2>2. PICK b \in 0 .. Modulus - 1 : b = lastRetry'.attempt
      BY <2>1 DEF LastTold
    <2>3. PICK a \in 0 .. Modulus - 1 : a = lastRetry.attempt
      BY <1>1 DEF DInv, LastTold
    <2>4. Told(b) \in Nat /\ WithinBounds(Told(b)) /\ Told(a) \in Nat /\ (1 <= a /\ a <= b => Told(a) <= Told(b))
      BY <1>1, ToldGrows DEF DInv
    <2>5. lastRetry.attempt = 0 \/ lastRetry.delay = Told(a)
      BY <1>1, <2>3 DEF DInv, LastTold
    <2> HIDE DEF Told
    <2> QED BY <2>1, <2>2, <2>3, <2>4, <2>5, Bounds DEF WithinBounds
  <1>2. DInv /\ [Next]_vars =>
            [/\ lastRetry'.delay < lastRetry.delay => lastRetry'.attempt < lastRetry.attempt \/ lastRetry.attempt = 0
             /\ lastRetry'.delay <= MaxBackoff \/ lastRetry'.delay <= Second]_lastRetry
    BY <1>1
  <1> QED BY <1>2, DeliveryInvariance, PTL DEF Spec, BackoffGrows

(* NSQ's consumer drops a message only after MaxRetries attempts that reached the handler. *)
LEMMA NoAttemptLeft ==
  ASSUME Fixed, NEW n \in 0 .. Modulus - 1, MaxAttempts > 0, n > MaxAttempts
  PROVE  MaxRetries # InfiniteRetries /\ n > MaxRetries /\ n > 1
  <1>1. MaxRetries \in Int
    BY PolicyTyped
  <1>2. MaxAttempts \in Int
    BY <1>1, Bounds DEF MaxAttempts, InfiniteRetries
  <1>3. MaxRetries # InfiniteRetries /\ ~(MaxRetries > Modulus - 1)
    BY <1>1, <1>2, Bounds DEF MaxAttempts, InfiniteRetries
  <1>4. MaxRetries > 0 => MaxAttempts = MaxRetries
    <2>1. MaxRetries > 0 => MaxAttempts = MaxRetries % Modulus
      BY <1>1, <1>3 DEF MaxAttempts, InfiniteRetries
    <2>2. MaxRetries > 0 => MaxRetries % Modulus = MaxRetries
      BY <1>1, <1>3, Bounds
    <2> QED BY <2>1, <2>2
  <1> QED BY <1>1, <1>2, <1>3, <1>4, Bounds

\* For every policy, also one that is set to 0 retries, and every width of the counters: a
\* message is dropped or dead-lettered only after the code was given it as often as
\* MaxRetries says, and never under InfiniteRetries.
THEOREM RetriesAreUsedUp == Spec => []GivenUpAfterItsAttempts
  <1>1. Init => GivenUpAfterItsAttempts
    BY DEF Init, GivenUpAfterItsAttempts
  <1>2. ASSUME DInv, GivenUpAfterItsAttempts, [Next]_vars PROVE GivenUpAfterItsAttempts'
    <2>0. UNCHANGED <<policy, provider>> /\ MaxRetries' = MaxRetries /\ MaxRetries \in Int
      BY <1>2, SetupStays, PolicyTyped DEF DInv, MaxRetries
    <2>2. deliveries \in Int /\ deliveries' \in Int /\ deliveries' >= deliveries
      <3>1. deliveries' = deliveries \/ deliveries' = (IF deliveries < Modulus THEN deliveries + 1 ELSE deliveries)
        BY <1>2 DEF Next, vars, DeliverStep, Deliver, QueueStep, Expire, DelayEnds, WorkerStep, Call, Settle,
           Finish, NsqRequeue, NsqDrop, GcpNack, AwsSkip, AwsCancelled, AwsDelete, AwsBackoff, AzureSchedule, AzureComplete,
           AzureDeadLetter, Handler, Return, ErrOverwritten, Connected, Abandon, FetchFails, Resume, Shutdown, Restart, tally
      <3> QED BY <1>2, <3>1, Bounds DEF DInv, Attempts
    <2>a. MaxRetries \in Int
      BY <1>2, PolicyTyped DEF DInv
    <2>b. ASSUME NEW d \in Int, NEW m \in Int, deliveries' >= d
          PROVE  (d > m => deliveries' > m) /\ (d + 1 > m => deliveries' + 1 > m) /\ (d > m => deliveries' + 1 > m)
      <3>1. ASSUME NEW e \in Int, e >= d PROVE (d > m => e > m) /\ (d + 1 > m => e + 1 > m) /\ (d > m => e + 1 > m)
        BY <3>1
      <3> QED BY <2>b, <2>2, <3>1, Zenon
    <2> DEFINE Enough == /\ MaxRetries # InfiniteRetries /\ deliveries' >= 1
                         /\ (IF provider = "nsq" THEN deliveries' + 1 ELSE deliveries') > MaxRetries
    <2>c. ASSUME MaxRetries # InfiniteRetries, deliveries >= 1,
                 deliveries > MaxRetries \/ (provider = "nsq" /\ deliveries + 1 > MaxRetries)
          PROVE  Enough
      <3>1. deliveries' >= 1
        BY <2>c, <2>2
      <3>2. (deliveries > MaxRetries => deliveries' > MaxRetries /\ deliveries' + 1 > MaxRetries)
            /\ (deliveries + 1 > MaxRetries => deliveries' + 1 > MaxRetries)
        BY <2>a, <2>b, <2>2, Zenon
      <3>3. CASE provider = "nsq"
        <4>1. deliveries' + 1 > MaxRetries
          BY <2>c, <3>2, Zenon
        <4> QED BY <2>c, <3>1, <3>3, <4>1, Zenon
      <3>4. CASE provider # "nsq"
        <4>1. deliveries' > MaxRetries
          BY <2>c, <3>2, <3>4, Zenon
        <4> QED BY <2>c, <3>1, <3>4, <4>1, Zenon
      <3> QED BY <3>3, <3>4
    <2>1. ASSUME givenUp' => Enough PROVE GivenUpAfterItsAttempts'
      <3>1. provider' = provider /\ MaxRetries' = MaxRetries
        BY <2>0
      <3> HIDE DEF MaxRetries
      <3> QED BY <2>1, <3>1 DEF GivenUpAfterItsAttempts, InfiniteRetries
    <2> HIDE DEF MaxRetries
    <2>3. CASE givenUp' = givenUp
      <3>1. givenUp => Enough
        <4> SUFFICES ASSUME givenUp PROVE Enough
          OBVIOUS
        <4>1. /\ MaxRetries # InfiniteRetries /\ deliveries >= 1
              /\ (IF provider = "nsq" THEN deliveries + 1 ELSE deliveries) > MaxRetries
          BY <1>2 DEF GivenUpAfterItsAttempts
        <4>2. deliveries > MaxRetries \/ (provider = "nsq" /\ deliveries + 1 > MaxRetries)
          BY <4>1
        <4> HIDE DEF Enough
        <4> QED BY <2>c, <4>1, <4>2
      <3> HIDE DEF Enough
      <3> QED BY <2>1, <2>3, <3>1
    <2>4. ASSUME NEW w \in Worker, worker[w] # "idle", ~ShouldRetry(attempt[w]) PROVE GivenUpAfterItsAttempts'
      <3>1. attempt[w] \in Int /\ attempt[w] <= deliveries /\ deliveries >= 1
        BY <1>2, <2>4 DEF DInv, Attempts
      <3>2. MaxRetries # InfiniteRetries /\ deliveries > MaxRetries
        BY <2>0, <2>2, <2>4, <3>1 DEF ShouldRetry, NoRetries, InfiniteRetries
      <3>3. Enough
        BY <2>c, <3>1, <3>2, Zenon
      <3> HIDE DEF Enough
      <3> QED BY <2>1, <3>3
    <2>5. ASSUME NEW c \in Copy, provider = "nsq", MaxAttempts > 0, Inc(count[c]) > MaxAttempts
          PROVE  GivenUpAfterItsAttempts'
      <3>1. Inc(count[c]) \in 0 .. Modulus - 1 /\ Inc(count[c]) <= deliveries + 1
        BY <1>2, DeliveryCounts DEF DInv
      <3>2. MaxRetries # InfiniteRetries /\ Inc(count[c]) > MaxRetries /\ Inc(count[c]) > 1
        BY <1>2, <2>5, <3>1, NoAttemptLeft DEF DInv
      <3>3. Enough
        <4>1. deliveries >= 1 /\ deliveries + 1 > MaxRetries
          BY <2>a, <2>2, <3>1, <3>2, Bounds
        <4> QED BY <2>c, <2>5, <3>2, <4>1, Zenon
      <3> HIDE DEF Enough
      <3> QED BY <2>1, <3>3
    <2>6. \/ givenUp' = givenUp
          \/ \E w \in Worker : worker[w] # "idle" /\ ~ShouldRetry(attempt[w])
          \/ \E c \in Copy : provider = "nsq" /\ MaxAttempts > 0 /\ Inc(count[c]) > MaxAttempts
      <3>1. ASSUME NEW w \in Worker, NEW c \in Copy, Deliver(w, c)
            PROVE  givenUp' = givenUp \/ (provider = "nsq" /\ MaxAttempts > 0 /\ Inc(count[c]) > MaxAttempts)
        BY <3>1 DEF Deliver
      <3>2. ASSUME NEW w \in Worker, NsqDrop(w) \/ AzureDeadLetter(w)
            PROVE  worker[w] # "idle" /\ ~ShouldRetry(attempt[w])
        BY <3>2 DEF NsqDrop, AzureDeadLetter
      <3>3. \/ givenUp' = givenUp
            \/ \E w \in Worker, c \in Copy : Deliver(w, c)
            \/ \E w \in Worker : NsqDrop(w) \/ AzureDeadLetter(w)
        BY <1>2 DEF Next, vars, DeliverStep, QueueStep, Expire, DelayEnds, WorkerStep, Call, Settle,
           Finish, NsqRequeue, GcpNack, AwsSkip, AwsCancelled, AwsDelete, AwsBackoff, AzureSchedule, AzureComplete,
           Handler, Return, ErrOverwritten, Connected, Abandon, FetchFails, Resume, Shutdown, Restart, tally
      <3> QED BY <3>1, <3>2, <3>3
    <2> QED BY <2>3, <2>4, <2>5, <2>6
  <1>3. DInv /\ GivenUpAfterItsAttempts /\ [Next]_vars => GivenUpAfterItsAttempts'
    BY <1>2
  <1> QED BY <1>1, <1>3, DeliveryInvariance, PTL DEF Spec
===========================================================================
