-------------------------- MODULE ServiceInitProofs --------------------------
(***************************************************************************)
(* Proofs about module ServiceInit, for any services, requests and calls   *)
(* between Setup functions, cyclic ones included.                          *)
(***************************************************************************)
EXTENDS ServiceInit, FiniteSetTheorems, TLAPS

\* Typing that the proofs below use (main, results and received play no part).
OnceTypes ==
    /\ pc \in [Goroutine -> {"idle", "calling", "ok", "err", "finished"}]
    /\ target \in [Goroutine -> Svc \union {None}]
    /\ inside \in [Goroutine -> Seq(Svc)]
    /\ mutex \in [Svc -> Goroutine \union {None}]
    /\ done \subseteq Svc
    /\ instance \in [Svc -> Nat]
    /\ made \in [Goroutine -> Svc \union {None}]
    /\ initialised \subseteq Svc

\* A goroutine is in a Do exactly while it is calling, and the outermost is that
\* of the service it wants; the goroutine of a service wants that service.
CallsInv ==
    \A g \in Goroutine :
        /\ pc[g] # "calling" => inside[g] = <<>>
        /\ pc[g] = "calling" => inside[g] # <<>> /\ inside[g][1] = target[g]
        /\ g \in Svc /\ pc[g] # "idle" => target[g] = g

\* A service whose Once is done has one instance.
DoneHasOne == \A s \in done : instance[s] = 1

\* A goroutine that has just made an instance of s is the holder of the lock of
\* s, in the innermost Do, and has made the only one.
MadeUnderLock ==
    \A g \in Goroutine : \A s \in Svc :
        made[g] = s => Inside(g, s) /\ mutex[s] = g /\ s \notin done /\ instance[s] = 1

\* Until Once is done only the lock's holder can have made an instance.
OnlyHolderMade ==
    \A s \in Svc \ done : instance[s] # 0 => mutex[s] # None /\ made[mutex[s]] = s

\* Success is reported of services that are done.
ReportsInv ==
    /\ \A g \in Goroutine : pc[g] = "ok" => target[g] \in done
    /\ initialised \subseteq done

OnceInv ==
    OnceTypes /\ CallsInv /\ DoneHasOne /\ MadeUnderLock /\ OnlyHolderMade /\ ReportsInv

(* The value that stands for no instance and no owner is neither a service nor a goroutine. *)
LEMMA NoneIsNoService == None \notin Svc /\ None \notin Goroutine
  BY ServiceInitAssumption DEF ServiceInitAssumption, Goroutine

(* Dropping the innermost Do calls of a goroutine leaves its outermost one. *)
LEMMA PrefixKeepsFirst ==
  ASSUME NEW q \in Seq(Svc), NEW n \in Nat \ {0}, n <= Len(q)
  PROVE  SubSeq(q, 1, n)[1] = q[1]
  OBVIOUS

\* What the return of the innermost Do does to its goroutine.
LEMMA LeaveEffect ==
  ASSUME OnceTypes, CallsInv, NEW g \in Goroutine, NEW how \in {"ok", "err"},
         inside[g] # <<>>, Leave(g, how)
  PROVE  /\ inside' \in [Goroutine -> Seq(Svc)]
         /\ pc' \in [Goroutine -> {"idle", "calling", "ok", "err", "finished"}]
         /\ pc[g] = "calling"
         /\ \A x \in Goroutine \ {g} : inside'[x] = inside[x] /\ pc'[x] = pc[x]
         /\ \/ pc'[g] = how /\ inside'[g] = <<>> /\ inside[g] = <<target[g]>>
            \/ pc'[g] = "calling" /\ inside'[g] # <<>> /\ inside'[g][1] = target[g]
  <1>1. inside[g] \in Seq(Svc) /\ Len(inside[g]) \in Nat \ {0}
    BY DEF OnceTypes
  <1>2. pc[g] = "calling" /\ inside[g][1] = target[g]
    BY DEF CallsInv
  <1> DEFINE rest == SubSeq(inside[g], 1, Len(inside[g]) - 1)
  <1>3. rest \in Seq(Svc) /\ Len(rest) = Len(inside[g]) - 1
    BY <1>1
  <1>4. inside' = [inside EXCEPT ![g] = rest]
    BY DEF Leave
  <1>5. CASE Len(inside[g]) = 1
    <2>1. rest = <<>>
      BY <1>3, <1>5
    <2>2. inside[g] = <<target[g]>>
      BY <1>1, <1>2, <1>5
    <2> QED BY <1>2, <1>3, <1>4, <1>5, <2>1, <2>2 DEF OnceTypes, Leave
  <1>6. CASE Len(inside[g]) # 1
    <2>0. Len(inside[g]) - 1 \in Nat \ {0} /\ Len(inside[g]) - 1 <= Len(inside[g])
      BY <1>1, <1>6
    <2>1. rest[1] = inside[g][1]
      BY <1>1, <2>0, PrefixKeepsFirst, Zenon
    <2>2. rest # <<>>
      BY <1>3, <2>0
    <2> QED BY <1>2, <1>3, <1>4, <1>6, <2>1, <2>2 DEF OnceTypes, Leave
  <1> QED BY <1>5, <1>6

(* The invariant holds before any call of InitializeServices or Get. *)
LEMMA OnceInvInit == Init => OnceInv
  BY NoneIsNoService DEF Init, OnceInv, OnceTypes, CallsInv, DoneHasOne, MadeUnderLock,
     OnlyHolderMade, ReportsInv

(* Entering Once.Do, from Get or InitService, keeps the invariant. *)
LEMMA EnterKeepsInv ==
  ASSUME OnceInv, NEW g \in Goroutine, NEW s \in Svc, g \in Svc => g = s,
         Enter(g, s), UNCHANGED manager
  PROVE  OnceInv'
  <1>1. pc[g] = "idle" /\ inside[g] = <<>>
    BY DEF Enter, OnceInv, CallsInv
  <1>2. made[g] = None
    BY <1>1, NoneIsNoService DEF OnceInv, OnceTypes, MadeUnderLock, Inside
  <1>4. <<s>> \in Seq(Svc) /\ <<s>> # <<>> /\ <<s>>[1] = s
    OBVIOUS
  <1>5. OnceTypes'
    BY <1>4 DEF OnceInv, OnceTypes, Enter, manager
  <1>6. CallsInv'
    <2> SUFFICES ASSUME NEW x \in Goroutine
                 PROVE  /\ pc'[x] # "calling" => inside'[x] = <<>>
                        /\ pc'[x] = "calling" => inside'[x] # <<>> /\ inside'[x][1] = target'[x]
                        /\ x \in Svc /\ pc'[x] # "idle" => target'[x] = x
      BY DEF CallsInv
    <2>1. CASE x = g
      <3>1. pc'[x] = "calling" /\ inside'[x] = <<s>> /\ target'[x] = s
        BY <2>1 DEF OnceInv, OnceTypes, Enter
      <3> QED BY <1>4, <2>1, <3>1
    <2>2. CASE x # g
      <3>1. pc'[x] = pc[x] /\ inside'[x] = inside[x] /\ target'[x] = target[x]
        BY <2>2 DEF OnceInv, OnceTypes, Enter
      <3> QED BY <3>1 DEF OnceInv, CallsInv
    <2> QED BY <2>1, <2>2
  <1>7. MadeUnderLock'
    <2> SUFFICES ASSUME NEW x \in Goroutine, NEW t \in Svc, made'[x] = t
                 PROVE  (Inside(x, t) /\ mutex[t] = x /\ t \notin done /\ instance[t] = 1)'
      BY DEF MadeUnderLock
    <2>1. x # g /\ Inside(x, t) /\ mutex[t] = x /\ t \notin done /\ instance[t] = 1
      BY <1>2, NoneIsNoService DEF OnceInv, MadeUnderLock, Enter
    <2>2. inside'[x] = inside[x]
      BY <2>1 DEF OnceInv, OnceTypes, Enter
    <2> QED BY <2>1, <2>2 DEF Inside, Enter
  <1>8. DoneHasOne' /\ OnlyHolderMade' /\ ReportsInv'
    BY DEF OnceInv, OnceTypes, DoneHasOne, OnlyHolderMade, ReportsInv, Enter, manager
  <1> QED BY <1>5, <1>6, <1>7, <1>8 DEF OnceInv

\* The innermost Do of g ends, and the goroutine has not just made an instance.
LEMMA LeaveKeepsInv ==
  ASSUME OnceInv, NEW g \in Goroutine, NEW s \in Svc, NEW how \in {"ok", "err"},
         Inside(g, s), made[g] = None, Leave(g, how), how = "ok" => s \in done,
         mutex' = mutex \/ (mutex[s] = g /\ Unlock(s)),
         UNCHANGED <<target, done, instance, made, manager>>
  PROVE  OnceInv'
  <1>1. inside[g] # <<>>
    BY DEF Inside
  <1>2. /\ inside' \in [Goroutine -> Seq(Svc)]
        /\ pc' \in [Goroutine -> {"idle", "calling", "ok", "err", "finished"}]
        /\ pc[g] = "calling"
        /\ \A x \in Goroutine \ {g} : inside'[x] = inside[x] /\ pc'[x] = pc[x]
        /\ \/ pc'[g] = how /\ inside'[g] = <<>> /\ inside[g] = <<target[g]>>
           \/ pc'[g] = "calling" /\ inside'[g] # <<>> /\ inside'[g][1] = target[g]
    BY <1>1, LeaveEffect DEF OnceInv
  <1>3. OnceTypes'
    BY <1>2 DEF OnceInv, OnceTypes, Unlock, manager
  <1>4. CallsInv'
    BY <1>2 DEF OnceInv, CallsInv
  <1>5. MadeUnderLock'
    <2> SUFFICES ASSUME NEW x \in Goroutine, NEW t \in Svc, made'[x] = t
                 PROVE  (Inside(x, t) /\ mutex[t] = x /\ t \notin done /\ instance[t] = 1)'
      BY DEF MadeUnderLock
    <2>1. x # g
      BY NoneIsNoService
    <2>2. Inside(x, t) /\ mutex[t] = x /\ t \notin done /\ instance[t] = 1
      BY DEF OnceInv, MadeUnderLock
    <2>3. Inside(x, t)'
      BY <1>2, <2>1, <2>2 DEF Inside
    <2>4. mutex'[t] = x
      BY <2>1, <2>2 DEF Unlock, OnceInv, OnceTypes
    <2> QED BY <2>2, <2>3, <2>4
  <1>6. OnlyHolderMade'
    BY NoneIsNoService DEF OnceInv, OnceTypes, OnlyHolderMade, Unlock
  <1>7. ReportsInv'
    <2>1. inside[g] = <<target[g]>> => s = target[g]
      BY DEF Inside
    <2> QED BY <1>2, <2>1 DEF OnceInv, ReportsInv, manager
  <1> QED BY <1>3, <1>4, <1>5, <1>6, <1>7 DEF OnceInv, DoneHasOne

\* The holder of the lock of s that has just made the instance stores done.
LEMMA StoreKeepsInv ==
  ASSUME OnceInv, NEW g \in Goroutine, NEW s \in Svc, StoreDone(g, s)
  PROVE  OnceInv'
  <1>1. inside[g] # <<>>
    BY DEF StoreDone, Holds, Inside
  <1>2. /\ inside' \in [Goroutine -> Seq(Svc)]
        /\ pc' \in [Goroutine -> {"idle", "calling", "ok", "err", "finished"}]
        /\ pc[g] = "calling"
        /\ \A x \in Goroutine \ {g} : inside'[x] = inside[x] /\ pc'[x] = pc[x]
        /\ \/ pc'[g] = "ok" /\ inside'[g] = <<>> /\ inside[g] = <<target[g]>>
           \/ pc'[g] = "calling" /\ inside'[g] # <<>> /\ inside'[g][1] = target[g]
    BY <1>1, LeaveEffect DEF OnceInv, StoreDone
  <1>3. OnceTypes'
    BY <1>2 DEF OnceInv, OnceTypes, Unlock, manager, StoreDone
  <1>4. CallsInv'
    BY <1>2 DEF OnceInv, CallsInv, StoreDone
  <1>5. instance[s] = 1
    BY DEF OnceInv, MadeUnderLock, StoreDone
  <1>6. MadeUnderLock'
    <2> SUFFICES ASSUME NEW x \in Goroutine, NEW t \in Svc, made'[x] = t
                 PROVE  (Inside(x, t) /\ mutex[t] = x /\ t \notin done /\ instance[t] = 1)'
      BY DEF MadeUnderLock
    <2>1. x # g /\ made[x] = t
      BY NoneIsNoService DEF StoreDone, OnceInv, OnceTypes
    <2>2. Inside(x, t) /\ mutex[t] = x /\ t \notin done /\ instance[t] = 1
      BY <2>1 DEF OnceInv, MadeUnderLock
    <2>3. t # s
      BY <2>1, <2>2 DEF StoreDone, Holds
    <2>4. Inside(x, t)'
      BY <1>2, <2>1, <2>2 DEF Inside
    <2> QED BY <2>2, <2>3, <2>4 DEF Unlock, OnceInv, OnceTypes, StoreDone
  <1>7. OnlyHolderMade'
    <2> SUFFICES ASSUME NEW t \in Svc \ done', instance'[t] # 0
                 PROVE  mutex'[t] # None /\ made'[mutex'[t]] = t
      BY DEF OnlyHolderMade
    <2>1. t # s /\ t \in Svc \ done /\ instance[t] # 0
      BY DEF StoreDone
    <2>2. mutex[t] # None /\ made[mutex[t]] = t
      BY <2>1 DEF OnceInv, OnlyHolderMade
    <2>3. mutex'[t] = mutex[t] /\ mutex[t] \in Goroutine
      BY <2>1, <2>2 DEF StoreDone, Unlock, OnceInv, OnceTypes
    <2>4. mutex[t] # g
      BY <2>1, <2>2 DEF StoreDone
    <2> QED BY <2>2, <2>3, <2>4 DEF StoreDone, OnceInv, OnceTypes
  <1>8. ReportsInv'
    <2>1. inside[g] = <<target[g]>> => s = target[g]
      BY DEF Inside, StoreDone, Holds
    <2> QED BY <1>2, <2>1 DEF OnceInv, ReportsInv, manager, StoreDone
  <1>9. DoneHasOne'
    BY <1>5 DEF OnceInv, DoneHasOne, StoreDone
  <1> QED BY <1>3, <1>4, <1>6, <1>7, <1>8, <1>9 DEF OnceInv

(* Every step of a goroutine, a request or InitializeServices keeps the invariant. *)
LEMMA OnceInvNext == OnceInv /\ [Next]_vars => OnceInv'
  <1> SUFFICES ASSUME OnceInv, [Next]_vars PROVE OnceInv'
    OBVIOUS
  <1>1. CASE UNCHANGED vars \/ Spawn \/ Receive
    BY <1>1 DEF Spawn, Receive, once, vars, Inside, OnceInv, OnceTypes, CallsInv, DoneHasOne,
       MadeUnderLock, OnlyHolderMade, ReportsInv
  <1>2. ASSUME NEW s \in Svc, InitService(s) PROVE OnceInv'
    BY <1>2, EnterKeepsInv DEF InitService, Goroutine
  <1>3. ASSUME NEW r \in Req, NEW s \in Svc, Get(r, s) PROVE OnceInv'
    BY <1>3, EnterKeepsInv, ServiceInitAssumption DEF Get, Goroutine, ServiceInitAssumption
  <1>4. ASSUME NEW s \in Svc, SendResult(s) PROVE OnceInv'
    <2>1. s \in Goroutine
      BY DEF Goroutine
    <2>2. pc[s] = "ok" => s \in done
      BY <2>1 DEF OnceInv, ReportsInv, CallsInv
    <2> QED BY <1>4, <2>1, <2>2 DEF SendResult, once, Inside, OnceInv, OnceTypes, CallsInv,
       DoneHasOne, MadeUnderLock, OnlyHolderMade, ReportsInv
  <1>5. ASSUME NEW g \in Goroutine, NEW s \in Svc, Inside(g, s), s \in done PROVE made[g] = None
    BY <1>5 DEF OnceInv, OnceTypes, MadeUnderLock, Inside
  <1>6. ASSUME NEW g \in Goroutine, NEW s \in Svc, FastPath(g, s) PROVE OnceInv'
    BY <1>5, <1>6, LeaveKeepsInv DEF FastPath, manager
  <1>7. ASSUME NEW g \in Goroutine, NEW s \in Svc, FoundDone(g, s) PROVE OnceInv'
    BY <1>5, <1>7, LeaveKeepsInv DEF FoundDone, Holds
  <1>8. ASSUME NEW g \in Goroutine, NEW s \in Svc, SetupFails(g, s) PROVE OnceInv'
    BY <1>8, LeaveKeepsInv DEF SetupFails, InSetup, Holds
  <1>9. ASSUME NEW g \in Goroutine, NEW s \in Svc, Lock(g, s) PROVE OnceInv'
    BY <1>9, NoneIsNoService DEF Lock, manager, Inside, OnceInv, OnceTypes, CallsInv, DoneHasOne,
       MadeUnderLock, OnlyHolderMade, ReportsInv
  <1>10. ASSUME NEW g \in Goroutine, NEW s \in Svc, StoreDone(g, s) PROVE OnceInv'
    BY <1>10, StoreKeepsInv
  <1>11. ASSUME NEW g \in Goroutine, NEW s \in Svc, SetupSucceeds(g, s) PROVE OnceInv'
    <2>1. instance[s] = 0
      BY <1>11, NoneIsNoService DEF SetupSucceeds, InSetup, Holds, OnceInv, OnceTypes, OnlyHolderMade
    <2>2. \A x \in Goroutine : made[x] # s
      BY <2>1 DEF OnceInv, MadeUnderLock
    <2>3. Inside(g, s) /\ mutex[s] = g /\ s \notin done /\ made[g] = None
      BY <1>11 DEF SetupSucceeds, InSetup, Holds
    <2> QED BY <1>11, <2>1, <2>2, <2>3, NoneIsNoService DEF SetupSucceeds, manager, Inside,
       OnceInv, OnceTypes, CallsInv, DoneHasOne, MadeUnderLock, OnlyHolderMade, ReportsInv
  <1>12. ASSUME NEW g \in Goroutine, NEW s \in Svc, NEW t \in Svc, CallOther(g, s, t) PROVE OnceInv'
    <2>1. inside[g] \in Seq(Svc) /\ inside[g] # <<>> /\ made[g] = None /\ pc[g] = "calling"
      BY <1>12 DEF CallOther, InSetup, Holds, Inside, OnceInv, OnceTypes, CallsInv
    <2>2. /\ Append(inside[g], t) \in Seq(Svc) /\ Append(inside[g], t) # <<>>
          /\ Append(inside[g], t)[1] = inside[g][1]
      BY <2>1
    <2>3. \A x \in Goroutine \ {g} : inside'[x] = inside[x]
      BY <1>12 DEF CallOther, OnceInv, OnceTypes
    <2>4. OnceTypes' /\ CallsInv'
      BY <1>12, <2>1, <2>2 DEF CallOther, manager, OnceInv, OnceTypes, CallsInv
    <2>5. MadeUnderLock'
      BY <1>12, <2>1, <2>3, NoneIsNoService DEF CallOther, Inside, OnceInv, MadeUnderLock
    <2> QED BY <1>12, <2>4, <2>5 DEF CallOther, manager, OnceInv, DoneHasOne, OnlyHolderMade, ReportsInv
  <1> QED
    BY <1>1, <1>2, <1>3, <1>4, <1>6, <1>7, <1>8, <1>9, <1>10, <1>11, <1>12 DEF Next, Step

\* The invariant of Once holds in every state.
THEOREM OnceInvariance == Spec => []OnceInv
  BY OnceInvInit, OnceInvNext, PTL DEF Spec

\* A service never has two instances, however its callers race and its Setup
\* fails: syncutil.Once, which is re-armed on failure, lets one succeed.
THEOREM ServiceHasOneInstance == Spec => []OneInstance
  <1>1. OnceInv => OneInstance
    <2> SUFFICES ASSUME OnceInv, NEW s \in Svc \ done, instance[s] # 0 PROVE instance[s] = 1
      BY DEF OnceInv, OnceTypes, DoneHasOne, OneInstance
    <2>1. mutex[s] \in Goroutine /\ made[mutex[s]] = s
      BY DEF OnceInv, OnceTypes, OnlyHolderMade
    <2> QED BY <2>1 DEF OnceInv, MadeUnderLock
  <1> QED BY <1>1, OnceInvariance, PTL

\* A Get without an error returns an instance, fast path included.
THEOREM GetReturnsOne == Spec => []GetReturnsInstance
  <1>1. OnceInv => GetReturnsInstance
    BY DEF OnceInv, DoneHasOne, ReportsInv, GetReturnsInstance
  <1> QED BY <1>1, OnceInvariance, PTL

\* The health check passes only when every service is up.
THEOREM HealthyMeansUp == Spec => [](HealthOK => done = Svc)
  <1>1. ASSUME OnceInv, HealthOK PROVE done = Svc
    <2>1. IsFiniteSet(Svc) /\ initialised \subseteq Svc /\ initialised \subseteq done /\ done \subseteq Svc
      BY <1>1, ServiceInitAssumption DEF ServiceInitAssumption, OnceInv, OnceTypes, ReportsInv
    <2>2. initialised = Svc
      BY <1>1, <2>1, FS_Subset DEF HealthOK
    <2> QED BY <2>1, <2>2
  <1>2. OnceInv => (HealthOK => done = Svc)
    BY <1>1
  <1> QED BY <1>2, OnceInvariance, PTL

-----------------------------------------------------------------------------
(* InitializeServices and its channel of results. *)

\* The goroutines of InitializeServices that have sent their result.
Finished == {s \in Svc : pc[s] = "finished"}

NoError == main # "failed" /\ \A i \in 1 .. Len(results) : results[i] = "ok"

\* Every result that was sent is in the channel or was received; while no error
\* was sent, each was sent by a service that is initialised; and InitializeServices
\* succeeds only after it has received as many as there are services.
ResultsInv ==
    /\ main \in {"start", "collecting", "ready", "failed"}
    /\ results \in Seq({"ok", "err"}) /\ received \in Nat
    /\ received + Len(results) = Cardinality(Finished)
    /\ NoError => Finished \subseteq initialised
    /\ main = "ready" => received = Cardinality(Svc)

(* The set of senders is finite, and there are at most as many as services. *)
LEMMA FinishedBounded ==
  /\ IsFiniteSet(Svc) /\ Cardinality(Svc) \in Nat
  /\ IsFiniteSet(Finished) /\ Cardinality(Finished) \in Nat
  /\ Cardinality(Finished) <= Cardinality(Svc)
  /\ Cardinality(Finished) = Cardinality(Svc) => Finished = Svc
  <1>1. IsFiniteSet(Svc) /\ Finished \subseteq Svc
    BY ServiceInitAssumption DEF ServiceInitAssumption, Finished
  <1>2. IsFiniteSet(Finished) /\ Cardinality(Finished) <= Cardinality(Svc)
        /\ (Cardinality(Finished) = Cardinality(Svc) => Finished = Svc)
    BY <1>1, FS_Subset
  <1> QED BY <1>1, <1>2, FS_CardinalityType

(* Every call of Get or InitService begins with an empty channel and nothing received. *)
LEMMA ResultsInvInit == Init => ResultsInv
  <1> SUFFICES ASSUME Init PROVE ResultsInv
    OBVIOUS
  <1>1. Finished = {}
    BY DEF Init, Finished, Goroutine
  <1>2. Cardinality(Finished) = 0
    BY <1>1, FS_EmptySet
  <1>3. results = <<>> /\ results \in Seq({"ok", "err"}) /\ Len(results) = 0 /\ received = 0 /\ main = "start"
    BY DEF Init
  <1> QED BY <1>1, <1>2, <1>3 DEF ResultsInv

(* A step that sends no result leaves the senders as they are. *)
LEMMA SendersKept ==
  ASSUME ResultsInv, Finished' = Finished, UNCHANGED <<main, initialised, results, received>>
  PROVE  ResultsInv'
  BY DEF ResultsInv, NoError

(* Inside Once.Do a goroutine only moves from a call to its return. *)
LEMMA LeaveSendsNothing ==
  ASSUME OnceInv, NEW g \in Goroutine, NEW how \in {"ok", "err"}, inside[g] # <<>>, Leave(g, how)
  PROVE  Finished' = Finished
  <1>1. pc[g] = "calling" /\ pc'[g] \in {"ok", "err", "calling"}
    BY LeaveEffect DEF OnceInv
  <1>2. \A x \in Goroutine \ {g} : pc'[x] = pc[x]
    BY LeaveEffect DEF OnceInv
  <1> QED BY <1>1, <1>2 DEF Finished, Goroutine

(* A goroutine sends one result, and says that its service is initialised if it is. *)
LEMMA SendKeepsResults ==
  ASSUME OnceInv, ResultsInv, NEW s \in Svc, SendResult(s)
  PROVE  ResultsInv'
  <1>1. s \notin Finished /\ Finished' = Finished \union {s} /\ pc[s] \in {"ok", "err"}
    BY DEF SendResult, Finished, OnceInv, OnceTypes, Goroutine
  <1>2. Cardinality(Finished') = Cardinality(Finished) + 1
    BY <1>1, FinishedBounded, FS_AddElement
  <1>3. /\ results' \in Seq({"ok", "err"}) /\ Len(results') = Len(results) + 1
        /\ \A i \in 1 .. Len(results) : results'[i] = results[i]
        /\ results'[Len(results) + 1] = pc[s]
    BY <1>1 DEF SendResult, ResultsInv
  <1>4. UNCHANGED <<main, received>> /\ initialised \subseteq initialised'
        /\ (pc[s] = "ok" => s \in initialised')
    BY DEF SendResult
  <1>5. received' + Len(results') = Cardinality(Finished')
    BY <1>2, <1>3, <1>4, FinishedBounded DEF ResultsInv
  <1>6. ASSUME NoError' PROVE Finished' \subseteq initialised'
    <2>1. NoError
      BY <1>3, <1>4, <1>6 DEF NoError, ResultsInv
    <2>2. pc[s] = "ok"
      BY <1>3, <1>6 DEF NoError, ResultsInv
    <2> QED BY <1>1, <1>4, <2>1, <2>2 DEF ResultsInv
  <1> QED BY <1>3, <1>4, <1>5, <1>6 DEF ResultsInv

(* InitializeServices takes one result, and fails at the first error. *)
LEMMA ReceiveKeepsResults ==
  ASSUME ResultsInv, Receive
  PROVE  ResultsInv'
  <1>1. Finished' = Finished /\ initialised' = initialised
    BY DEF Receive, Finished
  <1>2. /\ results' \in Seq({"ok", "err"}) /\ Len(results') = Len(results) - 1 /\ Len(results) \in Nat \ {0}
        /\ \A i \in 1 .. Len(results') : results'[i] = results[i + 1]
        /\ Head(results) = results[1] /\ results[1] \in {"ok", "err"}
    BY DEF Receive, ResultsInv
  <1>3. received' = received + 1 /\ received \in Nat /\ main = "collecting"
    BY DEF Receive, ResultsInv
  <1>4. \/ Head(results) = "err" /\ main' = "failed"
        \/ Head(results) = "ok" /\ received + 1 = Cardinality(Svc) /\ main' = "ready"
        \/ Head(results) = "ok" /\ main' = "collecting"
    BY <1>2 DEF Receive
  <1>5. received' + Len(results') = Cardinality(Finished')
    BY <1>1, <1>2, <1>3, FinishedBounded DEF ResultsInv
  <1>6. ASSUME NoError' PROVE Finished' \subseteq initialised'
    <2>1. results[1] = "ok"
      BY <1>2, <1>4, <1>6 DEF NoError
    <2>2. ASSUME NEW i \in 1 .. Len(results) PROVE results[i] = "ok"
      <3>1. CASE i = 1
        BY <2>1, <3>1
      <3>2. CASE i # 1
        <4>1. i - 1 \in 1 .. Len(results') /\ results'[i - 1] = results[i]
          BY <1>2, <3>2
        <4> QED BY <1>6, <4>1 DEF NoError
      <3> QED BY <3>1, <3>2
    <2>3. NoError
      BY <1>3, <2>2 DEF NoError
    <2> QED BY <1>1, <2>3 DEF ResultsInv
  <1>7. main' = "ready" => received' = Cardinality(Svc)'
    BY <1>3, <1>4
  <1>8. main' \in {"start", "collecting", "ready", "failed"}
    BY <1>4
  <1> QED BY <1>2, <1>3, <1>5, <1>6, <1>7, <1>8 DEF ResultsInv

(* Every step keeps the account of the results. *)
LEMMA ResultsInvNext == OnceInv /\ ResultsInv /\ [Next]_vars => ResultsInv'
  <1> SUFFICES ASSUME OnceInv, ResultsInv, [Next]_vars PROVE ResultsInv'
    OBVIOUS
  <1>1. CASE UNCHANGED vars
    BY <1>1, SendersKept DEF vars, Finished
  <1>2. CASE Spawn
    BY <1>2 DEF Spawn, ResultsInv, NoError, Finished
  <1>3. CASE Receive
    BY <1>3, ReceiveKeepsResults
  <1>4. ASSUME NEW s \in Svc, SendResult(s) PROVE ResultsInv'
    BY <1>4, SendKeepsResults
  <1>5. ASSUME NEW g \in Goroutine, NEW s \in Svc, Enter(g, s), UNCHANGED manager PROVE ResultsInv'
    <2>1. Finished' = Finished
      BY <1>5 DEF Enter, Finished, OnceInv, OnceTypes, Goroutine
    <2> QED BY <1>5, <2>1, SendersKept DEF manager
  <1>6. ASSUME NEW g \in Goroutine, NEW s \in Svc, Inside(g, s), Leave(g, "ok") \/ Leave(g, "err"),
               UNCHANGED manager
        PROVE ResultsInv'
    BY <1>6, LeaveSendsNothing, SendersKept DEF Inside, manager
  <1>7. ASSUME UNCHANGED <<pc, manager>> PROVE ResultsInv'
    BY <1>7, SendersKept DEF manager, Finished
  <1>8. ASSUME NEW g \in Goroutine, Step(g) PROVE ResultsInv'
    <2>1. PICK s \in Svc :
            \/ FastPath(g, s) \/ Lock(g, s) \/ FoundDone(g, s) \/ StoreDone(g, s)
            \/ SetupSucceeds(g, s) \/ SetupFails(g, s)
            \/ \E t \in Svc : CallOther(g, s, t)
      BY <1>8 DEF Step
    <2>2. CASE FastPath(g, s) \/ FoundDone(g, s) \/ StoreDone(g, s) \/ SetupFails(g, s)
      <3>1. Inside(g, s) /\ (Leave(g, "ok") \/ Leave(g, "err")) /\ UNCHANGED manager
        BY <2>2 DEF FastPath, FoundDone, StoreDone, SetupFails, InSetup, Holds
      <3> QED BY <1>6, <3>1
    <2>3. CASE Lock(g, s) \/ SetupSucceeds(g, s) \/ \E t \in Svc : CallOther(g, s, t)
      BY <1>7, <2>3 DEF Lock, SetupSucceeds, CallOther
    <2> QED BY <2>1, <2>2, <2>3
  <1>9. ASSUME NEW s \in Svc, InitService(s) PROVE ResultsInv'
    BY <1>5, <1>9 DEF InitService, Goroutine
  <1>10. ASSUME NEW r \in Req, NEW s \in Svc, Get(r, s) PROVE ResultsInv'
    BY <1>5, <1>10 DEF Get, Goroutine
  <1> QED BY <1>1, <1>2, <1>3, <1>4, <1>8, <1>9, <1>10 DEF Next

\* What goroutines that race for a service are told is true: a Get without an error
\* has an instance, and neither the health check nor InitializeServices, which counts
\* results that may be sent in any order, reports success before every service is up.
THEOREM RacingCallersAreToldTheTruth == Spec => []InitInv
  <1>1. Init => ResultsInv
    BY ResultsInvInit
  <1>2. OnceInv /\ ResultsInv /\ [Next]_vars => ResultsInv'
    BY ResultsInvNext
  <1>3. OnceInv /\ ResultsInv => TypeOK
    <2> SUFFICES ASSUME OnceInv, ResultsInv PROVE TypeOK
      OBVIOUS
    <2>1. received \in 0 .. Cardinality(Svc) /\ Len(results) <= Cardinality(Svc)
      BY FinishedBounded DEF ResultsInv
    <2> QED BY <2>1 DEF TypeOK, OnceInv, OnceTypes, ResultsInv
  <1>4. ASSUME OnceInv, ResultsInv, HealthOK \/ main = "ready" PROVE done = Svc
    <2>1. initialised \subseteq Svc /\ initialised \subseteq done /\ done \subseteq Svc
      BY <1>4 DEF OnceInv, OnceTypes, ReportsInv
    <2>2. CASE HealthOK
      <3>1. initialised = Svc
        BY <2>1, <2>2, FinishedBounded, FS_Subset DEF HealthOK
      <3> QED BY <2>1, <3>1
    <2>3. CASE main = "ready"
      <3>1. Len(results) = 0 /\ Cardinality(Finished) = Cardinality(Svc)
        BY <1>4, <2>3, FinishedBounded DEF ResultsInv
      <3>2. NoError
        BY <2>3, <3>1 DEF NoError
      <3>3. Svc \subseteq initialised
        BY <1>4, <3>1, <3>2, FinishedBounded DEF ResultsInv
      <3> QED BY <2>1, <3>3
    <2> QED BY <1>4, <2>2, <2>3
  <1>5. OnceInv => GetReturnsInstance
    BY DEF OnceInv, DoneHasOne, ReportsInv, GetReturnsInstance
  <1>6. OnceInv /\ ResultsInv => InitInv
    BY <1>3, <1>4, <1>5 DEF InitInv, ReadyMeansUp
  <1> QED BY <1>1, <1>2, <1>6, OnceInvariance, PTL DEF Spec
=============================================================================
