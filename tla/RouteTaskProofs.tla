--------------------------- MODULE RouteTaskProofs ----------------------------
(***************************************************************************)
(* Theorems about RouteTask, for every number of workers, messages,        *)
(* requests and crashes.                                                   *)
(***************************************************************************)
EXTENDS RouteTask, TLAPS

-----------------------------------------------------------------------------
(***************************************************************************)
(* Type correctness.                                                       *)
(***************************************************************************)
LEMMA TypeInit == Init => TypeOK
<1> SUFFICES ASSUME Init PROVE TypeOK
  OBVIOUS
<1> USE ConstantsAssumption DEF Init
<1>1. \A w \in Workers : pc[w] = "publish" <=> slot[w] \in Slots
  OBVIOUS
<1>2. pc \in [Workers -> Locations] /\ slot \in [Workers -> Slots \cup {NoSlot}]
  BY DEF Locations
<1>3. requests \in 0..MaxRequests /\ crashes \in 0..MaxCrashes /\ queued \in Nat
  OBVIOUS
<1>4. lock \in BOOLEAN /\ unserved \in BOOLEAN /\ overran \in BOOLEAN
  OBVIOUS
<1>5. pending \in Slots \cup {NoSlot} /\ deferred \subseteq Slots
  OBVIOUS
<1> QED BY <1>1, <1>2, <1>3, <1>4, <1>5 DEF TypeOK

LEMMA TypeStep == TypeOK /\ [Next]_vars => TypeOK'
<1> SUFFICES ASSUME TypeOK, [Next]_vars PROVE TypeOK'
  OBVIOUS
<1> USE ConstantsAssumption DEF TypeOK, Locations
<1>1. CASE Request
  BY <1>1 DEF Request
<1>2. ASSUME NEW w \in Workers, Deliver(w) PROVE TypeOK'
  <2>1. CASE Receive(w)
    BY <2>1 DEF Receive
  <2>2. ASSUME NEW s \in Slots, ReceiveDeferred(w, s) PROVE TypeOK'
    BY <2>2 DEF ReceiveDeferred
  <2> QED BY <1>2, <2>1, <2>2 DEF Deliver
<1>3. ASSUME NEW w \in Workers, Step(w) PROVE TypeOK'
  <2>1. CASE Acquire(w)
    BY <2>1 DEF Acquire
  <2>2. CASE Skip(w)
    BY <2>2 DEF Skip
  <2>3. CASE Announce(w)
    BY <2>3 DEF Announce
  <2>4. CASE AlreadyPending(w)
    BY <2>4 DEF AlreadyPending
  <2>5. CASE Publish(w)
    BY <2>5 DEF Publish
  <2>6. CASE Snapshot(w)
    BY <2>6 DEF Snapshot
  <2>7. CASE Release(w)
    BY <2>7 DEF Release
  <2> QED BY <1>3, <2>1, <2>2, <2>3, <2>4, <2>5, <2>6, <2>7 DEF Step
<1>4. ASSUME NEW w \in Workers, Crash(w) PROVE TypeOK'
  BY <1>4 DEF Crash
<1>5. CASE ExpireLock
  BY <1>5 DEF ExpireLock
<1>6. CASE ExpirePending
  BY <1>6 DEF ExpirePending
<1>7. CASE UNCHANGED vars
  BY <1>7 DEF vars
<1> QED BY <1>1, <1>2, <1>3, <1>4, <1>5, <1>6, <1>7 DEF Next

(***************************************************************************)
(* Every variable of RouteTask keeps its type, and a worker owes the       *)
(* broker a message exactly between Announce and Publish.                  *)
(***************************************************************************)
THEOREM TypeCorrect == Spec => []TypeOK
  BY TypeInit, TypeStep, PTL DEF Spec

-----------------------------------------------------------------------------
(***************************************************************************)
(* The worker inside holds the lock.                                       *)
(***************************************************************************)
LEMMA LockInit == Init => InsideHoldsLock
  BY DEF Init, InsideHoldsLock, Inside

LEMMA LockStep ==
  ASSUME TypeOK, InsideHoldsLock, [Next]_vars
  PROVE  InsideHoldsLock'
<1> USE DEF TypeOK, InsideHoldsLock, Inside
<1>1. CASE Request
  BY <1>1 DEF Request
<1>2. ASSUME NEW w \in Workers, Deliver(w) PROVE InsideHoldsLock'
  BY <1>2 DEF Deliver, Receive, ReceiveDeferred
<1>3. ASSUME NEW w \in Workers, Step(w) PROVE InsideHoldsLock'
  <2>1. CASE Acquire(w)
    BY <2>1 DEF Acquire
  <2>2. CASE Skip(w) \/ Announce(w) \/ AlreadyPending(w) \/ Publish(w)
    BY <2>2 DEF Skip, Announce, AlreadyPending, Publish
  <2>3. CASE Snapshot(w)
    BY <2>3 DEF Snapshot
  <2>4. CASE Release(w)
    BY <2>4 DEF Release
  <2> QED BY <1>3, <2>1, <2>2, <2>3, <2>4 DEF Step
<1>4. ASSUME NEW w \in Workers, Crash(w) PROVE InsideHoldsLock'
  BY <1>4 DEF Crash
<1>5. CASE ExpireLock
  BY <1>5 DEF ExpireLock
<1>6. CASE ExpirePending
  BY <1>6 DEF ExpirePending
<1>7. CASE UNCHANGED vars
  BY <1>7 DEF vars
<1> QED BY <1>1, <1>2, <1>3, <1>4, <1>5, <1>6, <1>7 DEF Next

(***************************************************************************)
(* Two passes under the same key never overlap, although cache.delete does *)
(* not check who set the key and although workers crash, but for a pass    *)
(* that outlives ROUTE_QUEUE_COOLDOWN_MAX_TIME; and what that one starts   *)
(* ends when every pass of that moment has ended.                          *)
(***************************************************************************)
THEOREM PassesDoNotOverlap == Spec => []OnePass
<1>1. TypeOK /\ InsideHoldsLock /\ [Next]_vars => InsideHoldsLock'
  BY LockStep
<1>2. InsideHoldsLock => OnePass
  BY DEF InsideHoldsLock, OnePass
<1> QED BY LockInit, TypeCorrect, <1>1, <1>2, PTL DEF Spec

-----------------------------------------------------------------------------
(***************************************************************************)
(* The pending key stands for a message that is or will be published.      *)
(***************************************************************************)
LEMMA PendingInit == Init => PendingIsAnnounced
  BY DEF Init, PendingIsAnnounced, PendingIsHonest

LEMMA PendingStep == TypeOK /\ PendingIsAnnounced /\ [Next]_vars => PendingIsAnnounced'
<1> SUFFICES ASSUME crashes' = 0, TypeOK, PendingIsAnnounced, [Next]_vars
             PROVE  PendingIsAnnounced'
  BY DEF PendingIsAnnounced
<1> USE ConstantsAssumption DEF TypeOK, PendingIsAnnounced, PendingIsHonest
<1>1. CASE Request
  BY <1>1 DEF Request
<1>2. ASSUME NEW w \in Workers, Deliver(w) PROVE PendingIsAnnounced'
  BY <1>2 DEF Deliver, Receive, ReceiveDeferred
<1>3. ASSUME NEW w \in Workers, Step(w) PROVE PendingIsAnnounced'
  <2>1. CASE Announce(w)
    BY <2>1 DEF Announce
  <2>2. CASE Publish(w)
    BY <2>2 DEF Publish
  <2>3. CASE Acquire(w) \/ Skip(w) \/ AlreadyPending(w) \/ Snapshot(w) \/ Release(w)
    BY <2>3 DEF Acquire, Skip, AlreadyPending, Snapshot, Release
  <2> QED BY <1>3, <2>1, <2>2, <2>3 DEF Step
<1>4. ASSUME NEW w \in Workers, Crash(w) PROVE PendingIsAnnounced'
  BY <1>4 DEF Crash
<1>5. CASE ExpireLock
  BY <1>5 DEF ExpireLock
<1>6. CASE ExpirePending
  BY <1>6 DEF ExpirePending
<1>7. CASE UNCHANGED vars
  BY <1>7 DEF vars
<1> QED BY <1>1, <1>2, <1>3, <1>4, <1>5, <1>6, <1>7 DEF Next

LEMMA WakeupInit == Init => NoLostWakeup
  BY DEF Init, NoLostWakeup

LEMMA WakeupStep ==
  TypeOK /\ PendingIsAnnounced /\ NoLostWakeup /\ [Next]_vars => NoLostWakeup'
<1> SUFFICES ASSUME crashes' = 0, TypeOK, PendingIsAnnounced, NoLostWakeup, [Next]_vars
             PROVE  NoLostWakeup'
  BY DEF NoLostWakeup
<1> USE ConstantsAssumption DEF TypeOK, NoLostWakeup, WakeupInFlight
<1>1. CASE Request
  BY <1>1 DEF Request
<1>2. ASSUME NEW w \in Workers, Deliver(w) PROVE NoLostWakeup'
  <2>1. pc' = [pc EXCEPT ![w] = "acquire"]
    BY <1>2 DEF Deliver, Receive, ReceiveDeferred
  <2> QED BY <2>1
<1>3. ASSUME NEW w \in Workers, Step(w) PROVE NoLostWakeup'
  <2>1. CASE Acquire(w) \/ Skip(w) \/ Announce(w)
    <3>1. pc'[w] \in {"skipped", "publish", "read"}
      BY <2>1 DEF Acquire, Skip, Announce
    <3> QED BY <3>1
  <2>2. CASE AlreadyPending(w)
    <3>1. deferred # {} \/ \E v \in Workers : pc[v] = "publish" /\ v # w
      BY <2>2 DEF AlreadyPending, PendingIsAnnounced, PendingIsHonest
    <3> QED BY <2>2, <3>1 DEF AlreadyPending
  <2>3. CASE Publish(w)
    BY <2>3 DEF Publish
  <2>4. CASE Snapshot(w)
    BY <2>4 DEF Snapshot
  <2>5. CASE Release(w)
    BY <2>5 DEF Release
  <2> QED BY <1>3, <2>1, <2>2, <2>3, <2>4, <2>5 DEF Step
<1>4. ASSUME NEW w \in Workers, Crash(w) PROVE NoLostWakeup'
  BY <1>4 DEF Crash
<1>5. CASE ExpireLock
  BY <1>5 DEF ExpireLock
<1>6. CASE ExpirePending
  BY <1>6 DEF ExpirePending
<1>7. CASE UNCHANGED vars
  BY <1>7 DEF vars
<1> QED BY <1>1, <1>2, <1>3, <1>4, <1>5, <1>6, <1>7 DEF Next

(***************************************************************************)
(* A request that met the cooldown is never forgotten: while rooms have    *)
(* not been read since, a message or a worker is on its way, even if       *)
(* passes outlive the lock and the keys expire at any moment, until a      *)
(* worker is killed.                                                       *)
(***************************************************************************)
THEOREM WakeupsAreKept == Spec => []NoLostWakeup
  BY TypeCorrect, PendingInit, PendingStep, WakeupInit, WakeupStep, PTL DEF Spec

-----------------------------------------------------------------------------
(***************************************************************************)
(* A step of the tasks is a step of RoutingService or leaves it unchanged. *)
(***************************************************************************)
LEMMA ServiceInit == Init => Service!Init
  BY DEF Init, Inside, Service!Init

LEMMA ServiceStep ==
  ASSUME TypeOK, InsideHoldsLock, [Next]_vars
  PROVE  [Service!Next]_(Service!vars)
<1> USE DEF TypeOK
<1>1. CASE Request
  BY <1>1 DEF Request, Inside, Service!Next, Service!Request
<1>2. ASSUME NEW w \in Workers, Deliver(w) PROVE UNCHANGED Service!vars
  <2>1. /\ pc' = [pc EXCEPT ![w] = "acquire"] /\ pc[w] = "idle"
        /\ UNCHANGED <<unserved, overran, crashes>>
    BY <1>2 DEF Deliver, Receive, ReceiveDeferred
  <2>2. Inside' = Inside
    BY <2>1 DEF Inside
  <2> QED BY <2>1, <2>2 DEF Service!vars
<1>3. ASSUME NEW w \in Workers, Step(w) PROVE [Service!Next]_(Service!vars)
  <2>1. CASE Acquire(w)
    <3>1. Inside = {} \/ overran
      BY <2>1 DEF Acquire, InsideHoldsLock
    <3>2. w \notin Inside /\ Inside' = Inside \cup {w} /\ UNCHANGED <<unserved, overran, crashes>>
      BY <2>1 DEF Acquire, Inside
    <3> QED BY <3>1, <3>2 DEF Service!Next, Service!Begin
  <2>2. CASE Skip(w) \/ Announce(w) \/ AlreadyPending(w) \/ Publish(w)
    <3>1. Inside' = Inside /\ UNCHANGED <<unserved, overran, crashes>>
      BY <2>2 DEF Skip, Announce, AlreadyPending, Publish, Inside
    <3> QED BY <3>1 DEF Service!vars
  <2>3. CASE Snapshot(w)
    <3>1. w \in Inside /\ Inside' = Inside
      BY <2>3 DEF Snapshot, Inside
    <3> QED BY <2>3, <3>1 DEF Snapshot, Service!Next, Service!Read
  <2>4. CASE Release(w)
    <3>1. w \in Inside /\ Inside' = Inside \ {w}
      BY <2>4 DEF Release, Inside
    <3> QED BY <2>4, <3>1 DEF Release, Service!Next, Service!End, Service!Leave
  <2> QED BY <1>3, <2>1, <2>2, <2>3, <2>4 DEF Step
<1>4. ASSUME NEW w \in Workers, Crash(w) PROVE [Service!Next]_(Service!vars)
  <2>1. Inside' = Inside \ {w} /\ overran' = (overran /\ Inside' # {})
    BY <1>4 DEF Crash, Inside
  <2>2. unserved' = unserved \/ unserved' = TRUE
    BY <1>4 DEF Crash
  <2>3. crashes' > 0
    BY <1>4, ConstantsAssumption DEF Crash
  <2> QED BY <2>1, <2>2, <2>3 DEF Service!Next, Service!Kill, Service!Leave
<1>5. CASE ExpireLock
  <2>1. Inside' = Inside /\ UNCHANGED <<unserved, crashes>>
    BY <1>5 DEF ExpireLock, Inside
  <2> QED BY <1>5, <2>1 DEF ExpireLock, Service!Next, Service!Overrun, Service!vars
<1>6. CASE ExpirePending \/ UNCHANGED vars
  BY <1>6 DEF ExpirePending, vars, Inside, Service!vars
<1> QED BY <1>1, <1>2, <1>3, <1>4, <1>5, <1>6 DEF Next

(***************************************************************************)
(* The safety part of RoutingService: to their callers, the tasks behave   *)
(* like one service that reads the waiting rooms in passes of its own, one *)
(* at a time but for those that outlive the lock, and a killed worker is   *)
(* the end of his pass.                                                    *)
(***************************************************************************)
THEOREM ImplementsService == Spec => Service!Init /\ [][Service!Next]_(Service!vars)
<1>1. TypeOK /\ InsideHoldsLock /\ [Next]_vars => [Service!Next]_(Service!vars)
  BY ServiceStep
<1>2. TypeOK /\ InsideHoldsLock /\ [Next]_vars => InsideHoldsLock'
  BY LockStep
<1> QED BY LockInit, TypeCorrect, ServiceInit, <1>1, <1>2, PTL DEF Spec
=============================================================================
