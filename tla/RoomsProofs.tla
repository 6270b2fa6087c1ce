----------------------------- MODULE RoomsProofs -----------------------------
(***************************************************************************)
(* Proofs about the components of MCRooms.  A step of the run is a step of *)
(* each component or leaves it alone, so what is proved of a component by  *)
(* itself is proved of the run.                                            *)
(***************************************************************************)
EXTENDS MCRooms, FiniteSetTheorems, WellFoundedInduction, TLAPS

-----------------------------------------------------------------------------
(* RoomIntake, for any contacts, queues, agents, request threads and       *)
(* limits.                                                                 *)

LEMMA TypeInit == Init => TypeOK
  BY DEF Init, TypeOK, Locations

\* What a thread does before it commits or gives up.
Advance(t) ==
    \/ LockContact(t) \/ LockQueue(t) \/ CheckUnique(t)
    \/ \E a \in Agents : ResolveDirect(t, a) \/ TakeAgent(t, a)
    \/ ResolveBehindOthers(t) \/ ResolveFirst(t) \/ NoAgentAvailable(t)
    \/ RecheckPassed(t) \/ RecheckFailed(t) \/ Admit(t)

\* What happens to rooms that are open.
OpenRoomStep ==
    \/ \E r \in Rooms : Close(r) \/ Requeue(r) \/ \E a \in Agents : Pick(r, a)
    \/ \E q \in Queues :
          FinishRouting(q) \/ \E r \in Rooms, a \in Agents : RouteRoom(q, r, a)

LEMMA NextCases ==
  ASSUME [Next]_vars
  PROVE  \/ \E t \in Threads :
               \/ \E c \in Contacts, q \in Queues : Begin(t, c, q)
               \/ Advance(t) \/ RefuseSecond(t) \/ RefuseFull(t)
               \/ Commit(t) \/ CommitUnlimited(t)
         \/ OpenRoomStep
         \/ UNCHANGED vars
  BY DEF Next, Proceed, Advance, OpenRoomStep

LEMMA AdvanceType ==
  ASSUME TypeOK, NEW t \in Threads, Advance(t)
  PROVE  TypeOK'
<1>1. pc[t] # "idle" /\ new[t] \in Row
  BY DEF Advance, LockContact, LockQueue, CheckUnique, ResolveDirect, TakeAgent,
         ResolveBehindOthers, ResolveFirst, NoAgentAvailable, RecheckPassed, RecheckFailed,
         Admit, TypeOK
<1>2. \A u \in Agents \cup {NoAgent} : [new[t] EXCEPT !.user = u] \in Row
  BY <1>1 DEF Row
<1>3. /\ row' = row /\ admitted' = admitted
      /\ \E l \in Locations : pc' = [pc EXCEPT ![t] = l]
      /\ \/ new' = new
         \/ \E u \in Agents \cup {NoAgent} : new' = [new EXCEPT ![t].user = u]
      /\ wanted' \subseteq wanted \cup {new[t].queue}
      /\ \/ contactLock' = contactLock
         \/ contactLock' = [contactLock EXCEPT ![new[t].contact] = t]
      /\ \/ queueLock' = queueLock
         \/ queueLock' = [queueLock EXCEPT ![new[t].queue] = t]
  BY DEF Advance, LockContact, LockQueue, CheckUnique, ResolveDirect, TakeAgent,
         ResolveBehindOthers, ResolveFirst, NoAgentAvailable, RecheckPassed, RecheckFailed,
         Admit, AskForRouting, Goto, Locations, TypeOK
<1>4. new' \in [Threads -> Row \cup {NoRow}]
  BY <1>1, <1>2, <1>3 DEF TypeOK
<1>5. \A s \in Threads : pc'[s] # "idle" => new'[s] \in Row
  BY <1>1, <1>2, <1>3 DEF TypeOK
<1>6. new[t].queue \in Queues /\ new[t].contact \in Contacts
  BY <1>1 DEF Row
<1>7. pc' \in [Threads -> Locations] /\ wanted' \subseteq Queues
  BY <1>3, <1>6 DEF TypeOK
<1>8. contactLock' \in [Contacts -> Threads \cup {NoThread}]
  BY <1>3, <1>6 DEF TypeOK
<1>9. queueLock' \in [Queues -> Threads \cup {NoThread}]
  BY <1>3, <1>6 DEF TypeOK
<1> QED BY <1>3, <1>4, <1>5, <1>7, <1>8, <1>9 DEF TypeOK

LEMMA ReleaseType ==
  ASSUME TypeOK, NEW t \in Threads, Release(t)
  PROVE  /\ pc' \in [Threads -> Locations]
         /\ new' \in [Threads -> Row \cup {NoRow}]
         /\ \A s \in Threads : pc'[s] # "idle" => new'[s] \in Row
         /\ contactLock' \in [Contacts -> Threads \cup {NoThread}]
         /\ queueLock' \in [Queues -> Threads \cup {NoThread}]
  BY DEF Release, TypeOK, Locations

LEMMA OpenRoomType == TypeOK /\ OpenRoomStep => TypeOK'
<1> SUFFICES ASSUME TypeOK, OpenRoomStep PROVE TypeOK'
  OBVIOUS
<1>1. ASSUME NEW r \in Open, NEW u \in Agents \cup {NoAgent}
      PROVE  row[r].queue \in Queues /\ [row[r] EXCEPT !.user = u] \in Row
  BY DEF Open, TypeOK, Row
<1>2. ASSUME NEW r \in Rooms, Close(r) PROVE TypeOK'
  <2>1. wanted' = wanted \/ wanted' = wanted \cup {row[r].queue}
    BY <1>2, Zenon DEF Close, AskForRouting
  <2>2. row[r].queue \in Queues
    BY <1>1, <1>2 DEF Close
  <2> QED BY <1>2, <2>1, <2>2 DEF Close, TypeOK
<1>3. ASSUME NEW r \in Rooms, Requeue(r) PROVE TypeOK'
  <2>1. wanted' \subseteq Queues
    BY <1>1, <1>3 DEF Requeue, AskForRouting, TypeOK
  <2>2. row' \in [Rooms -> Row \cup {NoRow}]
    BY <1>1, <1>3 DEF Requeue, TypeOK
  <2> QED BY <1>3, <2>1, <2>2 DEF Requeue, TypeOK
<1>4. ASSUME NEW r \in Rooms, NEW a \in Agents, Pick(r, a) PROVE TypeOK'
  BY <1>1, <1>4 DEF Pick, TypeOK
<1>5. ASSUME NEW q \in Queues, FinishRouting(q) PROVE TypeOK'
  BY <1>5 DEF FinishRouting, TypeOK
<1>6. ASSUME NEW q \in Queues, NEW r \in Rooms, NEW a \in Agents, RouteRoom(q, r, a) PROVE TypeOK'
  BY <1>1, <1>6 DEF RouteRoom, Waiting, TypeOK
<1> QED BY <1>2, <1>3, <1>4, <1>5, <1>6 DEF OpenRoomStep

LEMMA TypeStep == TypeOK /\ [Next]_vars => TypeOK'
<1> SUFFICES ASSUME TypeOK, [Next]_vars PROVE TypeOK'
  OBVIOUS
<1>1. ASSUME NEW t \in Threads, NEW c \in Contacts, NEW q \in Queues, Begin(t, c, q) PROVE TypeOK'
  BY <1>1 DEF Begin, Goto, TypeOK, Locations, Row
<1>2. ASSUME NEW t \in Threads, RefuseSecond(t) \/ RefuseFull(t) PROVE TypeOK'
  BY <1>2, ReleaseType DEF RefuseSecond, RefuseFull, TypeOK
<1>3. ASSUME NEW t \in Threads, Commit(t) \/ CommitUnlimited(t) PROVE TypeOK'
  BY <1>3, ReleaseType DEF Commit, CommitUnlimited, TypeOK
<1>4. CASE UNCHANGED vars
  BY <1>4 DEF vars, TypeOK
<1> QED BY <1>1, <1>2, <1>3, <1>4, AdvanceType, OpenRoomType, NextCases

(***************************************************************************)
(* Every variable keeps its type, and a thread in a transaction always has *)
(* a room to insert.                                                       *)
(***************************************************************************)
THEOREM TypeCorrect == Spec => []TypeOK
  BY TypeInit, TypeStep, PTL DEF Spec

-----------------------------------------------------------------------------
(***************************************************************************)
(* Who holds a contact, and what a thread knows of it after CheckUnique.   *)
(***************************************************************************)
HoldsContact ==
    \A t \in Threads : pc[t] \notin {"idle", "contact"} => contactLock[new[t].contact] = t

NoneOpenYet ==
    \A t \in Threads :
        pc[t] \notin {"idle", "contact", "unique"} => ~HasOpenRoom(new[t].contact)

UniqueInv == HoldsContact /\ NoneOpenYet /\ OneOpenRoomPerContact

LEMMA UniqueInit == Init => UniqueInv
  BY DEF Init, UniqueInv, HoldsContact, NoneOpenYet, OneOpenRoomPerContact, Open

\* Open rooms never change their contact or their queue.
LEMMA OpenRoomFrame ==
  ASSUME TypeOK, OpenRoomStep
  PROVE  /\ UNCHANGED <<pc, new, contactLock, queueLock>>
         /\ \A r \in Open' : /\ r \in Open
                             /\ row'[r].contact = row[r].contact
                             /\ row'[r].queue = row[r].queue
<1>1. ASSUME NEW r \in Rooms, Close(r)
      PROVE  /\ UNCHANGED <<pc, new, contactLock, queueLock>>
             /\ \A s \in Rooms : row'[s] = row[s] \/ row'[s] = NoRow
  BY <1>1 DEF Close, TypeOK
<1>2. ASSUME NEW r \in Open, NEW u, row' = [row EXCEPT ![r].user = u]
      PROVE  \A s \in Rooms : /\ s # r => row'[s] = row[s]
                             /\ row'[r].contact = row[r].contact
                             /\ row'[r].queue = row[r].queue
  BY <1>2 DEF Open, TypeOK, Row
<1>3. CASE \E r \in Rooms : Close(r)
  BY <1>1, <1>3 DEF Open
<1>4. CASE \E r \in Rooms : Requeue(r) \/ \E a \in Agents : Pick(r, a)
  BY <1>2, <1>4 DEF Requeue, Pick, Open
<1>5. CASE \E q \in Queues : FinishRouting(q)
  BY <1>5 DEF FinishRouting, Open
<1>6. CASE \E q \in Queues, r \in Rooms, a \in Agents : RouteRoom(q, r, a)
  BY <1>2, <1>6 DEF RouteRoom, Waiting, Open
<1> QED BY <1>3, <1>4, <1>5, <1>6 DEF OpenRoomStep

LEMMA UniqueAdvance ==
  ASSUME TypeOK, UniqueInv, NEW t \in Threads, Advance(t)
  PROVE  UniqueInv'
<1>1. row' = row /\ Open' = Open
  BY DEF Advance, LockContact, LockQueue, CheckUnique, ResolveDirect, TakeAgent,
         ResolveBehindOthers, ResolveFirst, NoAgentAvailable, RecheckPassed, RecheckFailed,
         Admit, Open
<1>2. \A c : HasOpenRoom(c)' <=> HasOpenRoom(c)
  BY <1>1 DEF HasOpenRoom
<1>3. OneOpenRoomPerContact'
  BY <1>1 DEF UniqueInv, OneOpenRoomPerContact
<1>4. pc[t] # "idle" /\ new[t] \in Row
  BY DEF Advance, LockContact, LockQueue, CheckUnique, ResolveDirect, TakeAgent,
         ResolveBehindOthers, ResolveFirst, NoAgentAvailable, RecheckPassed, RecheckFailed,
         Admit, TypeOK
<1>5. CASE LockContact(t)
  <2>1. /\ new' = new /\ pc' = [pc EXCEPT ![t] = "unique"]
        /\ contactLock' = [contactLock EXCEPT ![new[t].contact] = t]
        /\ contactLock[new[t].contact] = NoThread
    BY <1>5 DEF LockContact, Goto
  <2>2. new[t].contact \in Contacts
    BY <1>4 DEF Row
  <2>3. HoldsContact'
    <3> SUFFICES ASSUME NEW s \in Threads, pc'[s] \notin {"idle", "contact"}
                 PROVE  contactLock'[new[s].contact] = s
      BY <2>1 DEF HoldsContact
    <3>1. CASE s = t
      BY <2>1, <2>2, <3>1 DEF TypeOK
    <3>2. CASE s # t
      <4>1. contactLock[new[s].contact] = s /\ new[s].contact # new[t].contact
        BY <2>1, <3>2, ConstantsAssumption DEF UniqueInv, HoldsContact, TypeOK
      <4> QED BY <2>1, <4>1 DEF TypeOK
    <3> QED BY <3>1, <3>2
  <2>4. NoneOpenYet'
    BY <1>2, <2>1 DEF UniqueInv, NoneOpenYet, TypeOK
  <2> QED BY <1>3, <2>3, <2>4 DEF UniqueInv
<1>6. CASE CheckUnique(t)
  BY <1>1, <1>2, <1>3, <1>6
  DEF CheckUnique, Goto, UniqueInv, HoldsContact, NoneOpenYet, TypeOK
<1>7. CASE ~LockContact(t) /\ ~CheckUnique(t)
  <2>1. /\ contactLock' = contactLock
        /\ pc[t] \notin {"idle", "contact", "unique"}
        /\ \A s \in Threads : s # t => pc'[s] = pc[s] /\ new'[s] = new[s]
        /\ new' = new \/ \E u : new' = [new EXCEPT ![t].user = u]
    BY <1>7
    DEF Advance, LockQueue, ResolveDirect, TakeAgent, ResolveBehindOthers, ResolveFirst,
        NoAgentAvailable, RecheckPassed, RecheckFailed, Admit, Goto, TypeOK
  <2>2. new'[t].contact = new[t].contact
    BY <1>4, <2>1 DEF TypeOK, Row
  <2> QED BY <1>1, <1>2, <1>3, <2>1, <2>2 DEF UniqueInv, HoldsContact, NoneOpenYet
<1> QED BY <1>5, <1>6, <1>7

LEMMA UniqueCommit ==
  ASSUME TypeOK, UniqueInv, NEW t \in Threads, Commit(t) \/ CommitUnlimited(t)
  PROVE  UniqueInv'
<1>1. PICK r \in Rooms \ Open : row' = [row EXCEPT ![r] = new[t]]
  BY DEF Commit, CommitUnlimited
<1> Release(t)
  BY DEF Commit, CommitUnlimited
<1>2. new[t] \in Row /\ ~HasOpenRoom(new[t].contact) /\ contactLock[new[t].contact] = t
  BY DEF Commit, CommitUnlimited, UniqueInv, HoldsContact, NoneOpenYet, TypeOK
<1>3. Open' \subseteq Open \cup {r} /\ \A s \in Open : row'[s] = row[s]
  BY <1>1 DEF Open, TypeOK
<1>4. row'[r] = new[t]
  BY <1>1 DEF TypeOK
<1>5. OneOpenRoomPerContact'
  BY <1>2, <1>3, <1>4 DEF OneOpenRoomPerContact, UniqueInv, HasOpenRoom
<1>6. ASSUME NEW s \in Threads, pc'[s] # "idle"
      PROVE  s # t /\ pc'[s] = pc[s] /\ new'[s] = new[s]
  BY <1>6 DEF Release, TypeOK
<1>7. HoldsContact'
  <2>1. \A s \in Threads : s # t /\ pc[s] \notin {"idle", "contact"} =>
           contactLock'[new[s].contact] = s
    BY DEF Release, UniqueInv, HoldsContact, TypeOK, Row
  <2> QED BY <1>6, <2>1 DEF HoldsContact
<1>8. NoneOpenYet'
  <2> SUFFICES ASSUME NEW s \in Threads, pc'[s] \notin {"idle", "contact", "unique"},
                      NEW o \in Open', row'[o].contact = new'[s].contact
               PROVE  FALSE
    BY DEF NoneOpenYet, HasOpenRoom
  <2>1. s # t /\ pc[s] = pc'[s] /\ new'[s] = new[s]
    BY <1>6
  <2>2. contactLock[new[s].contact] = s /\ ~HasOpenRoom(new[s].contact)
    BY <2>1 DEF UniqueInv, HoldsContact, NoneOpenYet
  <2>3. o # r
    BY <1>2, <1>4, <2>1, <2>2
  <2> QED BY <1>3, <2>1, <2>2, <2>3 DEF HasOpenRoom
<1> QED BY <1>5, <1>7, <1>8 DEF UniqueInv

LEMMA UniqueStep == TypeOK /\ UniqueInv /\ [Next]_vars => UniqueInv'
<1> SUFFICES ASSUME TypeOK, UniqueInv, [Next]_vars PROVE UniqueInv'
  OBVIOUS
<1>1. ASSUME NEW t \in Threads, NEW c \in Contacts, NEW q \in Queues, Begin(t, c, q)
      PROVE  UniqueInv'
  BY <1>1 DEF Begin, Goto, UniqueInv, HoldsContact, NoneOpenYet, OneOpenRoomPerContact,
              HasOpenRoom, Open, TypeOK
<1>2. ASSUME NEW t \in Threads, RefuseSecond(t) \/ RefuseFull(t) PROVE UniqueInv'
  <2>1. row' = row /\ Release(t)
    BY <1>2 DEF RefuseSecond, RefuseFull
  <2>2. \A s \in Threads : pc'[s] # "idle" => s # t /\ pc'[s] = pc[s] /\ new'[s] = new[s]
    BY <2>1 DEF Release, TypeOK
  <2>3. HoldsContact'
    BY <2>1, <2>2 DEF Release, UniqueInv, HoldsContact, TypeOK, Row
  <2> QED BY <2>1, <2>2, <2>3 DEF UniqueInv, NoneOpenYet, OneOpenRoomPerContact, HasOpenRoom, Open
<1>3. CASE OpenRoomStep
  <2>1. \A c : HasOpenRoom(c)' => HasOpenRoom(c)
    BY <1>3, OpenRoomFrame DEF HasOpenRoom
  <2> QED BY <1>3, <2>1, OpenRoomFrame DEF UniqueInv, HoldsContact, NoneOpenYet, OneOpenRoomPerContact
<1>4. CASE UNCHANGED vars
  BY <1>4 DEF vars, UniqueInv, HoldsContact, NoneOpenYet, OneOpenRoomPerContact, HasOpenRoom, Open
<1> QED BY <1>1, <1>2, <1>3, <1>4, UniqueAdvance, UniqueCommit, NextCases

(***************************************************************************)
(* However many requests create rooms for a contact at the same time, in   *)
(* whichever queues, the contact has at most one open room in the project. *)
(***************************************************************************)
THEOREM OneOpenRoom == Spec => []OneOpenRoomPerContact
<1>1. UniqueInv => OneOpenRoomPerContact
  BY DEF UniqueInv
<1> QED BY TypeCorrect, UniqueInit, UniqueStep, <1>1, PTL DEF Spec

-----------------------------------------------------------------------------
(***************************************************************************)
(* The queue stays locked from the count to the commit.                    *)
(***************************************************************************)
Entering(t) == pc[t] = "insert" /\ new[t].user = NoAgent

HoldsQueue ==
    \A t \in Threads : pc[t] = "limit" \/ Entering(t) => queueLock[new[t].queue] = t

AdmittedWait == \A r \in admitted : r \in Open /\ row[r].user = NoAgent

AdmittedTo(q) == admitted \cap Waiting(q)

RoomLeft ==
    \A t \in Threads :
        Entering(t) => Cardinality(AdmittedTo(new[t].queue)) < QueueLimit[new[t].queue]

LimitInv == HoldsQueue /\ AdmittedWait /\ RoomLeft /\ LimitRespected

LEMMA AdmittedFinite ==
  ASSUME TypeOK, NEW q
  PROVE  /\ IsFiniteSet(AdmittedTo(q)) /\ Cardinality(AdmittedTo(q)) \in Nat
         /\ IsFiniteSet(Waiting(q)) /\ Cardinality(Waiting(q)) \in Nat
<1>1. AdmittedTo(q) \in SUBSET Rooms /\ Waiting(q) \in SUBSET Rooms
  BY DEF AdmittedTo, Waiting, Open
<1> QED BY <1>1, ConstantsAssumption, FS_Subset, FS_CardinalityType

LEMMA FewerAdmitted ==
  ASSUME TypeOK, NEW q, AdmittedTo(q)' \subseteq AdmittedTo(q)
  PROVE  /\ Cardinality(AdmittedTo(q)') <= Cardinality(AdmittedTo(q))
         /\ Cardinality(AdmittedTo(q)') \in Nat /\ Cardinality(AdmittedTo(q)) \in Nat
  BY AdmittedFinite, FS_Subset, FS_CardinalityType

LEMMA LimitInit == Init => LimitInv
<1> SUFFICES ASSUME Init PROVE LimitInv
  OBVIOUS
<1>1. HoldsQueue /\ RoomLeft /\ AdmittedWait
  BY DEF Init, HoldsQueue, RoomLeft, AdmittedWait, Entering
<1>2. ASSUME NEW q \in Queues PROVE Cardinality(AdmittedTo(q)) <= QueueLimit[q]
  <2>1. AdmittedTo(q) = {}
    BY DEF Init, AdmittedTo
  <2> QED BY <2>1, ConstantsAssumption, FS_EmptySet
<1> QED BY <1>1, <1>2 DEF LimitInv, LimitRespected, AdmittedTo

\* Steps that neither lock a queue nor enter one keep the invariant.
LEMMA LimitFrame ==
  ASSUME TypeOK, LimitInv, AdmittedWait',
         \A q \in Queues : AdmittedTo(q)' \subseteq AdmittedTo(q),
         \A t \in Threads : pc[t] # "idle" => new[t].queue \in Queues,
         \A t \in Threads :
            (pc'[t] = "limit" \/ Entering(t)') =>
               /\ pc'[t] = pc[t] /\ new'[t] = new[t]
               /\ queueLock'[new[t].queue] = queueLock[new[t].queue]
  PROVE  LimitInv'
<1>1. LimitRespected'
  <2>1. ASSUME NEW q \in Queues PROVE Cardinality(AdmittedTo(q)') <= QueueLimit[q]
    <3>1. Cardinality(AdmittedTo(q)) <= QueueLimit[q]
      BY DEF LimitInv, LimitRespected, AdmittedTo
    <3> QED BY <3>1, FewerAdmitted, ConstantsAssumption
  <2> QED BY <2>1 DEF LimitRespected, AdmittedTo
<1>2. HoldsQueue'
  BY DEF LimitInv, HoldsQueue, Entering
<1>3. RoomLeft'
  <2> SUFFICES ASSUME NEW t \in Threads, Entering(t)', NEW q \in Queues, q = new'[t].queue
               PROVE  Cardinality(AdmittedTo(q)') < QueueLimit[q]
    BY DEF RoomLeft, Entering, AdmittedTo, Waiting
  <2>1. Entering(t) /\ q = new[t].queue
    BY DEF Entering
  <2>2. Cardinality(AdmittedTo(q)) < QueueLimit[q]
    BY <2>1 DEF LimitInv, RoomLeft
  <2> QED BY <2>2, FewerAdmitted, ConstantsAssumption
<1> QED BY <1>1, <1>2, <1>3 DEF LimitInv

LEMMA LimitAdvance ==
  ASSUME TypeOK, LimitInv, NEW t \in Threads, Advance(t)
  PROVE  LimitInv'
<1>1. row' = row /\ admitted' = admitted
  BY DEF Advance, LockContact, LockQueue, CheckUnique, ResolveDirect, TakeAgent,
         ResolveBehindOthers, ResolveFirst, NoAgentAvailable, RecheckPassed, RecheckFailed, Admit
<1>2. AdmittedWait' /\ \A q \in Queues : AdmittedTo(q)' = AdmittedTo(q)
  BY <1>1 DEF LimitInv, AdmittedWait, AdmittedTo, Waiting, Open
<1>3. \A s \in Threads : pc[s] # "idle" => new[s].queue \in Queues
  BY DEF TypeOK, Row
<1>4. CASE LockQueue(t)
  <2>1. /\ row' = row /\ admitted' = admitted /\ new' = new
        /\ pc' = [pc EXCEPT ![t] = "limit"]
        /\ queueLock[new[t].queue] = NoThread
        /\ queueLock' = [queueLock EXCEPT ![new[t].queue] = t]
        /\ pc[t] = "admit" /\ new[t].queue \in Queues
    BY <1>3, <1>4 DEF LockQueue, Goto
  <2>2. HoldsQueue'
    <3> SUFFICES ASSUME NEW s \in Threads, pc'[s] = "limit" \/ Entering(s)'
                 PROVE  queueLock'[new[s].queue] = s
      BY <2>1 DEF HoldsQueue
    <3>1. CASE s = t
      BY <2>1, <3>1 DEF TypeOK
    <3>2. CASE s # t
      <4>1. queueLock[new[s].queue] = s /\ new[s].queue # new[t].queue
        BY <2>1, <3>2, ConstantsAssumption DEF LimitInv, HoldsQueue, Entering, TypeOK
      <4> QED BY <2>1, <4>1 DEF TypeOK
    <3> QED BY <3>1, <3>2
  <2>3. RoomLeft'
    BY <2>1 DEF LimitInv, RoomLeft, Entering, AdmittedTo, Waiting, Open, TypeOK
  <2>4. LimitRespected'
    BY <2>1 DEF LimitInv, LimitRespected, Waiting, Open
  <2> QED BY <1>2, <2>2, <2>3, <2>4 DEF LimitInv
<1>5. CASE Admit(t)
  <2>1. /\ row' = row /\ admitted' = admitted /\ new' = new /\ queueLock' = queueLock
        /\ pc' = [pc EXCEPT ![t] = "insert"]
        /\ pc[t] = "limit" /\ ~QueueIsFull(new[t].queue) /\ new[t].queue \in Queues
    BY <1>3, <1>5 DEF Admit, Goto
  <2>2. HoldsQueue' /\ LimitRespected'
    BY <2>1 DEF LimitInv, HoldsQueue, LimitRespected, Entering, Waiting, Open, TypeOK
  <2>3. Cardinality(AdmittedTo(new[t].queue)) < QueueLimit[new[t].queue]
    <3> DEFINE q == new[t].queue
    <3>1. AdmittedTo(q) \in SUBSET Waiting(q)
      BY DEF AdmittedTo
    <3>2. Cardinality(AdmittedTo(q)) <= Cardinality(Waiting(q))
      BY <3>1, AdmittedFinite, FS_Subset
    <3>3. Cardinality(Waiting(q)) < QueueLimit[q]
      BY <2>1, AdmittedFinite, ConstantsAssumption DEF QueueIsFull
    <3>4. Cardinality(AdmittedTo(q)) \in Nat /\ Cardinality(Waiting(q)) \in Nat
      BY AdmittedFinite
    <3> QED BY <2>1, <3>2, <3>3, <3>4, ConstantsAssumption
  <2>4. RoomLeft'
    BY <2>1, <2>3 DEF LimitInv, RoomLeft, Entering, AdmittedTo, Waiting, Open, TypeOK
  <2> QED BY <1>2, <2>2, <2>4 DEF LimitInv
<1>6. CASE ~LockQueue(t) /\ ~Admit(t)
  <2>1. /\ queueLock' = queueLock
        /\ \A s \in Threads : s # t => pc'[s] = pc[s] /\ new'[s] = new[s]
        /\ pc'[t] # "limit" /\ ~Entering(t)'
    BY <1>6, ConstantsAssumption
    DEF Advance, LockContact, CheckUnique, ResolveDirect, TakeAgent, ResolveBehindOthers,
        ResolveFirst, NoAgentAvailable, RecheckPassed, RecheckFailed, Goto, Entering,
        LeastLoaded, Available, TypeOK, Row
  <2> QED BY <1>2, <1>3, <2>1, LimitFrame
<1> QED BY <1>4, <1>5, <1>6

LEMMA LimitCommit ==
  ASSUME TypeOK, LimitInv, NEW t \in Threads, Commit(t)
  PROVE  LimitInv'
<1>1. PICK r \in Rooms \ Open :
         /\ row' = [row EXCEPT ![r] = new[t]]
         /\ admitted' = IF new[t].user = NoAgent THEN admitted \cup {r} ELSE admitted
  BY DEF Commit
<1>2. new[t] \in Row /\ new[t].queue \in Queues /\ row'[r] = new[t] /\ r \notin admitted
  BY <1>1 DEF Commit, TypeOK, Row, LimitInv, AdmittedWait
<1>3. /\ \A s \in Open : s # r /\ row'[s] = row[s] /\ s \in Open'
      /\ Open' = Open \cup {r}
  BY <1>1, <1>2, ConstantsAssumption DEF Open, TypeOK, Row
<1>4. AdmittedWait'
  BY <1>1, <1>2, <1>3 DEF LimitInv, AdmittedWait
<1>5. ASSUME NEW s \in Threads, pc'[s] # "idle"
      PROVE  s # t /\ pc'[s] = pc[s] /\ new'[s] = new[s]
  BY <1>5 DEF Commit, Release, TypeOK
<1>6. ASSUME NEW s \in Threads, s # t, pc[s] = "limit" \/ Entering(s)
      PROVE  /\ new[s].queue \in Queues
             /\ queueLock[new[s].queue] = s
             /\ queueLock'[new[s].queue] = s
  BY <1>6 DEF Commit, Release, LimitInv, HoldsQueue, Entering, TypeOK, Row
<1>7. HoldsQueue'
  BY <1>5, <1>6 DEF HoldsQueue, Entering
<1>8. ASSUME NEW q \in Queues, q # new[t].queue \/ new[t].user # NoAgent
      PROVE  AdmittedTo(q)' \subseteq AdmittedTo(q)
  BY <1>1, <1>2, <1>3, <1>8 DEF AdmittedTo, Waiting
<1>9. RoomLeft'
  <2> SUFFICES ASSUME NEW s \in Threads, Entering(s)', NEW q \in Queues, q = new'[s].queue
               PROVE  Cardinality(AdmittedTo(q)') < QueueLimit[q]
    BY <1>5, <1>6 DEF RoomLeft, Entering, AdmittedTo, Waiting
  <2>1. s # t /\ Entering(s) /\ q = new[s].queue
    BY <1>5 DEF Entering
  <2>2. Cardinality(AdmittedTo(q)) < QueueLimit[q]
    BY <2>1 DEF LimitInv, RoomLeft
  <2>3. q # new[t].queue \/ new[t].user # NoAgent
    BY <1>6, <2>1 DEF LimitInv, HoldsQueue, Entering, Commit
  <2> QED BY <1>8, <2>2, <2>3, FewerAdmitted, ConstantsAssumption
<1>10. ASSUME NEW q \in Queues PROVE Cardinality(AdmittedTo(q)') <= QueueLimit[q]
  <2>1. CASE q # new[t].queue \/ new[t].user # NoAgent
    <3>1. Cardinality(AdmittedTo(q)) <= QueueLimit[q]
      BY DEF LimitInv, LimitRespected, AdmittedTo
    <3> QED BY <1>8, <2>1, <3>1, FewerAdmitted, ConstantsAssumption
  <2>2. CASE q = new[t].queue /\ new[t].user = NoAgent
    <3>1. AdmittedTo(q)' = AdmittedTo(q) \cup {r}
      BY <1>1, <1>2, <1>3, <2>2 DEF AdmittedTo, Waiting
    <3>2. Cardinality(AdmittedTo(q)) < QueueLimit[q]
      BY <2>2 DEF Commit, LimitInv, RoomLeft, Entering
    <3>3. IsFiniteSet(AdmittedTo(q)) /\ Cardinality(AdmittedTo(q)) \in Nat
      BY AdmittedFinite
    <3>4. r \notin AdmittedTo(q)
      BY <1>2 DEF AdmittedTo
    <3>5. Cardinality(AdmittedTo(q) \cup {r}) = Cardinality(AdmittedTo(q)) + 1
      BY <3>3, <3>4, FS_AddElement
    <3> QED BY <3>1, <3>2, <3>3, <3>5, ConstantsAssumption
  <2> QED BY <2>1, <2>2
<1>11. LimitRespected'
  BY <1>10 DEF LimitRespected, AdmittedTo
<1> QED BY <1>4, <1>7, <1>9, <1>11 DEF LimitInv

LEMMA LimitStep == TypeOK /\ LimitInv /\ [Next]_vars => LimitInv'
<1> SUFFICES ASSUME TypeOK, LimitInv, [Next]_vars PROVE LimitInv'
  OBVIOUS
<1>1. \A s \in Threads : pc[s] # "idle" => new[s].queue \in Queues
  BY DEF TypeOK, Row
<1>2. ASSUME NEW t \in Threads, NEW c \in Contacts, NEW q \in Queues, Begin(t, c, q)
      PROVE  LimitInv'
  <2>1. AdmittedWait' /\ \A x \in Queues : AdmittedTo(x)' = AdmittedTo(x)
    BY <1>2 DEF Begin, LimitInv, AdmittedWait, AdmittedTo, Waiting, Open
  <2> QED BY <1>1, <1>2, <2>1, LimitFrame DEF Begin, Goto, Entering, TypeOK
<1>3. ASSUME NEW t \in Threads, RefuseSecond(t) \/ RefuseFull(t) PROVE LimitInv'
  <2>1. row' = row /\ admitted' = admitted /\ Release(t)
    BY <1>3 DEF RefuseSecond, RefuseFull
  <2>2. AdmittedWait' /\ \A x \in Queues : AdmittedTo(x)' = AdmittedTo(x)
    BY <2>1 DEF LimitInv, AdmittedWait, AdmittedTo, Waiting, Open
  <2>3. ASSUME NEW s \in Threads, pc'[s] = "limit" \/ Entering(s)'
        PROVE  /\ pc'[s] = pc[s] /\ new'[s] = new[s]
               /\ queueLock'[new[s].queue] = queueLock[new[s].queue]
    <3>1. s # t /\ pc'[s] = pc[s] /\ new'[s] = new[s]
      BY <2>1, <2>3 DEF Release, Entering, TypeOK
    <3>2. queueLock[new[s].queue] = s /\ new[s].queue \in Queues
      BY <1>1, <2>3, <3>1 DEF LimitInv, HoldsQueue, Entering
    <3> QED BY <2>1, <3>1, <3>2 DEF Release
  <2> QED BY <1>1, <2>2, <2>3, LimitFrame
<1>4. CASE OpenRoomStep
  <2>1. ASSUME NEW r \in admitted'
        PROVE  r \in admitted /\ row'[r] = row[r] /\ r \in Open'
    <3>1. r \in admitted /\ row'[r] = row[r]
      BY <1>4, <2>1 DEF OpenRoomStep, Close, Requeue, Pick, FinishRouting, RouteRoom,
                        LimitInv, AdmittedWait, TypeOK
    <3> QED BY <3>1 DEF LimitInv, AdmittedWait, Open
  <2>2. AdmittedWait' /\ \A x \in Queues : AdmittedTo(x)' \subseteq AdmittedTo(x)
    BY <2>1 DEF LimitInv, AdmittedWait, AdmittedTo, Waiting, Open
  <2>3. UNCHANGED <<pc, new, contactLock, queueLock>>
    BY <1>4, OpenRoomFrame
  <2> QED BY <1>1, <2>2, <2>3, LimitFrame DEF Entering
<1>5. ASSUME NEW t \in Threads, CommitUnlimited(t) PROVE LimitInv'
  <2>1. PICK r \in Rooms \ Open : row' = [row EXCEPT ![r] = new[t]]
    BY <1>5 DEF CommitUnlimited
  <2>2. admitted' = admitted /\ Release(t)
    BY <1>5 DEF CommitUnlimited
  <2>3. ASSUME NEW s \in admitted PROVE s \in Open' /\ row'[s] = row[s]
    BY <2>1 DEF LimitInv, AdmittedWait, Open, TypeOK
  <2>4. AdmittedWait' /\ \A x \in Queues : AdmittedTo(x)' \subseteq AdmittedTo(x)
    BY <2>2, <2>3 DEF LimitInv, AdmittedWait, AdmittedTo, Waiting, Open
  <2>5. ASSUME NEW s \in Threads, pc'[s] = "limit" \/ Entering(s)'
        PROVE  /\ pc'[s] = pc[s] /\ new'[s] = new[s]
               /\ queueLock'[new[s].queue] = queueLock[new[s].queue]
    <3>1. s # t /\ pc'[s] = pc[s] /\ new'[s] = new[s]
      BY <2>2, <2>5 DEF Release, Entering, TypeOK
    <3>2. queueLock[new[s].queue] = s /\ new[s].queue \in Queues
      BY <1>1, <2>5, <3>1 DEF LimitInv, HoldsQueue, Entering
    <3> QED BY <2>2, <3>1, <3>2 DEF Release
  <2> QED BY <1>1, <2>4, <2>5, LimitFrame
<1>6. CASE UNCHANGED vars
  BY <1>6 DEF vars, LimitInv, HoldsQueue, AdmittedWait, RoomLeft, LimitRespected, Entering,
              AdmittedTo, Waiting, Open
<1> QED BY <1>2, <1>3, <1>4, <1>5, <1>6, LimitAdvance, LimitCommit, NextCases

(***************************************************************************)
(* However many requests create rooms in a queue at the same time, those   *)
(* of them that the limit applies to and that still wait there never       *)
(* exceed it, whatever rooms of flow starts come in beside them.           *)
(***************************************************************************)
THEOREM QueueLimitHolds == Spec => []LimitRespected
<1>1. LimitInv => LimitRespected
  BY DEF LimitInv
<1> QED BY TypeCorrect, LimitInit, LimitStep, <1>1, PTL DEF Spec

-----------------------------------------------------------------------------
(***************************************************************************)
(* No deadlock: whoever holds a contact has asked for its lock, and        *)
(* whoever holds a queue waits for nothing any more.                       *)
(***************************************************************************)
LockInv ==
    /\ \A c \in Contacts :
          contactLock[c] # NoThread => pc[contactLock[c]] \notin {"idle", "contact"}
    /\ \A q \in Queues :
          queueLock[q] # NoThread => pc[queueLock[q]] \in {"limit", "insert"}

LEMMA LockInvInit == Init => LockInv
  BY DEF Init, LockInv

LEMMA LockInvAdvance ==
  ASSUME TypeOK, LockInv, NEW t \in Threads, Advance(t)
  PROVE  LockInv'
<1>1. CASE LockContact(t)
  BY <1>1 DEF LockContact, Goto, LockInv, TypeOK
<1>2. CASE LockQueue(t)
  BY <1>2 DEF LockQueue, Goto, LockInv, TypeOK
<1>3. CASE Admit(t)
  BY <1>3 DEF Admit, Goto, LockInv, TypeOK
<1>4. CASE ~LockContact(t) /\ ~LockQueue(t) /\ ~Admit(t)
  <2>1. /\ pc[t] \in {"unique", "resolve", "agent", "recheck"}
        /\ \E l \in Locations \ {"idle", "contact"} : pc' = [pc EXCEPT ![t] = l]
        /\ UNCHANGED <<contactLock, queueLock>>
    BY <1>4 DEF Advance, CheckUnique, ResolveDirect, TakeAgent, ResolveBehindOthers,
                ResolveFirst, NoAgentAvailable, RecheckPassed, RecheckFailed, Goto, Locations
  <2> QED BY <2>1 DEF LockInv, TypeOK
<1> QED BY <1>1, <1>2, <1>3, <1>4

LEMMA LockInvStep == TypeOK /\ LockInv /\ [Next]_vars => LockInv'
<1> SUFFICES ASSUME TypeOK, LockInv, [Next]_vars PROVE LockInv'
  OBVIOUS
<1>1. ASSUME NEW t \in Threads, NEW c \in Contacts, NEW q \in Queues, Begin(t, c, q)
      PROVE  LockInv'
  BY <1>1 DEF Begin, Goto, LockInv, TypeOK
<1>2. ASSUME NEW t \in Threads,
             RefuseSecond(t) \/ RefuseFull(t) \/ Commit(t) \/ CommitUnlimited(t)
      PROVE  LockInv'
  <2>1. Release(t)
    BY <1>2 DEF RefuseSecond, RefuseFull, Commit, CommitUnlimited
  <2> QED BY <2>1 DEF Release, LockInv, TypeOK
<1>3. CASE OpenRoomStep
  BY <1>3, OpenRoomFrame DEF LockInv
<1>4. CASE UNCHANGED vars
  BY <1>4 DEF vars, LockInv
<1> QED BY <1>1, <1>2, <1>3, <1>4, LockInvAdvance, NextCases

LEMMA LockInvSuffices == TypeOK /\ LockInv => NeverAllBlocked
<1> SUFFICES ASSUME TypeOK, LockInv, NEW t \in Threads, pc[t] # "idle"
             PROVE  \E u \in Threads : pc[u] # "idle" /\ ~Blocked(u)
  BY DEF NeverAllBlocked
\* A thread that waits for its queue waits for one that waits for nothing.
<1>1. ASSUME NEW u \in Threads, pc[u] = "admit", Blocked(u)
      PROVE  \E v \in Threads : pc[v] # "idle" /\ ~Blocked(v)
  <2>1. new[u].queue \in Queues
    BY <1>1 DEF TypeOK, Row
  <2>2. queueLock[new[u].queue] \in Threads /\ pc[queueLock[new[u].queue]] \in {"limit", "insert"}
    BY <1>1, <2>1 DEF Blocked, LockInv, TypeOK
  <2> QED BY <2>2 DEF Blocked
\* A thread that waits for its contact waits for one that is past that.
<1>2. CASE pc[t] = "contact" /\ Blocked(t)
  <2>1. new[t].contact \in Contacts
    BY <1>2 DEF TypeOK, Row
  <2> DEFINE u == contactLock[new[t].contact]
  <2>2. u \in Threads /\ pc[u] \notin {"idle", "contact"}
    BY <1>2, <2>1 DEF Blocked, LockInv, TypeOK
  <2>3. CASE pc[u] = "admit" /\ Blocked(u)
    BY <1>1, <2>2, <2>3
  <2>4. CASE ~Blocked(u)
    BY <2>2, <2>4
  <2> QED BY <2>2, <2>3, <2>4 DEF Blocked
<1> QED BY <1>1, <1>2 DEF Blocked

(***************************************************************************)
(* Whatever contacts and queues creations lock, one of those under way can *)
(* always go on.                                                           *)
(***************************************************************************)
THEOREM NoDeadlock == Spec => []NeverAllBlocked
  BY TypeCorrect, LockInvInit, LockInvStep, LockInvSuffices, PTL DEF Spec

-----------------------------------------------------------------------------
(* Dashboard. *)

DashRowType ==
    [at: {"unmade", "queued", "held", "closed"}, agent: DashAgents \cup {NoOne},
     made: Period, ended: Period \cup {"no"}, tags: SUBSET DashTags,
     measured: Period \cup {"no"}, answered: BOOLEAN, rated: BOOLEAN]

LEMMA MeasuredIsRow ==
  ASSUME NEW entry \in DashRowType
  PROVE  Measured(entry) \in DashRowType /\ Measured(entry).at = entry.at
  BY DEF Measured, DashRowType, Period

\* The types of the rows, and those of a request that takes several queries.
RowsTypeOK ==
    /\ dashRow \in [DashRooms -> DashRowType]
    /\ \A r \in DashRooms : dashRow[r].at = "held" => dashRow[r].agent # NoOne
    /\ belongs \subseteq DashAgents
    /\ serves \subseteq DashAgents \X DashQueues
    /\ removedQueues \subseteq DashQueues

AnswerTypeOK ==
    /\ answer \in [asks: {"nothing", "totals", "times"}, of: DashSectors \cup {NoOne},
                   next: {"none", "told"} \cup TotalNames \cup TimeNames,
                   told: [TotalNames \cup TimeNames -> SUBSET DashRooms]]
    /\ seen \in [DashRooms -> SUBSET Standings]

LEMMA DashTypes == DashTypeOK <=> RowsTypeOK /\ AnswerTypeOK
  BY DEF DashTypeOK, RowsTypeOK, AnswerTypeOK, DashRowType

LEMMA RowsStillTyped == RowsTypeOK /\ (RowsChange \/ UNCHANGED dashRows) => RowsTypeOK'
<1> SUFFICES ASSUME RowsTypeOK, RowsChange \/ UNCHANGED dashRows PROVE RowsTypeOK'
  OBVIOUS
<1>0. ASSUME NEW r \in DashRooms
      PROVE  /\ dashRow[r] \in DashRowType /\ Measured(dashRow[r]) \in DashRowType
             /\ dashRow[r].at = "held" => dashRow[r].agent # NoOne
  BY MeasuredIsRow DEF RowsTypeOK, DashRowType
<1>1. ASSUME NEW r \in DashRooms, NEW entry \in DashRowType, SetRow(r, entry),
             entry.at = "held" => entry.agent # NoOne
      PROVE  RowsTypeOK'
  BY <1>1 DEF SetRow, RowsTypeOK, DashRowType
<1>2. ASSUME NEW r \in DashRooms, MakeDashRoom(r) PROVE RowsTypeOK'
  <2>1. [dashRow[r] EXCEPT !.at = "queued"] \in DashRowType
    BY <1>0 DEF DashRowType
  <2>2. [dashRow[r] EXCEPT !.at = "queued"].at = "queued"
    BY <1>0 DEF DashRowType
  <2>3. QED
    BY <1>1, <1>2, <2>1, <2>2 DEF MakeDashRoom
<1>3. ASSUME NEW r \in DashRooms, NEW a \in DashAgents, HandDashRoom(r, a) PROVE RowsTypeOK'
  <2>1. /\ [Measured(dashRow[r]) EXCEPT !.at = "held", !.agent = a] \in DashRowType
        /\ [Measured(dashRow[r]) EXCEPT !.at = "held", !.agent = a].agent = a
    BY <1>0 DEF DashRowType
  <2>2. a # NoOne
    BY DashboardAssumption DEF DashboardAssumption
  <2>3. QED
    BY <1>1, <1>3, <2>1, <2>2 DEF HandDashRoom
<1>4. ASSUME NEW r \in DashRooms, RequeueDashRoom(r) PROVE RowsTypeOK'
  <2>1. /\ [dashRow[r] EXCEPT !.at = "queued", !.agent = NoOne] \in DashRowType
        /\ [dashRow[r] EXCEPT !.at = "queued", !.agent = NoOne].at = "queued"
    BY <1>0 DEF DashRowType
  <2>2. QED
    BY <1>1, <1>4, <2>1 DEF RequeueDashRoom
<1>5. ASSUME NEW r \in DashRooms, AnswerDashRoom(r) PROVE RowsTypeOK'
  <2>1. LET entry == [dashRow[r] EXCEPT !.answered = TRUE]
        IN  entry \in DashRowType /\ entry.agent = dashRow[r].agent /\ entry.at = dashRow[r].at
    BY <1>0 DEF DashRowType
  <2>2. QED
    BY <1>0, <1>1, <1>5, <2>1 DEF AnswerDashRoom
<1>6. ASSUME NEW r \in DashRooms, NEW tags \in SUBSET DashTags, TagDashRoom(r, tags)
      PROVE  RowsTypeOK'
  <2>1. LET entry == [dashRow[r] EXCEPT !.tags = tags]
        IN  entry \in DashRowType /\ entry.agent = dashRow[r].agent /\ entry.at = dashRow[r].at
    BY <1>0 DEF DashRowType
  <2>2. QED
    BY <1>0, <1>1, <1>6, <2>1 DEF TagDashRoom
<1>7. ASSUME NEW r \in DashRooms, CloseDashRoom(r) PROVE RowsTypeOK'
  <2>1. LET entry == [Measured(dashRow[r]) EXCEPT !.at = "closed", !.ended = "today"]
        IN  entry \in DashRowType /\ entry.at = "closed"
    BY <1>0 DEF DashRowType, Period
  <2>2. QED
    BY <1>1, <1>7, <2>1 DEF CloseDashRoom
<1>8. ASSUME NEW r \in DashRooms, RateDashRoom(r) PROVE RowsTypeOK'
  <2>1. LET entry == [dashRow[r] EXCEPT !.rated = TRUE]
        IN  entry \in DashRowType /\ entry.agent = dashRow[r].agent /\ entry.at = dashRow[r].at
    BY <1>0 DEF DashRowType
  <2>2. QED
    BY <1>0, <1>1, <1>8, <2>1 DEF RateDashRoom
<1>9. CASE Midnight
  <2>1. \A day \in Period \cup {"no"} : Older(day) \in Period \cup {"no"}
    BY DEF Older, Period
  <2>2. \A day \in Period : Older(day) \in Period
    BY DEF Older, Period
  <2>3. ASSUME NEW r \in DashRooms
        PROVE  LET entry == [dashRow[r] EXCEPT !.made = Older(@), !.ended = Older(@),
                                             !.measured = Older(@)]
               IN  entry \in DashRowType /\ entry.agent = dashRow[r].agent /\ entry.at = dashRow[r].at
    BY <1>0, <2>1, <2>2 DEF DashRowType
  <2>4. /\ dashRow' \in [DashRooms -> DashRowType]
        /\ \A r \in DashRooms : dashRow'[r].at = "held" => dashRow'[r].agent # NoOne
    BY <1>0, <1>9, <2>3 DEF Midnight
  <2>5. QED
    BY <1>9, <2>4 DEF Midnight, RowsTypeOK, DashRowType
<1>10. ASSUME NEW a \in DashAgents, RemoveMember(a) PROVE RowsTypeOK'
  BY <1>10 DEF RemoveMember, RowsTypeOK
<1>11. ASSUME NEW q \in DashQueues, RemoveQueue(q) PROVE RowsTypeOK'
  BY <1>11 DEF RemoveQueue, RowsTypeOK
<1>12. CASE UNCHANGED dashRows
  BY <1>12 DEF dashRows, RowsTypeOK
<1>13. QED
  BY <1>2, <1>3, <1>4, <1>5, <1>6, <1>7, <1>8, <1>9, <1>10, <1>11, <1>12 DEF RowsChange

\* A step changes rows, or it is one of a request.
LEMMA DashSteps ==
  ASSUME [DashNext]_dashVars
  PROVE  /\ RowsChange \/ UNCHANGED dashRows
         /\ \/ RowsChange /\ Watched
            \/ \E asks \in {"totals", "times"}, sector \in DashSectors \cup {NoOne} :
                  AskFigures(asks, sector)
            \/ QueryNext \/ TellFigures \/ UNCHANGED dashVars
  BY DEF DashNext, dashVars, dashRows, AskFigures, QueryNext, TellFigures

LEMMA StandingsAre ==
  ASSUME NEW entry \in DashRowType PROVE Standing(entry) \in Standings
  BY DEF DashRowType, Standing, Standings

LEMMA QueriesAre ==
  ASSUME NEW name \in TotalNames \cup TimeNames, NEW sector
  PROVE  /\ Found(name, sector) \in SUBSET DashRooms
         /\ Following(name) \in {"told"} \cup TotalNames \cup TimeNames
<1>1. /\ RawActive(sector) \subseteq DashRooms /\ RawClosed(sector, {"today"}) \subseteq DashRooms
      /\ RawQueued(sector) \subseteq DashRooms /\ WaitingTimes(sector) \subseteq DashRooms
      /\ SavedResponses(sector) \subseteq DashRooms /\ AwaitedResponses(sector) \subseteq DashRooms
      /\ Durations(sector) \subseteq DashRooms
  BY DEF RawActive, RawClosed, RawQueued, WaitingTimes, SavedResponses, AwaitedResponses,
         Durations, LiveQueues, Opened
<1>2. QED
  BY <1>1 DEF Found, Following, TotalNames, TimeNames

LEMMA AnswersStillTyped ==
  RowsTypeOK /\ AnswerTypeOK /\ RowsTypeOK' /\ [DashNext]_dashVars => AnswerTypeOK'
<1> SUFFICES ASSUME RowsTypeOK, AnswerTypeOK, RowsTypeOK', [DashNext]_dashVars PROVE AnswerTypeOK'
  OBVIOUS
<1>1. ASSUME NEW r \in DashRooms
      PROVE  Standing(dashRow[r]) \in Standings /\ Standing(dashRow'[r]) \in Standings
  BY StandingsAre DEF RowsTypeOK
<1>2. CASE RowsChange /\ Watched
  BY <1>1, <1>2 DEF Watched, AnswerTypeOK
<1>3. ASSUME NEW asks \in {"totals", "times"}, NEW sector \in DashSectors \cup {NoOne},
             AskFigures(asks, sector)
      PROVE  AnswerTypeOK'
  <2>1. answer'.told = NoAnswer.told
    BY <1>3 DEF AskFigures, NoAnswer
  <2>2. answer' = [asks |-> asks, of |-> sector, told |-> NoAnswer.told,
                   next |-> IF asks = "totals" THEN "active" ELSE "waiting"]
    BY <1>3 DEF AskFigures, NoAnswer
  <2>3. NoAnswer.told \in [TotalNames \cup TimeNames -> SUBSET DashRooms]
    BY DEF NoAnswer
  <2>4. QED
    <3>1. seen' \in [DashRooms -> SUBSET Standings]
      BY <1>1, <1>3 DEF AskFigures
    <3>2. {"active", "waiting"} \subseteq TotalNames \cup TimeNames
      BY DEF TotalNames, TimeNames
    <3> HIDE DEF NoAnswer
    <3>3. QED
      BY <2>2, <2>3, <3>1, <3>2 DEF AnswerTypeOK
<1>4. CASE QueryNext
  <2>1. answer.next \in TotalNames \cup TimeNames
    BY <1>4 DEF QueryNext
  <2> DEFINE found == Found(answer.next, answer.of)
             then == Following(answer.next)
  <2>2. found \in SUBSET DashRooms /\ then \in {"told"} \cup TotalNames \cup TimeNames
    BY <2>1, QueriesAre
  <2>3. answer' = [answer EXCEPT !.told[answer.next] = found, !.next = then] /\ seen' = seen
    BY <1>4 DEF QueryNext
  <2> HIDE DEF found, then
  <2>4. QED
    BY <2>1, <2>2, <2>3 DEF AnswerTypeOK
<1>5. CASE TellFigures
  BY <1>5 DEF TellFigures, AnswerTypeOK, NoAnswer
<1>6. CASE UNCHANGED dashVars
  BY <1>6 DEF dashVars, AnswerTypeOK
<1>7. QED
  BY <1>2, <1>3, <1>4, <1>5, <1>6, DashSteps

(***************************************************************************)
(* The rows the dashboards read keep their types, and what a request finds *)
(* query by query keeps its own: an agent holds every room that is held.   *)
(***************************************************************************)
THEOREM DashTypeCorrect == DashSpec => []DashTypeOK
<1>1. DashInit => DashTypeOK
  <2>1. DashInit => RowsTypeOK
    BY DEF DashInit, RowsTypeOK, DashRowType, NoRoomYet, Period
  <2>2. DashInit => AnswerTypeOK
    <3>1. NoAnswer.told \in [TotalNames \cup TimeNames -> SUBSET DashRooms]
      BY DEF NoAnswer
    <3>2. [r \in DashRooms |-> {}] \in [DashRooms -> SUBSET Standings]
      OBVIOUS
    <3>3. NoAnswer = [asks |-> "nothing", of |-> NoOne, next |-> "none", told |-> NoAnswer.told]
      BY DEF NoAnswer
    <3> HIDE DEF NoAnswer
    <3>4. QED
      BY <3>1, <3>2, <3>3 DEF DashInit, AnswerTypeOK
  <2>3. QED
    BY <2>1, <2>2, DashTypes
<1>2. DashTypeOK /\ [DashNext]_dashVars => DashTypeOK'
  <2>1. RowsTypeOK' /\ AnswerTypeOK' => DashTypeOK'
    BY DEF DashTypeOK, RowsTypeOK, AnswerTypeOK, DashRowType
  <2>2. QED
    BY <2>1, DashTypes, DashSteps, RowsStillTyped, AnswersStillTyped
<1>3. QED
  BY <1>1, <1>2, PTL DEF DashSpec

\* What the fields of a row say of each other.
RowFits(entry) ==
    /\ entry.at = "unmade" => entry = NoRoomYet
    /\ entry.at = "queued" => entry.agent = NoOne
    /\ entry.agent # NoOne => entry.measured # "no"
    /\ entry.made = "today" => entry.measured # "before"
    /\ entry.rated => entry.at = "closed" /\ entry.agent # NoOne
    /\ entry.at = "closed" <=> entry.ended # "no"

RowsFit == \A r \in DashRooms : RowFits(dashRow[r])

LEMMA MeasuredFits ==
  ASSUME NEW entry \in DashRowType, RowFits(entry)
  PROVE  /\ RowFits(Measured(entry)) \/ entry.at = "unmade"
         /\ Measured(entry).measured # "no" /\ Measured(entry).rated = entry.rated
         /\ Measured(entry).made = "today" => Measured(entry).measured # "before"
         /\ Measured(entry).agent = entry.agent /\ Measured(entry).at = entry.at
         /\ Measured(entry).ended = entry.ended
<1>1. CASE entry.measured = "no"
  BY <1>1 DEF Measured, DashRowType, RowFits, Period
<1>2. CASE entry.measured # "no"
  BY <1>2 DEF Measured, DashRowType, RowFits, Period
<1>3. QED
  BY <1>1, <1>2

\* A row is queued, handed on, tagged, closed and rated in this order; it has metrics
\* before it has an agent, and nothing happens to a room that is not made yet.
LEMMA RowsStillFit == DashTypeOK /\ RowsFit /\ [DashNext]_dashVars => RowsFit'
<1> SUFFICES ASSUME DashTypeOK, RowsFit, [DashNext]_dashVars PROVE RowsFit'
  OBVIOUS
<1>0. ASSUME NEW r \in DashRooms
      PROVE  /\ dashRow[r] \in DashRowType /\ Measured(dashRow[r]) \in DashRowType
             /\ RowFits(dashRow[r]) /\ (dashRow[r].at = "held" => dashRow[r].agent # NoOne)
  BY MeasuredIsRow DEF DashTypeOK, DashRowType, RowsFit
<1>1. ASSUME NEW r \in DashRooms, NEW entry, SetRow(r, entry), RowFits(entry) PROVE RowsFit'
  BY <1>1 DEF SetRow, RowsFit, DashTypeOK
<1>2. ASSUME NEW r \in DashRooms, MakeDashRoom(r) PROVE RowsFit'
  <2>1. RowFits([dashRow[r] EXCEPT !.at = "queued"])
    BY <1>0, <1>2 DEF MakeDashRoom, RowFits, NoRoomYet
  <2>2. QED
    BY <1>1, <1>2, <2>1 DEF MakeDashRoom
<1>3. ASSUME NEW r \in DashRooms, NEW a \in DashAgents, HandDashRoom(r, a) PROVE RowsFit'
  <2>1. dashRow[r].at \in {"queued", "held"} /\ a # NoOne
    BY <1>3, DashboardAssumption DEF HandDashRoom, DashboardAssumption
  <2>2. RowFits([Measured(dashRow[r]) EXCEPT !.at = "held", !.agent = a])
    BY <1>0, <2>1, MeasuredFits DEF RowFits, DashRowType
  <2>3. QED
    BY <1>1, <1>3, <2>2 DEF HandDashRoom
<1>4. ASSUME NEW r \in DashRooms, RequeueDashRoom(r) PROVE RowsFit'
  <2>1. RowFits([dashRow[r] EXCEPT !.at = "queued", !.agent = NoOne])
    BY <1>0, <1>4 DEF RequeueDashRoom, RowFits, DashRowType
  <2>2. QED
    BY <1>1, <1>4, <2>1 DEF RequeueDashRoom
<1>5. ASSUME NEW r \in DashRooms, AnswerDashRoom(r) PROVE RowsFit'
  <2>1. RowFits([dashRow[r] EXCEPT !.answered = TRUE])
    BY <1>0, <1>5 DEF AnswerDashRoom, RowFits, DashRowType
  <2>2. QED
    BY <1>1, <1>5, <2>1 DEF AnswerDashRoom
<1>6. ASSUME NEW r \in DashRooms, NEW tags \in SUBSET DashTags, TagDashRoom(r, tags)
      PROVE  RowsFit'
  <2>1. RowFits([dashRow[r] EXCEPT !.tags = tags])
    BY <1>0, <1>6 DEF TagDashRoom, RowFits, DashRowType
  <2>2. QED
    BY <1>1, <1>6, <2>1 DEF TagDashRoom
<1>7. ASSUME NEW r \in DashRooms, CloseDashRoom(r) PROVE RowsFit'
  <2>1. dashRow[r].at \in {"queued", "held"}
    BY <1>7 DEF CloseDashRoom
  <2>2. RowFits([Measured(dashRow[r]) EXCEPT !.at = "closed", !.ended = "today"])
    BY <1>0, <2>1, MeasuredFits DEF RowFits, DashRowType
  <2>3. QED
    BY <1>1, <1>7, <2>2 DEF CloseDashRoom
<1>8. ASSUME NEW r \in DashRooms, RateDashRoom(r) PROVE RowsFit'
  <2>1. RowFits([dashRow[r] EXCEPT !.rated = TRUE])
    BY <1>0, <1>8 DEF RateDashRoom, RowFits, DashRowType
  <2>2. QED
    BY <1>1, <1>8, <2>1 DEF RateDashRoom
<1>9. CASE Midnight
  <2>1. ASSUME NEW r \in DashRooms PROVE RowFits(dashRow'[r])
    <3>1. CASE dashRow[r].at = "unmade"
      BY <1>0, <1>9, <3>1 DEF Midnight
    <3>2. CASE dashRow[r].at # "unmade"
      <4>1. dashRow'[r] = [dashRow[r] EXCEPT !.made = Older(@), !.ended = Older(@),
                                             !.measured = Older(@)]
        BY <1>9, <3>2 DEF Midnight
      <4>2. /\ dashRow'[r].at = dashRow[r].at /\ dashRow'[r].agent = dashRow[r].agent
            /\ dashRow'[r].rated = dashRow[r].rated /\ dashRow'[r].made # "today"
            /\ dashRow'[r].measured = "no" <=> dashRow[r].measured = "no"
            /\ dashRow'[r].ended = "no" <=> dashRow[r].ended = "no"
        <5>1. /\ dashRow'[r].at = dashRow[r].at /\ dashRow'[r].agent = dashRow[r].agent
              /\ dashRow'[r].rated = dashRow[r].rated
              /\ dashRow'[r].made = Older(dashRow[r].made)
              /\ dashRow'[r].measured = Older(dashRow[r].measured)
              /\ dashRow'[r].ended = Older(dashRow[r].ended)
          BY <1>0, <4>1 DEF DashRowType
        <5>2. /\ dashRow[r].made \in Period \cup {"no"}
              /\ dashRow[r].measured \in Period \cup {"no"}
              /\ dashRow[r].ended \in Period \cup {"no"}
          BY <1>0 DEF DashRowType
        <5>3. QED
          BY <5>1, <5>2 DEF Older, Period
      <4>3. QED
        BY <1>0, <3>2, <4>2 DEF RowFits
    <3>3. QED
      BY <3>1, <3>2
  <2>2. QED
    BY <2>1 DEF RowsFit
<1>10. CASE UNCHANGED dashRow
  BY <1>10 DEF RowsFit
<1>11. QED
  BY <1>2, <1>3, <1>4, <1>5, <1>6, <1>7, <1>8, <1>9, <1>10, DashSteps
     DEF RowsChange, RemoveMember, RemoveQueue, dashRows

\* Each room of S once, beside whatever f says of it, is as many as S.
LEMMA PairsAreAsMany ==
  ASSUME NEW S, IsFiniteSet(S), NEW f
  PROVE  LET T == {<<f[r], r>> : r \in S}
         IN  IsFiniteSet(T) /\ Cardinality(T) = Cardinality(S)
<1> DEFINE T == {<<f[r], r>> : r \in S}
           g == [r \in S |-> <<f[r], r>>]
<1>1. g \in Bijection(S, T)
  <2>1. g \in [S -> T]
    OBVIOUS
  <2>2. \A r, s \in S : g[r] = g[s] => r = s
    OBVIOUS
  <2>3. \A p \in T : \E r \in S : g[r] = p
    OBVIOUS
  <2> HIDE DEF g, T
  <2>4. QED
    BY <2>1, <2>2, <2>3 DEF Bijection, Injection, Surjection, IsInjective
<1>2. QED
  BY <1>1, FS_Bijection DEF ExistsBijection

\* Rows of a join that have each room once are as many as the rooms.
LEMMA PlainRowsAreAsMany ==
  ASSUME NEW rows, IsFiniteSet(rows), Plain(rows)
  PROVE  IsFiniteSet(RoomsIn(rows)) /\ Cardinality(RoomsIn(rows)) = Cardinality(rows)
<1> DEFINE g == [p \in rows |-> p[1]]
<1>1. g \in Bijection(rows, RoomsIn(rows))
  <2>1. g \in [rows -> RoomsIn(rows)]
    BY DEF RoomsIn
  <2>2. \A p, q \in rows : g[p] = g[q] => p = q
    BY DEF Plain
  <2>3. \A r \in RoomsIn(rows) : \E p \in rows : g[p] = r
    BY DEF RoomsIn
  <2> HIDE DEF g
  <2>4. QED
    BY <2>1, <2>2, <2>3 DEF Bijection, Injection, Surjection, IsInjective
<1>2. QED
  BY <1>1, FS_Bijection DEF ExistsBijection

\* The rows of a join are pairs, finitely many; without tags they are the rooms.
LEMMA RowsAre ==
  ASSUME NEW found \in SUBSET DashRooms, NEW tags \in SUBSET DashTags
  PROVE  /\ IsFiniteSet(Rows(found, tags)) /\ IsFiniteSet(found)
         /\ \A p \in Rows(found, tags) : /\ p = <<p[1], p[2]>> /\ p[1] \in found
                                         /\ p[2] \in IF tags = {} THEN {NoOne} ELSE tags
         /\ RoomsIn(Rows(found, tags)) \subseteq found
         /\ RoomsIn(Rows(found, {})) = found
<1>1. IsFiniteSet(found) /\ IsFiniteSet(tags) /\ IsFiniteSet({NoOne})
  BY DashboardAssumption, FS_Subset, FS_Singleton DEF DashboardAssumption
<1>2. IsFiniteSet(found \X {NoOne}) /\ IsFiniteSet(found \X tags)
  BY <1>1, FS_Product
<1>3. IsFiniteSet(Rows(found, tags))
  BY <1>2, FS_Subset DEF Rows
<1>4. \A p \in Rows(found, tags) : /\ p = <<p[1], p[2]>> /\ p[1] \in found
                                   /\ p[2] \in IF tags = {} THEN {NoOne} ELSE tags
  BY DEF Rows
<1>5. RoomsIn(Rows(found, tags)) \subseteq found
  BY <1>4 DEF RoomsIn
<1>6. RoomsIn(Rows(found, {})) = found
  <2>1. ASSUME NEW r \in found PROVE r \in RoomsIn(found \X {NoOne})
    <3>1. <<r, NoOne>> \in found \X {NoOne} /\ <<r, NoOne>>[1] = r
      OBVIOUS
    <3>2. QED
      BY <3>1 DEF RoomsIn
  <2>2. Rows(found, {}) = found \X {NoOne}
    BY DEF Rows
  <2>3. RoomsIn(found \X {NoOne}) \subseteq found
    BY DEF RoomsIn
  <2>4. QED
    BY <2>1, <2>2, <2>3
<1>7. QED
  BY <1>1, <1>3, <1>4, <1>5, <1>6

\* With one tag at most a join has each room once.
LEMMA OneTagIsPlain ==
  ASSUME NEW found \in SUBSET DashRooms, NEW tags \in OneTag
  PROVE  Plain(Rows(found, tags))
<1>1. IsFiniteSet(tags) /\ Cardinality(tags) \in Nat /\ Cardinality(tags) <= 1
  BY DashboardAssumption, FS_Subset, FS_CardinalityType DEF DashboardAssumption, OneTag
<1>2. \A t, u \in tags : t = u
  <2>1. CASE Cardinality(tags) = 0
    BY <1>1, <2>1, FS_EmptySet
  <2>2. CASE Cardinality(tags) = 1
    BY <1>1, <2>2, FS_Singleton
  <2>3. QED
    BY <1>1, <2>1, <2>2
<1>3. QED
  BY <1>2, RowsAre DEF Plain, OneTag

\* Rooms that are each some agent's, told by agent, are as many as the rooms.
LEMMA OfAgentsAreAsMany ==
  ASSUME NEW S \in SUBSET DashRooms, NEW T,
         T = {<<dashRow[r].agent, r>> : r \in S}
  PROVE  Cardinality(T) = Cardinality(S)
<1> DEFINE f == [r \in S |-> dashRow[r].agent]
<1>1. IsFiniteSet(S)
  BY DashboardAssumption, FS_Subset DEF DashboardAssumption
<1>2. T = {<<f[r], r>> : r \in S}
  OBVIOUS
<1> HIDE DEF f
<1>3. QED
  BY <1>1, <1>2, PairsAreAsMany

\* What a member of a set of rooms is.
LEMMA MembersAre ==
  ASSUME NEW r \in DashRooms, DashTypeOK, RowsFit
  PROVE  /\ dashRow[r] \in DashRowType /\ RowFits(dashRow[r])
         /\ dashRow[r].at = "held" => dashRow[r].agent # NoOne
         /\ QueueIn[r] \in DashQueues /\ SectorWith[QueueIn[r]] \in DashSectors
  BY DashboardAssumption DEF DashTypeOK, DashRowType, RowsFit, DashboardAssumption

\* The rooms of an agent, without tags.
LEMMA AgentsRoomsAre ==
  ASSUME NEW a, NEW sector, NEW days
  PROVE  /\ AgentOpened(a, sector, {}) = Of(a) \cap Opened \cap InSector(sector)
         /\ AgentClosed(a, sector, {}, days) = Of(a) \cap EndedIn(days) \cap InSector(sector)
<1>1. /\ Of(a) \cap Opened \cap InSector(sector) \in SUBSET DashRooms
      /\ Of(a) \cap EndedIn(days) \cap InSector(sector) \in SUBSET DashRooms
  BY DEF Of
<1>2. QED
  BY <1>1, RowsAre DEF AgentOpened, AgentClosed

LEMMA TotalsFollow == DashTypeOK /\ RowsFit => TotalsMatchAgents
<1> SUFFICES ASSUME DashTypeOK, RowsFit, NEW sector \in SectorFilters
             PROVE  LET opened(a) == AgentOpened(a, sector, {}) \cap LiveQueues
                        closed(a) == AgentClosed(a, sector, {}, {"today"}) \cap LiveQueues
                        agents == ListedRemoved(sector, {"today"})
                        told == {r \in RawClosed(sector, {"today"}) : dashRow[r].agent # NoOne}
                    IN  /\ SizeOver(opened, agents) = Cardinality(RawActive(sector))
                        /\ SizeOver(closed, agents) = Cardinality(told)
  BY DEF TotalsMatchAgents
<1> DEFINE agents == ListedRemoved(sector, {"today"})
           openedOf == UNION {{a} \X (AgentOpened(a, sector, {}) \cap LiveQueues) : a \in agents}
           closedOf == UNION {{a} \X (AgentClosed(a, sector, {}, {"today"}) \cap LiveQueues) :
                                  a \in agents}
           told == {r \in RawClosed(sector, {"today"}) : dashRow[r].agent # NoOne}
<1>1. /\ RawActive(sector) = {r \in DashRooms : /\ r \in LiveQueues \cap InSector(sector)
                                               /\ dashRow[r].at = "held"}
      /\ told = {r \in DashRooms : /\ r \in LiveQueues \cap InSector(sector) \cap EndedIn({"today"})
                                   /\ dashRow[r].agent # NoOne}
  BY DEF RawActive, RawClosed, Opened, LiveQueues, Is
<1>2. ASSUME NEW r \in RawActive(sector) \cup told PROVE dashRow[r].agent \in agents
  <2>1. /\ r \in DashRooms /\ dashRow[r].agent \in DashAgents /\ r \in InSector(sector)
        /\ r \in Opened \cup EndedIn({"today"}) /\ r \in Of(dashRow[r].agent)
    BY <1>1, <1>2, MembersAre DEF DashRowType, Of, Opened, Is
  <2>2. dashRow[r].agent \in Listed(sector)
    BY <2>1 DEF Listed
  <2>3. r \in AgentOpened(dashRow[r].agent, sector, {})
            \cup AgentClosed(dashRow[r].agent, sector, {}, {"today"})
    BY <2>1, AgentsRoomsAre
  <2>4. QED
    BY <2>2, <2>3 DEF ListedRemoved
<1>3. agents \subseteq DashAgents
  BY DEF ListedRemoved, Listed
<1>4. ASSUME NEW a \in agents
      PROVE  /\ AgentOpened(a, sector, {}) \cap LiveQueues
                   = {r \in RawActive(sector) : dashRow[r].agent = a}
             /\ AgentClosed(a, sector, {}, {"today"}) \cap LiveQueues
                   = {r \in told : dashRow[r].agent = a}
  <2>1. a # NoOne
    BY <1>3, DashboardAssumption DEF DashboardAssumption
  <2>2. Of(a) \cap Opened = {r \in DashRooms : dashRow[r].agent = a /\ dashRow[r].at = "held"}
    BY <2>1, MembersAre DEF Of, Opened, Is, RowFits
  <2>3. QED
    BY <1>1, <2>1, <2>2, AgentsRoomsAre DEF Of
<1>5. openedOf = {<<dashRow[r].agent, r>> : r \in RawActive(sector)}
  BY <1>2, <1>4
<1>6. closedOf = {<<dashRow[r].agent, r>> : r \in told}
  BY <1>2, <1>4
<1>7. RawActive(sector) \in SUBSET DashRooms /\ told \in SUBSET DashRooms
  BY <1>1
<1>8. Cardinality(openedOf) = Cardinality(RawActive(sector)) /\ Cardinality(closedOf) = Cardinality(told)
  <2> HIDE DEF openedOf, closedOf, told
  <2>1. QED
    BY <1>5, <1>6, <1>7, OfAgentsAreAsMany
<1>9. QED
  BY <1>8 DEF SizeOver

LEMMA DivisionsFollow == DashTypeOK /\ RowsFit => DivisionsMakeUpGeneral
<1> SUFFICES ASSUME DashTypeOK, RowsFit PROVE DivisionsMakeUpGeneral
  OBVIOUS
<1>1. ASSUME NEW r \in DashRooms
      PROVE  /\ QueueIn[r] \in DashQueues /\ SectorWith[QueueIn[r]] \in DashSectors
             /\ dashRow[r].made \in Period
             /\ dashRow[r].agent # NoOne => dashRow[r].measured \in Period
             /\ dashRow[r].agent # NoOne /\ dashRow[r].made = "today"
                    => dashRow[r].measured = "today"
  BY MembersAre DEF DashRowType, RowFits, Period
<1>2. NoOne \notin DashSectors
  BY DashboardAssumption DEF DashboardAssumption
<1>3. ASSUME NEW days
      PROVE  UNION {Division(q, days) : q \in DashQueues}
                 = {r \in LiveQueues \cap HadAgent : dashRow[r].measured \in days}
  BY <1>1 DEF Division, LiveQueues
<1>4. GeneralRooms(NoOne, {"today"}) \subseteq UNION {Division(q, {"today"}) : q \in DashQueues}
  BY <1>1, <1>3 DEF GeneralRooms, Transferred, MadeIn, HadAgent, LiveQueues
<1>5. GeneralRooms(NoOne, Period) = UNION {Division(q, Period) : q \in DashQueues}
  BY <1>1, <1>3 DEF GeneralRooms, Transferred, MadeIn, HadAgent, LiveQueues, InSector
<1>6. ASSUME NEW sector \in DashSectors
      PROVE  GeneralRooms(sector, Period)
                 = UNION {Division(q, Period) : q \in {x \in DashQueues : SectorWith[x] = sector}}
  BY <1>1, <1>2 DEF GeneralRooms, Transferred, MadeIn, HadAgent, LiveQueues, InSector, Division
<1>7. QED
  BY <1>4, <1>5, <1>6 DEF DivisionsMakeUpGeneral

\* Who serves a queue is a member.
MembersServe == serves \subseteq belongs \X DashQueues

LEMMA MembersStillServe ==
  RowsTypeOK /\ MembersServe /\ [DashNext]_dashVars => MembersServe'
<1> SUFFICES ASSUME RowsTypeOK, MembersServe, [DashNext]_dashVars PROVE MembersServe'
  OBVIOUS
<1>1. ASSUME NEW a \in DashAgents, RemoveMember(a) PROVE MembersServe'
  BY <1>1 DEF RemoveMember, MembersServe
<1>2. CASE UNCHANGED <<belongs, serves>>
  BY <1>2 DEF MembersServe
<1>3. QED
  BY <1>1, <1>2, DashSteps
     DEF RowsChange, dashRows, SetRow, MakeDashRoom, HandDashRoom, RequeueDashRoom,
         AnswerDashRoom, TagDashRoom, CloseDashRoom, RateDashRoom, Midnight, RemoveQueue

LEMMA RemovedFollow == RowsTypeOK /\ MembersServe => RemovedHaveRooms
<1> SUFFICES ASSUME RowsTypeOK, MembersServe, NEW sector \in DashSectors
             PROVE  /\ ListedByQueue(sector) \subseteq belongs
                    /\ \A a \in Listed(sector) \ belongs : Of(a) \cap InSector(sector) # {}
  BY DEF RemovedHaveRooms
<1>1. sector # NoOne
  BY DashboardAssumption DEF DashboardAssumption
<1>2. \A p \in serves : p[1] \in belongs
  BY DEF MembersServe
<1>3. QED
  BY <1>1, <1>2 DEF ListedByQueue, Listed

LEMMA ScoresFollow == DashTypeOK /\ RowsFit => ScoresAreOfAgents
<1> SUFFICES ASSUME DashTypeOK, RowsFit, NEW sector \in SectorFilters, NEW tags \in OneTag,
                    NEW days \in {{"today"}, Period}
             PROVE  LET reviews(a) == AgentReviews(a, sector, tags, days)
                        ofAgents == SizeOver(reviews, Scored(sector, tags, days))
                    IN  /\ ofAgents = Cardinality(ScoredReviews(sector, tags, days))
                        /\ ofAgents = Cardinality(RatingCounts(sector, tags, days, TRUE))
  BY DEF ScoresAreOfAgents
<1> DEFINE ended == EndedIn(days) \cap InSector(sector)
           rated == {r \in ended : dashRow[r].rated}
           reviewed == RoomsIn(Rows(rated, tags))
           ofAgents == UNION {{a} \X AgentReviews(a, sector, tags, days) :
                                  a \in Scored(sector, tags, days)}
<1>1. /\ tags \in SUBSET DashTags
      /\ ended \in SUBSET DashRooms /\ rated \in SUBSET DashRooms /\ rated \subseteq ended
  BY DEF OneTag, EndedIn
\* All surveys are of rooms that were closed.
<1>2. RatingCounts(sector, tags, days, TRUE) = Rows(rated, tags)
  <2>1. {r \in InSector(sector) : dashRow[r].rated /\ dashRow[r].ended \in days} = rated
    BY MembersAre DEF RowFits, EndedIn, InSector, Is
  <2>2. {r \in InSector(sector) : /\ dashRow[r].rated
                                  /\ dashRow[r].ended \in IF TRUE THEN days ELSE days \ {"today"}}
            = {r \in InSector(sector) : dashRow[r].rated /\ dashRow[r].ended \in days}
    OBVIOUS
  <2> HIDE DEF rated
  <2>3. QED
    BY <2>1, <2>2 DEF RatingCounts
<1>3. Cardinality(Rows(rated, tags)) = Cardinality(reviewed) /\ reviewed \in SUBSET DashRooms
  <2>1. IsFiniteSet(Rows(rated, tags)) /\ Plain(Rows(rated, tags)) /\ reviewed \subseteq rated
    BY <1>1, OneTagIsPlain, RowsAre
  <2>2. QED
    BY <1>1, <2>1, PlainRowsAreAsMany
\* A room with one of the tags is the same of whichever rooms it is asked.
<1>4. ASSUME NEW r \in DashRooms, NEW found \in SUBSET DashRooms
      PROVE  r \in RoomsIn(Rows(found, tags))
                 <=> r \in found /\ (tags = {} \/ tags \cap dashRow[r].tags # {})
  <2>1. CASE tags = {}
    BY <2>1, RowsAre
  <2>2. CASE tags # {}
    <3>1. Rows(found, tags) = {p \in found \X tags : p[2] \in dashRow[p[1]].tags}
      BY <2>2 DEF Rows
    <3>2. ASSUME r \in RoomsIn(Rows(found, tags)) PROVE r \in found /\ tags \cap dashRow[r].tags # {}
      BY <3>1, <3>2 DEF RoomsIn
    <3>3. ASSUME r \in found, NEW t \in tags \cap dashRow[r].tags
          PROVE  r \in RoomsIn(Rows(found, tags))
      <4>1. <<r, t>> \in Rows(found, tags) /\ <<r, t>>[1] = r
        BY <3>1, <3>3
      <4>2. QED
        BY <4>1 DEF RoomsIn
    <3>4. QED
      BY <2>2, <3>2, <3>3
  <2>3. QED
    BY <2>1, <2>2
<1>5. ASSUME NEW a PROVE AgentReviews(a, sector, tags, days) = {r \in reviewed : dashRow[r].agent = a}
  <2>1. Of(a) \cap EndedIn(days) \cap InSector(sector) \in SUBSET DashRooms
    BY DEF Of
  <2>2. AgentClosed(a, sector, tags, days) \subseteq DashRooms
    BY <1>1, <2>1, RowsAre DEF AgentClosed
  <2>3. \A r \in DashRooms : r \in AgentClosed(a, sector, tags, days)
             <=> r \in ended /\ dashRow[r].agent = a /\ (tags = {} \/ tags \cap dashRow[r].tags # {})
    BY <1>4, <2>1 DEF AgentClosed, Of
  <2>4. \A r \in DashRooms : r \in reviewed
             <=> r \in rated /\ (tags = {} \/ tags \cap dashRow[r].tags # {})
    BY <1>1, <1>4
  <2>5. QED
    BY <1>3, <2>2, <2>3, <2>4 DEF AgentReviews
<1>6. ASSUME NEW r \in reviewed PROVE dashRow[r].agent \in Scored(sector, tags, days)
  <2>1. r \in DashRooms /\ r \in rated
    BY <1>1, <1>3, RowsAre
  <2>2. dashRow[r].agent \in DashAgents
    BY <2>1, MembersAre DEF RowFits, DashRowType
  <2>3. r \in AgentReviews(dashRow[r].agent, sector, tags, days)
    BY <1>5
  <2>4. r \in AgentClosed(dashRow[r].agent, sector, tags, days)
    BY <2>3 DEF AgentReviews
  <2>5. r \in AgentClosed(dashRow[r].agent, sector, {}, days)
    BY <2>1, AgentsRoomsAre DEF Of, EndedIn
  <2>6. QED
    BY <2>2, <2>4, <2>5 DEF Scored
<1>7. ofAgents = {<<dashRow[r].agent, r>> : r \in reviewed}
  <2> HIDE DEF reviewed
  <2>1. QED
    BY <1>5, <1>6
<1>8. Cardinality(ofAgents) = Cardinality(reviewed)
  <2> HIDE DEF reviewed, ofAgents
  <2>1. QED
    BY <1>3, <1>7, OfAgentsAreAsMany
<1>9. QED
  BY <1>2, <1>3, <1>8 DEF SizeOver, ScoredReviews

\* A query finds the rooms that stand where it looks.
LEMMA FoundWhereTheyStand ==
  ASSUME DashTypeOK, NEW r \in DashRooms, NEW name \in TotalNames \cup TimeNames,
         NEW sector \in SectorFilters
  PROVE  /\ r \in Found(name, sector) => Standing(dashRow[r]) \in Shown(name)
         /\ r \in LiveQueues \cap InSector(sector) /\ Standing(dashRow[r]) \in Shown(name)
                => r \in Found(name, sector)
<1>1. dashRow[r].at \in {"unmade", "queued", "held", "closed"} /\ dashRow[r].answered \in BOOLEAN
  BY DEF DashTypeOK
<1>2. /\ r \in RawActive(sector) <=> r \in LiveQueues \cap InSector(sector) /\ dashRow[r].at = "held"
      /\ r \in RawQueued(sector)
            <=> r \in LiveQueues \cap InSector(sector) /\ dashRow[r].at = "queued"
      /\ r \in RawClosed(sector, {"today"})
            <=> /\ r \in LiveQueues \cap InSector(sector)
                /\ dashRow[r].at = "closed" /\ dashRow[r].ended = "today"
      /\ r \in WaitingTimes(sector) <=> r \in InSector(sector) /\ dashRow[r].at = "queued"
  BY DEF RawActive, RawQueued, RawClosed, WaitingTimes, Opened, Is, EndedIn
<1>3. /\ r \in SavedResponses(sector) <=> r \in RawActive(sector) /\ dashRow[r].answered
      /\ r \in AwaitedResponses(sector) <=> r \in RawActive(sector) /\ ~dashRow[r].answered
      /\ r \in Durations(sector) <=> r \in RawActive(sector)
  BY DEF SavedResponses, AwaitedResponses, Durations
<1>4. /\ Standing(dashRow[r]) = "held" <=> dashRow[r].at = "held" /\ ~dashRow[r].answered
      /\ Standing(dashRow[r]) = "answered" <=> dashRow[r].at = "held" /\ dashRow[r].answered
      /\ Standing(dashRow[r]) = "queued" <=> dashRow[r].at = "queued"
      /\ Standing(dashRow[r]) = "closed" <=> dashRow[r].at = "closed" /\ dashRow[r].ended = "today"
  BY <1>1 DEF Standing
<1>5. CASE name \in TotalNames
  BY <1>2, <1>4, <1>5 DEF Found, Shown, TotalNames
<1>6. CASE name \in TimeNames
  BY <1>2, <1>3, <1>4, <1>6 DEF Found, Shown, TimeNames
<1>7. QED
  BY <1>5, <1>6

\* No room is opened again or loses its response, and no queue comes back.
LEMMA StandingsMove ==
  ASSUME DashTypeOK, RowsFit, RowsChange, NEW r \in DashRooms
  PROVE  /\ Standing(dashRow[r]) = "closed" => Standing(dashRow'[r]) \in {"closed", "past"}
         /\ dashRow[r].answered => dashRow'[r].answered
         /\ removedQueues \subseteq removedQueues'
<1>1. /\ dashRow[r] \in DashRowType /\ RowFits(dashRow[r])
      /\ Measured(dashRow[r]) \in DashRowType
      /\ Measured(dashRow[r]).answered = dashRow[r].answered
  BY MembersAre, MeasuredIsRow DEF Measured, DashRowType
<1>2. Standing(dashRow[r]) = "closed" <=> dashRow[r].at = "closed" /\ dashRow[r].ended = "today"
  BY <1>1 DEF Standing, DashRowType
<1> DEFINE Kept == /\ dashRow[r].at = "closed"
                        => /\ dashRow'[r].at = "closed"
                           /\ dashRow'[r].answered = dashRow[r].answered
                   /\ dashRow[r].answered => dashRow'[r].answered
<1>3. ASSUME NEW s \in DashRooms, NEW entry, SetRow(s, entry),
             s = r => /\ dashRow[r].at = "closed" => entry.at = "closed"
                      /\ dashRow[r].at = "closed" => entry.answered = dashRow[r].answered
                      /\ dashRow[r].answered => entry.answered
      PROVE  Kept /\ removedQueues' = removedQueues
  BY <1>3 DEF SetRow, DashTypeOK
<1>4. ASSUME NEW s \in DashRooms, MakeDashRoom(s) PROVE Kept /\ removedQueues' = removedQueues
  BY <1>1, <1>3, <1>4 DEF MakeDashRoom, DashRowType
<1>5. ASSUME NEW s \in DashRooms, NEW a \in DashAgents, HandDashRoom(s, a)
      PROVE  Kept /\ removedQueues' = removedQueues
  <2>1. [Measured(dashRow[r]) EXCEPT !.at = "held", !.agent = a].answered = dashRow[r].answered
    BY <1>1 DEF DashRowType
  <2>2. QED
    BY <1>3, <1>5, <2>1 DEF HandDashRoom
<1>6. ASSUME NEW s \in DashRooms, RequeueDashRoom(s) PROVE Kept /\ removedQueues' = removedQueues
  BY <1>1, <1>3, <1>6 DEF RequeueDashRoom, DashRowType
<1>7. ASSUME NEW s \in DashRooms, AnswerDashRoom(s) PROVE Kept /\ removedQueues' = removedQueues
  BY <1>1, <1>3, <1>7 DEF AnswerDashRoom, DashRowType
<1>8. ASSUME NEW s \in DashRooms, NEW tags \in SUBSET DashTags, TagDashRoom(s, tags)
      PROVE  Kept /\ removedQueues' = removedQueues
  BY <1>1, <1>3, <1>8 DEF TagDashRoom, DashRowType
<1>9. ASSUME NEW s \in DashRooms, CloseDashRoom(s) PROVE Kept /\ removedQueues' = removedQueues
  <2>1. [Measured(dashRow[r]) EXCEPT !.at = "closed", !.ended = "today"].answered
            = dashRow[r].answered
    BY <1>1 DEF DashRowType
  <2>2. QED
    BY <1>3, <1>9, <2>1 DEF CloseDashRoom
<1>10. ASSUME NEW s \in DashRooms, RateDashRoom(s) PROVE Kept /\ removedQueues' = removedQueues
  BY <1>1, <1>3, <1>10 DEF RateDashRoom, DashRowType
<1>11. Kept /\ removedQueues \subseteq removedQueues'
  <2>1. ASSUME NEW a \in DashAgents, RemoveMember(a)
        PROVE  UNCHANGED dashRow /\ removedQueues \subseteq removedQueues'
    BY <2>1 DEF RemoveMember
  <2>2. ASSUME NEW q \in DashQueues, RemoveQueue(q)
        PROVE  UNCHANGED dashRow /\ removedQueues \subseteq removedQueues'
    BY <2>2 DEF RemoveQueue
  <2>3. ASSUME Midnight PROVE Kept /\ removedQueues' = removedQueues
    <3>1. CASE dashRow[r].at = "unmade"
      BY <2>3, <3>1 DEF Midnight
    <3>2. CASE dashRow[r].at # "unmade"
      <4>1. dashRow'[r] = [dashRow[r] EXCEPT !.made = Older(@), !.ended = Older(@),
                                             !.measured = Older(@)]
        BY <2>3, <3>2 DEF Midnight
      <4>2. QED
        BY <1>1, <2>3, <4>1 DEF Midnight, DashRowType
    <3>3. QED
      BY <3>1, <3>2
  <2> HIDE DEF Kept
  <2>4. QED
    BY <1>4, <1>5, <1>6, <1>7, <1>8, <1>9, <1>10, <2>1, <2>2, <2>3 DEF RowsChange, Kept
<1>12. QED
  BY <1>2, <1>11 DEF Standing

\* What is known of a room while figures are asked, query by query.
ReachedBy(name, names) == name \in names \cup {"told"}
RoomFigured(r) ==
    LET told == answer.told
        next == answer.next
        StoodIn(standings) ==
            r \in InSector(answer.of) \cap LiveQueues /\ seen[r] \subseteq standings
    IN  /\ Standing(dashRow[r]) \in seen[r]
        /\ \A name \in TotalNames \cup TimeNames :
              r \in told[name] => seen[r] \cap Shown(name) # {}
        /\ r \in told["saved"] => dashRow[r].answered /\ r \notin told["awaited"]
        /\ answer.asks = "totals" =>
              /\ ReachedBy(next, {"closed", "queued"}) /\ StoodIn({"held", "answered", "closed"})
                     => r \in told["active"] \/ Standing(dashRow[r]) = "closed"
              /\ ReachedBy(next, {"queued"}) /\ StoodIn({"held", "answered", "closed"})
                     => r \in told["active"] \/ r \in told["closed"]
              /\ next = "told" /\ StoodIn({"queued"}) => r \in told["queued"]
        /\ answer.asks = "times" =>
              /\ ReachedBy(next, {"saved", "awaited", "durations"}) /\ StoodIn({"queued"})
                     => r \in told["waiting"]
              /\ ReachedBy(next, {"awaited", "durations"}) /\ StoodIn({"answered"})
                     => r \in told["saved"]
              /\ ReachedBy(next, {"durations"}) /\ StoodIn({"held"}) => r \in told["awaited"]
              /\ next = "told" /\ StoodIn({"held", "answered"}) => r \in told["durations"]

FiguresFit ==
    /\ answer.asks = "nothing" => answer = NoAnswer
    /\ answer.asks = "totals" => answer.next \in TotalNames \cup {"told"}
    /\ answer.asks = "times" => answer.next \in TimeNames \cup {"told"}
    /\ answer.told["awaited"] # {} => answer.next \in {"durations", "told"}
    /\ answer.asks # "nothing" => \A r \in DashRooms : RoomFigured(r)

LEMMA RowsKeepFigures ==
  ASSUME DashTypeOK, RowsFit, FiguresFit, RowsChange, Watched, DashTypeOK'
  PROVE  FiguresFit'
<1>1. answer' = answer
  BY DEF Watched
<1>2. CASE answer.asks = "nothing"
  BY <1>1, <1>2 DEF FiguresFit
<1>3. ASSUME answer.asks # "nothing", NEW r \in DashRooms PROVE RoomFigured(r)'
  <2>1. RoomFigured(r) /\ answer # NoAnswer
    BY <1>3 DEF FiguresFit, NoAnswer
  <2>2. seen'[r] = seen[r] \cup {Standing(dashRow'[r])}
    BY <2>1 DEF Watched
  <2>3. /\ Standing(dashRow[r]) = "closed" => Standing(dashRow'[r]) \in {"closed", "past"}
        /\ dashRow[r].answered => dashRow'[r].answered
        /\ r \in LiveQueues' => r \in LiveQueues
    BY StandingsMove DEF LiveQueues
  <2>4. InSector(answer.of)' = InSector(answer.of)
    BY <1>1 DEF InSector
  <2>5. QED
    BY <1>1, <2>1, <2>2, <2>3, <2>4 DEF RoomFigured, ReachedBy
<1>4. QED
  BY <1>1, <1>2, <1>3 DEF FiguresFit

LEMMA AskingFits ==
  ASSUME DashTypeOK, NEW asks \in {"totals", "times"}, NEW sector \in SectorFilters,
         AskFigures(asks, sector)
  PROVE  FiguresFit'
<1>1. answer' = [asks |-> asks, of |-> sector, told |-> NoAnswer.told,
                 next |-> IF asks = "totals" THEN "active" ELSE "waiting"]
  BY DEF AskFigures, NoAnswer
<1>2. \A name \in TotalNames \cup TimeNames : answer'.told[name] = {}
  BY <1>1 DEF NoAnswer
<1>3. "awaited" \in TimeNames /\ "saved" \in TimeNames
  BY DEF TimeNames
<1>4. ASSUME NEW r \in DashRooms PROVE RoomFigured(r)'
  <2>1. seen'[r] = {Standing(dashRow[r])} /\ dashRow' = dashRow
    BY DEF AskFigures, dashRows
  <2>2. answer'.next \in {"active", "waiting"}
    BY <1>1
  <2>3. QED
    BY <1>2, <1>3, <2>1, <2>2 DEF RoomFigured, ReachedBy
<1>5. answer'.asks = asks /\ answer'.told["awaited"] = {}
  BY <1>1, <1>2, <1>3
<1>6. answer'.next = IF asks = "totals" THEN "active" ELSE "waiting"
  BY <1>1
<1>7. QED
  BY <1>4, <1>5, <1>6 DEF FiguresFit, TotalNames, TimeNames

LEMMA QueriesFit ==
  ASSUME DashTypeOK, FiguresFit, QueryNext
  PROVE  FiguresFit'
<1> DEFINE name == answer.next
           found == Found(answer.next, answer.of)
<1>1. /\ name \in TotalNames \cup TimeNames /\ answer.of \in SectorFilters
      /\ answer.asks \in {"nothing", "totals", "times"}
      /\ answer.told \in [TotalNames \cup TimeNames -> SUBSET DashRooms]
  BY DEF QueryNext, DashTypeOK, SectorFilters
<1>2. /\ answer' = [answer EXCEPT !.told[name] = found, !.next = Following(name)]
      /\ UNCHANGED <<dashRows, seen>>
  BY DEF QueryNext
<1>3. /\ answer'.asks = answer.asks /\ answer'.of = answer.of /\ answer'.next = Following(name)
      /\ answer'.told = [answer.told EXCEPT ![name] = found]
  BY <1>2 DEF DashTypeOK
<1>4. answer.asks # "nothing"
  BY <1>1 DEF FiguresFit, NoAnswer, TotalNames, TimeNames
<1>5. ASSUME NEW n \in TotalNames \cup TimeNames
      PROVE  answer'.told[n] = IF n = name THEN found ELSE answer.told[n]
  BY <1>1, <1>3
<1>6. /\ name = "active" => Following(name) = "closed"
      /\ name = "closed" => Following(name) = "queued"
      /\ name = "queued" => Following(name) = "told"
      /\ name = "waiting" => Following(name) = "saved"
      /\ name = "saved" => Following(name) = "awaited"
      /\ name = "awaited" => Following(name) = "durations"
      /\ name = "durations" => Following(name) = "told"
  BY DEF Following
<1>7. /\ answer.asks = "totals" => name \in {"active", "closed", "queued"}
      /\ answer.asks = "times" => name \in {"waiting", "saved", "awaited", "durations"}
  BY <1>1 DEF FiguresFit, TotalNames, TimeNames
<1>8. ASSUME NEW r \in DashRooms PROVE RoomFigured(r)'
  <2>1. RoomFigured(r)
    BY <1>4 DEF FiguresFit
  <2>2. /\ r \in found => Standing(dashRow[r]) \in Shown(name)
        /\ r \in LiveQueues \cap InSector(answer.of) /\ Standing(dashRow[r]) \in Shown(name)
               => r \in found
    BY <1>1, FoundWhereTheyStand
  <2>3. /\ dashRow' = dashRow /\ seen' = seen /\ LiveQueues' = LiveQueues
        /\ InSector(answer.of)' = InSector(answer.of)
    BY <1>2, <1>3 DEF dashRows, LiveQueues, InSector
  <2>4. \A n \in TotalNames \cup TimeNames : r \in answer'.told[n] => seen[r] \cap Shown(n) # {}
    BY <1>5, <2>1, <2>2 DEF RoomFigured
  <2>5. Standing(dashRow[r]) \in seen[r]
    BY <2>1 DEF RoomFigured
  <2>6. /\ Standing(dashRow[r]) = "answered" => dashRow[r].answered
        /\ Standing(dashRow[r]) = "held" => ~dashRow[r].answered
    BY DEF Standing, DashTypeOK
  <2>7. r \in answer'.told["saved"] => dashRow[r].answered /\ r \notin answer'.told["awaited"]
    <3>1. "saved" \in TimeNames /\ "awaited" \in TimeNames
      BY DEF TimeNames
    <3>2. name = "saved" => answer.told["awaited"] = {}
      BY DEF FiguresFit
    <3>3. /\ name = "saved" /\ r \in found => dashRow[r].answered
          /\ name = "awaited" /\ r \in found => ~dashRow[r].answered
      BY <2>2, <2>6 DEF Shown
    <3>4. r \in answer.told["saved"] => dashRow[r].answered /\ r \notin answer.told["awaited"]
      BY <2>1 DEF RoomFigured
    <3> HIDE DEF name, found
    <3>5. QED
      BY <1>5, <3>1, <3>2, <3>3, <3>4
  <2> DEFINE Within(standings) ==
                 r \in InSector(answer.of) \cap LiveQueues /\ seen[r] \subseteq standings
             next == answer'.next
             told == answer'.told
  <2>8. ASSUME answer.asks = "totals"
        PROVE  /\ ReachedBy(next, {"closed", "queued"}) /\ Within({"held", "answered", "closed"})
                      => r \in told["active"] \/ Standing(dashRow[r]) = "closed"
               /\ ReachedBy(next, {"queued"}) /\ Within({"held", "answered", "closed"})
                      => r \in told["active"] \/ r \in told["closed"]
               /\ next = "told" /\ Within({"queued"}) => r \in told["queued"]
    <3>1. /\ "active" \in TotalNames /\ "closed" \in TotalNames /\ "queued" \in TotalNames
          /\ Shown("active") = {"held", "answered"} /\ Shown("closed") = {"closed"}
          /\ Shown("queued") = {"queued"}
      BY DEF TotalNames, Shown
    <3>2. CASE name = "active"
      BY <1>3, <1>5, <1>6, <2>2, <2>5, <3>1, <3>2 DEF ReachedBy
    <3>3. CASE name = "closed"
      BY <1>3, <1>5, <1>6, <2>1, <2>2, <2>5, <2>8, <3>1, <3>3 DEF ReachedBy, RoomFigured
    <3>4. CASE name = "queued"
      BY <1>3, <1>5, <1>6, <2>1, <2>2, <2>5, <2>8, <3>1, <3>4 DEF ReachedBy, RoomFigured
    <3>5. QED
      BY <1>7, <2>8, <3>2, <3>3, <3>4
  <2>9. ASSUME answer.asks = "times"
        PROVE  /\ ReachedBy(next, {"saved", "awaited", "durations"}) /\ Within({"queued"})
                      => r \in told["waiting"]
               /\ ReachedBy(next, {"awaited", "durations"}) /\ Within({"answered"})
                      => r \in told["saved"]
               /\ ReachedBy(next, {"durations"}) /\ Within({"held"}) => r \in told["awaited"]
               /\ next = "told" /\ Within({"held", "answered"}) => r \in told["durations"]
    <3>1. /\ "waiting" \in TimeNames /\ "saved" \in TimeNames /\ "awaited" \in TimeNames
          /\ "durations" \in TimeNames
          /\ Shown("waiting") = {"queued"} /\ Shown("saved") = {"answered"}
          /\ Shown("awaited") = {"held"} /\ Shown("durations") = {"held", "answered"}
      BY DEF TimeNames, Shown
    <3>2. CASE name = "waiting"
      BY <1>3, <1>5, <1>6, <2>2, <2>5, <3>1, <3>2 DEF ReachedBy
    <3>3. CASE name = "saved"
      BY <1>3, <1>5, <1>6, <2>1, <2>2, <2>5, <2>9, <3>1, <3>3 DEF ReachedBy, RoomFigured
    <3>4. CASE name = "awaited"
      BY <1>3, <1>5, <1>6, <2>1, <2>2, <2>5, <2>9, <3>1, <3>4 DEF ReachedBy, RoomFigured
    <3>5. CASE name = "durations"
      BY <1>3, <1>5, <1>6, <2>1, <2>2, <2>5, <2>9, <3>1, <3>5 DEF ReachedBy, RoomFigured
    <3>6. QED
      BY <1>7, <2>9, <3>2, <3>3, <3>4, <3>5
  <2>10. QED
    BY <1>3, <2>3, <2>4, <2>5, <2>7, <2>8, <2>9 DEF RoomFigured
<1>9. answer'.told["awaited"] # {} => Following(name) \in {"durations", "told"}
  <2>1. "awaited" \in TimeNames
    BY DEF TimeNames
  <2>2. CASE name = "awaited"
    BY <1>6, <2>2
  <2>3. CASE name # "awaited"
    BY <1>3, <1>5, <1>6, <2>1, <2>3 DEF FiguresFit, QueryNext, TotalNames, TimeNames
  <2>4. QED
    BY <2>2, <2>3
<1>10. /\ answer.asks = "totals" => Following(name) \in TotalNames \cup {"told"}
       /\ answer.asks = "times" => Following(name) \in TimeNames \cup {"told"}
  BY <1>6, <1>7 DEF TotalNames, TimeNames
<1>11. QED
  BY <1>3, <1>4, <1>8, <1>9, <1>10 DEF FiguresFit

LEMMA FiguresStillFit ==
  DashTypeOK /\ RowsFit /\ FiguresFit /\ DashTypeOK' /\ [DashNext]_dashVars => FiguresFit'
<1> SUFFICES ASSUME DashTypeOK, RowsFit, FiguresFit, DashTypeOK', [DashNext]_dashVars
             PROVE  FiguresFit'
  OBVIOUS
<1>1. CASE TellFigures
  <2>1. answer' = NoAnswer /\ NoAnswer.asks = "nothing" /\ NoAnswer.told["awaited"] = {}
    BY <1>1 DEF TellFigures, NoAnswer, TimeNames
  <2>2. QED
    BY <2>1 DEF FiguresFit
<1>2. CASE UNCHANGED dashVars
  BY <1>2 DEF FiguresFit, RoomFigured, dashVars, InSector, LiveQueues
<1>3. ASSUME NEW asks \in {"totals", "times"}, NEW sector \in DashSectors \cup {NoOne},
             AskFigures(asks, sector)
      PROVE  FiguresFit'
  BY <1>3, AskingFits DEF SectorFilters
<1>4. QED
  BY <1>1, <1>2, <1>3, RowsKeepFigures, QueriesFit, DashSteps

LEMMA FiguresFollow == DashTypeOK /\ FiguresFit => FiguresTellOneStory
<1> SUFFICES ASSUME DashTypeOK, FiguresFit, answer.next = "told" PROVE FiguresTellOneStory
  BY DEF FiguresTellOneStory
<1>1. ASSUME NEW r \in DashRooms PROVE RoomFigured(r)
  BY DEF FiguresFit, NoAnswer, DashTypeOK
<1>2. QED
  BY <1>1 DEF FiguresTellOneStory, RoomFigured, ReachedBy

(***************************************************************************)
(* Whatever rooms, agents, tags, queues and sectors there are, and however *)
(* they change, the answers of the dashboards fit together, and figures    *)
(* asked one after the other tell one story of a room.                     *)
(***************************************************************************)
THEOREM DashboardsFit == DashSpec => []DashboardHolds
<1>1. DashInit => RowsFit /\ MembersServe /\ FiguresFit
  BY DEF DashInit, RowsFit, RowFits, NoRoomYet, MembersServe, FiguresFit, NoAnswer, TimeNames
<1>2. DashTypeOK /\ MembersServe /\ [DashNext]_dashVars => MembersServe'
  BY DashTypes, MembersStillServe
<1>3. DashTypeOK /\ RowsFit /\ MembersServe /\ FiguresFit => DashboardHolds
  BY DashTypes, TotalsFollow, DivisionsFollow, RemovedFollow, ScoresFollow, FiguresFollow
     DEF DashboardHolds
<1>4. QED
  BY <1>1, <1>2, <1>3, RowsStillFit, FiguresStillFit, DashTypeCorrect, PTL DEF DashSpec

-----------------------------------------------------------------------------
(* RoomReport: its definitions are about the rows of Dashboard, so what    *)
(* the dashboards need of a row is what the reports need.                  *)

LEMMA AskIs ==
  ASSUME NEW open, NEW closed, NEW days, NEW sectors, NEW tags
  PROVE  Ask(open, closed, days, sectors, tags)
           = [open |-> open, closed |-> closed, days |-> days, sectors |-> sectors,
              queues |-> {}, agents |-> {}, tags |-> tags, fields |-> TRUE, listsTags |-> FALSE]
  BY DEF Ask

\* A request that names a sector at most: the rooms of its dates in that sector.
LEMMA SectorPasses ==
  ASSUME NEW open, NEW closed, NEW days, NEW sector \in SectorFilters, NEW tags
  PROVE  OfEntities(Ask(open, closed, days, {sector}, tags)) = InSector(sector)
<1> DEFINE wish == Ask(open, closed, days, {sector}, tags)
<1>1. wish.sectors = {sector} /\ wish.queues = {} /\ wish.agents = {}
  BY AskIs
<1>2. \A x : Passes({}, x)
  BY DEF Passes, Named
<1>3. ASSUME NEW r \in DashRooms
      PROVE  Passes({sector}, SectorWith[QueueIn[r]]) <=> sector \in {NoOne, SectorWith[QueueIn[r]]}
  <2>1. CASE sector = NoOne
    BY <2>1 DEF Passes, Named
  <2>2. CASE sector # NoOne
    BY <2>2 DEF Passes, Named
  <2>3. QED
    BY <2>1, <2>2
<1> HIDE DEF wish
<1>4. OfEntities(wish) = InSector(sector)
  BY <1>1, <1>2, <1>3 DEF OfEntities, InSector
<1>5. QED
  BY <1>4 DEF wish

LEMMA SectorReportIs ==
  ASSUME NEW open \in BOOLEAN, NEW closed \in BOOLEAN, ~(open /\ closed), NEW days,
         NEW sector \in SectorFilters
  PROVE  LET wish == Ask(open, closed, days, {sector}, {})
         IN  RoomsIn(Reported(wish)) = Reportable \cap OfDates(wish) \cap InSector(sector)
<1> DEFINE wish == Ask(open, closed, days, {sector}, {})
           rooms == Reportable \cap OfDates(wish) \cap OfEntities(wish)
<1>1. /\ wish.open = open /\ wish.closed = closed /\ wish.tags = {}
      /\ wish.fields = TRUE /\ wish.listsTags = FALSE
  BY AskIs
<1>2. OfEntities(wish) = InSector(sector)
  BY SectorPasses
<1> HIDE DEF wish
<1>3. rooms \in SUBSET DashRooms
  BY DEF Reportable, LiveQueues
<1>4. Named(wish.tags) = {}
  BY <1>1 DEF Named
<1>5. Reported(wish) = Rows(rooms, {})
  BY <1>1, <1>4 DEF Reported, IsRefused, Selected, Joined
<1> HIDE DEF rooms
<1>6. RoomsIn(Reported(wish)) = rooms
  BY <1>3, <1>5, RowsAre
<1>7. QED
  BY <1>2, <1>6 DEF rooms, wish

LEMMA ReportsFollow == DashTypeOK /\ RowsFit => ReportsMatchDashboard
<1> SUFFICES ASSUME DashTypeOK, RowsFit, NEW sector \in SectorFilters,
                    NEW days \in {{"today"}, Period}
             PROVE  LET found(open, closed, of) ==
                            RoomsIn(Reported(Ask(open, closed, of, {sector}, {})))
                        openChats == found(TRUE, FALSE, days)
                        closedChats == RawClosed(sector, days)
                    IN  /\ found(FALSE, TRUE, days) = closedChats
                        /\ openChats = RoomsIn(ExportedRows(NoOne, sector, {}, days)) \cap LiveQueues
                        /\ GeneralRooms(sector, days) = openChats \cap HadAgent
                        /\ found(FALSE, FALSE, days) = openChats \cup closedChats
                        /\ found(FALSE, FALSE, {})
                             = RawActive(sector) \cup RawQueued(sector) \cup RawClosed(sector, Period)
  BY DEF ReportsMatchDashboard
<1> DEFINE found(open, closed, of) == RoomsIn(Reported(Ask(open, closed, of, {sector}, {})))
           here == Reportable \cap InSector(sector)
<1>1. days # {} /\ days \subseteq Period
  BY DEF Period
<1>2. ASSUME NEW r \in DashRooms
      PROVE  /\ dashRow[r].at \in {"unmade", "queued", "held", "closed"}
             /\ dashRow[r].at = "unmade" => dashRow[r].agent = NoOne
             /\ dashRow[r].at = "closed" <=> dashRow[r].ended # "no"
             /\ dashRow[r].at = "closed" <=> dashRow[r].ended \in Period
             /\ "no" \notin days
  BY <1>1, MembersAre DEF DashRowType, RowFits, NoRoomYet, Period
<1>3. /\ found(FALSE, TRUE, days) = here \cap EndedIn(days)
      /\ found(TRUE, FALSE, days) = here \cap MadeIn(days)
      /\ found(FALSE, FALSE, days)
            = here \cap (MadeIn(days) \cup {r \in DashRooms : dashRow[r].ended \in days})
      /\ found(FALSE, FALSE, {}) = here \cap DashRooms
  <2>1. ASSUME NEW open \in BOOLEAN, NEW closed \in BOOLEAN, ~(open /\ closed), NEW of
        PROVE  found(open, closed, of) = here \cap OfDates(Ask(open, closed, of, {sector}, {}))
    BY <2>1, SectorReportIs
  <2>2. /\ OfDates(Ask(FALSE, TRUE, days, {sector}, {})) = EndedIn(days)
        /\ OfDates(Ask(TRUE, FALSE, days, {sector}, {})) = MadeIn(days)
        /\ OfDates(Ask(FALSE, FALSE, days, {sector}, {}))
             = MadeIn(days) \cup {r \in DashRooms : dashRow[r].ended \in days}
        /\ OfDates(Ask(FALSE, FALSE, {}, {sector}, {})) = DashRooms
    BY <1>1, AskIs DEF OfDates
  <2> HIDE DEF found, here
  <2>3. QED
    BY <2>1, <2>2
<1> HIDE DEF found
<1>4. here \cap EndedIn(days) = RawClosed(sector, days)
  BY DEF RawClosed, EndedIn, Reportable, Is, LiveQueues
<1>5. RoomsIn(ExportedRows(NoOne, sector, {}, days)) \cap LiveQueues = here \cap MadeIn(days)
  <2> DEFINE all == {r \in DashRooms : ~Is(r, "unmade") /\ NoOne \in {NoOne, dashRow[r].agent}}
                        \cap InSector(sector) \cap MadeIn(days)
  <2>1. ExportedRows(NoOne, sector, {}, days) = Rows(all, {})
    BY DEF ExportedRows, TagsOf
  <2>2. all \in SUBSET DashRooms
    OBVIOUS
  <2>3. all \cap LiveQueues = here \cap MadeIn(days)
    BY DEF Reportable, LiveQueues
  <2> HIDE DEF all
  <2>4. RoomsIn(Rows(all, {})) = all
    BY <2>2, RowsAre
  <2>5. QED
    BY <2>1, <2>3, <2>4
<1>6. GeneralRooms(sector, days) = here \cap MadeIn(days) \cap HadAgent
  BY <1>2 DEF GeneralRooms, Transferred, Reportable, LiveQueues, MadeIn, HadAgent, Is
<1>7. here \cap (MadeIn(days) \cup {r \in DashRooms : dashRow[r].ended \in days})
        = (here \cap MadeIn(days)) \cup (here \cap EndedIn(days))
  BY <1>2 DEF EndedIn, Is, MadeIn
<1>8. here \cap DashRooms = RawActive(sector) \cup RawQueued(sector) \cup RawClosed(sector, Period)
  BY <1>2 DEF RawActive, RawQueued, RawClosed, Opened, EndedIn, Reportable, LiveQueues, Is
<1>9. QED
  BY <1>3, <1>4, <1>5, <1>6, <1>7, <1>8 DEF found

\* The time told is from one to ten minutes, whatever is counted.
LEMMA MinutesAreFew == ASSUME NEW count \in Nat PROVE MinutesTold(count) \in 1..10
<1>1. 30 + (45 * count) \div 1000 \in Nat /\ 30 + (45 * count) \div 1000 >= 30
  OBVIOUS
<1>2. Estimate(count) \in 30..600
  BY <1>1 DEF Estimate
<1>3. QED
  BY <1>2 DEF MinutesTold

\* A request on tags, listing them or not, and what it reports.
WishOnTags(wish, tags, lists) ==
    /\ wish.open = TRUE /\ wish.closed = FALSE /\ wish.days = Period /\ wish.sectors = {}
    /\ wish.queues = {} /\ wish.agents = {} /\ wish.tags = tags /\ wish.fields = TRUE
    /\ wish.listsTags = lists

LEMMA TagReportIs ==
  ASSUME NEW tags \in SUBSET DashTags, NEW lists \in BOOLEAN,
         NEW wish, WishOnTags(wish, tags, lists)
  PROVE  LET rooms == Reportable \cap MadeIn(Period)
             rows == Rows(rooms, tags)
         IN  /\ Selected(wish) = IF lists THEN RoomsIn(rows) \X {NoOne} ELSE rows
             /\ Reported(wish) = Selected(wish) /\ Counted(wish) = Cardinality(Selected(wish))
             /\ rooms \in SUBSET DashRooms
<1> DEFINE rooms == Reportable \cap MadeIn(Period)
<1>1. /\ wish.open = TRUE /\ wish.closed = FALSE /\ wish.days = Period /\ wish.sectors = {}
      /\ wish.queues = {} /\ wish.agents = {} /\ wish.tags = tags /\ wish.fields = TRUE
      /\ wish.listsTags = lists
  BY DEF WishOnTags
<1>2. OfDates(wish) = MadeIn(Period)
  BY <1>1 DEF OfDates, Period
<1>3. OfEntities(wish) = DashRooms
  BY <1>1 DEF OfEntities, Passes, Named
<1>4. Named(wish.tags) = tags
  BY <1>1, DashboardAssumption DEF Named, DashboardAssumption
<1>5. rooms \in SUBSET DashRooms /\ Reportable \cap OfDates(wish) \cap OfEntities(wish) = rooms
  BY <1>2, <1>3 DEF Reportable, LiveQueues
<1>6. Joined(wish) = Rows(rooms, tags)
  BY <1>4, <1>5 DEF Joined
<1> HIDE DEF rooms
<1>7. Selected(wish) = IF lists THEN RoomsIn(Rows(rooms, tags)) \X {NoOne} ELSE Rows(rooms, tags)
  BY <1>1, <1>6 DEF Selected
<1>8. Reported(wish) = Selected(wish) /\ Counted(wish) = Cardinality(Selected(wish))
  BY <1>1 DEF Reported, Counted, IsRefused
<1>9. QED
  BY <1>5, <1>7, <1>8 DEF rooms

LEMMA RowsFollowTags == RowsAreTheTags
<1> SUFFICES ASSUME NEW tags \in SUBSET DashTags
             PROVE  LET on(named) == Ask(TRUE, FALSE, Period, {}, named)
                        listing == [on(tags) EXCEPT !.listsTags = TRUE]
                        rows == Reported(on(tags))
                    IN  /\ Plain(Reported(listing)) /\ RoomsIn(Reported(listing)) = RoomsIn(rows)
                        /\ Cardinality(tags) <= 1 => Plain(rows)
                        /\ Counted(on(tags)) = Cardinality(rows)
                        /\ MinutesTold(Counted(on(tags))) \in 1..10
                        /\ tags # {} => rows = UNION {Reported(on({t})) : t \in tags}
  BY DEF RowsAreTheTags
<1> DEFINE on(named) == Ask(TRUE, FALSE, Period, {}, named)
           listing == [on(tags) EXCEPT !.listsTags = TRUE]
           rooms == Reportable \cap MadeIn(Period)
<1>1. ASSUME NEW named \in SUBSET DashTags
      PROVE  /\ Reported(on(named)) = Rows(rooms, named)
             /\ Counted(on(named)) = Cardinality(Rows(rooms, named))
             /\ rooms \in SUBSET DashRooms
  <2>1. WishOnTags(on(named), named, FALSE)
    BY AskIs DEF WishOnTags
  <2> HIDE DEF on
  <2>2. QED
    BY <2>1, TagReportIs
<1>2. Reported(listing) = RoomsIn(Rows(rooms, tags)) \X {NoOne}
  <2>1. WishOnTags(listing, tags, TRUE)
    BY AskIs DEF WishOnTags
  <2> HIDE DEF listing, on
  <2>2. QED
    BY <2>1, TagReportIs
<1>3. /\ Reported(on(tags)) = Rows(rooms, tags) /\ rooms \in SUBSET DashRooms
      /\ Counted(on(tags)) = Cardinality(Rows(rooms, tags))
  BY <1>1
<1>4. \A t \in tags : Reported(on({t})) = Rows(rooms, {t})
  BY <1>1
<1> HIDE DEF on, listing, rooms
<1>5. Plain(RoomsIn(Rows(rooms, tags)) \X {NoOne})
  BY DEF Plain
<1>6. Cardinality(tags) <= 1 => Plain(Rows(rooms, tags))
  BY <1>3, OneTagIsPlain DEF OneTag
<1>7. RoomsIn(RoomsIn(Rows(rooms, tags)) \X {NoOne}) = RoomsIn(Rows(rooms, tags))
  <2> DEFINE all == RoomsIn(Rows(rooms, tags))
  <2>1. all \in SUBSET DashRooms
    BY <1>3, RowsAre
  <2> HIDE DEF all
  <2>2. Rows(all, {}) = all \X {NoOne}
    BY DEF Rows
  <2>3. RoomsIn(Rows(all, {})) = all
    BY <2>1, RowsAre
  <2>4. QED
    BY <2>2, <2>3 DEF all
<1>8. MinutesTold(Cardinality(Rows(rooms, tags))) \in 1..10
  <2>1. Cardinality(Rows(rooms, tags)) \in Nat
    BY <1>3, RowsAre, FS_CardinalityType
  <2>2. QED
    BY <2>1, MinutesAreFew
<1>9. ASSUME tags # {} PROVE Rows(rooms, tags) = UNION {Rows(rooms, {t}) : t \in tags}
  <2>1. Rows(rooms, tags) = {p \in rooms \X tags : p[2] \in dashRow[p[1]].tags}
    BY <1>9 DEF Rows
  <2>2. \A t \in tags : Rows(rooms, {t}) = {p \in rooms \X {t} : p[2] \in dashRow[p[1]].tags}
    BY DEF Rows
  <2>3. ASSUME NEW p \in Rows(rooms, tags) PROVE \E t \in tags : p \in Rows(rooms, {t})
    <3>1. p \in rooms \X tags /\ p[2] \in dashRow[p[1]].tags
      BY <2>1
    <3>2. p[2] \in tags /\ p \in rooms \X {p[2]}
      BY <3>1
    <3>3. QED
      BY <2>2, <3>1, <3>2
  <2>4. ASSUME NEW t \in tags, NEW p \in Rows(rooms, {t}) PROVE p \in Rows(rooms, tags)
    <3>1. p \in rooms \X {t} /\ p[2] \in dashRow[p[1]].tags
      BY <2>2
    <3>2. p \in rooms \X tags
      BY <3>1
    <3>3. QED
      BY <2>1, <3>1, <3>2
  <2>5. QED
    BY <2>3, <2>4
<1>10. tags # {} => Rows(rooms, tags) = UNION {Reported(on({t})) : t \in tags}
  BY <1>4, <1>9
<1>11. QED
  BY <1>2, <1>3, <1>5, <1>6, <1>7, <1>8, <1>10 DEF on, listing

LEMMA RootsFollowTables == RootOrTable
<1> SUFFICES ASSUME NEW days \in {{}, {"today"}}, NEW sectors \in {{}, {NoOne}, DashSectors}
             PROVE  LET wish == Ask(FALSE, TRUE, days, sectors, DashTags)
                        choice == [Unasked EXCEPT !.closed = TRUE]
                    IN  TablesAsked(wish, TRUE, [Unasked EXCEPT !.fields = TRUE])
                          = TablesAsked(choice, TRUE, [wish EXCEPT !.closed = FALSE])
  BY DEF RootOrTable
<1> DEFINE wish == Ask(FALSE, TRUE, days, sectors, DashTags)
           whole == [open |-> FALSE, closed |-> TRUE, days |-> days, sectors |-> sectors,
                     queues |-> {}, agents |-> {}, tags |-> DashTags, fields |-> TRUE,
                     listsTags |-> FALSE]
           table == [Unasked EXCEPT !.fields = TRUE]
           choice == [Unasked EXCEPT !.closed = TRUE]
           section == [wish EXCEPT !.closed = FALSE]
<1>1. /\ wish.open = FALSE /\ wish.closed = TRUE /\ wish.days = days /\ wish.sectors = sectors
      /\ wish.queues = {} /\ wish.agents = {} /\ wish.tags = DashTags
  BY AskIs
<1>2. /\ table.open = FALSE /\ table.closed = FALSE /\ table.days = {} /\ table.sectors = {}
      /\ table.queues = {} /\ table.agents = {} /\ table.tags = {} /\ table.fields = TRUE
      /\ table.listsTags = FALSE
  BY DEF Unasked
<1>3. /\ choice.open = FALSE /\ choice.closed = TRUE /\ choice.days = {} /\ choice.sectors = {}
      /\ choice.queues = {} /\ choice.agents = {} /\ choice.tags = {}
  BY DEF Unasked
<1>4. /\ section.days = days /\ section.sectors = sectors /\ section.queues = {}
      /\ section.agents = {} /\ section.tags = DashTags /\ section.fields = TRUE
      /\ section.listsTags = FALSE
  BY AskIs
<1> HIDE DEF wish, table, choice, section
<1>5. Asked(wish, table) = whole
  BY <1>1, <1>2 DEF Asked
<1>6. Asked(choice, section) = whole
  BY <1>3, <1>4 DEF Asked
<1>7. TablesAsked(wish, TRUE, table) = TablesAsked(choice, TRUE, section)
  BY <1>5, <1>6 DEF TablesAsked
<1>8. QED
  BY <1>7 DEF wish, table, choice, section

LEMMA TablesFollow == DashTypeOK /\ RowsFit => TablesAreOfSameRooms
<1> SUFFICES ASSUME DashTypeOK, RowsFit, NEW sector \in SectorFilters
             PROVE  LET live == DashboardFile(sector, FALSE, {"today"})
                        dated == DashboardFile(sector, TRUE, Period)
                        opened(of) == LiveQueues \cap UNION {of.agents[a].opened : a \in DashAgents}
                        closed(of) == LiveQueues \cap UNION {of.agents[a].closed : a \in DashAgents}
                        divided(of) == UNION {of.divisions[d] : d \in DOMAIN of.divisions}
                    IN  /\ opened(live) = live.totals.active
                        /\ opened(dated) = dated.totals.active
                        /\ closed(live) = live.totals.closed \cap HadAgent
                        /\ closed(dated) = dated.totals.closed \cap HadAgent
                        /\ live.averages \subseteq divided(live)
                        /\ dated.averages = divided(dated)
  BY DEF TablesAreOfSameRooms
<1> DEFINE live == DashboardFile(sector, FALSE, {"today"})
           dated == DashboardFile(sector, TRUE, Period)
           opened(of) == LiveQueues \cap UNION {of.agents[a].opened : a \in DashAgents}
           closed(of) == LiveQueues \cap UNION {of.agents[a].closed : a \in DashAgents}
           divided(of) == UNION {of.divisions[d] : d \in DOMAIN of.divisions}
<1>1. ASSUME NEW r \in DashRooms
      PROVE  /\ QueueIn[r] \in DashQueues /\ SectorWith[QueueIn[r]] \in DashSectors
             /\ dashRow[r].made \in Period /\ dashRow[r].agent \in DashAgents \cup {NoOne}
             /\ dashRow[r].at = "held" => dashRow[r].agent # NoOne
             /\ dashRow[r].at = "queued" => dashRow[r].agent = NoOne
             /\ dashRow[r].agent # NoOne => dashRow[r].measured \in Period
             /\ dashRow[r].agent # NoOne /\ dashRow[r].made = "today"
                    => dashRow[r].measured = "today"
             /\ dashRow[r].at = "closed" => dashRow[r].ended \in Period
  BY MembersAre DEF DashRowType, RowFits, Period
<1>2. NoOne \notin DashSectors /\ NoOne \notin DashAgents
  BY DashboardAssumption DEF DashboardAssumption
<1>3. /\ live.agents = [a \in DashAgents |-> [opened |-> LiveOpened(a, sector),
                                              closed |-> LiveClosed(a, sector)]]
      /\ dated.agents = [a \in DashAgents |-> [opened |-> DatedOpened(a, sector, Period),
                                               closed |-> DatedClosed(a, sector, Period)]]
      /\ live.totals.active = RawActive(sector)
      /\ dated.totals.active = {r \in Transferred(sector, Period) \cap HadAgent : Is(r, "closed")}
      /\ live.totals.closed = RawClosed(sector, {"today"})
      /\ dated.totals.closed = RawClosed(sector, Period)
      /\ live.averages = GeneralRooms(sector, {"today"})
      /\ dated.averages = GeneralRooms(sector, Period)
      /\ live.divisions = Divisions(sector, {"today"})
      /\ dated.divisions = Divisions(sector, Period)
  BY DEF DashboardFile, AgentLines, Totals
<1> HIDE DEF live, dated
<1>4. ASSUME NEW a \in DashAgents
      PROVE  /\ live.agents[a].opened = LiveOpened(a, sector)
             /\ live.agents[a].closed = LiveClosed(a, sector)
             /\ dated.agents[a].opened = DatedOpened(a, sector, Period)
             /\ dated.agents[a].closed = DatedClosed(a, sector, Period)
  BY <1>3
<1>5. opened(live) = RawActive(sector)
  <2>1. ASSUME NEW r \in RawActive(sector)
        PROVE  \E a \in DashAgents : r \in LiveOpened(a, sector) /\ r \in LiveQueues
    BY <1>1, <1>2 DEF LiveOpened, RawActive, Of, Opened, LiveQueues, Is
  <2>2. ASSUME NEW a \in DashAgents, NEW r \in LiveOpened(a, sector), r \in LiveQueues
        PROVE  r \in RawActive(sector)
    BY <1>1, <1>2, <2>2 DEF LiveOpened, RawActive, Of, Opened, Is
  <2>3. \A r : r \in opened(live) <=> \E a \in DashAgents : r \in LiveOpened(a, sector) /\ r \in LiveQueues
    BY <1>4
  <2> HIDE DEF opened
  <2>4. QED
    BY <2>1, <2>2, <2>3
<1>6. closed(live) = RawClosed(sector, {"today"}) \cap HadAgent
  <2>1. ASSUME NEW r \in RawClosed(sector, {"today"}) \cap HadAgent
        PROVE  \E a \in DashAgents : r \in LiveClosed(a, sector) /\ r \in LiveQueues
    BY <1>1, <1>2 DEF LiveClosed, RawClosed, Of, HadAgent, LiveQueues
  <2>2. ASSUME NEW a \in DashAgents, NEW r \in LiveClosed(a, sector), r \in LiveQueues
        PROVE  r \in RawClosed(sector, {"today"}) \cap HadAgent
    BY <1>2, <2>2 DEF LiveClosed, RawClosed, Of, HadAgent
  <2>3. \A r : r \in closed(live) <=> \E a \in DashAgents : r \in LiveClosed(a, sector) /\ r \in LiveQueues
    BY <1>4
  <2> HIDE DEF closed
  <2>4. QED
    BY <2>1, <2>2, <2>3
<1>7. closed(dated) = RawClosed(sector, Period) \cap HadAgent
  <2>1. ASSUME NEW r \in RawClosed(sector, Period) \cap HadAgent
        PROVE  \E a \in DashAgents : r \in DatedClosed(a, sector, Period) /\ r \in LiveQueues
    BY <1>1, <1>2 DEF DatedClosed, DatedOpened, RawClosed, Of, HadAgent, LiveQueues, EndedIn,
                      MadeIn
  <2>2. ASSUME NEW a \in DashAgents, NEW r \in DatedClosed(a, sector, Period), r \in LiveQueues
        PROVE  r \in RawClosed(sector, Period) \cap HadAgent
    BY <1>2, <2>2 DEF DatedClosed, DatedOpened, RawClosed, Of, HadAgent
  <2>3. \A r : r \in closed(dated) <=> \E a \in DashAgents : r \in DatedClosed(a, sector, Period) /\ r \in LiveQueues
    BY <1>4
  <2> HIDE DEF closed
  <2>4. QED
    BY <2>1, <2>2, <2>3
<1>8. ASSUME NEW days
      PROVE  UNION {Divisions(sector, days)[d] : d \in DOMAIN Divisions(sector, days)}
               = {r \in LiveQueues \cap HadAgent : /\ r \in InSector(sector)
                                                   /\ dashRow[r].measured \in days}
  <2>1. CASE sector = NoOne
    <3>1. /\ DOMAIN Divisions(sector, days) = DashSectors
          /\ \A s \in DashSectors :
                Divisions(sector, days)[s]
                  = UNION {Division(q, days) : q \in {x \in DashQueues : SectorWith[x] = s}}
      BY <2>1 DEF Divisions
    <3>2. ASSUME NEW s \in DashSectors
          PROVE  Divisions(sector, days)[s]
                   = {r \in LiveQueues \cap HadAgent : /\ SectorWith[QueueIn[r]] = s
                                                       /\ dashRow[r].measured \in days}
      BY <1>1, <3>1 DEF Division, LiveQueues
    <3>3. QED
      BY <1>1, <2>1, <3>1, <3>2 DEF InSector, LiveQueues
  <2>2. CASE sector # NoOne
    <3>1. /\ DOMAIN Divisions(sector, days) = {x \in DashQueues : SectorWith[x] = sector}
          /\ \A q \in {x \in DashQueues : SectorWith[x] = sector} :
                Divisions(sector, days)[q] = Division(q, days)
      BY <2>2 DEF Divisions
    <3>2. QED
      BY <1>1, <2>2, <3>1 DEF InSector, LiveQueues, Division
  <2>3. QED
    BY <2>1, <2>2
<1>9. live.averages \subseteq divided(live)
  <2>1. GeneralRooms(sector, {"today"})
          \subseteq UNION {Divisions(sector, {"today"})[d] : d \in DOMAIN Divisions(sector, {"today"})}
    BY <1>1, <1>8 DEF GeneralRooms, Transferred, MadeIn, HadAgent, LiveQueues
  <2>2. QED
    BY <1>3, <2>1
<1>10. dated.averages = divided(dated)
  <2>1. divided(dated) = {r \in LiveQueues \cap HadAgent : /\ r \in InSector(sector)
                                                         /\ dashRow[r].measured \in Period}
    BY <1>3, <1>8
  <2>2. GeneralRooms(sector, Period)
          = {r \in LiveQueues \cap HadAgent : /\ r \in InSector(sector)
                                              /\ dashRow[r].measured \in Period}
    BY <1>1 DEF GeneralRooms, Transferred, MadeIn, HadAgent, LiveQueues
  <2>3. QED
    BY <1>3, <2>1, <2>2
<1>11. opened(dated) = {r \in Transferred(sector, Period) \cap HadAgent : Is(r, "closed")}
  <2>1. \A r : r \in opened(dated)
              <=> \E a \in DashAgents : r \in DatedOpened(a, sector, Period) /\ r \in LiveQueues
    BY <1>4
  <2>2. ASSUME NEW a \in DashAgents, NEW r \in DatedOpened(a, sector, Period), r \in LiveQueues
        PROVE  r \in {s \in Transferred(sector, Period) \cap HadAgent : Is(s, "closed")}
    BY <1>2, <2>2 DEF DatedOpened, Transferred, Of, HadAgent
  <2>3. ASSUME NEW r \in {s \in Transferred(sector, Period) \cap HadAgent : Is(s, "closed")}
        PROVE  \E a \in DashAgents : r \in DatedOpened(a, sector, Period) /\ r \in LiveQueues
    BY <1>1, <1>2 DEF DatedOpened, Transferred, Of, HadAgent, LiveQueues
  <2> HIDE DEF opened
  <2>4. QED
    BY <2>1, <2>2, <2>3
<1> HIDE DEF opened, closed, divided
<1>12. QED
  BY <1>3, <1>5, <1>6, <1>7, <1>9, <1>10, <1>11 DEF live, dated, opened, closed, divided

(***************************************************************************)
(* Whatever rows there are and however they change, a report has the rooms *)
(* the dashboard counts, a row for each of the tags asked for or one room  *)
(* once, the same whether asked at the root or in the table, and the       *)
(* tables of one file are of the same rooms.                               *)
(***************************************************************************)
THEOREM ReportsKept == DashSpec => []ReportsFit
<1>1. DashInit => RowsFit
  BY DEF DashInit, RowsFit, RowFits, NoRoomYet
<1>2. DashTypeOK /\ RowsFit => ReportsFit
  BY ReportsFollow, RowsFollowTags, RootsFollowTables, TablesFollow DEF ReportsFit
<1>3. QED
  BY <1>1, <1>2, RowsStillFit, DashTypeCorrect, PTL DEF DashSpec

-----------------------------------------------------------------------------
(* ReportPages, for any rows, size of a page and bounds. *)

LEMMA PageTypesBegin == ReportPagesInit => ReportPagesTypeOK
  BY ReportPagesAssumption DEF ReportPagesInit, ReportPagesTypeOK, ReportPagesAssumption

LEMMA RowsAreFinite ==
  ASSUME NEW rows \in SUBSET PageRows
  PROVE  IsFiniteSet(rows) /\ Cardinality(rows) \in Nat
  BY ReportPagesAssumption, FS_Subset, FS_CardinalityType DEF ReportPagesAssumption

LEMMA PageTypesStay == ReportPagesTypeOK /\ [ReportPagesNext]_pageVars => ReportPagesTypeOK'
<1> SUFFICES ASSUME ReportPagesTypeOK, [ReportPagesNext]_pageVars PROVE ReportPagesTypeOK'
  OBVIOUS
<1> USE DEF ReportPagesTypeOK
<1>1. PageSize \in Nat /\ MaxResumes \in Nat
  BY ReportPagesAssumption DEF ReportPagesAssumption
<1>2. Cardinality(matching) \in Nat
  BY RowsAreFinite
<1>3. CASE BeginPages
  BY <1>2, <1>3 DEF BeginPages
<1>4. CASE WritePage
  <2>1. copies' \in [PageRows -> Nat]
    BY <1>4 DEF WritePage
  <2>2. written' \in Nat /\ offset' \in Nat
    BY <1>1, <1>4 DEF WritePage
  <2>3. QED
    BY <1>4, <2>1, <2>2 DEF WritePage
<1>5. CASE EndPages
  BY <1>5 DEF EndPages
<1>6. CASE ResumePages
  BY <1>1, <1>2, <1>6 DEF ResumePages
<1>7. CASE NextReport
  BY <1>1, <1>7 DEF NextReport
<1>8. ASSUME NEW x \in PageRows, RowComes(x) \/ RowGoes(x) PROVE ReportPagesTypeOK'
  BY <1>8 DEF RowComes, RowGoes, Moves
<1>9. CASE UNCHANGED pageVars
  BY <1>9 DEF pageVars
<1>10. QED
  BY <1>3, <1>4, <1>5, <1>6, <1>7, <1>8, <1>9 DEF ReportPagesNext

(***************************************************************************)
(* Type correctness of the pages: the rows are keys, the worker idle,      *)
(* writing or done, what it counts natural.                                *)
(***************************************************************************)
THEOREM ReportPagesTypeCorrect == ReportPagesSpec => []ReportPagesTypeOK
  BY PageTypesBegin, PageTypesStay, PTL DEF ReportPagesSpec

-----------------------------------------------------------------------------
(* Places of rows in the order of their keys. *)

LEMMA LeastRow ==
  ASSUME NEW T \in SUBSET Nat, T # {}
  PROVE  \E m \in T : \A n \in T : m <= n
<1>1. PICK m \in T : \A n \in T : ~(<<n, m>> \in OpToRel(<, Nat))
  BY NatLessThanWellFounded, WFMin, Zenon
<1>2. ASSUME NEW n \in T PROVE m <= n
  <2>1. <<n, m>> \in {ss \in Nat \X Nat : ss[1] < ss[2]} <=> n < m
    OBVIOUS
  <2>2. ~(n < m)
    BY <1>1, <1>2, <2>1, Zenon DEF OpToRel
  <2>3. QED
    BY <2>2
<1>3. QED
  BY <1>2

\* The greatest is what a bound is least above.
LEMMA GreatestRow ==
  ASSUME NEW T \in SUBSET Nat, T # {}, NEW bound \in Nat, \A n \in T : n < bound
  PROVE  \E m \in T : \A n \in T : n <= m
<1> DEFINE gaps == {bound - n : n \in T}
<1>1. gaps \in SUBSET Nat /\ gaps # {}
  <2>1. \A n \in T : bound - n \in Nat
    OBVIOUS
  <2>2. PICK n \in T : TRUE
    OBVIOUS
  <2>3. bound - n \in gaps
    OBVIOUS
  <2>4. QED
    BY <2>1, <2>3
<1> HIDE DEF gaps
<1>2. PICK gap \in gaps : \A other \in gaps : gap <= other
  BY <1>1, LeastRow
<1>3. PICK m \in T : gap = bound - m
  BY DEF gaps
<1>4. ASSUME NEW n \in T PROVE n <= m
  <2>1. bound - n \in gaps
    BY DEF gaps
  <2>2. bound - m <= bound - n
    BY <1>2, <1>3, <2>1
  <2>3. QED
    BY <2>2
<1>5. QED
  BY <1>4

LEMMA PlacesAre ==
  ASSUME NEW rows \in SUBSET PageRows, NEW x \in Nat
  PROVE  /\ Before(rows, x) \in Nat /\ Before(rows, x) <= Cardinality(rows)
         /\ x \in rows => Before(rows, x) < Cardinality(rows)
         /\ IsFiniteSet({y \in rows : y < x})
<1> DEFINE smaller == {y \in rows : y < x}
<1>1. IsFiniteSet(rows) /\ Cardinality(rows) \in Nat
  BY RowsAreFinite
<1>2. smaller \in SUBSET rows
  OBVIOUS
<1>3. x \in rows => smaller # rows
  BY ReportPagesAssumption DEF ReportPagesAssumption
<1> HIDE DEF smaller
<1>4. IsFiniteSet(smaller) /\ Cardinality(smaller) \in Nat /\ Cardinality(smaller) <= Cardinality(rows)
  BY <1>1, <1>2, FS_Subset, FS_CardinalityType
<1>5. smaller # rows => Cardinality(smaller) # Cardinality(rows)
  BY <1>1, <1>2, FS_Subset
<1>6. QED
  BY <1>1, <1>3, <1>4, <1>5 DEF Before, smaller

\* A greater key has at least as many before it, and one more than any of them.
LEMMA PlacesGrow ==
  ASSUME NEW rows \in SUBSET PageRows, NEW x \in Nat, NEW y \in Nat, x <= y
  PROVE  Before(rows, x) <= Before(rows, y)
<1> DEFINE smaller == {z \in rows : z < x}
           more == {z \in rows : z < y}
<1>1. smaller \in SUBSET more
  <2>1. ASSUME NEW z \in rows, z < x PROVE z < y
    <3>1. z \in Nat
      BY ReportPagesAssumption DEF ReportPagesAssumption
    <3>2. QED
      BY <2>1, <3>1
  <2>2. QED
    BY <2>1
<1>2. IsFiniteSet(more)
  BY PlacesAre
<1> HIDE DEF smaller, more
<1>3. Cardinality(smaller) <= Cardinality(more)
  BY <1>1, <1>2, FS_Subset
<1>4. QED
  BY <1>3 DEF Before, smaller, more

(***************************************************************************)
(* No page is empty while there is a row at or after it: of the rows from  *)
(* its start on the first is within it, or one before it is too.           *)
(***************************************************************************)
LEMMA PagesAreFull ==
  ASSUME NEW rows \in SUBSET PageRows, NEW x \in rows, NEW start \in Nat,
         start <= Before(rows, x), NEW end \in Nat, start < end
  PROVE  Page(rows, start, end) # {}
<1> SUFFICES ASSUME Page(rows, start, end) = {} PROVE FALSE
  OBVIOUS
<1> DEFINE first == {y \in rows : Before(rows, y) < start}
           rest == {y \in rows : start <= Before(rows, y)}
<1>0. /\ rows \in SUBSET Nat /\ x \in Nat
      /\ \A y \in rows : Before(rows, y) \in Nat
  <2>1. rows \in SUBSET Nat
    BY ReportPagesAssumption DEF ReportPagesAssumption
  <2>2. QED
    BY <2>1, PlacesAre
<1>1. rest \in SUBSET Nat /\ rest # {}
  BY <1>0
<1>2. PICK least \in rest : \A y \in rest : least <= y
  BY <1>1, LeastRow
<1>3. least \in rows /\ least \in Nat /\ end <= Before(rows, least)
  BY <1>0, <1>2 DEF Page
<1>4. \A y \in first : y < least
  <2>1. ASSUME NEW y \in first, least <= y PROVE FALSE
    <3>1. y \in Nat /\ Before(rows, y) < start /\ Before(rows, y) \in Nat
      BY <1>0
    <3>2. Before(rows, least) <= Before(rows, y)
      BY <1>3, <2>1, <3>1, PlacesGrow
    <3>3. Before(rows, least) \in Nat
      BY <1>0, <1>3
    <3>4. QED
      BY <1>0, <1>3, <3>1, <3>2, <3>3
  <2>2. QED
    BY <1>0, <1>3, <2>1
<1>5. {y \in rows : y < least} = first
  <2>1. ASSUME NEW y \in rows, y < least PROVE y \in first
    BY <1>0, <1>2, <1>3, <2>1
  <2>2. QED
    BY <1>4, <2>1
<1> HIDE DEF rest
<1>6. CASE first = {}
  <2>1. Before(rows, least) = 0
    BY <1>5, <1>6, FS_EmptySet DEF Before
  <2>2. QED
    BY <1>0, <1>3, <2>1
<1>7. CASE first # {}
  <2>1. PICK last \in first : \A y \in first : y <= last
    BY <1>0, <1>3, <1>4, <1>7, GreatestRow
  <2>2. last \in rows /\ last \in Nat /\ Before(rows, last) < start /\ Before(rows, last) \in Nat
    BY <1>0
  <2>3. {y \in rows : y < last} = first \ {last}
    <3>1. ASSUME NEW y \in rows, y < last PROVE y \in first \ {last}
      <4>1. y \in Nat /\ least \in Nat /\ last < least
        BY <1>0, <1>3, <1>4
      <4>2. y < least /\ y # last
        BY <2>2, <3>1, <4>1
      <4>3. QED
        BY <1>5, <4>2
    <3>2. ASSUME NEW y \in first \ {last} PROVE y \in rows /\ y < last
      <4>1. y \in rows /\ y \in Nat /\ y <= last /\ y # last
        BY <1>0, <2>1
      <4>2. QED
        BY <2>2, <4>1
    <3>3. QED
      BY <3>1, <3>2
  <2>4. IsFiniteSet(first)
    BY <1>3, <1>5, PlacesAre
  <2> HIDE DEF first
  <2>5. Cardinality(first \ {last}) = Cardinality(first) - 1
    BY <2>4, FS_RemoveElement
  <2>6. Before(rows, last) = Before(rows, least) - 1
    BY <1>5, <2>3, <2>5 DEF Before
  <2>7. Before(rows, least) \in Nat
    BY <1>0, <1>3
  <2>8. QED
    BY <1>0, <1>3, <2>2, <2>6, <2>7
<1>8. QED
  BY <1>6, <1>7

-----------------------------------------------------------------------------
(* The inductive invariant: what was found and what is found now differ by *)
(* the rows that moved, so a settled row keeps its place; it is written as *)
(* soon as the offset is past its place, and until then every page had a   *)
(* row, so the parts tell an attempt that resumes where to go on.          *)

UntouchedPages ==
    /\ total = 0 /\ offset = 0 /\ written = 0 /\ copies = [x \in PageRows |-> 0]
    /\ atStart = {} /\ moved = {}

PlaceIsKept(x) ==
    /\ copies[x] = (IF Before(atStart, x) < offset THEN 1 ELSE 0)
    /\ Before(atStart, x) < offset => Before(atStart, x) < written
    /\ Before(atStart, x) >= offset => written = offset
    /\ writer = "writing" => Before(atStart, x) < total
    /\ writer = "done" => Before(atStart, x) < offset

OnlyMovedDiffer == matching \subseteq atStart \cup moved /\ atStart \subseteq matching \cup moved

PagesInv ==
    /\ ReportPagesTypeOK /\ OnlyWhatWasFound
    /\ writer = "idle" => UntouchedPages
    /\ writer # "idle" =>
          OnlyMovedDiffer /\ written <= offset /\ \A x \in Settled : PlaceIsKept(x)

\* A settled row is found, at the place it had.
LEMMA SettledStay ==
  ASSUME ReportPagesTypeOK, OnlyMovedDiffer, NEW x \in Settled
  PROVE  /\ x \in PageRows /\ x \in Nat /\ x \in matching /\ x \in atStart
         /\ Before(matching, x) = Before(atStart, x)
         /\ Before(matching, x) \in Nat /\ Before(matching, x) < Cardinality(matching)
<1>1. x \in PageRows /\ x \in Nat /\ x \in atStart /\ \A y \in moved : x < y
  BY ReportPagesAssumption DEF ReportPagesAssumption, Settled, ReportPagesTypeOK
<1>2. x \in matching
  BY <1>1 DEF OnlyMovedDiffer
<1>3. \A y \in PageRows : y < x => (y \in matching <=> y \in atStart)
  <2>1. ASSUME NEW y \in PageRows, y < x, y \in moved PROVE FALSE
    <3>1. y \in Nat /\ x < y
      BY <1>1, <2>1, ReportPagesAssumption DEF ReportPagesAssumption
    <3>2. QED
      BY <1>1, <2>1, <3>1
  <2>2. QED
    BY <2>1 DEF OnlyMovedDiffer
<1>4. {y \in matching : y < x} = {y \in atStart : y < x}
  BY <1>3 DEF ReportPagesTypeOK
<1>5. Before(matching, x) \in Nat /\ Before(matching, x) < Cardinality(matching)
  BY <1>1, <1>2, PlacesAre DEF ReportPagesTypeOK
<1>6. QED
  BY <1>1, <1>2, <1>4, <1>5 DEF Before

LEMMA PagesInvBegins == ReportPagesInit => PagesInv
  BY PageTypesBegin DEF ReportPagesInit, PagesInv, UntouchedPages, OnlyWhatWasFound

LEMMA BeginKeepsPages == PagesInv /\ BeginPages => PagesInv'
<1> SUFFICES ASSUME PagesInv, BeginPages PROVE PagesInv'
  OBVIOUS
<1>1. ReportPagesTypeOK /\ UntouchedPages
  BY DEF PagesInv, BeginPages
<1>2. ReportPagesTypeOK'
  BY <1>1, PageTypesStay DEF ReportPagesNext
<1>3. /\ offset' = 0 /\ written' = 0 /\ moved' = {} /\ atStart' = matching /\ matching' = matching
      /\ copies' = [x \in PageRows |-> 0] /\ total' = Cardinality(matching)
      /\ writer' = IF matching = {} THEN "done" ELSE "writing"
  BY <1>1 DEF BeginPages, UntouchedPages
<1>4. OnlyMovedDiffer' /\ OnlyWhatWasFound'
  BY <1>3 DEF OnlyMovedDiffer, OnlyWhatWasFound
<1>5. ASSUME NEW x \in Settled' PROVE PlaceIsKept(x)'
  <2>1. /\ x \in PageRows /\ x \in matching /\ Before(matching, x) \in Nat
        /\ Before(matching, x) < Cardinality(matching)
    <3>1. x \in matching /\ x \in PageRows /\ x \in Nat /\ matching \in SUBSET PageRows
      BY <1>1, <1>3, <1>5, ReportPagesAssumption
      DEF Settled, ReportPagesTypeOK, ReportPagesAssumption
    <3>2. QED
      BY <3>1, PlacesAre
  <2>2. QED
    BY <1>3, <2>1 DEF PlaceIsKept
<1>6. QED
  BY <1>2, <1>3, <1>4, <1>5 DEF PagesInv

LEMMA WriteKeepsPages == PagesInv /\ WritePage => PagesInv'
<1> SUFFICES ASSUME PagesInv, WritePage PROVE PagesInv'
  OBVIOUS
<1> DEFINE page == Page(matching, offset, PageEnd)
<1>1. /\ ReportPagesTypeOK /\ OnlyMovedDiffer /\ written <= offset
      /\ \A x \in Settled : PlaceIsKept(x)
      /\ OnlyWhatWasFound
  BY DEF PagesInv, WritePage
<1>2. ReportPagesTypeOK'
  BY <1>1, PageTypesStay DEF ReportPagesNext
<1>3. /\ writer = "writing" /\ offset < total
      /\ copies' = [x \in PageRows |-> copies[x] + (IF x \in page THEN 1 ELSE 0)]
      /\ written' = IF page = {} THEN written ELSE written + PageSize
      /\ offset' = offset + PageSize
      /\ matching' = matching /\ writer' = writer /\ total' = total
      /\ atStart' = atStart /\ moved' = moved
  BY DEF WritePage
<1>4. /\ offset \in Nat /\ written \in Nat /\ PageSize \in Nat /\ PageSize >= 1
      /\ copies \in [PageRows -> Nat] /\ matching \in SUBSET PageRows
  BY <1>1, ReportPagesAssumption DEF ReportPagesTypeOK, ReportPagesAssumption
<1>5. page \subseteq matching
  BY DEF Page
<1>6. OnlyMovedDiffer' /\ written' <= offset' /\ Settled' = Settled
  BY <1>1, <1>3, <1>4 DEF OnlyMovedDiffer, Settled
<1>7. OnlyWhatWasFound'
  <2>1. ASSUME NEW x \in PageRows, copies'[x] > 0 PROVE x \in atStart \cup moved
    <3>1. copies[x] > 0 \/ x \in page
      BY <1>3, <1>4, <2>1
    <3>2. QED
      BY <1>1, <1>5, <3>1 DEF OnlyWhatWasFound, OnlyMovedDiffer
  <2>2. QED
    BY <1>3, <2>1 DEF OnlyWhatWasFound
<1>8. ASSUME NEW x \in Settled PROVE PlaceIsKept(x)'
  <2>1. /\ x \in PageRows /\ x \in matching /\ Before(matching, x) = Before(atStart, x)
        /\ Before(atStart, x) \in Nat
    BY <1>1, SettledStay
  <2> DEFINE place == Before(atStart, x)
  <2>2. PlaceIsKept(x)
    BY <1>1
  <2>3. /\ PageEnd \in Nat /\ PageEnd > offset /\ PageEnd <= offset + PageSize
        /\ place < total /\ (place < offset + PageSize => place < PageEnd)
        /\ x \in page <=> offset <= place /\ place < PageEnd
    <3>1. total \in Nat /\ place < total
      BY <1>1, <1>3, <2>2 DEF ReportPagesTypeOK, PlaceIsKept
    <3>2. x \in page <=> offset <= place /\ place < PageEnd
      BY <2>1 DEF Page
    <3>3. QED
      BY <1>3, <1>4, <2>1, <3>1, <3>2 DEF PageEnd
  <2>4. place >= offset => page # {}
    BY <1>4, <2>1, <2>3, PagesAreFull
  <2>5. copies'[x] = copies[x] + (IF x \in page THEN 1 ELSE 0)
    BY <1>3, <2>1
  <2>6. Before(atStart, x)' = place
    BY <1>3
  <2> HIDE DEF page
  <2>7. CASE place < offset
    <3>1. copies[x] = 1 /\ place < written /\ x \notin page /\ place < offset + PageSize
      BY <1>4, <2>1, <2>2, <2>3, <2>7 DEF PlaceIsKept
    <3>2. written' >= written
      BY <1>3, <1>4
    <3>3. place < written' /\ copies'[x] = 1
      BY <1>3, <1>4, <2>1, <2>5, <3>1, <3>2
    <3>4. QED
      BY <1>3, <1>4, <2>1, <2>2, <2>6, <3>1, <3>3 DEF PlaceIsKept
  <2>8. CASE place >= offset
    <3>1. copies[x] = 0 /\ written = offset /\ page # {}
      BY <1>4, <2>1, <2>2, <2>4, <2>8 DEF PlaceIsKept
    <3>2. written' = offset'
      BY <1>3, <3>1
    <3>3. copies'[x] = IF place < offset' THEN 1 ELSE 0
      BY <1>3, <1>4, <2>1, <2>3, <2>5, <2>8, <3>1
    <3>4. QED
      BY <1>3, <1>4, <2>1, <2>2, <2>6, <3>2, <3>3 DEF PlaceIsKept
  <2>9. QED
    BY <1>4, <2>1, <2>7, <2>8
<1>9. QED
  BY <1>2, <1>3, <1>6, <1>7, <1>8 DEF PagesInv

LEMMA EndKeepsPages == PagesInv /\ EndPages => PagesInv'
<1> SUFFICES ASSUME PagesInv, EndPages PROVE PagesInv'
  OBVIOUS
<1>1. /\ ReportPagesTypeOK /\ OnlyMovedDiffer /\ written <= offset
      /\ \A x \in Settled : PlaceIsKept(x)
      /\ OnlyWhatWasFound
  BY DEF PagesInv, EndPages
<1>2. ReportPagesTypeOK'
  BY <1>1, PageTypesStay DEF ReportPagesNext
<1>3. /\ writer = "writing" /\ offset >= total /\ writer' = "done"
      /\ matching' = matching /\ total' = total /\ offset' = offset /\ written' = written
      /\ copies' = copies /\ atStart' = atStart /\ moved' = moved
  BY DEF EndPages
<1>4. /\ OnlyMovedDiffer' /\ written' <= offset' /\ Settled' = Settled /\ OnlyWhatWasFound'
  BY <1>1, <1>3 DEF OnlyMovedDiffer, Settled, OnlyWhatWasFound
<1>5. ASSUME NEW x \in Settled PROVE PlaceIsKept(x)'
  <2>1. Before(atStart, x) \in Nat /\ offset \in Nat /\ total \in Nat
    BY <1>1, SettledStay DEF ReportPagesTypeOK
  <2>2. PlaceIsKept(x) /\ Before(atStart, x)' = Before(atStart, x)
    BY <1>1, <1>3
  <2>3. QED
    BY <1>3, <2>1, <2>2 DEF PlaceIsKept
<1>6. QED
  BY <1>2, <1>3, <1>4, <1>5 DEF PagesInv

LEMMA ResumeKeepsPages == PagesInv /\ ResumePages => PagesInv'
<1> SUFFICES ASSUME PagesInv, ResumePages PROVE PagesInv'
  OBVIOUS
<1>1. /\ ReportPagesTypeOK /\ OnlyMovedDiffer /\ written <= offset
      /\ \A x \in Settled : PlaceIsKept(x)
      /\ OnlyWhatWasFound
  BY DEF PagesInv, ResumePages
<1>2. ReportPagesTypeOK'
  BY <1>1, PageTypesStay DEF ReportPagesNext
<1>3. /\ offset' = written /\ total' = Cardinality(matching)
      /\ writer' = IF matching = {} THEN "done" ELSE "writing"
      /\ matching' = matching /\ written' = written
      /\ copies' = copies /\ atStart' = atStart /\ moved' = moved
  BY DEF ResumePages
<1>4. /\ OnlyMovedDiffer' /\ written' <= offset' /\ Settled' = Settled /\ OnlyWhatWasFound'
  BY <1>1, <1>3 DEF OnlyMovedDiffer, Settled, OnlyWhatWasFound, ReportPagesTypeOK
<1>5. ASSUME NEW x \in Settled PROVE PlaceIsKept(x)'
  <2>1. /\ Before(atStart, x) \in Nat /\ offset \in Nat /\ written \in Nat /\ x \in matching
        /\ Before(atStart, x) < Cardinality(matching)
    BY <1>1, SettledStay DEF ReportPagesTypeOK
  <2>2. PlaceIsKept(x) /\ Before(atStart, x)' = Before(atStart, x)
    BY <1>1, <1>3
  <2>3. Before(atStart, x) < written <=> Before(atStart, x) < offset
    BY <1>1, <2>1, <2>2 DEF PlaceIsKept
  <2>4. QED
    BY <1>3, <2>1, <2>2, <2>3 DEF PlaceIsKept
<1>6. writer' # "idle"
  BY <1>3
<1>7. QED
  BY <1>2, <1>4, <1>5, <1>6 DEF PagesInv

LEMMA MovesKeepPages ==
  ASSUME PagesInv, NEW x \in PageRows, RowComes(x) \/ RowGoes(x)
  PROVE  PagesInv'
<1>1. /\ writer = "writing" /\ moved' = moved \cup {x}
      /\ matching \subseteq matching' \cup {x} /\ matching' \subseteq matching \cup {x}
      /\ writer' = writer /\ total' = total /\ offset' = offset /\ written' = written
      /\ copies' = copies /\ atStart' = atStart
  BY DEF RowComes, RowGoes, Moves
<1>2. /\ ReportPagesTypeOK /\ OnlyMovedDiffer /\ written <= offset
      /\ \A y \in Settled : PlaceIsKept(y)
      /\ OnlyWhatWasFound
  BY <1>1 DEF PagesInv
<1>3. ReportPagesTypeOK'
  BY <1>2, PageTypesStay DEF ReportPagesNext
<1>4. /\ OnlyMovedDiffer' /\ written' <= offset' /\ Settled' \subseteq Settled /\ OnlyWhatWasFound'
  BY <1>1, <1>2 DEF OnlyMovedDiffer, Settled, OnlyWhatWasFound
<1>5. ASSUME NEW y \in Settled PROVE PlaceIsKept(y)'
  <2>1. PlaceIsKept(y) /\ Before(atStart, y)' = Before(atStart, y)
    BY <1>1, <1>2
  <2>2. QED
    BY <1>1, <2>1 DEF PlaceIsKept
<1>6. QED
  BY <1>1, <1>3, <1>4, <1>5 DEF PagesInv

LEMMA PagesInvStays == PagesInv /\ [ReportPagesNext]_pageVars => PagesInv'
<1> SUFFICES ASSUME PagesInv, [ReportPagesNext]_pageVars PROVE PagesInv'
  OBVIOUS
<1>1. CASE NextReport
  <2>1. ReportPagesTypeOK'
    BY <1>1, PageTypesStay DEF ReportPagesNext, PagesInv
  <2>2. QED
    BY <1>1, <2>1 DEF NextReport, PagesInv, UntouchedPages, OnlyWhatWasFound
<1>2. CASE UNCHANGED pageVars
  <2>1. Settled' = Settled
    BY <1>2 DEF pageVars, Settled
  <2>2. QED
    BY <1>2, <2>1 DEF pageVars, PagesInv, ReportPagesTypeOK, UntouchedPages, OnlyWhatWasFound,
                      OnlyMovedDiffer, PlaceIsKept
<1>3. QED
  BY <1>1, <1>2, BeginKeepsPages, WriteKeepsPages, EndKeepsPages, ResumeKeepsPages,
     MovesKeepPages DEF ReportPagesNext

(***************************************************************************)
(* The pages of a report make up what was asked for: a row that nothing    *)
(* shifted is written once, whatever attempts were cut, and nothing is     *)
(* written that was not found at the start or came meanwhile.              *)
(***************************************************************************)
THEOREM PagesKept == ReportPagesSpec => []ReportPagesHold
<1>1. PagesInv => ReportPagesHold
  <2> SUFFICES ASSUME PagesInv, writer = "done", NEW x \in Settled PROVE copies[x] = 1
    BY DEF ReportPagesHold, SettledRowsOnce, PagesInv
  <2>1. PlaceIsKept(x)
    BY DEF PagesInv
  <2>2. QED
    BY <2>1 DEF PlaceIsKept
<1>2. QED
  BY <1>1, PagesInvBegins, PagesInvStays, PTL DEF ReportPagesSpec

-----------------------------------------------------------------------------
(***************************************************************************)
(* FlowStarts.  What a request holds at each place: a start that is not    *)
(* committed has a row of its own, and the one ticket of the contact that  *)
(* is under way a start nobody else can end.                               *)
(***************************************************************************)
WindowAsked == {"key", "fill", "decide"}
HasRow(ask) == ask.is = "start" /\ ask.at \in {"ask", "commit"}

MessageFits(ask) ==
    /\ ask.is \in {"message", "answer"} => ask.room \in WhatsAppRooms
    /\ ask.is = "message" => ask.at \in WindowAsked
    /\ ask.at \in WindowAsked => ask.is \in {"message", "answer", "start"}
StartFits(ask, table, last, told) ==
    ask.is = "start" =>
        /\ ask.flow \in Flows /\ ask.at \in WindowAsked \cup {"ask", "commit"}
        /\ ask.room \in WhatsAppRooms \cup {NotARoom}
        /\ ask.at \in WindowAsked \/ ask.waiting => ask.room \in WhatsAppRooms
        /\ HasRow(ask) => ask.start \in 1..last /\ table[ask.start] = NoStart
        /\ ask.at = "commit" => ask.start \in told
TicketFits(ask, table) ==
    ask.is = "ticket" /\ ask.at = "attach" =>
        /\ ask.start \in StartIds /\ table[ask.start] # NoStart /\ ~table[ask.start].deleted
        /\ table[ask.start].room = ask.room /\ ask.room \in WhatsAppRooms
EndingFits(ask, table) ==
    /\ \A n \in ask.ending : table[n] # NoStart
    /\ ask.ending # {} => ask.is = "ticket"
AskFits(ask, table, last, told) ==
    MessageFits(ask) /\ StartFits(ask, table, last, told) /\ TicketFits(ask, table)
        /\ EndingFits(ask, table)

AsksFit ==
    /\ \A p \in FlowRequests : AskFits(flowAsk[p], starts, lastStart, asked)
    /\ \A p, o \in FlowRequests : HasContact(p) /\ HasContact(o) => p = o
    /\ \A p, o \in FlowRequests :
           HasRow(flowAsk[p]) /\ HasRow(flowAsk[o]) /\ flowAsk[p].start = flowAsk[o].start => p = o
    /\ \A n \in Committed : n <= lastStart /\ starts[n].room \in WhatsAppRooms \cup {NotARoom}

FlowInv == FlowStartsTypeOK /\ AsksFit

LEMMA AskEdits ==
  ASSUME NEW ask \in FlowAsk
  PROVE  /\ \A v \in FlowPlaces : [ask EXCEPT !.at = v] \in FlowAsk
         /\ \A v \in FlowPlaces, b \in BOOLEAN : [ask EXCEPT !.at = v, !.valid = b] \in FlowAsk
         /\ \A v \in FlowPlaces, S \in SUBSET StartIds :
                [ask EXCEPT !.at = v, !.ending = S] \in FlowAsk
         /\ \A v \in FlowPlaces, n \in StartIds, r \in FlowRooms \cup {NotARoom} :
                [ask EXCEPT !.at = v, !.start = n, !.room = r] \in FlowAsk
         /\ \A v \in FlowPlaces, n \in StartIds, r \in FlowRooms \cup {NotARoom}, b \in BOOLEAN :
                [ask EXCEPT !.at = v, !.start = n, !.room = r, !.valid = b] \in FlowAsk
         /\ \A v \in FlowPlaces, n \in StartIds, b \in BOOLEAN :
                [ask EXCEPT !.at = v, !.start = n, !.waiting = b] \in FlowAsk
  BY DEF FlowAsk

LEMMA NewAsks ==
  /\ NoAsk \in FlowAsk
  /\ \A k \in {"message", "answer", "start", "ticket"}, v \in FlowPlaces,
        r \in FlowRooms \cup {NotARoom}, f \in Flows \cup {NoFlow}, b \in BOOLEAN :
        [NoAsk EXCEPT !.is = k, !.at = v, !.room = r, !.flow = f, !.waiting = b] \in FlowAsk
  /\ \A f \in Flows, n \in StartIds :
        [NoAsk EXCEPT !.is = "start", !.at = "ask", !.flow = f, !.start = n] \in FlowAsk
  BY DEF FlowAsk, NoAsk, FlowPlaces

LEMMA RoomEdits ==
  ASSUME NEW room \in FlowRoom
  PROVE  /\ \A b \in BOOLEAN : [room EXCEPT !.waiting = b] \in FlowRoom
         /\ [room EXCEPT !.is = "closed"] \in FlowRoom
  BY DEF FlowRoom

LEMMA StartEdits ==
  /\ \A entry \in FlowStart : [entry EXCEPT !.deleted = TRUE] \in FlowStart
  /\ \A f \in Flows, r \in FlowRooms \cup {NotARoom} :
         [flow |-> f, room |-> r, deleted |-> FALSE] \in FlowStart
  /\ NoStart \notin FlowStart
  BY FlowStartsAssumption DEF FlowStart

LEMMA NoAskFits == ASSUME NEW table, NEW last, NEW told PROVE AskFits(NoAsk, table, last, told)
  BY DEF AskFits, MessageFits, StartFits, TicketFits, EndingFits, NoAsk, HasRow, WindowAsked

LEMMA FlowsBegin == FlowStartsInit => FlowInv
<1> SUFFICES ASSUME FlowStartsInit PROVE FlowInv
  OBVIOUS
<1>1. FlowStartsTypeOK
  <2>1. flowAsk \in [FlowRequests -> FlowAsk]
    BY NewAsks DEF FlowStartsInit
  <2>2. 0 \in 0..MaxStarts
    BY FlowStartsAssumption
  <2>3. [is |-> "none", waiting |-> FALSE, since |-> 0, by |-> NoStart] \in FlowRoom
    BY <2>2 DEF FlowRoom
  <2>4. flowRoom \in [FlowRooms -> FlowRoom] /\ starts \in [StartIds -> FlowStart \cup {NoStart}]
    BY <2>3 DEF FlowStartsInit
  <2>5. QED
    BY <2>1, <2>2, <2>4 DEF FlowStartsInit, FlowStartsTypeOK
<1>2. Committed = {} /\ \A p \in FlowRequests : flowAsk[p] = NoAsk
  BY DEF FlowStartsInit, Committed
<1>3. AskFits(NoAsk, starts, lastStart, asked)
  BY NoAskFits
<1>4. \A p \in FlowRequests : ~HasContact(p) /\ ~HasRow(flowAsk[p])
  BY <1>2 DEF HasContact, HasRow, NoAsk
<1>5. QED
  BY <1>1, <1>2, <1>3, <1>4 DEF FlowInv, AsksFit

\* One request moves, and whatever it holds now fits.
LEMMA AskMoves ==
  ASSUME FlowInv, NEW p \in FlowRequests, NEW ask \in FlowAsk,
         flowAsk' = [flowAsk EXCEPT ![p] = ask], UNCHANGED starts,
         lastStart' \in Nat, lastStart <= lastStart', asked \subseteq asked', AskFits(ask, starts',
              lastStart', asked'),
         ask.is = "ticket" => HasContact(p) \/ ContactFree(p),
         HasRow(ask) => \/ HasRow(flowAsk[p]) /\ flowAsk[p].start = ask.start
                        \/ ask.start > lastStart
  PROVE  AsksFit' /\ flowAsk' \in [FlowRequests -> FlowAsk]
<1>1. /\ flowAsk'[p] = ask /\ \A o \in FlowRequests \ {p} : flowAsk'[o] = flowAsk[o]
      /\ flowAsk' \in [FlowRequests -> FlowAsk] /\ lastStart \in Nat /\ Committed' = Committed
      /\ Committed \subseteq StartIds /\ StartIds \subseteq Nat
  BY DEF FlowInv, FlowStartsTypeOK, Committed, StartIds
<1>2. ASSUME NEW o \in FlowRequests PROVE AskFits(flowAsk'[o], starts', lastStart', asked')
  <2>1. CASE o = p
    BY <1>1, <2>1 DEF AskFits, MessageFits, StartFits, TicketFits, EndingFits, HasRow
  <2>2. CASE o # p
    <3>1. flowAsk'[o] = flowAsk[o] /\ AskFits(flowAsk[o], starts, lastStart, asked)
      BY <1>1, <2>2 DEF FlowInv, AsksFit
    <3>2. QED
      BY <1>1, <3>1 DEF AskFits, MessageFits, StartFits, TicketFits, EndingFits, HasRow
  <2>3. QED
    BY <2>1, <2>2
<1>3. ASSUME NEW o \in FlowRequests, NEW q \in FlowRequests, HasContact(o)', HasContact(q)'
      PROVE  o = q
  BY <1>1, <1>3 DEF FlowInv, AsksFit, HasContact, ContactFree
<1>4. ASSUME NEW o \in FlowRequests, NEW q \in FlowRequests, HasRow(flowAsk[o])',
     HasRow(flowAsk[q])',
             flowAsk'[o].start = flowAsk'[q].start
      PROVE  o = q
  <2>1. \A e \in FlowRequests : HasRow(flowAsk[e]) => flowAsk[e].start \in 1..lastStart
    BY DEF FlowInv, AsksFit, AskFits, StartFits, HasRow
  <2>2. QED
    BY <1>1, <1>4, <2>1 DEF FlowInv, AsksFit, HasRow
<1>5. \A n \in Committed' : n <= lastStart' /\ starts'[n].room \in WhatsAppRooms \cup {NotARoom}
  BY <1>1 DEF FlowInv, AsksFit
<1>6. QED
  BY <1>1, <1>2, <1>3, <1>4, <1>5 DEF AsksFit

LEMMA HitWindowFits ==
  ASSUME FlowInv, NEW p \in FlowRequests, HitWindow(p)
  PROVE  FlowInv'
<1> USE DEF FlowInv
<1>1. flowAsk[p] \in FlowAsk /\ AskFits(flowAsk[p], starts, lastStart, asked) /\ NoAsk \in FlowAsk
  BY NewAsks DEF FlowStartsTypeOK, AsksFit
<1>2. PICK ask \in FlowAsk : ask = [flowAsk[p] EXCEPT !.at = "decide", !.valid = TRUE]
  BY <1>1, AskEdits, NewAsks DEF HitWindow, Trusts, flowRows, flowHistory, FlowPlaces,
       FlowStartsTypeOK
<1>3. flowAsk' = [flowAsk EXCEPT ![p] = ask]
  BY <1>1, <1>2, Zenon DEF HitWindow, Trusts, flowRows, flowHistory
<1>4. AskFits(ask, starts', lastStart', asked')
  BY <1>1, <1>2 DEF HitWindow, Trusts, flowRows, flowHistory, AskFits, MessageFits, StartFits,
       TicketFits, EndingFits, HasRow,
     WindowAsked, NoAsk, FlowAsk, Committed, FlowStartsTypeOK
<1>5. AsksFit' /\ flowAsk' \in [FlowRequests -> FlowAsk]
  <2>1. /\ lastStart' \in Nat /\ lastStart <= lastStart' /\ asked \subseteq asked'
        /\ UNCHANGED starts
    BY DEF HitWindow, Trusts, flowRows, flowHistory, FlowStartsTypeOK
  <2>2. ask.is = "ticket" => HasContact(p) \/ ContactFree(p)
    BY <1>1, <1>2 DEF HitWindow, Trusts, flowRows, flowHistory, HasContact, NoAsk, FlowAsk
  <2>3. HasRow(ask) => \/ HasRow(flowAsk[p]) /\ flowAsk[p].start = ask.start
                       \/ ask.start > lastStart
    BY <1>1, <1>2 DEF HitWindow, Trusts, flowRows, flowHistory, HasRow, WindowAsked, NoAsk,
         FlowAsk, FlowStartsTypeOK
  <2>4. QED
    BY <1>3, <1>4, <2>1, <2>2, <2>3, AskMoves
<1>6. FlowStartsTypeOK'
  BY <1>1, <1>5 DEF HitWindow, Trusts, flowRows, flowHistory, FlowStartsTypeOK
<1>7. QED
  BY <1>5, <1>6

LEMMA QueryWindowFits ==
  ASSUME FlowInv, NEW p \in FlowRequests, QueryWindow(p)
  PROVE  FlowInv'
<1> USE DEF FlowInv
<1>1. flowAsk[p] \in FlowAsk /\ AskFits(flowAsk[p], starts, lastStart, asked) /\ NoAsk \in FlowAsk
  BY NewAsks DEF FlowStartsTypeOK, AsksFit
<1>2. PICK ask \in FlowAsk : ask = [flowAsk[p] EXCEPT !.at = "fill",
     !.valid = (flowAsk[p].room \in window)]
  <2>1. (flowAsk[p].room \in window) \in BOOLEAN /\ "fill" \in FlowPlaces
    BY DEF FlowPlaces
  <2>2. QED
    BY <1>1, <2>1, AskEdits
<1>3. flowAsk' = [flowAsk EXCEPT ![p] = ask]
  BY <1>1, <1>2, Zenon DEF QueryWindow, flowRows, flowHistory
<1>4. AskFits(ask, starts', lastStart', asked')
  BY <1>1, <1>2 DEF QueryWindow, flowRows, flowHistory, AskFits, MessageFits, StartFits,
       TicketFits, EndingFits, HasRow,
     WindowAsked, NoAsk, FlowAsk, Committed, FlowStartsTypeOK
<1>5. AsksFit' /\ flowAsk' \in [FlowRequests -> FlowAsk]
  <2>1. /\ lastStart' \in Nat /\ lastStart <= lastStart' /\ asked \subseteq asked'
        /\ UNCHANGED starts
    BY DEF QueryWindow, flowRows, flowHistory, FlowStartsTypeOK
  <2>2. ask.is = "ticket" => HasContact(p) \/ ContactFree(p)
    BY <1>1, <1>2 DEF QueryWindow, flowRows, flowHistory, HasContact, NoAsk, FlowAsk
  <2>3. HasRow(ask) => \/ HasRow(flowAsk[p]) /\ flowAsk[p].start = ask.start
                       \/ ask.start > lastStart
    BY <1>1, <1>2 DEF QueryWindow, flowRows, flowHistory, HasRow, WindowAsked, NoAsk, FlowAsk,
         FlowStartsTypeOK
  <2>4. QED
    BY <1>3, <1>4, <2>1, <2>2, <2>3, AskMoves
<1>6. FlowStartsTypeOK'
  BY <1>1, <1>5 DEF QueryWindow, flowRows, flowHistory, FlowStartsTypeOK
<1>7. QED
  BY <1>5, <1>6

LEMMA FillWindowFits ==
  ASSUME FlowInv, NEW p \in FlowRequests, FillWindow(p)
  PROVE  FlowInv'
<1> USE DEF FlowInv
<1>1. flowAsk[p] \in FlowAsk /\ AskFits(flowAsk[p], starts, lastStart, asked) /\ NoAsk \in FlowAsk
  BY NewAsks DEF FlowStartsTypeOK, AsksFit
<1>2. PICK ask \in FlowAsk : ask = [flowAsk[p] EXCEPT !.at = "decide"]
  BY <1>1, AskEdits, NewAsks DEF FillWindow, FlowGo, flowHistory, FlowPlaces, FlowStartsTypeOK
<1>3. flowAsk' = [flowAsk EXCEPT ![p] = ask]
  BY <1>1, <1>2, Zenon DEF FillWindow, FlowGo, flowHistory
<1>4. AskFits(ask, starts', lastStart', asked')
  BY <1>1, <1>2 DEF FillWindow, FlowGo, flowHistory, AskFits, MessageFits, StartFits, TicketFits,
       EndingFits, HasRow,
     WindowAsked, NoAsk, FlowAsk, Committed, FlowStartsTypeOK
<1>5. AsksFit' /\ flowAsk' \in [FlowRequests -> FlowAsk]
  <2>1. /\ lastStart' \in Nat /\ lastStart <= lastStart' /\ asked \subseteq asked'
        /\ UNCHANGED starts
    BY DEF FillWindow, FlowGo, flowHistory, FlowStartsTypeOK
  <2>2. ask.is = "ticket" => HasContact(p) \/ ContactFree(p)
    BY <1>1, <1>2 DEF FillWindow, FlowGo, flowHistory, HasContact, NoAsk, FlowAsk
  <2>3. HasRow(ask) => \/ HasRow(flowAsk[p]) /\ flowAsk[p].start = ask.start
                       \/ ask.start > lastStart
    BY <1>1, <1>2 DEF FillWindow, FlowGo, flowHistory, HasRow, WindowAsked, NoAsk, FlowAsk,
         FlowStartsTypeOK
  <2>4. QED
    BY <1>3, <1>4, <2>1, <2>2, <2>3, AskMoves
<1>6. FlowStartsTypeOK'
  BY <1>1, <1>5 DEF FillWindow, FlowGo, flowHistory, FlowStartsTypeOK
<1>7. QED
  BY <1>5, <1>6

LEMMA BeginMessageFits ==
  ASSUME FlowInv, NEW p \in FlowRequests, NEW r \in WhatsAppRooms, BeginMessage(p, r)
  PROVE  FlowInv'
<1> USE DEF FlowInv
<1>1. flowAsk[p] \in FlowAsk /\ AskFits(flowAsk[p], starts, lastStart, asked) /\ NoAsk \in FlowAsk
  BY NewAsks DEF FlowStartsTypeOK, AsksFit
<1>2. PICK ask \in FlowAsk : ask = [NoAsk EXCEPT !.is = "message", !.at = "key", !.room = r,
     !.flow = NoFlow, !.waiting = FALSE]
  BY <1>1, AskEdits, NewAsks, FlowStartsAssumption DEF BeginMessage, BeginAsk, flowRows,
       FlowPlaces, FlowStartsTypeOK
<1>3. flowAsk' = [flowAsk EXCEPT ![p] = ask]
  BY <1>1, <1>2, Zenon DEF BeginMessage, BeginAsk, flowRows
<1>4. AskFits(ask, starts', lastStart', asked')
  BY <1>1, <1>2, FlowStartsAssumption DEF BeginMessage, BeginAsk, flowRows, AskFits, MessageFits,
       StartFits, TicketFits, EndingFits, HasRow,
     WindowAsked, NoAsk, FlowAsk, Committed, FlowStartsTypeOK
<1>5. AsksFit' /\ flowAsk' \in [FlowRequests -> FlowAsk]
  <2>1. /\ lastStart' \in Nat /\ lastStart <= lastStart' /\ asked \subseteq asked'
        /\ UNCHANGED starts
    BY DEF BeginMessage, BeginAsk, flowRows, FlowStartsTypeOK
  <2>2. ask.is = "ticket" => HasContact(p) \/ ContactFree(p)
    BY <1>1, <1>2 DEF BeginMessage, BeginAsk, flowRows, HasContact, NoAsk, FlowAsk
  <2>3. HasRow(ask) => \/ HasRow(flowAsk[p]) /\ flowAsk[p].start = ask.start
                       \/ ask.start > lastStart
    BY <1>1, <1>2 DEF BeginMessage, BeginAsk, flowRows, HasRow, WindowAsked, NoAsk, FlowAsk,
         FlowStartsTypeOK
  <2>4. QED
    BY <1>3, <1>4, <2>1, <2>2, <2>3, AskMoves
<1>6. FlowStartsTypeOK'
  BY <1>1, <1>5, FlowStartsAssumption DEF BeginMessage, BeginAsk, flowRows, FlowStartsTypeOK
<1>7. QED
  BY <1>5, <1>6

LEMMA BeginAnswerFits ==
  ASSUME FlowInv, NEW p \in FlowRequests, NEW r \in WhatsAppRooms, BeginAnswer(p, r)
  PROVE  FlowInv'
<1> USE DEF FlowInv
<1>1. flowAsk[p] \in FlowAsk /\ AskFits(flowAsk[p], starts, lastStart, asked) /\ NoAsk \in FlowAsk
  BY NewAsks DEF FlowStartsTypeOK, AsksFit
<1>2. PICK ask \in FlowAsk : ask = [NoAsk EXCEPT !.is = "answer", !.at = "key", !.room = r,
     !.flow = NoFlow, !.waiting = flowRoom[r].waiting \/ Pending(r) # {}]
  BY <1>1, AskEdits, NewAsks, FlowStartsAssumption DEF BeginAnswer, BeginAsk, flowRows,
       flowHistory, FlowPlaces, FlowStartsTypeOK
<1>3. flowAsk' = [flowAsk EXCEPT ![p] = ask]
  BY <1>1, <1>2, Zenon DEF BeginAnswer, BeginAsk, flowRows, flowHistory
<1>4. AskFits(ask, starts', lastStart', asked')
  BY <1>1, <1>2, FlowStartsAssumption DEF BeginAnswer, BeginAsk, flowRows, flowHistory, AskFits,
       MessageFits, StartFits, TicketFits, EndingFits, HasRow,
     WindowAsked, NoAsk, FlowAsk, Committed, FlowStartsTypeOK
<1>5. AsksFit' /\ flowAsk' \in [FlowRequests -> FlowAsk]
  <2>1. /\ lastStart' \in Nat /\ lastStart <= lastStart' /\ asked \subseteq asked'
        /\ UNCHANGED starts
    BY DEF BeginAnswer, BeginAsk, flowRows, flowHistory, FlowStartsTypeOK
  <2>2. ask.is = "ticket" => HasContact(p) \/ ContactFree(p)
    BY <1>1, <1>2 DEF BeginAnswer, BeginAsk, flowRows, flowHistory, HasContact, NoAsk, FlowAsk
  <2>3. HasRow(ask) => \/ HasRow(flowAsk[p]) /\ flowAsk[p].start = ask.start
                       \/ ask.start > lastStart
    BY <1>1, <1>2 DEF BeginAnswer, BeginAsk, flowRows, flowHistory, HasRow, WindowAsked, NoAsk,
         FlowAsk, FlowStartsTypeOK
  <2>4. QED
    BY <1>3, <1>4, <2>1, <2>2, <2>3, AskMoves
<1>6. FlowStartsTypeOK'
  BY <1>1, <1>5, FlowStartsAssumption DEF BeginAnswer, BeginAsk, flowRows, flowHistory,
       FlowStartsTypeOK
<1>7. QED
  BY <1>5, <1>6

LEMMA BeginStartFits ==
  ASSUME FlowInv, NEW p \in FlowRequests, NEW r \in WhatsAppRooms, NEW f \in Flows, BeginStart(p,
       r, f)
  PROVE  FlowInv'
<1> USE DEF FlowInv
<1>1. flowAsk[p] \in FlowAsk /\ AskFits(flowAsk[p], starts, lastStart, asked) /\ NoAsk \in FlowAsk
  BY NewAsks DEF FlowStartsTypeOK, AsksFit
<1>2. PICK ask \in FlowAsk : ask = [NoAsk EXCEPT !.is = "start", !.at = "key", !.room = r,
     !.flow = f, !.waiting = FALSE]
  BY <1>1, AskEdits, NewAsks, FlowStartsAssumption DEF BeginStart, BeginAsk, flowRows, flowHistory,
       FlowPlaces, FlowStartsTypeOK
<1>3. flowAsk' = [flowAsk EXCEPT ![p] = ask]
  BY <1>1, <1>2, Zenon DEF BeginStart, BeginAsk, flowRows, flowHistory
<1>4. AskFits(ask, starts', lastStart', asked')
  BY <1>1, <1>2, FlowStartsAssumption DEF BeginStart, BeginAsk, flowRows, flowHistory, AskFits,
       MessageFits, StartFits, TicketFits, EndingFits, HasRow,
     WindowAsked, NoAsk, FlowAsk, Committed, FlowStartsTypeOK
<1>5. AsksFit' /\ flowAsk' \in [FlowRequests -> FlowAsk]
  <2>1. /\ lastStart' \in Nat /\ lastStart <= lastStart' /\ asked \subseteq asked'
        /\ UNCHANGED starts
    BY DEF BeginStart, BeginAsk, flowRows, flowHistory, FlowStartsTypeOK
  <2>2. ask.is = "ticket" => HasContact(p) \/ ContactFree(p)
    BY <1>1, <1>2 DEF BeginStart, BeginAsk, flowRows, flowHistory, HasContact, NoAsk, FlowAsk
  <2>3. HasRow(ask) => \/ HasRow(flowAsk[p]) /\ flowAsk[p].start = ask.start
                       \/ ask.start > lastStart
    BY <1>1, <1>2 DEF BeginStart, BeginAsk, flowRows, flowHistory, HasRow, WindowAsked, NoAsk,
         FlowAsk, FlowStartsTypeOK
  <2>4. QED
    BY <1>3, <1>4, <2>1, <2>2, <2>3, AskMoves
<1>6. FlowStartsTypeOK'
  BY <1>1, <1>5, FlowStartsAssumption DEF BeginStart, BeginAsk, flowRows, flowHistory,
       FlowStartsTypeOK
<1>7. QED
  BY <1>5, <1>6

LEMMA BeginTicketFits ==
  ASSUME FlowInv, NEW p \in FlowRequests, NEW f \in Flows \cup {NoFlow}, BeginTicket(p, f)
  PROVE  FlowInv'
<1> USE DEF FlowInv
<1>1. flowAsk[p] \in FlowAsk /\ AskFits(flowAsk[p], starts, lastStart, asked) /\ NoAsk \in FlowAsk
  BY NewAsks DEF FlowStartsTypeOK, AsksFit
<1>2. PICK ask \in FlowAsk : ask = [NoAsk EXCEPT !.is = "ticket", !.at = "find", !.room = NotARoom,
     !.flow = f, !.waiting = FALSE]
  BY <1>1, AskEdits, NewAsks, FlowStartsAssumption DEF BeginTicket, BeginAsk, flowRows,
       flowHistory, FlowPlaces, FlowStartsTypeOK
<1>3. flowAsk' = [flowAsk EXCEPT ![p] = ask]
  BY <1>1, <1>2, Zenon DEF BeginTicket, BeginAsk, flowRows, flowHistory
<1>4. AskFits(ask, starts', lastStart', asked')
  BY <1>1, <1>2, FlowStartsAssumption DEF BeginTicket, BeginAsk, flowRows, flowHistory, AskFits,
       MessageFits, StartFits, TicketFits, EndingFits, HasRow,
     WindowAsked, NoAsk, FlowAsk, Committed, FlowStartsTypeOK
<1>5. AsksFit' /\ flowAsk' \in [FlowRequests -> FlowAsk]
  <2>1. /\ lastStart' \in Nat /\ lastStart <= lastStart' /\ asked \subseteq asked'
        /\ UNCHANGED starts
    BY DEF BeginTicket, BeginAsk, flowRows, flowHistory, FlowStartsTypeOK
  <2>2. ask.is = "ticket" => HasContact(p) \/ ContactFree(p)
    BY <1>1, <1>2 DEF BeginTicket, BeginAsk, flowRows, flowHistory, HasContact, NoAsk, FlowAsk
  <2>3. HasRow(ask) => \/ HasRow(flowAsk[p]) /\ flowAsk[p].start = ask.start
                       \/ ask.start > lastStart
    BY <1>1, <1>2 DEF BeginTicket, BeginAsk, flowRows, flowHistory, HasRow, WindowAsked, NoAsk,
         FlowAsk, FlowStartsTypeOK
  <2>4. QED
    BY <1>3, <1>4, <2>1, <2>2, <2>3, AskMoves
<1>6. FlowStartsTypeOK'
  BY <1>1, <1>5, FlowStartsAssumption DEF BeginTicket, BeginAsk, flowRows, flowHistory,
       FlowStartsTypeOK
<1>7. QED
  BY <1>5, <1>6

LEMMA InsertAnswerFits ==
  ASSUME FlowInv, NEW p \in FlowRequests, InsertAnswer(p)
  PROVE  FlowInv'
<1> USE DEF FlowInv
<1>1. flowAsk[p] \in FlowAsk /\ AskFits(flowAsk[p], starts, lastStart, asked) /\ NoAsk \in FlowAsk
  BY NewAsks DEF FlowStartsTypeOK, AsksFit
<1>2. PICK ask \in FlowAsk : ask = [flowAsk[p] EXCEPT !.at = "clear", !.valid = FALSE]
  BY <1>1, AskEdits, NewAsks DEF InsertAnswer, IsAt, flowHistory, FlowPlaces, FlowStartsTypeOK
<1>3. flowAsk' = [flowAsk EXCEPT ![p] = ask]
  BY <1>1, <1>2, Zenon DEF InsertAnswer, IsAt, flowHistory
<1>4. AskFits(ask, starts', lastStart', asked')
  BY <1>1, <1>2 DEF InsertAnswer, IsAt, flowHistory, AskFits, MessageFits, StartFits, TicketFits,
       EndingFits, HasRow,
     WindowAsked, NoAsk, FlowAsk, Committed, FlowStartsTypeOK
<1>5. AsksFit' /\ flowAsk' \in [FlowRequests -> FlowAsk]
  <2>1. /\ lastStart' \in Nat /\ lastStart <= lastStart' /\ asked \subseteq asked'
        /\ UNCHANGED starts
    BY DEF InsertAnswer, IsAt, flowHistory, FlowStartsTypeOK
  <2>2. ask.is = "ticket" => HasContact(p) \/ ContactFree(p)
    BY <1>1, <1>2 DEF InsertAnswer, IsAt, flowHistory, HasContact, NoAsk, FlowAsk
  <2>3. HasRow(ask) => \/ HasRow(flowAsk[p]) /\ flowAsk[p].start = ask.start
                       \/ ask.start > lastStart
    BY <1>1, <1>2 DEF InsertAnswer, IsAt, flowHistory, HasRow, WindowAsked, NoAsk, FlowAsk,
         FlowStartsTypeOK
  <2>4. QED
    BY <1>3, <1>4, <2>1, <2>2, <2>3, AskMoves
<1>6. FlowStartsTypeOK'
  <2>1. window' \subseteq WhatsAppRooms
    BY <1>1, FlowStartsAssumption DEF InsertAnswer, IsAt, AskFits, MessageFits, FlowStartsTypeOK,
         StartIds
  <2>2. QED
    BY <1>5, <2>1 DEF InsertAnswer, IsAt, flowHistory, FlowStartsTypeOK
<1>7. QED
  BY <1>5, <1>6

LEMMA AskFlowsFits ==
  ASSUME FlowInv, NEW p \in FlowRequests, AskFlows(p)
  PROVE  FlowInv'
<1> USE DEF FlowInv
<1>1. flowAsk[p] \in FlowAsk /\ AskFits(flowAsk[p], starts, lastStart, asked) /\ NoAsk \in FlowAsk
  BY NewAsks DEF FlowStartsTypeOK, AsksFit
<1>2. PICK ask \in FlowAsk : ask = [flowAsk[p] EXCEPT !.at = "commit"]
  BY <1>1, AskEdits, NewAsks DEF AskFlows, FlowGo, IsAt, flowRows, FlowPlaces, FlowStartsTypeOK
<1>3. flowAsk' = [flowAsk EXCEPT ![p] = ask]
  BY <1>1, <1>2, Zenon DEF AskFlows, FlowGo, IsAt, flowRows
<1>4. AskFits(ask, starts', lastStart', asked')
  BY <1>1, <1>2 DEF AskFlows, FlowGo, IsAt, flowRows, AskFits, MessageFits, StartFits, TicketFits,
       EndingFits, HasRow,
     WindowAsked, NoAsk, FlowAsk, Committed, FlowStartsTypeOK
<1>5. AsksFit' /\ flowAsk' \in [FlowRequests -> FlowAsk]
  <2>1. /\ lastStart' \in Nat /\ lastStart <= lastStart' /\ asked \subseteq asked'
        /\ UNCHANGED starts
    BY DEF AskFlows, FlowGo, IsAt, flowRows, FlowStartsTypeOK
  <2>2. ask.is = "ticket" => HasContact(p) \/ ContactFree(p)
    BY <1>1, <1>2 DEF AskFlows, FlowGo, IsAt, flowRows, HasContact, NoAsk, FlowAsk
  <2>3. HasRow(ask) => \/ HasRow(flowAsk[p]) /\ flowAsk[p].start = ask.start
                       \/ ask.start > lastStart
    BY <1>1, <1>2 DEF AskFlows, FlowGo, IsAt, flowRows, HasRow, WindowAsked, NoAsk, FlowAsk,
         FlowStartsTypeOK
  <2>4. QED
    BY <1>3, <1>4, <2>1, <2>2, <2>3, AskMoves
<1>6. FlowStartsTypeOK'
  <2>1. flowAsk[p].start \in 1..lastStart
    BY <1>1 DEF AskFlows, IsAt, AskFits, StartFits, HasRow
  <2>2. lastStart \in 0..MaxStarts
    BY DEF FlowStartsTypeOK
  <2>3. flowAsk[p].start \in StartIds
    BY <2>1, <2>2, FlowStartsAssumption DEF StartIds
  <2>4. QED
    BY <1>5, <2>3 DEF AskFlows, flowRows, FlowStartsTypeOK
<1>7. QED
  BY <1>5, <1>6

LEMMA StartAloneFits ==
  ASSUME FlowInv, NEW p \in FlowRequests, NEW f \in Flows, StartAlone(p, f)
  PROVE  FlowInv'
<1> USE DEF FlowInv
<1>1. flowAsk[p] \in FlowAsk /\ AskFits(flowAsk[p], starts, lastStart, asked) /\ NoAsk \in FlowAsk
  BY NewAsks DEF FlowStartsTypeOK, AsksFit
<1>2. PICK ask \in FlowAsk : ask = [NoAsk EXCEPT !.is = "start", !.at = "ask", !.flow = f,
     !.start = lastStart + 1]
  <2>1. lastStart + 1 \in StartIds /\ NotARoom \in FlowRooms \cup {NotARoom} /\ "ask" \in FlowPlaces
    BY FlowStartsAssumption DEF StartAlone, FlowStartsTypeOK, StartIds, FlowPlaces
  <2>2. QED
    BY <1>1, <2>1, AskEdits, NewAsks
<1>3. flowAsk' = [flowAsk EXCEPT ![p] = ask]
  BY <1>1, <1>2, Zenon DEF StartAlone, flowHistory
<1>4. AskFits(ask, starts', lastStart', asked')
  <2>1. lastStart + 1 \in 1..(lastStart + 1) /\ lastStart + 1 \in StartIds /\ ~(lastStart + 1 <= lastStart)
    BY FlowStartsAssumption DEF StartAlone, FlowStartsTypeOK, StartIds
  <2>2. starts[lastStart + 1] = NoStart
    BY <2>1 DEF AsksFit, Committed
  <2>3. QED
    BY <1>1, <1>2, <2>1, <2>2, FlowStartsAssumption DEF StartAlone, flowHistory, AskFits,
         MessageFits, StartFits, TicketFits,
       EndingFits, HasRow, WindowAsked, NoAsk, FlowAsk, FlowStartsTypeOK
<1>5. AsksFit' /\ flowAsk' \in [FlowRequests -> FlowAsk]
  <2>1. /\ lastStart' \in Nat /\ lastStart <= lastStart' /\ asked \subseteq asked'
        /\ UNCHANGED starts
    BY DEF StartAlone, flowHistory, FlowStartsTypeOK
  <2>2. ask.is = "ticket" => HasContact(p) \/ ContactFree(p)
    BY <1>1, <1>2 DEF StartAlone, flowHistory, HasContact, NoAsk, FlowAsk
  <2>3. HasRow(ask) => \/ HasRow(flowAsk[p]) /\ flowAsk[p].start = ask.start
                       \/ ask.start > lastStart
    BY <1>1, <1>2 DEF StartAlone, flowHistory, HasRow, WindowAsked, NoAsk, FlowAsk, FlowStartsTypeOK
  <2>4. QED
    BY <1>3, <1>4, <2>1, <2>2, <2>3, AskMoves
<1>6. FlowStartsTypeOK'
  BY <1>1, <1>5, FlowStartsAssumption DEF StartAlone, flowHistory, FlowStartsTypeOK
<1>7. QED
  BY <1>5, <1>6

LEMMA InWindowFits ==
  ASSUME FlowInv, NEW p \in FlowRequests, InWindow(p)
  PROVE  FlowInv'
<1> USE DEF FlowInv
<1>1. flowAsk[p] \in FlowAsk /\ AskFits(flowAsk[p], starts, lastStart, asked) /\ NoAsk \in FlowAsk
  BY NewAsks DEF FlowStartsTypeOK, AsksFit
<1>2. PICK ask \in FlowAsk : ask = [flowAsk[p] EXCEPT !.at = "ask", !.start = lastStart + 1,
     !.room = NotARoom, !.valid = FALSE]
  <2>1. lastStart + 1 \in StartIds /\ NotARoom \in FlowRooms \cup {NotARoom} /\ "ask" \in FlowPlaces
    BY FlowStartsAssumption DEF InWindow, FlowStartsTypeOK, StartIds, FlowPlaces
  <2>2. QED
    BY <1>1, <2>1, AskEdits, NewAsks
<1>3. flowAsk' = [flowAsk EXCEPT ![p] = ask]
  BY <1>1, <1>2, Zenon DEF InWindow, IsAt, flowHistory
<1>4. AskFits(ask, starts', lastStart', asked')
  BY <1>1, <1>2 DEF InWindow, IsAt, flowHistory, AskFits, MessageFits, StartFits, TicketFits,
       EndingFits, HasRow,
     WindowAsked, NoAsk, FlowAsk, Committed, FlowStartsTypeOK
<1>5. AsksFit' /\ flowAsk' \in [FlowRequests -> FlowAsk]
  <2>1. /\ lastStart' \in Nat /\ lastStart <= lastStart' /\ asked \subseteq asked'
        /\ UNCHANGED starts
    BY DEF InWindow, IsAt, flowHistory, FlowStartsTypeOK
  <2>2. ask.is = "ticket" => HasContact(p) \/ ContactFree(p)
    BY <1>1, <1>2 DEF InWindow, IsAt, flowHistory, HasContact, NoAsk, FlowAsk
  <2>3. HasRow(ask) => \/ HasRow(flowAsk[p]) /\ flowAsk[p].start = ask.start
                       \/ ask.start > lastStart
    BY <1>1, <1>2 DEF InWindow, IsAt, flowHistory, HasRow, WindowAsked, NoAsk, FlowAsk,
         FlowStartsTypeOK
  <2>4. QED
    BY <1>3, <1>4, <2>1, <2>2, <2>3, AskMoves
<1>6. FlowStartsTypeOK'
  <2>1. lastStart' \in 0..MaxStarts
    BY <1>1, FlowStartsAssumption DEF InWindow, FlowStartsTypeOK, StartIds
  <2>2. QED
    BY <1>5, <2>1 DEF InWindow, flowHistory, FlowStartsTypeOK
<1>7. QED
  BY <1>5, <1>6

LEMMA InsertStartFits ==
  ASSUME FlowInv, NEW p \in FlowRequests, InsertStart(p)
  PROVE  FlowInv'
<1> USE DEF FlowInv
<1>1. flowAsk[p] \in FlowAsk /\ AskFits(flowAsk[p], starts, lastStart, asked) /\ NoAsk \in FlowAsk
  BY NewAsks DEF FlowStartsTypeOK, AsksFit
<1>2. PICK ask \in FlowAsk : ask = [flowAsk[p] EXCEPT !.at = "ask", !.start = lastStart + 1,
     !.waiting = (flowRoom[flowAsk[p].room].is = "open")]
  <2>1. lastStart + 1 \in StartIds /\ (flowRoom[flowAsk[p].room].is = "open") \in BOOLEAN /\ "ask" \in FlowPlaces
    BY FlowStartsAssumption DEF InsertStart, FlowStartsTypeOK, StartIds, FlowPlaces
  <2>2. QED
    BY <1>1, <2>1, AskEdits
<1>3. flowAsk' = [flowAsk EXCEPT ![p] = ask]
  BY <1>1, <1>2, Zenon DEF InsertStart, IsAt, Unseen, flowHistory
<1>4. AskFits(ask, starts', lastStart', asked')
  <2>1. lastStart + 1 \in 1..(lastStart + 1) /\ lastStart + 1 \in StartIds /\ ~(lastStart + 1 <= lastStart)
    BY FlowStartsAssumption DEF InsertStart, FlowStartsTypeOK, StartIds
  <2>2. starts[lastStart + 1] = NoStart
    BY <2>1 DEF AsksFit, Committed
  <2>3. QED
    BY <1>1, <1>2, <2>1, <2>2, FlowStartsAssumption DEF InsertStart, IsAt, flowHistory, AskFits,
         MessageFits, StartFits, TicketFits,
       EndingFits, HasRow, WindowAsked, NoAsk, FlowAsk, FlowStartsTypeOK
<1>5. AsksFit' /\ flowAsk' \in [FlowRequests -> FlowAsk]
  <2>1. /\ lastStart' \in Nat /\ lastStart <= lastStart' /\ asked \subseteq asked'
        /\ UNCHANGED starts
    BY DEF InsertStart, IsAt, Unseen, flowHistory, FlowStartsTypeOK
  <2>2. ask.is = "ticket" => HasContact(p) \/ ContactFree(p)
    BY <1>1, <1>2 DEF InsertStart, IsAt, Unseen, flowHistory, HasContact, NoAsk, FlowAsk
  <2>3. HasRow(ask) => \/ HasRow(flowAsk[p]) /\ flowAsk[p].start = ask.start
                       \/ ask.start > lastStart
    BY <1>1, <1>2 DEF InsertStart, IsAt, Unseen, flowHistory, HasRow, WindowAsked, NoAsk, FlowAsk,
         FlowStartsTypeOK
  <2>4. QED
    BY <1>3, <1>4, <2>1, <2>2, <2>3, AskMoves
<1>6. FlowStartsTypeOK'
  <2>1. lastStart' \in 0..MaxStarts
    BY <1>1, FlowStartsAssumption DEF InsertStart, FlowStartsTypeOK, StartIds
  <2>2. QED
    BY <1>5, <2>1 DEF InsertStart, Unseen, flowHistory, FlowStartsTypeOK
<1>7. QED
  BY <1>5, <1>6

LEMMA EndOthersFits ==
  ASSUME FlowInv, NEW p \in FlowRequests, NEW ignores \in BOOLEAN, EndOthers(p, ignores)
  PROVE  FlowInv'
<1> USE DEF FlowInv
<1>1. flowAsk[p] \in FlowAsk /\ AskFits(flowAsk[p], starts, lastStart, asked) /\ NoAsk \in FlowAsk
  BY NewAsks DEF FlowStartsTypeOK, AsksFit
<1>2. PICK ask \in FlowAsk : ask = [flowAsk[p] EXCEPT !.at = "open",
     !.ending = IF ignores THEN {} ELSE AwaitingAny]
  <2>1. AwaitingAny \in SUBSET StartIds /\ "open" \in FlowPlaces
    BY DEF AwaitingAny, Awaiting, Committed, FlowPlaces
  <2>2. QED
    BY <1>1, <2>1, AskEdits
<1>3. flowAsk' = [flowAsk EXCEPT ![p] = ask]
  BY <1>1, <1>2, Zenon DEF EndOthers, IsAt, AwaitingAny, Awaiting, Committed, flowRows, flowHistory
<1>4. AskFits(ask, starts', lastStart', asked')
  <2>1. \A n \in AwaitingAny : starts[n] # NoStart
    BY DEF AwaitingAny, Awaiting, Committed
  <2>2. QED
    BY <1>1, <1>2, <2>1 DEF EndOthers, IsAt, flowRows, flowHistory, AskFits, MessageFits, StartFits,
       TicketFits, EndingFits, HasRow, WindowAsked, FlowAsk
<1>5. AsksFit' /\ flowAsk' \in [FlowRequests -> FlowAsk]
  <2>1. /\ lastStart' \in Nat /\ lastStart <= lastStart' /\ asked \subseteq asked'
        /\ UNCHANGED starts
    BY DEF EndOthers, IsAt, AwaitingAny, Awaiting, Committed, flowRows, flowHistory,
         FlowStartsTypeOK
  <2>2. ask.is = "ticket" => HasContact(p) \/ ContactFree(p)
    BY <1>1, <1>2 DEF EndOthers, IsAt, AwaitingAny, Awaiting, Committed, flowRows, flowHistory,
         HasContact, NoAsk, FlowAsk
  <2>3. HasRow(ask) => \/ HasRow(flowAsk[p]) /\ flowAsk[p].start = ask.start
                       \/ ask.start > lastStart
    BY <1>1, <1>2 DEF EndOthers, IsAt, AwaitingAny, Awaiting, Committed, flowRows, flowHistory,
         HasRow, WindowAsked, NoAsk, FlowAsk, FlowStartsTypeOK
  <2>4. QED
    BY <1>3, <1>4, <2>1, <2>2, <2>3, AskMoves
<1>6. FlowStartsTypeOK'
  BY <1>1, <1>5 DEF EndOthers, IsAt, AwaitingAny, Awaiting, Committed, flowRows, flowHistory,
       FlowStartsTypeOK
<1>7. QED
  BY <1>5, <1>6

LEMMA SendInWindowFits ==
  ASSUME FlowInv, NEW p \in FlowRequests, SendInWindow(p)
  PROVE  FlowInv'
<1> USE DEF FlowInv
<1>1. flowAsk[p] \in FlowAsk /\ AskFits(flowAsk[p], starts, lastStart, asked) /\ NoAsk \in FlowAsk
  BY NewAsks DEF FlowStartsTypeOK, AsksFit
<1>2. PICK ask \in FlowAsk : ask = NoAsk
  BY <1>1, AskEdits, NewAsks DEF SendInWindow, IsAt, FlowDone, FlowPlaces, FlowStartsTypeOK
<1>3. flowAsk' = [flowAsk EXCEPT ![p] = ask]
  BY <1>1, <1>2, Zenon DEF SendInWindow, IsAt, FlowDone
<1>4. AskFits(ask, starts', lastStart', asked')
  BY <1>1, <1>2 DEF SendInWindow, IsAt, FlowDone, AskFits, MessageFits, StartFits, TicketFits,
       EndingFits, HasRow,
     WindowAsked, NoAsk, FlowAsk, Committed, FlowStartsTypeOK
<1>5. AsksFit' /\ flowAsk' \in [FlowRequests -> FlowAsk]
  <2>1. /\ lastStart' \in Nat /\ lastStart <= lastStart' /\ asked \subseteq asked'
        /\ UNCHANGED starts
    BY DEF SendInWindow, IsAt, FlowDone, FlowStartsTypeOK
  <2>2. ask.is = "ticket" => HasContact(p) \/ ContactFree(p)
    BY <1>1, <1>2 DEF SendInWindow, IsAt, FlowDone, HasContact, NoAsk, FlowAsk
  <2>3. HasRow(ask) => \/ HasRow(flowAsk[p]) /\ flowAsk[p].start = ask.start
                       \/ ask.start > lastStart
    BY <1>1, <1>2 DEF SendInWindow, IsAt, FlowDone, HasRow, WindowAsked, NoAsk, FlowAsk,
         FlowStartsTypeOK
  <2>4. QED
    BY <1>3, <1>4, <2>1, <2>2, <2>3, AskMoves
<1>6. FlowStartsTypeOK'
  BY <1>1, <1>5 DEF SendInWindow, IsAt, FlowDone, FlowStartsTypeOK
<1>7. QED
  BY <1>5, <1>6

LEMMA RefuseOutsideFits ==
  ASSUME FlowInv, NEW p \in FlowRequests, RefuseOutside(p)
  PROVE  FlowInv'
<1> USE DEF FlowInv
<1>1. flowAsk[p] \in FlowAsk /\ AskFits(flowAsk[p], starts, lastStart, asked) /\ NoAsk \in FlowAsk
  BY NewAsks DEF FlowStartsTypeOK, AsksFit
<1>2. PICK ask \in FlowAsk : ask = NoAsk
  BY <1>1, AskEdits, NewAsks DEF RefuseOutside, IsAt, flowRows, FlowDone, FlowPlaces,
       FlowStartsTypeOK
<1>3. flowAsk' = [flowAsk EXCEPT ![p] = ask]
  BY <1>1, <1>2, Zenon DEF RefuseOutside, IsAt, flowRows, FlowDone
<1>4. AskFits(ask, starts', lastStart', asked')
  BY <1>1, <1>2 DEF RefuseOutside, IsAt, flowRows, FlowDone, AskFits, MessageFits, StartFits,
       TicketFits, EndingFits, HasRow,
     WindowAsked, NoAsk, FlowAsk, Committed, FlowStartsTypeOK
<1>5. AsksFit' /\ flowAsk' \in [FlowRequests -> FlowAsk]
  <2>1. /\ lastStart' \in Nat /\ lastStart <= lastStart' /\ asked \subseteq asked'
        /\ UNCHANGED starts
    BY DEF RefuseOutside, IsAt, flowRows, FlowDone, FlowStartsTypeOK
  <2>2. ask.is = "ticket" => HasContact(p) \/ ContactFree(p)
    BY <1>1, <1>2 DEF RefuseOutside, IsAt, flowRows, FlowDone, HasContact, NoAsk, FlowAsk
  <2>3. HasRow(ask) => \/ HasRow(flowAsk[p]) /\ flowAsk[p].start = ask.start
                       \/ ask.start > lastStart
    BY <1>1, <1>2 DEF RefuseOutside, IsAt, flowRows, FlowDone, HasRow, WindowAsked, NoAsk, FlowAsk,
         FlowStartsTypeOK
  <2>4. QED
    BY <1>3, <1>4, <2>1, <2>2, <2>3, AskMoves
<1>6. FlowStartsTypeOK'
  BY <1>1, <1>5 DEF RefuseOutside, IsAt, flowRows, FlowDone, FlowStartsTypeOK
<1>7. QED
  BY <1>5, <1>6

LEMMA FailStartFits ==
  ASSUME FlowInv, NEW p \in FlowRequests, FailStart(p)
  PROVE  FlowInv'
<1> USE DEF FlowInv
<1>1. flowAsk[p] \in FlowAsk /\ AskFits(flowAsk[p], starts, lastStart, asked) /\ NoAsk \in FlowAsk
  BY NewAsks DEF FlowStartsTypeOK, AsksFit
<1>2. PICK ask \in FlowAsk : ask = NoAsk
  BY <1>1, AskEdits, NewAsks DEF FailStart, IsAt, flowRows, flowHistory, FlowDone, FlowPlaces,
       FlowStartsTypeOK
<1>3. flowAsk' = [flowAsk EXCEPT ![p] = ask]
  BY <1>1, <1>2, Zenon DEF FailStart, IsAt, flowRows, flowHistory, FlowDone
<1>4. AskFits(ask, starts', lastStart', asked')
  BY <1>1, <1>2 DEF FailStart, IsAt, flowRows, flowHistory, FlowDone, AskFits, MessageFits,
       StartFits, TicketFits, EndingFits, HasRow,
     WindowAsked, NoAsk, FlowAsk, Committed, FlowStartsTypeOK
<1>5. AsksFit' /\ flowAsk' \in [FlowRequests -> FlowAsk]
  <2>1. /\ lastStart' \in Nat /\ lastStart <= lastStart' /\ asked \subseteq asked'
        /\ UNCHANGED starts
    BY DEF FailStart, IsAt, flowRows, flowHistory, FlowDone, FlowStartsTypeOK
  <2>2. ask.is = "ticket" => HasContact(p) \/ ContactFree(p)
    BY <1>1, <1>2 DEF FailStart, IsAt, flowRows, flowHistory, FlowDone, HasContact, NoAsk, FlowAsk
  <2>3. HasRow(ask) => \/ HasRow(flowAsk[p]) /\ flowAsk[p].start = ask.start
                       \/ ask.start > lastStart
    BY <1>1, <1>2 DEF FailStart, IsAt, flowRows, flowHistory, FlowDone, HasRow, WindowAsked, NoAsk,
         FlowAsk, FlowStartsTypeOK
  <2>4. QED
    BY <1>3, <1>4, <2>1, <2>2, <2>3, AskMoves
<1>6. FlowStartsTypeOK'
  BY <1>1, <1>5 DEF FailStart, IsAt, flowRows, flowHistory, FlowDone, FlowStartsTypeOK
<1>7. QED
  BY <1>5, <1>6

LEMMA RefuseAttachFits ==
  ASSUME FlowInv, NEW p \in FlowRequests, RefuseAttach(p)
  PROVE  FlowInv'
<1> USE DEF FlowInv
<1>1. flowAsk[p] \in FlowAsk /\ AskFits(flowAsk[p], starts, lastStart, asked) /\ NoAsk \in FlowAsk
  BY NewAsks DEF FlowStartsTypeOK, AsksFit
<1>2. PICK ask \in FlowAsk : ask = NoAsk
  BY <1>1, AskEdits, NewAsks DEF RefuseAttach, IsAt, flowRows, flowHistory, FlowDone, FlowPlaces,
       FlowStartsTypeOK
<1>3. flowAsk' = [flowAsk EXCEPT ![p] = ask]
  BY <1>1, <1>2, Zenon DEF RefuseAttach, IsAt, flowRows, flowHistory, FlowDone
<1>4. AskFits(ask, starts', lastStart', asked')
  BY <1>1, <1>2 DEF RefuseAttach, IsAt, flowRows, flowHistory, FlowDone, AskFits, MessageFits,
       StartFits, TicketFits, EndingFits, HasRow,
     WindowAsked, NoAsk, FlowAsk, Committed, FlowStartsTypeOK
<1>5. AsksFit' /\ flowAsk' \in [FlowRequests -> FlowAsk]
  <2>1. /\ lastStart' \in Nat /\ lastStart <= lastStart' /\ asked \subseteq asked'
        /\ UNCHANGED starts
    BY DEF RefuseAttach, IsAt, flowRows, flowHistory, FlowDone, FlowStartsTypeOK
  <2>2. ask.is = "ticket" => HasContact(p) \/ ContactFree(p)
    BY <1>1, <1>2 DEF RefuseAttach, IsAt, flowRows, flowHistory, FlowDone, HasContact, NoAsk,
         FlowAsk
  <2>3. HasRow(ask) => \/ HasRow(flowAsk[p]) /\ flowAsk[p].start = ask.start
                       \/ ask.start > lastStart
    BY <1>1, <1>2 DEF RefuseAttach, IsAt, flowRows, flowHistory, FlowDone, HasRow, WindowAsked,
         NoAsk, FlowAsk, FlowStartsTypeOK
  <2>4. QED
    BY <1>3, <1>4, <2>1, <2>2, <2>3, AskMoves
<1>6. FlowStartsTypeOK'
  BY <1>1, <1>5 DEF RefuseAttach, IsAt, flowRows, flowHistory, FlowDone, FlowStartsTypeOK
<1>7. QED
  BY <1>5, <1>6

LEMMA RefuseTicketFits ==
  ASSUME FlowInv, NEW p \in FlowRequests, RefuseTicket(p)
  PROVE  FlowInv'
<1> USE DEF FlowInv
<1>1. flowAsk[p] \in FlowAsk /\ AskFits(flowAsk[p], starts, lastStart, asked) /\ NoAsk \in FlowAsk
  BY NewAsks DEF FlowStartsTypeOK, AsksFit
<1>2. PICK ask \in FlowAsk : ask = NoAsk
  BY <1>1, AskEdits, NewAsks DEF RefuseTicket, IsAt, flowRows, flowHistory, FlowDone, FlowPlaces,
       FlowStartsTypeOK
<1>3. flowAsk' = [flowAsk EXCEPT ![p] = ask]
  BY <1>1, <1>2, Zenon DEF RefuseTicket, IsAt, flowRows, flowHistory, FlowDone
<1>4. AskFits(ask, starts', lastStart', asked')
  BY <1>1, <1>2 DEF RefuseTicket, IsAt, flowRows, flowHistory, FlowDone, AskFits, MessageFits,
       StartFits, TicketFits, EndingFits, HasRow,
     WindowAsked, NoAsk, FlowAsk, Committed, FlowStartsTypeOK
<1>5. AsksFit' /\ flowAsk' \in [FlowRequests -> FlowAsk]
  <2>1. /\ lastStart' \in Nat /\ lastStart <= lastStart' /\ asked \subseteq asked'
        /\ UNCHANGED starts
    BY DEF RefuseTicket, IsAt, flowRows, flowHistory, FlowDone, FlowStartsTypeOK
  <2>2. ask.is = "ticket" => HasContact(p) \/ ContactFree(p)
    BY <1>1, <1>2 DEF RefuseTicket, IsAt, flowRows, flowHistory, FlowDone, HasContact, NoAsk,
         FlowAsk
  <2>3. HasRow(ask) => \/ HasRow(flowAsk[p]) /\ flowAsk[p].start = ask.start
                       \/ ask.start > lastStart
    BY <1>1, <1>2 DEF RefuseTicket, IsAt, flowRows, flowHistory, FlowDone, HasRow, WindowAsked,
         NoAsk, FlowAsk, FlowStartsTypeOK
  <2>4. QED
    BY <1>3, <1>4, <2>1, <2>2, <2>3, AskMoves
<1>6. FlowStartsTypeOK'
  BY <1>1, <1>5 DEF RefuseTicket, IsAt, flowRows, flowHistory, FlowDone, FlowStartsTypeOK
<1>7. QED
  BY <1>5, <1>6

LEMMA SaveAnsweredFits ==
  ASSUME FlowInv, NEW p \in FlowRequests, SaveAnswered(p)
  PROVE  FlowInv'
<1> USE DEF FlowInv
<1>1. flowAsk[p] \in FlowAsk /\ AskFits(flowAsk[p], starts, lastStart, asked) /\ NoAsk \in FlowAsk
  BY NewAsks DEF FlowStartsTypeOK, AsksFit
<1>2. PICK ask \in FlowAsk : ask = NoAsk
  BY <1>1, AskEdits, NewAsks DEF SaveAnswered, IsAt, FlowDone, flowHistory, FlowPlaces,
       FlowStartsTypeOK
<1>3. flowAsk' = [flowAsk EXCEPT ![p] = ask]
  BY <1>1, <1>2, Zenon DEF SaveAnswered, IsAt, FlowDone, flowHistory
<1>4. AskFits(ask, starts', lastStart', asked')
  BY <1>1, <1>2 DEF SaveAnswered, IsAt, FlowDone, flowHistory, AskFits, MessageFits, StartFits,
       TicketFits, EndingFits, HasRow,
     WindowAsked, NoAsk, FlowAsk, Committed, FlowStartsTypeOK
<1>5. AsksFit' /\ flowAsk' \in [FlowRequests -> FlowAsk]
  <2>1. /\ lastStart' \in Nat /\ lastStart <= lastStart' /\ asked \subseteq asked'
        /\ UNCHANGED starts
    BY DEF SaveAnswered, IsAt, FlowDone, flowHistory, FlowStartsTypeOK
  <2>2. ask.is = "ticket" => HasContact(p) \/ ContactFree(p)
    BY <1>1, <1>2 DEF SaveAnswered, IsAt, FlowDone, flowHistory, HasContact, NoAsk, FlowAsk
  <2>3. HasRow(ask) => \/ HasRow(flowAsk[p]) /\ flowAsk[p].start = ask.start
                       \/ ask.start > lastStart
    BY <1>1, <1>2 DEF SaveAnswered, IsAt, FlowDone, flowHistory, HasRow, WindowAsked, NoAsk,
         FlowAsk, FlowStartsTypeOK
  <2>4. QED
    BY <1>3, <1>4, <2>1, <2>2, <2>3, AskMoves
<1>6. FlowStartsTypeOK'
  <2>1. flowRoom' \in [FlowRooms -> FlowRoom]
    BY RoomEdits DEF SaveAnswered, FlowStartsTypeOK
  <2>2. QED
    BY <1>5, <2>1 DEF SaveAnswered, flowHistory, FlowStartsTypeOK
<1>7. QED
  BY <1>5, <1>6

LEMMA ClearWindowFits ==
  ASSUME FlowInv, NEW p \in FlowRequests, ClearWindow(p)
  PROVE  FlowInv'
<1> USE DEF FlowInv
<1>1. flowAsk[p] \in FlowAsk /\ AskFits(flowAsk[p], starts, lastStart, asked) /\ NoAsk \in FlowAsk
  BY NewAsks DEF FlowStartsTypeOK, AsksFit
<1>2. PICK ask \in FlowAsk :
          ask = IF flowAsk[p].waiting THEN [flowAsk[p] EXCEPT !.at = "answered"] ELSE NoAsk
  BY <1>1, AskEdits DEF FlowPlaces
<1>3. flowAsk' = [flowAsk EXCEPT ![p] = ask]
  <2>1. CASE flowAsk[p].waiting
    BY <1>1, <1>2, <2>1 DEF ClearWindow, FlowGo, FlowStartsTypeOK
  <2>2. CASE ~flowAsk[p].waiting
    BY <1>1, <1>2, <2>2 DEF ClearWindow, FlowDone, FlowStartsTypeOK
  <2>3. QED
    BY <2>1, <2>2
<1>4. AskFits(ask, starts', lastStart', asked')
  BY <1>1, <1>2 DEF ClearWindow, IsAt, flowHistory, AskFits, MessageFits, StartFits, TicketFits,
     EndingFits, HasRow, WindowAsked, NoAsk, FlowAsk
<1>5. AsksFit' /\ flowAsk' \in [FlowRequests -> FlowAsk]
  <2>1. /\ lastStart' \in Nat /\ lastStart <= lastStart' /\ asked \subseteq asked'
        /\ UNCHANGED starts
    BY DEF ClearWindow, flowHistory, FlowStartsTypeOK
  <2>2. ask.is # "ticket" /\ ~HasRow(ask)
    BY <1>1, <1>2 DEF ClearWindow, IsAt, HasRow, NoAsk, FlowAsk
  <2>3. QED
    BY <1>3, <1>4, <2>1, <2>2, AskMoves
<1>6. FlowStartsTypeOK'
  BY <1>1, <1>5 DEF ClearWindow, flowHistory, FlowStartsTypeOK
<1>7. QED
  BY <1>5, <1>6

LEMMA FindRoomFits ==
  ASSUME FlowInv, NEW p \in FlowRequests, FindRoom(p)
  PROVE  FlowInv'
<1> USE DEF FlowInv
<1>1. flowAsk[p] \in FlowAsk /\ AskFits(flowAsk[p], starts, lastStart, asked) /\ IsAt(p, "ticket",
     "find")
  BY DEF FlowStartsTypeOK, AsksFit, FindRoom
<1>2. PICK n \in Newest(Awaiting(flowAsk[p].flow)) :
          IF flowRoom[starts[n].room].is = "open"
          THEN flowAsk' = [flowAsk EXCEPT ![p].at = "attach", ![p].start = n,
                                          ![p].room = starts[n].room]
          ELSE FlowGo(p, "open")
  BY DEF FindRoom
<1>3. /\ n \in StartIds /\ starts[n] # NoStart /\ ~starts[n].deleted
      /\ starts[n].room \in WhatsAppRooms /\ WhatsAppRooms \subseteq FlowRooms
  BY FlowStartsAssumption DEF Newest, Awaiting, Committed, AsksFit
<1>4. PICK ask \in FlowAsk :
          ask = IF flowRoom[starts[n].room].is = "open"
                THEN [flowAsk[p] EXCEPT !.at = "attach", !.start = n, !.room = starts[n].room]
                ELSE [flowAsk[p] EXCEPT !.at = "open"]
  <2>1. "attach" \in FlowPlaces /\ "open" \in FlowPlaces
    BY DEF FlowPlaces
  <2>2. QED
    BY <1>1, <1>3, <2>1, AskEdits
<1>5. flowAsk' = [flowAsk EXCEPT ![p] = ask]
  <2>1. CASE flowRoom[starts[n].room].is = "open"
    BY <1>1, <1>2, <1>4, <2>1 DEF FlowStartsTypeOK
  <2>2. CASE flowRoom[starts[n].room].is # "open"
    BY <1>1, <1>2, <1>4, <2>2 DEF FlowGo, FlowStartsTypeOK
  <2>3. QED
    BY <2>1, <2>2
<1>6. AskFits(ask, starts', lastStart', asked')
  BY <1>1, <1>3, <1>4 DEF FindRoom, IsAt, flowRows, flowHistory, AskFits, MessageFits, StartFits,
     TicketFits, EndingFits, HasRow, WindowAsked, FlowAsk
<1>7. AsksFit' /\ flowAsk' \in [FlowRequests -> FlowAsk]
  <2>1. /\ lastStart' \in Nat /\ lastStart <= lastStart' /\ asked \subseteq asked'
        /\ UNCHANGED starts
    BY DEF FindRoom, flowRows, flowHistory, FlowStartsTypeOK
  <2>2. HasContact(p) /\ ~HasRow(ask)
    BY <1>1, <1>4 DEF IsAt, HasContact, HasRow, FlowAsk
  <2>3. QED
    BY <1>5, <1>6, <2>1, <2>2, AskMoves
<1>8. FlowStartsTypeOK'
  BY <1>1, <1>7 DEF FindRoom, flowRows, flowHistory, FlowStartsTypeOK
<1>9. QED
  BY <1>7, <1>8

\* A request ends, and the rows of starts change: those that are held by others do not.
LEMMA RowsMove ==
  ASSUME FlowInv, NEW p \in FlowRequests, FlowDone(p),
         starts' \in [StartIds -> FlowStart \cup {NoStart}], UNCHANGED <<lastStart, asked>>,
         \A n \in StartIds : \/ starts'[n] = starts[n]
                             \/ HasRow(flowAsk[p]) /\ n = flowAsk[p].start
                             \/ HasContact(p) /\ starts[n] # NoStart /\ starts'[n] # NoStart
                                    /\ starts'[n].room = starts[n].room,
         \A n \in Committed' : n <= lastStart /\ starts'[n].room \in WhatsAppRooms \cup {NotARoom}
  PROVE  AsksFit' /\ flowAsk' \in [FlowRequests -> FlowAsk]
<1> USE DEF FlowInv
<1>1. /\ flowAsk' \in [FlowRequests -> FlowAsk] /\ flowAsk'[p] = NoAsk
      /\ \A o \in FlowRequests \ {p} : flowAsk'[o] = flowAsk[o]
  BY NewAsks DEF FlowDone, FlowStartsTypeOK
<1>2. ASSUME NEW o \in FlowRequests \ {p} PROVE AskFits(flowAsk[o], starts', lastStart', asked')
  <2>1. AskFits(flowAsk[o], starts, lastStart, asked) /\ flowAsk[o] \in FlowAsk
    BY DEF AsksFit, FlowStartsTypeOK
  <2>2. 1..lastStart \subseteq StartIds
    BY FlowStartsAssumption DEF FlowStartsTypeOK, StartIds
  <2>3. HasRow(flowAsk[o]) => starts'[flowAsk[o].start] = NoStart
    BY <2>1, <2>2 DEF AsksFit, AskFits, StartFits, HasRow
  <2>4. flowAsk[o].is = "ticket" /\ flowAsk[o].at = "attach"
            => starts'[flowAsk[o].start] = starts[flowAsk[o].start]
    <3>1. ASSUME flowAsk[o].is = "ticket", flowAsk[o].at = "attach"
          PROVE  /\ ~HasContact(p) /\ flowAsk[o].start \in StartIds
                 /\ starts[flowAsk[o].start] # NoStart
      BY <2>1, <3>1 DEF AsksFit, HasContact, AskFits, TicketFits
    <3>2. HasRow(flowAsk[p]) => starts[flowAsk[p].start] = NoStart
      BY DEF AsksFit, AskFits, StartFits, HasRow
    <3>3. QED
      BY <3>1, <3>2
  <2>5. \A n \in flowAsk[o].ending : starts'[n] # NoStart
    <3>1. flowAsk[o].ending \subseteq StartIds /\ \A n \in flowAsk[o].ending : starts[n] # NoStart
      BY <2>1 DEF AskFits, EndingFits, FlowAsk
    <3>2. HasRow(flowAsk[p]) => starts[flowAsk[p].start] = NoStart
      BY DEF AsksFit, AskFits, StartFits, HasRow
    <3>3. QED
      BY <3>1, <3>2
  <2>6. QED
    BY <2>1, <2>3, <2>4, <2>5 DEF AskFits, StartFits, TicketFits, EndingFits
<1>3. AskFits(NoAsk, starts', lastStart', asked') /\ NoAsk.is = "none"
  BY NoAskFits DEF NoAsk
<1>4. \A o \in FlowRequests : AskFits(flowAsk'[o], starts', lastStart', asked')
  BY <1>1, <1>2, <1>3
<1>5. ASSUME NEW o \in FlowRequests, NEW q \in FlowRequests, HasContact(o)', HasContact(q)'
      PROVE  o = q
  BY <1>1, <1>3, <1>5 DEF AsksFit, HasContact
<1>6. ASSUME NEW o \in FlowRequests, NEW q \in FlowRequests, HasRow(flowAsk'[o]),
     HasRow(flowAsk'[q]),
             flowAsk'[o].start = flowAsk'[q].start
      PROVE  o = q
  BY <1>1, <1>3, <1>6 DEF AsksFit, HasRow
<1>7. QED
  BY <1>1, <1>4, <1>5, <1>6 DEF AsksFit

LEMMA CommitStartFits ==
  ASSUME FlowInv, NEW p \in FlowRequests, CommitStart(p)
  PROVE  FlowInv'
<1> USE DEF FlowInv
<1> DEFINE ask == flowAsk[p]
           entry == [flow |-> ask.flow, room |-> ask.room, deleted |-> FALSE]
<1>1. /\ ask \in FlowAsk /\ HasRow(ask) /\ starts' = [starts EXCEPT ![ask.start] = entry] /\ FlowDone(p)
  BY DEF FlowStartsTypeOK, CommitStart, IsAt, HasRow
<1>2. /\ ask.flow \in Flows /\ ask.room \in WhatsAppRooms \cup {NotARoom}
      /\ ask.waiting => ask.room \in WhatsAppRooms
      /\ ask.start \in 1..lastStart
  <2>1. AskFits(ask, starts, lastStart, asked) /\ ask.is = "start"
    BY <1>1 DEF AsksFit, HasRow
  <2>2. QED
    BY <1>1, <2>1 DEF AskFits, StartFits
<1>3. entry \in FlowStart /\ NoStart \notin FlowStart
  BY <1>2, FlowStartsAssumption, StartEdits
<1>4. starts' \in [StartIds -> FlowStart \cup {NoStart}]
  BY <1>1, <1>3 DEF FlowStartsTypeOK
<1>5. AsksFit' /\ flowAsk' \in [FlowRequests -> FlowAsk]
  <2>1. UNCHANGED <<lastStart, asked>>
    BY DEF CommitStart
  <2>2. \A n \in StartIds : starts'[n] = starts[n] \/ (HasRow(flowAsk[p]) /\ n = flowAsk[p].start)
    BY <1>1 DEF FlowStartsTypeOK
  <2>3. \A n \in Committed' : n <= lastStart /\ starts'[n].room \in WhatsAppRooms \cup {NotARoom}
    <3>1. ASSUME NEW n \in StartIds, starts'[n] # NoStart
          PROVE  n <= lastStart /\ starts'[n].room \in WhatsAppRooms \cup {NotARoom}
      <4>1. CASE n = ask.start
        BY <1>1, <1>2, <1>3, <4>1 DEF FlowStartsTypeOK
      <4>2. CASE n # ask.start
        BY <1>1, <3>1, <4>2 DEF FlowStartsTypeOK, AsksFit, Committed
      <4>3. QED
        BY <4>1, <4>2
    <3>2. QED
      BY <3>1 DEF Committed
  <2>4. QED
    BY <1>1, <1>4, <2>1, <2>2, <2>3, RowsMove
<1>6. flowRoom' \in [FlowRooms -> FlowRoom]
  BY <1>2, RoomEdits DEF CommitStart, FlowStartsTypeOK
<1>7. crossedStarts' \subseteq FlowRooms
  BY DEF CommitStart, FlowStartsTypeOK
<1>8. FlowStartsTypeOK'
  BY <1>4, <1>5, <1>6, <1>7 DEF CommitStart, FlowStartsTypeOK
<1>9. QED
  BY <1>5, <1>8

LEMMA AttachTicketFits ==
  ASSUME FlowInv, NEW p \in FlowRequests, NEW answers \in BOOLEAN, AttachTicket(p, answers)
  PROVE  FlowInv'
<1> USE DEF FlowInv
<1> DEFINE ask == flowAsk[p]
<1>1. /\ ask \in FlowAsk /\ IsAt(p, "ticket", "attach") /\ FlowDone(p)
      /\ starts' = [starts EXCEPT ![ask.start].deleted = TRUE]
  BY DEF FlowStartsTypeOK, AttachTicket
<1>2. /\ ask.start \in StartIds /\ starts[ask.start] # NoStart /\ ~starts[ask.start].deleted
      /\ ask.room \in WhatsAppRooms
  BY <1>1 DEF AsksFit, AskFits, TicketFits, IsAt
<1>3. starts[ask.start] \in FlowStart /\ [starts[ask.start] EXCEPT !.deleted = TRUE] \in FlowStart
  BY <1>2, StartEdits DEF FlowStartsTypeOK
<1>4. /\ starts' = [starts EXCEPT ![ask.start] = [starts[ask.start] EXCEPT !.deleted = TRUE]]
      /\ starts' \in [StartIds -> FlowStart \cup {NoStart}]
  BY <1>1, <1>3 DEF FlowStartsTypeOK
<1>5. AsksFit' /\ flowAsk' \in [FlowRequests -> FlowAsk]
  <2>1. UNCHANGED <<lastStart, asked>> /\ HasContact(p)
    BY <1>1 DEF AttachTicket, IsAt, HasContact
  <2>2. /\ starts'[ask.start] = [starts[ask.start] EXCEPT !.deleted = TRUE]
        /\ \A n \in StartIds \ {ask.start} : starts'[n] = starts[n]
    BY <1>2, <1>4 DEF FlowStartsTypeOK
  <2>3. starts'[ask.start] # NoStart /\ starts'[ask.start].room = starts[ask.start].room
    BY <1>3, <2>2, StartEdits DEF FlowStart
  <2>4. \A n \in StartIds : \/ starts'[n] = starts[n]
                            \/ HasContact(p) /\ starts[n] # NoStart /\ starts'[n] # NoStart
                                   /\ starts'[n].room = starts[n].room
    BY <1>2, <2>1, <2>2, <2>3
  <2>5. \A n \in Committed' : n <= lastStart /\ starts'[n].room \in WhatsAppRooms \cup {NotARoom}
    BY <2>4 DEF AsksFit, Committed
  <2>6. QED
    BY <1>1, <1>4, <2>1, <2>4, <2>5, RowsMove
<1>6. flowRoom' \in [FlowRooms -> FlowRoom] /\ window' \subseteq WhatsAppRooms
  BY <1>2, RoomEdits DEF AttachTicket, FlowStartsTypeOK
<1>7. attachedLate' \in BOOLEAN
  BY <1>2 DEF AttachTicket, FlowStartsTypeOK
<1>8. FlowStartsTypeOK'
  BY <1>4, <1>5, <1>6, <1>7 DEF AttachTicket, FlowStartsTypeOK
<1>9. QED
  BY <1>5, <1>8

LEMMA OpenTicketFits ==
  ASSUME FlowInv, NEW p \in FlowRequests, NEW made \in FlowRooms, NEW since \in 0..lastStart,
         NEW online \in BOOLEAN, OpenTicket(p, made, since, online)
  PROVE  FlowInv'
<1> USE DEF FlowInv
<1>1. /\ flowAsk[p] \in FlowAsk /\ IsAt(p, "ticket", "open") /\ FlowDone(p)
      /\ starts' = [n \in StartIds |->
             IF n \in flowAsk[p].ending THEN [starts[n] EXCEPT !.deleted = TRUE] ELSE starts[n]]
  BY DEF FlowStartsTypeOK, OpenTicket
<1>2. \A n \in flowAsk[p].ending : starts[n] # NoStart /\ n \in StartIds
  BY <1>1 DEF AsksFit, AskFits, EndingFits, FlowAsk
<1>3. ASSUME NEW n \in flowAsk[p].ending
      PROVE  /\ starts'[n] \in FlowStart /\ starts'[n] # NoStart
             /\ starts'[n].room = starts[n].room
  <2>1. starts[n] \in FlowStart /\ starts'[n] = [starts[n] EXCEPT !.deleted = TRUE]
    BY <1>1, <1>2 DEF FlowStartsTypeOK
  <2>2. QED
    BY <2>1, StartEdits DEF FlowStart
<1>4. starts' \in [StartIds -> FlowStart \cup {NoStart}]
  BY <1>1, <1>3 DEF FlowStartsTypeOK
<1>5. AsksFit' /\ flowAsk' \in [FlowRequests -> FlowAsk]
  <2>1. UNCHANGED <<lastStart, asked>> /\ HasContact(p)
    BY <1>1 DEF OpenTicket, IsAt, HasContact, flowHistory
  <2>2. \A n \in StartIds : \/ starts'[n] = starts[n]
                            \/ HasContact(p) /\ starts[n] # NoStart /\ starts'[n] # NoStart
                                   /\ starts'[n].room = starts[n].room
    BY <1>1, <1>2, <1>3, <2>1
  <2>3. \A n \in Committed' : n <= lastStart /\ starts'[n].room \in WhatsAppRooms \cup {NotARoom}
    BY <2>2 DEF AsksFit, Committed
  <2>4. QED
    BY <1>1, <1>4, <2>1, <2>2, <2>3, RowsMove
<1>6. flowRoom' \in [FlowRooms -> FlowRoom]
  <2>1. PICK last \in LastOf(flowAsk[p].flow) :
           flowRoom' = [r \in FlowRooms |->
               IF r = made
               THEN [is |-> "open", waiting |-> FALSE, since |-> since,
                     by |-> IF Hands(last, online) /\ last <= since THEN last ELSE NoStart]
               ELSE IF r \in EndingRooms(p) /\ flowRoom[r].is = "open"
               THEN [flowRoom[r] EXCEPT !.is = "closed"]
               ELSE flowRoom[r]]
    BY DEF OpenTicket
  <2>2. last \in StartIds \cup {NoStart} /\ since \in 0..MaxStarts
    BY FlowStartsAssumption DEF LastOf, Newest, Committed, FlowStartsTypeOK
  <2>3. (IF Hands(last, online) /\ last <= since THEN last ELSE NoStart) \in StartIds \cup {NoStart}
    BY <2>2
  <2>4. [is |-> "open", waiting |-> FALSE, since |-> since,
         by |-> IF Hands(last, online) /\ last <= since THEN last ELSE NoStart] \in FlowRoom
    BY <2>2, <2>3 DEF FlowRoom
  <2>5. \A r \in FlowRooms : flowRoom[r] \in FlowRoom /\ [flowRoom[r] EXCEPT !.is = "closed"] \in FlowRoom
    BY RoomEdits DEF FlowStartsTypeOK
  <2>6. QED
    BY <2>1, <2>4, <2>5
<1>7. window' \subseteq WhatsAppRooms
  BY DEF OpenTicket, FlowStartsTypeOK
<1>8. FlowStartsTypeOK'
  BY <1>4, <1>5, <1>6, <1>7 DEF OpenTicket, flowHistory, FlowStartsTypeOK
<1>9. QED
  BY <1>5, <1>8

LEMMA OutsideFits ==
  ASSUME FlowInv,
         \/ \E r \in WhatsAppRooms : ExpireWindow(r) \/ CloseDay(r)
         \/ \E r \in FlowRooms : CloseFlowRoom(r)
         \/ UNCHANGED flowVars
  PROVE  FlowInv'
<1> USE DEF FlowInv
<1>1. UNCHANGED <<starts, lastStart, flowAsk, asked>>
  BY DEF ExpireWindow, CloseDay, CloseFlowRoom, flowVars, flowHistory
<1>2. AsksFit'
  BY <1>1 DEF AsksFit, HasContact, Committed
<1>3. /\ flowRoom' \in [FlowRooms -> FlowRoom] /\ window' \subseteq WhatsAppRooms
      /\ windowKey' \in [WhatsAppRooms -> {"none", "valid", "over"}] /\ shut' \subseteq FlowRequests
      /\ UNCHANGED <<attachedLate, wronged, crossedStarts>>
  BY RoomEdits DEF FlowStartsTypeOK, ExpireWindow, CloseDay, CloseFlowRoom, flowVars, flowHistory
<1>4. QED
  BY <1>1, <1>2, <1>3 DEF FlowStartsTypeOK

LEMMA FlowsStillFit == FlowInv /\ [FlowStartsNext]_flowVars => FlowInv'
<1> SUFFICES ASSUME FlowInv, [FlowStartsNext]_flowVars PROVE FlowInv'
  OBVIOUS
<1>1. ASSUME NEW p \in FlowRequests, FlowStep(p) PROVE FlowInv'
  <2>1. CASE HitWindow(p) \/ QueryWindow(p) \/ FillWindow(p)
    BY <2>1, HitWindowFits, QueryWindowFits, FillWindowFits
  <2>2. CASE \E r \in WhatsAppRooms : BeginMessage(p, r) \/ BeginAnswer(p, r)
    BY <2>2, BeginMessageFits, BeginAnswerFits
  <2>3. CASE \/ SendInWindow(p) \/ RefuseOutside(p)
             \/ InsertAnswer(p) \/ ClearWindow(p) \/ SaveAnswered(p)
    BY <2>3, SendInWindowFits, RefuseOutsideFits, InsertAnswerFits, ClearWindowFits,
         SaveAnsweredFits
  <2>4. CASE \E f \in Flows : StartAlone(p, f) \/ \E r \in WhatsAppRooms : BeginStart(p, r, f)
    BY <2>4, StartAloneFits, BeginStartFits
  <2>5. CASE InWindow(p) \/ InsertStart(p) \/ AskFlows(p) \/ FailStart(p) \/ CommitStart(p)
    BY <2>5, InWindowFits, InsertStartFits, AskFlowsFits, FailStartFits, CommitStartFits
  <2>6. CASE \/ \E f \in Flows \cup {NoFlow} : BeginTicket(p, f)
             \/ FindRoom(p)
             \/ \E yes \in BOOLEAN : EndOthers(p, yes) \/ AttachTicket(p, yes)
    BY <2>6, BeginTicketFits, FindRoomFits, EndOthersFits, AttachTicketFits
  <2>7. CASE \/ RefuseAttach(p) \/ RefuseTicket(p)
             \/ \E r \in FlowRooms, since \in 0..lastStart, online \in BOOLEAN :
                    OpenTicket(p, r, since, online)
    BY <2>7, RefuseAttachFits, RefuseTicketFits, OpenTicketFits
  <2>8. QED
    BY <1>1, <2>1, <2>2, <2>3, <2>4, <2>5, <2>6, <2>7 DEF FlowStep
<1>2. QED
  BY <1>1, OutsideFits DEF FlowStartsNext

(***************************************************************************)
(* The rows of rooms and starts, and what requests hold, keep their types. *)
(***************************************************************************)
THEOREM FlowStartsTypeCorrect == FlowStartsSpec => []FlowStartsTypeOK
<1>1. FlowInv => FlowStartsTypeOK
  BY DEF FlowInv
<1>2. QED
  BY <1>1, FlowsBegin, FlowsStillFit, PTL DEF FlowStartsSpec

-----------------------------------------------------------------------------
\* A step is one request's, and a row that was committed is never lost.
LEMMA OneMoves ==
  ASSUME FlowInv, NEW p \in FlowRequests, FlowStep(p), NEW o \in FlowRequests \ {p}
  PROVE  flowAsk'[o] = flowAsk[o]
<1>1. DOMAIN flowAsk = FlowRequests
  BY DEF FlowInv, FlowStartsTypeOK
<1>2. CASE \/ HitWindow(p) \/ QueryWindow(p) \/ FillWindow(p)
           \/ \E r \in WhatsAppRooms : BeginMessage(p, r) \/ BeginAnswer(p, r)
           \/ SendInWindow(p) \/ RefuseOutside(p)
  BY <1>1, <1>2 DEF HitWindow, QueryWindow, FillWindow, FlowGo, BeginMessage, BeginAnswer, BeginAsk,
     SendInWindow, RefuseOutside, FlowDone
<1>3. CASE \/ InsertAnswer(p) \/ ClearWindow(p) \/ SaveAnswered(p)
           \/ \E f \in Flows : StartAlone(p, f) \/ \E r \in WhatsAppRooms : BeginStart(p, r, f)
  BY <1>1, <1>3 DEF InsertAnswer, ClearWindow, SaveAnswered, StartAlone, BeginStart, BeginAsk,
       FlowGo,
     FlowDone
<1>4. CASE InWindow(p) \/ InsertStart(p) \/ AskFlows(p) \/ FailStart(p) \/ CommitStart(p)
  BY <1>1, <1>4 DEF InWindow, InsertStart, AskFlows, FailStart, CommitStart, FlowGo, FlowDone
<1>5. CASE \E f \in Flows \cup {NoFlow} : BeginTicket(p, f)
  BY <1>1, <1>5 DEF BeginTicket, BeginAsk
<1>6. CASE FindRoom(p)
  BY <1>1, <1>6 DEF FindRoom, FlowGo
<1>7. CASE \/ \E yes \in BOOLEAN : EndOthers(p, yes) \/ AttachTicket(p, yes)
           \/ RefuseAttach(p) \/ RefuseTicket(p)
           \/ \E r \in FlowRooms, since \in 0..lastStart, online \in BOOLEAN :
                  OpenTicket(p, r, since, online)
  BY <1>1, <1>7 DEF EndOthers, AttachTicket, RefuseAttach, RefuseTicket, OpenTicket, FlowDone
<1>8. QED
  BY <1>2, <1>3, <1>4, <1>5, <1>6, <1>7 DEF FlowStep

LEMMA RowsStay ==
  ASSUME FlowInv, NEW p \in FlowRequests, FlowStep(p), NEW n \in StartIds, starts[n] # NoStart
  PROVE  starts'[n] # NoStart /\ starts'[n].room = starts[n].room
<1> USE DEF FlowInv
<1>1. starts[n] \in FlowStart /\ [starts[n] EXCEPT !.deleted = TRUE] \in FlowStart
  BY StartEdits DEF FlowStartsTypeOK
<1>2. CASE starts'[n] = starts[n]
  BY <1>2
<1>3. CASE CommitStart(p)
  <2>1. n # flowAsk[p].start
    BY <1>3 DEF AsksFit, AskFits, StartFits, HasRow, CommitStart, IsAt
  <2>2. QED
    BY <1>3, <2>1 DEF CommitStart, FlowStartsTypeOK
<1>4. CASE \E yes \in BOOLEAN : AttachTicket(p, yes)
  <2>1. CASE n = flowAsk[p].start
    BY <1>1, <1>4, <2>1, StartEdits DEF AttachTicket, FlowStartsTypeOK, FlowStart
  <2>2. CASE n # flowAsk[p].start
    BY <1>4, <2>2 DEF AttachTicket, FlowStartsTypeOK
  <2>3. QED
    BY <2>1, <2>2
<1>5. CASE \E r \in FlowRooms, since \in 0..lastStart, online \in BOOLEAN :
               OpenTicket(p, r, since, online)
  BY <1>1, <1>5, StartEdits DEF OpenTicket, FlowStart
<1>6. CASE ~(CommitStart(p) \/ (\E yes \in BOOLEAN : AttachTicket(p, yes))
             \/ \E r \in FlowRooms, since \in 0..lastStart, online \in BOOLEAN :
                    OpenTicket(p, r, since, online))
  <2>1. UNCHANGED starts
    BY <1>6, Zenon DEF FlowStep, HitWindow, QueryWindow, FillWindow, BeginMessage, BeginAnswer,
       SendInWindow, RefuseOutside, InsertAnswer, ClearWindow, SaveAnswered, StartAlone, BeginStart,
       InWindow, InsertStart, AskFlows, FailStart, BeginTicket, FindRoom, EndOthers, RefuseAttach,
       RefuseTicket, flowRows
  <2>2. QED
    BY <1>2, <2>1
<1>7. QED
  BY <1>3, <1>4, <1>5, <1>6

-----------------------------------------------------------------------------
\* RefusedRightly: a request that met a closed window is in shut.
RefusalsFit ==
    /\ ~wronged
    /\ \A p \in FlowRequests :
          flowAsk[p].is = "message" =>
              /\ flowAsk[p].room \notin window => p \in shut
              /\ flowAsk[p].at \in {"fill", "decide"} /\ ~flowAsk[p].valid => p \in shut

LEMMA RefusalsStillFit == FlowInv /\ RefusalsFit /\ [FlowStartsNext]_flowVars => RefusalsFit'
<1> SUFFICES ASSUME FlowInv, RefusalsFit, [FlowStartsNext]_flowVars PROVE RefusalsFit'
  OBVIOUS
<1>0. \A p \in FlowRequests : flowAsk[p] \in FlowAsk
  BY DEF FlowInv, FlowStartsTypeOK
<1> DEFINE fits(p) ==
      flowAsk[p].is = "message" =>
          /\ flowAsk[p].room \notin window => p \in shut
          /\ flowAsk[p].at \in {"fill", "decide"} /\ ~flowAsk[p].valid => p \in shut
\* Of the others nothing changes, and for this one nothing is refused wrongly.
<1>1. ASSUME NEW p \in FlowRequests, FlowStep(p), fits(p)', window \subseteq window',
             shut' \ {p} = shut \ {p}, ~wronged'
      PROVE  RefusalsFit'
  <2>1. ASSUME NEW o \in FlowRequests \ {p} PROVE fits(o)'
    BY <1>1, <2>1, OneMoves DEF RefusalsFit
  <2>2. QED
    BY <1>1, <2>1 DEF RefusalsFit
<1>2. ASSUME NEW p \in FlowRequests, HitWindow(p) \/ QueryWindow(p) \/ FillWindow(p)
      PROVE  RefusalsFit'
  <2>1. UNCHANGED <<window, shut, wronged>> /\ FlowStep(p)
    BY <1>2 DEF HitWindow, QueryWindow, FillWindow, flowRows, flowHistory, FlowStep
  <2>2. fits(p)'
    <3>1. flowAsk[p] \in FlowAsk /\ flowAsk \in [FlowRequests -> FlowAsk]
      BY <1>0 DEF FlowInv, FlowStartsTypeOK
    <3>2. CASE HitWindow(p)
      BY <2>1, <3>1, <3>2 DEF HitWindow, Trusts, FlowAsk, RefusalsFit
    <3>3. CASE QueryWindow(p)
      BY <2>1, <3>1, <3>3 DEF QueryWindow, FlowAsk, RefusalsFit
    <3>4. CASE FillWindow(p)
      BY <2>1, <3>1, <3>4 DEF FillWindow, FlowGo, FlowAsk, RefusalsFit
    <3>5. QED
      BY <1>2, <3>2, <3>3, <3>4
  <2>3. QED
    BY <1>1, <2>1, <2>2 DEF RefusalsFit
<1>3. ASSUME NEW p \in FlowRequests, NEW r \in WhatsAppRooms, BeginMessage(p, r)
      PROVE  RefusalsFit'
  <2>1. UNCHANGED <<window, wronged>> /\ FlowStep(p)
    BY <1>3 DEF BeginMessage, flowRows, FlowStep
  <2>2. fits(p)' /\ shut' \ {p} = shut \ {p}
    BY <1>0, <1>3, <2>1 DEF BeginMessage, BeginAsk, NoAsk, FlowInv, FlowStartsTypeOK
  <2>3. QED
    BY <1>1, <2>1, <2>2 DEF RefusalsFit
<1>4. ASSUME NEW p \in FlowRequests, SendInWindow(p) \/ RefuseOutside(p) PROVE RefusalsFit'
  <2>1. UNCHANGED window /\ FlowStep(p) /\ shut' \ {p} = shut \ {p}
    BY <1>4 DEF SendInWindow, RefuseOutside, flowRows, FlowStep
  <2>2. fits(p)'
    BY <1>4 DEF SendInWindow, RefuseOutside, FlowDone, NoAsk, FlowInv, FlowStartsTypeOK
  <2>3. ~wronged'
    BY <1>4 DEF SendInWindow, RefuseOutside, IsAt, RefusalsFit
  <2>4. QED
    BY <1>1, <2>1, <2>2, <2>3
<1>5. ASSUME NEW p \in FlowRequests, FlowStep(p),
             ~(HitWindow(p) \/ QueryWindow(p) \/ FillWindow(p)),
             ~(SendInWindow(p) \/ RefuseOutside(p)),
             \A r \in WhatsAppRooms : ~BeginMessage(p, r)
      PROVE  RefusalsFit'
  <2>1. UNCHANGED <<shut, wronged>>
    BY <1>5, Zenon DEF FlowStep, BeginAnswer, InsertAnswer, ClearWindow, SaveAnswered, StartAlone,
       BeginStart, InWindow, InsertStart, AskFlows, FailStart, CommitStart, BeginTicket, FindRoom,
       EndOthers, AttachTicket, RefuseAttach, RefuseTicket, OpenTicket, flowHistory
  <2>2. window \subseteq window'
    <3>1. \/ UNCHANGED window \/ InsertAnswer(p) \/ \E yes \in BOOLEAN : AttachTicket(p, yes)
          \/ \E r \in FlowRooms, since \in 0..lastStart, online \in BOOLEAN :
                 OpenTicket(p, r, since, online)
      BY <1>5, Zenon DEF FlowStep, BeginAnswer, ClearWindow, SaveAnswered, StartAlone,
         BeginStart, InWindow, InsertStart, AskFlows, FailStart, CommitStart, BeginTicket, FindRoom,
         EndOthers, RefuseAttach, RefuseTicket, flowRows
    <3>2. QED
      BY <3>1 DEF InsertAnswer, AttachTicket, OpenTicket
  <2>3. flowAsk'[p].is # "message"
    <3>1. flowAsk \in [FlowRequests -> FlowAsk] /\ flowAsk[p] \in FlowAsk
      BY <1>0 DEF FlowInv, FlowStartsTypeOK
    <3>2. CASE \/ InsertAnswer(p) \/ ClearWindow(p) \/ SaveAnswered(p)
      BY <3>1, <3>2 DEF InsertAnswer, ClearWindow, SaveAnswered, FlowGo, FlowDone, IsAt, NoAsk,
           FlowAsk
    <3>3. CASE \/ \E r \in WhatsAppRooms : BeginAnswer(p, r)
               \/ \E f \in Flows : StartAlone(p, f) \/ \E r \in WhatsAppRooms : BeginStart(p, r, f)
      BY <3>1, <3>3 DEF BeginAnswer, StartAlone, BeginStart, BeginAsk, NoAsk
    <3>4. CASE InWindow(p) \/ InsertStart(p) \/ AskFlows(p) \/ FailStart(p) \/ CommitStart(p)
      BY <3>1, <3>4 DEF InWindow, InsertStart, AskFlows, FailStart, CommitStart, FlowGo, FlowDone,
           IsAt,
         NoAsk, FlowAsk
    <3>5. CASE \E f \in Flows \cup {NoFlow} : BeginTicket(p, f)
      BY <3>1, <3>5 DEF BeginTicket, BeginAsk, NoAsk
    <3>6. CASE FindRoom(p) \/ \E yes \in BOOLEAN : EndOthers(p, yes)
      <4>1. CASE FindRoom(p)
        <5>1. PICK n : IF flowRoom[starts[n].room].is = "open"
                       THEN flowAsk' = [flowAsk EXCEPT ![p].at = "attach", ![p].start = n,
                                                       ![p].room = starts[n].room]
                       ELSE FlowGo(p, "open")
          BY <4>1 DEF FindRoom
        <5>2. flowAsk[p].is = "ticket"
          BY <4>1 DEF FindRoom, IsAt
        <5>3. QED
          BY <3>1, <5>1, <5>2 DEF FlowGo, FlowAsk
      <4>2. CASE \E yes \in BOOLEAN : EndOthers(p, yes)
        BY <3>1, <4>2 DEF EndOthers, IsAt, FlowAsk
      <4>3. QED
        BY <3>6, <4>1, <4>2
    <3>7. CASE \/ \E yes \in BOOLEAN : AttachTicket(p, yes)
               \/ RefuseAttach(p) \/ RefuseTicket(p)
               \/ \E r \in FlowRooms, since \in 0..lastStart, online \in BOOLEAN :
                      OpenTicket(p, r, since, online)
      BY <3>1, <3>7 DEF AttachTicket, RefuseAttach, RefuseTicket, OpenTicket, FlowDone, NoAsk
    <3>8. QED
      BY <1>5, <3>2, <3>3, <3>4, <3>5, <3>6, <3>7, Zenon DEF FlowStep
  <2>4. QED
    BY <1>1, <1>5, <2>1, <2>2, <2>3 DEF RefusalsFit
<1>6. ASSUME NEW r \in WhatsAppRooms, CloseDay(r) PROVE RefusalsFit'
  BY <1>6 DEF CloseDay, RefusalsFit
<1>7. ASSUME \/ \E r \in WhatsAppRooms : ExpireWindow(r)
             \/ \E r \in FlowRooms : CloseFlowRoom(r)
             \/ UNCHANGED flowVars
      PROVE  RefusalsFit'
  <2>1. UNCHANGED <<window, shut, wronged, flowAsk>>
    BY <1>7 DEF ExpireWindow, CloseFlowRoom, flowVars, flowHistory
  <2>2. QED
    BY <2>1 DEF RefusalsFit
<1>8. QED
  <2>1. ASSUME NEW p \in FlowRequests, FlowStep(p) PROVE RefusalsFit'
    BY <1>2, <1>3, <1>4, <1>5, <2>1
  <2>2. QED
    BY <1>6, <1>7, <2>1 DEF FlowStartsNext

-----------------------------------------------------------------------------
\* AttachedOnce: the start of a ticket that is under way cannot end but with it.
LEMMA TicketsStillFit ==
  FlowInv /\ AttachedOnce /\ [FlowStartsNext]_flowVars => AttachedOnce'
<1> SUFFICES ASSUME FlowInv, AttachedOnce, [FlowStartsNext]_flowVars PROVE AttachedOnce'
  OBVIOUS
<1>1. ASSUME NEW p \in FlowRequests, NEW yes \in BOOLEAN, AttachTicket(p, yes) PROVE AttachedOnce'
  <2>1. ~starts[flowAsk[p].start].deleted
    BY <1>1 DEF AttachTicket, IsAt, FlowInv, AsksFit, AskFits, TicketFits
  <2>2. QED
    BY <1>1, <2>1 DEF AttachTicket, AttachedOnce
<1>2. ASSUME NEW p \in FlowRequests, FlowStep(p), \A yes \in BOOLEAN : ~AttachTicket(p, yes)
      PROVE  UNCHANGED attachedLate
  BY <1>2, Zenon DEF FlowStep, HitWindow, QueryWindow, FillWindow, BeginMessage, BeginAnswer,
     SendInWindow, RefuseOutside, InsertAnswer, ClearWindow, SaveAnswered, StartAlone, BeginStart,
     InWindow, InsertStart, AskFlows, FailStart, CommitStart, BeginTicket, FindRoom, EndOthers,
     RefuseAttach, RefuseTicket, OpenTicket, flowHistory
<1>3. ASSUME \/ \E r \in WhatsAppRooms : ExpireWindow(r) \/ CloseDay(r)
             \/ \E r \in FlowRooms : CloseFlowRoom(r)
             \/ UNCHANGED flowVars
      PROVE  UNCHANGED attachedLate
  BY <1>3 DEF ExpireWindow, CloseDay, CloseFlowRoom, flowVars, flowHistory
<1>4. QED
  BY <1>1, <1>2, <1>3 DEF AttachedOnce, FlowStartsNext

-----------------------------------------------------------------------------
\* How a room may change: its agent is chosen when it is opened, and it waits with a start.
LEMMA RoomsMove ==
  ASSUME FlowInv, [FlowStartsNext]_flowVars, NEW r \in FlowRooms
  PROVE  \/ flowRoom'[r] = flowRoom[r]
         \/ flowRoom'[r] = [flowRoom[r] EXCEPT !.waiting = FALSE]
         \/ flowRoom[r].is = "open" /\ flowRoom'[r] = [flowRoom[r] EXCEPT !.is = "closed"]
         \/ /\ flowRoom'[r] = [flowRoom[r] EXCEPT !.waiting = TRUE]
            /\ \E p \in FlowRequests : CommitStart(p) /\ flowAsk[p].room = r /\ flowAsk[p].waiting
         \/ \E p \in FlowRequests, since \in 0..lastStart, online \in BOOLEAN, last \in StartIds \cup {NoStart} :
               /\ OpenTicket(p, r, since, online) /\ flowRoom[r].is = "none"
               /\ flowRoom'[r] =
                    [is |-> "open", waiting |-> FALSE, since |-> since,
                     by |-> IF Hands(last, online) /\ last <= since THEN last ELSE NoStart]
               /\ \A s \in FlowRooms \ {r} :
                     \/ flowRoom'[s] = flowRoom[s]
                     \/ flowRoom[s].is = "open" /\ flowRoom'[s] = [flowRoom[s] EXCEPT !.is = "closed"]
<1>1. flowRoom \in [FlowRooms -> FlowRoom] /\ \A n \in LastOf(NoFlow) : n \in StartIds \cup {NoStart}
  BY DEF FlowInv, FlowStartsTypeOK, LastOf, Newest, Committed
<1>2. CASE UNCHANGED flowRoom
  BY <1>2
<1>3. CASE \E p \in FlowRequests : SaveAnswered(p) \/ \E yes \in BOOLEAN : AttachTicket(p, yes)
  BY <1>1, <1>3 DEF SaveAnswered, AttachTicket
<1>4. CASE \E s \in FlowRooms : CloseFlowRoom(s)
  BY <1>1, <1>4 DEF CloseFlowRoom
<1>5. CASE \E p \in FlowRequests : CommitStart(p)
  <2>1. PICK p \in FlowRequests : CommitStart(p)
    BY <1>5
  <2>2. CASE flowAsk[p].waiting /\ flowAsk[p].room = r
    <3>1. flowRoom' = [flowRoom EXCEPT ![r].waiting = TRUE]
      BY <2>1, <2>2 DEF CommitStart
    <3>2. flowRoom'[r] = [flowRoom[r] EXCEPT !.waiting = TRUE]
      BY <1>1, <3>1
    <3>3. QED
      BY <2>1, <2>2, <3>2
  <2>3. CASE ~(flowAsk[p].waiting /\ flowAsk[p].room = r)
    <3>1. flowRoom'[r] = flowRoom[r]
      BY <1>1, <2>1, <2>3 DEF CommitStart
    <3>2. QED
      BY <3>1
  <2>4. QED
    BY <2>2, <2>3
<1>6. ASSUME NEW p \in FlowRequests, NEW made \in FlowRooms, NEW since \in 0..lastStart,
             NEW online \in BOOLEAN, OpenTicket(p, made, since, online)
      PROVE  \/ flowRoom'[r] = flowRoom[r]
             \/ flowRoom[r].is = "open" /\ flowRoom'[r] = [flowRoom[r] EXCEPT !.is = "closed"]
             \/ \E last \in StartIds \cup {NoStart} :
                   /\ OpenTicket(p, r, since, online) /\ flowRoom[r].is = "none"
                   /\ flowRoom'[r] =
                        [is |-> "open", waiting |-> FALSE, since |-> since,
                         by |-> IF Hands(last, online) /\ last <= since THEN last ELSE NoStart]
                   /\ \A s \in FlowRooms \ {r} :
                         \/ flowRoom'[s] = flowRoom[s]
                         \/ flowRoom[s].is = "open" /\ flowRoom'[s] = [flowRoom[s] EXCEPT !.is = "closed"]
  <2>1. PICK last \in LastOf(flowAsk[p].flow) :
           flowRoom' = [s \in FlowRooms |->
               IF s = made
               THEN [is |-> "open", waiting |-> FALSE, since |-> since,
                     by |-> IF Hands(last, online) /\ last <= since THEN last ELSE NoStart]
               ELSE IF s \in EndingRooms(p) /\ flowRoom[s].is = "open"
               THEN [flowRoom[s] EXCEPT !.is = "closed"]
               ELSE flowRoom[s]]
    BY <1>6 DEF OpenTicket
  <2>2. last \in StartIds \cup {NoStart} /\ flowRoom[made].is = "none"
    BY <1>6 DEF LastOf, Newest, Committed, OpenTicket
  <2>3. CASE r = made
    BY <1>6, <2>1, <2>2, <2>3
  <2>4. CASE r # made
    BY <2>1, <2>4
  <2>5. QED
    BY <2>3, <2>4
<1>7. ASSUME NEW p \in FlowRequests, FlowStep(p),
             ~(SaveAnswered(p) \/ CommitStart(p) \/ \E yes \in BOOLEAN : AttachTicket(p, yes)),
             ~(\E s \in FlowRooms, since \in 0..lastStart, online \in BOOLEAN :
                  OpenTicket(p, s, since, online))
      PROVE  UNCHANGED flowRoom
  BY <1>7, Zenon DEF FlowStep, HitWindow, QueryWindow, FillWindow, BeginMessage, BeginAnswer,
     SendInWindow, RefuseOutside, InsertAnswer, ClearWindow, StartAlone, BeginStart,
     InWindow, InsertStart, Unseen, AskFlows, FailStart, BeginTicket, FindRoom, EndOthers,
     RefuseAttach, RefuseTicket, flowRows
<1>8. CASE \E s \in WhatsAppRooms : ExpireWindow(s) \/ CloseDay(s)
  BY <1>2, <1>8 DEF ExpireWindow, CloseDay
<1>9. CASE UNCHANGED flowVars
  BY <1>2, <1>9 DEF flowVars
<1>10. CASE \E p \in FlowRequests : FlowStep(p)
  BY <1>2, <1>3, <1>5, <1>6, <1>7, <1>10
<1>11. QED
  BY <1>4, <1>8, <1>9, <1>10 DEF FlowStartsNext

\* HandedOnce: a room that a start chose the agent of is older than it is told.
HandsFit ==
    /\ HandedOnce
    /\ \A r \in FlowRooms :
          /\ flowRoom[r].is = "none" => flowRoom[r].by = NoStart
          /\ flowRoom[r].by # NoStart => flowRoom[r].by <= flowRoom[r].since

LEMMA HandsStillFit == FlowInv /\ HandsFit /\ [FlowStartsNext]_flowVars => HandsFit'
<1> SUFFICES ASSUME FlowInv, HandsFit, [FlowStartsNext]_flowVars PROVE HandsFit'
  OBVIOUS
<1>1. \A r \in FlowRooms : flowRoom[r] \in FlowRoom
  BY DEF FlowInv, FlowStartsTypeOK
<1> DEFINE kept(r) == /\ flowRoom'[r].by = flowRoom[r].by /\ flowRoom'[r].since = flowRoom[r].since
                      /\ flowRoom'[r].is = "none" => flowRoom[r].is = "none"
<1>2. CASE \A r \in FlowRooms : kept(r)
  BY <1>2 DEF HandsFit, HandedOnce
<1>3. ASSUME NEW p \in FlowRequests, NEW r \in FlowRooms, NEW since \in 0..lastStart,
             NEW online \in BOOLEAN, NEW last \in StartIds \cup {NoStart},
             flowRoom[r].is = "none",
             flowRoom'[r] =
                    [is |-> "open", waiting |-> FALSE, since |-> since,
                     by |-> IF Hands(last, online) /\ last <= since THEN last ELSE NoStart],
             \A s \in FlowRooms \ {r} :
                     \/ flowRoom'[s] = flowRoom[s]
                     \/ flowRoom[s].is = "open" /\ flowRoom'[s] = [flowRoom[s] EXCEPT !.is = "closed"]
      PROVE  HandsFit'
  <2>1. \A s \in FlowRooms \ {r} : kept(s)
    BY <1>1, <1>3 DEF FlowRoom
  <2>2. /\ flowRoom'[r].is = "open" /\ flowRoom'[r].since = since
        /\ flowRoom'[r].by = IF Hands(last, online) /\ last <= since THEN last ELSE NoStart
    BY <1>3
  <2>3. flowRoom'[r].by # NoStart => flowRoom'[r].by <= flowRoom'[r].since
    BY <2>2
  <2>4. ASSUME NEW s \in FlowRooms \ {r}, flowRoom'[s].by = flowRoom'[r].by,
       flowRoom'[r].by # NoStart
        PROVE  FALSE
    <3>1. flowRoom[s].by = last /\ last \in StartIds /\ Hands(last, online)
      BY <2>1, <2>2, <2>4
    <3>2. flowRoom[s].is # "none" /\ last <= flowRoom[s].since
      BY <2>2, <2>4, <3>1 DEF HandsFit
    <3>3. flowRoom[s].since < last /\ flowRoom[s].since \in Nat /\ last \in Nat
      BY <1>1, <3>1, <3>2 DEF Hands, FlowRoom, StartIds
    <3>4. QED
      BY <3>2, <3>3
  <2>5. QED
    BY <2>1, <2>2, <2>3, <2>4 DEF HandsFit, HandedOnce
<1>4. CASE ~(\A r \in FlowRooms : kept(r))
  <2>1. PICK r \in FlowRooms : ~kept(r)
    BY <1>4
  <2>2. PICK p \in FlowRequests, since \in 0..lastStart, online \in BOOLEAN,
       last \in StartIds \cup {NoStart} :
               /\ flowRoom[r].is = "none"
               /\ flowRoom'[r] =
                    [is |-> "open", waiting |-> FALSE, since |-> since,
                     by |-> IF Hands(last, online) /\ last <= since THEN last ELSE NoStart]
               /\ \A s \in FlowRooms \ {r} :
                     \/ flowRoom'[s] = flowRoom[s]
                     \/ flowRoom[s].is = "open" /\ flowRoom'[s] = [flowRoom[s] EXCEPT !.is = "closed"]
    <3>1. /\ [flowRoom[r] EXCEPT !.waiting = FALSE].by = flowRoom[r].by
          /\ [flowRoom[r] EXCEPT !.waiting = FALSE].since = flowRoom[r].since
          /\ [flowRoom[r] EXCEPT !.waiting = FALSE].is = flowRoom[r].is
          /\ [flowRoom[r] EXCEPT !.waiting = TRUE].by = flowRoom[r].by
          /\ [flowRoom[r] EXCEPT !.waiting = TRUE].since = flowRoom[r].since
          /\ [flowRoom[r] EXCEPT !.waiting = TRUE].is = flowRoom[r].is
          /\ [flowRoom[r] EXCEPT !.is = "closed"].by = flowRoom[r].by
          /\ [flowRoom[r] EXCEPT !.is = "closed"].since = flowRoom[r].since
          /\ [flowRoom[r] EXCEPT !.is = "closed"].is = "closed"
      BY <1>1 DEF FlowRoom
    <3>2. QED
      BY <2>1, <3>1, RoomsMove
  <2>3. QED
    BY <1>3, <2>2
<1>5. QED
  BY <1>2, <1>4

\* WaitingWasAsked: a start tells the room to wait when it is committed.
WaitsFit ==
    \A r \in FlowRooms : flowRoom[r].waiting =>
        \E n \in asked : starts[n] # NoStart /\ starts[n].room = r

LEMMA WaitsStillFit == FlowInv /\ WaitsFit /\ [FlowStartsNext]_flowVars => WaitsFit'
<1> SUFFICES ASSUME FlowInv, WaitsFit, [FlowStartsNext]_flowVars, NEW r \in FlowRooms,
                    flowRoom'[r].waiting
             PROVE  \E n \in asked' : starts'[n] # NoStart /\ starts'[n].room = r
  BY DEF WaitsFit
<1>1. flowRoom[r] \in FlowRoom /\ asked \subseteq StartIds
  BY DEF FlowInv, FlowStartsTypeOK
<1>2. asked \subseteq asked'
  <2>1. ASSUME NEW p \in FlowRequests, FlowStep(p), ~AskFlows(p) PROVE UNCHANGED asked
    BY <2>1, Zenon DEF FlowStep, HitWindow, QueryWindow, FillWindow, BeginMessage, BeginAnswer,
       SendInWindow, RefuseOutside, InsertAnswer, ClearWindow, SaveAnswered, StartAlone, BeginStart,
       InWindow, InsertStart, FailStart, CommitStart, BeginTicket, FindRoom, EndOthers,
            AttachTicket,
       RefuseAttach, RefuseTicket, OpenTicket, flowHistory
  <2>2. \A p \in FlowRequests : AskFlows(p) => asked \subseteq asked'
    BY DEF AskFlows
  <2>3. QED
    BY <2>1, <2>2 DEF FlowStartsNext, ExpireWindow, CloseDay, CloseFlowRoom, flowVars, flowHistory
<1>3. \A n \in StartIds : starts[n] # NoStart => starts'[n] # NoStart /\ starts'[n].room = starts[n].room
  BY RowsStay DEF FlowStartsNext, ExpireWindow, CloseDay, CloseFlowRoom, flowVars
<1>4. CASE flowRoom[r].waiting
  BY <1>1, <1>2, <1>3, <1>4 DEF WaitsFit
<1>5. CASE ~flowRoom[r].waiting
  <2>1. PICK p \in FlowRequests : CommitStart(p) /\ flowAsk[p].room = r
    <3>1. ~[flowRoom[r] EXCEPT !.waiting = FALSE].waiting
          /\ ~[flowRoom[r] EXCEPT !.is = "closed"].waiting
      BY <1>1, <1>5 DEF FlowRoom
    <3>2. flowRoom'[r] # flowRoom[r] /\ flowRoom'[r] # [flowRoom[r] EXCEPT !.waiting = FALSE]
          /\ flowRoom'[r] # [flowRoom[r] EXCEPT !.is = "closed"]
      BY <1>5, <3>1
    <3>3. CASE \E p \in FlowRequests : CommitStart(p) /\ flowAsk[p].room = r /\ flowAsk[p].waiting
      BY <3>3
    <3>4. ASSUME NEW since, NEW last, NEW online,
                 flowRoom'[r] =
                    [is |-> "open", waiting |-> FALSE, since |-> since,
                     by |-> IF Hands(last, online) /\ last <= since THEN last ELSE NoStart]
          PROVE  FALSE
      BY <3>4
    <3>5. QED
      BY <3>2, <3>3, <3>4, RoomsMove, Zenon
  <2>2. flowAsk[p].start \in asked /\ flowAsk[p].start \in StartIds
    BY <1>1, <2>1 DEF CommitStart, IsAt, FlowInv, AsksFit, AskFits, StartFits
  <2>3. starts'[flowAsk[p].start] = [flow |-> flowAsk[p].flow, room |-> r, deleted |-> FALSE]
    BY <2>1, <2>2 DEF CommitStart, FlowInv, FlowStartsTypeOK
  <2>4. starts'[flowAsk[p].start] # NoStart
    <3>1. flowAsk[p].flow \in Flows
      BY <2>1 DEF CommitStart, IsAt, FlowInv, AsksFit, AskFits, StartFits
    <3>2. QED
      BY <2>3, <3>1, StartEdits
  <2>5. QED
    BY <1>2, <2>2, <2>3, <2>4
<1>6. QED
  BY <1>1, <1>4, <1>5 DEF FlowRoom

\* OneStartPerRoom: whoever starts a flow from a room found none, and is the only one to look.
StartsFitRooms ==
    \A r \in FlowRooms \ crossedStarts :
        /\ \A m, n \in Pending(r) : m = n
        /\ (\E o \in FlowRequests : StartsFor(o, r)) => Pending(r) = {}

LEMMA StartsStillFit == FlowInv /\ StartsFitRooms /\ [FlowStartsNext]_flowVars => StartsFitRooms'
<1> SUFFICES ASSUME FlowInv, StartsFitRooms, [FlowStartsNext]_flowVars PROVE StartsFitRooms'
  OBVIOUS
<1>1. /\ flowAsk \in [FlowRequests -> FlowAsk] /\ starts \in [StartIds -> FlowStart \cup {NoStart}]
      /\ NotARoom \notin FlowRooms
  BY FlowStartsAssumption DEF FlowInv, FlowStartsTypeOK
<1>2. CASE \E p \in FlowRequests : CommitStart(p)
  <2> PICK p \in FlowRequests : CommitStart(p)
    BY <1>2
  <2> DEFINE n == flowAsk[p].start
  <2>1. /\ flowAsk[p].is = "start" /\ flowAsk[p].at = "commit" /\ FlowStep(p)
        /\ starts' = [starts EXCEPT ![n] =
                         [flow |-> flowAsk[p].flow, room |-> flowAsk[p].room, deleted |-> FALSE]]
        /\ crossedStarts' = crossedStarts \cup {r \in FlowRooms :
               r = flowAsk[p].room /\ \E o \in FlowRequests \ {p} : StartsFor(o, r)}
        /\ FlowDone(p)
    BY DEF CommitStart, IsAt, FlowStep
  <2>2. \A m \in StartIds \ {n} : starts'[m] = starts[m]
    BY <1>1, <2>1
  <2>3. starts[n] = NoStart /\ n \in StartIds
    <3>1. AskFits(flowAsk[p], starts, lastStart, asked)
      BY DEF FlowInv, AsksFit
    <3>2. QED
      BY <1>1, <2>1, <3>1 DEF AskFits, StartFits, HasRow, FlowInv, FlowStartsTypeOK
  <2>4. starts'[n].room = flowAsk[p].room
    BY <1>1, <2>1, <2>3
  <2>5. flowAsk'[p].is = "none" /\ \A o \in FlowRequests \ {p} : flowAsk'[o] = flowAsk[o]
    BY <1>1, <2>1 DEF FlowDone, NoAsk
  <2>6. ASSUME NEW r \in FlowRooms \ crossedStarts'
        PROVE  /\ \A m, k \in Pending(r)' : m = k
               /\ (\E o \in FlowRequests : StartsFor(o, r)') => Pending(r)' = {}
    <3>1. CASE r = flowAsk[p].room
      <4>1. Pending(r) = {}
        BY <2>1, <2>6, <3>1 DEF StartsFitRooms, StartsFor
      <4>2. Pending(r)' \subseteq {n}
        BY <2>2, <4>1 DEF Pending, Committed
      <4>3. \A o \in FlowRequests : ~StartsFor(o, r)'
        BY <2>1, <2>5, <2>6, <3>1 DEF StartsFor
      <4>4. QED
        BY <4>2, <4>3
    <3>2. CASE r # flowAsk[p].room
      <4>1. Pending(r)' \subseteq Pending(r)
        BY <2>2, <2>3, <2>4, <3>2 DEF Pending, Committed
      <4>2. \A o \in FlowRequests : StartsFor(o, r)' => StartsFor(o, r)
        BY <2>5 DEF StartsFor
      <4>3. QED
        BY <2>1, <2>6, <4>1, <4>2 DEF StartsFitRooms
    <3>3. QED
      BY <3>1, <3>2
  <2>7. QED
    BY <2>6 DEF StartsFitRooms, StartsFor
\* No other step begins to wait for a ticket, and a start is begun where none does.
<1>3. ASSUME ~\E p \in FlowRequests : CommitStart(p) PROVE StartsFitRooms'
  <2>1. UNCHANGED crossedStarts
    <3>1. ASSUME NEW p \in FlowRequests, FlowStep(p) PROVE UNCHANGED crossedStarts
      BY <1>3, <3>1, Zenon DEF FlowStep, HitWindow, QueryWindow, FillWindow, BeginMessage,
           BeginAnswer,
         SendInWindow, RefuseOutside, InsertAnswer, ClearWindow, SaveAnswered, StartAlone,
              BeginStart,
         InWindow, InsertStart, AskFlows, FailStart, BeginTicket, FindRoom, EndOthers, AttachTicket,
         RefuseAttach, RefuseTicket, OpenTicket, flowHistory
    <3>2. QED
      BY <3>1 DEF FlowStartsNext, ExpireWindow, CloseDay, CloseFlowRoom, flowVars, flowHistory
  <2>2. ASSUME NEW m \in StartIds, starts'[m] # NoStart
        PROVE  /\ starts[m] # NoStart /\ starts'[m].room = starts[m].room
               /\ starts[m].deleted => starts'[m].deleted
    <3>1. starts[m] \in FlowStart \cup {NoStart}
      BY <1>1
    <3>2. CASE UNCHANGED starts
      BY <2>2, <3>2
    <3>3. CASE \E p \in FlowRequests, yes \in BOOLEAN : AttachTicket(p, yes)
      <4>1. PICK p \in FlowRequests, yes \in BOOLEAN : AttachTicket(p, yes)
        BY <3>3
      <4>2. starts[flowAsk[p].start] \in FlowStart /\ flowAsk[p].start \in StartIds
        BY <1>1, <4>1 DEF AttachTicket, IsAt, FlowInv, AsksFit, AskFits, TicketFits
      <4>3. starts' = [starts EXCEPT ![flowAsk[p].start].deleted = TRUE]
        BY <4>1 DEF AttachTicket
      <4>4. CASE m = flowAsk[p].start
        BY <1>1, <4>2, <4>3, <4>4, StartEdits DEF FlowStart
      <4>5. CASE m # flowAsk[p].start
        BY <1>1, <2>2, <4>3, <4>5
      <4>6. QED
        BY <4>4, <4>5
    <3>4. CASE \E p \in FlowRequests, r \in FlowRooms, since \in 0..lastStart, online \in BOOLEAN :
                  OpenTicket(p, r, since, online)
      <4>1. PICK p \in FlowRequests : starts' = [n \in StartIds |->
                IF n \in flowAsk[p].ending THEN [starts[n] EXCEPT !.deleted = TRUE] ELSE starts[n]]
        BY <3>4 DEF OpenTicket
      <4>2. CASE m \in flowAsk[p].ending
        <5>1. starts[m] \in FlowStart
          BY <3>1, <4>2 DEF FlowInv, AsksFit, AskFits, EndingFits
        <5>2. QED
          BY <4>1, <4>2, <5>1, StartEdits DEF FlowStart
      <4>3. CASE m \notin flowAsk[p].ending
        BY <2>2, <4>1, <4>3
      <4>4. QED
        BY <4>2, <4>3
    <3>5. ASSUME NEW p \in FlowRequests, FlowStep(p), \A yes \in BOOLEAN : ~AttachTicket(p, yes),
                 \A r \in FlowRooms, since \in 0..lastStart, online \in BOOLEAN :
                     ~OpenTicket(p, r, since, online)
          PROVE  UNCHANGED starts
      BY <1>3, <3>5, Zenon DEF FlowStep, HitWindow, QueryWindow, FillWindow, BeginMessage,
           BeginAnswer,
         SendInWindow, RefuseOutside, InsertAnswer, ClearWindow, SaveAnswered, StartAlone,
              BeginStart,
         InWindow, InsertStart, AskFlows, FailStart, BeginTicket, FindRoom, EndOthers,
         RefuseAttach, RefuseTicket, flowRows
    <3>6. CASE ~\E p \in FlowRequests : FlowStep(p)
      BY <3>2, <3>6 DEF FlowStartsNext, ExpireWindow, CloseDay, CloseFlowRoom, flowVars
    <3>7. QED
      BY <3>2, <3>3, <3>4, <3>5, <3>6
  <2>3. \A r \in FlowRooms : Pending(r)' \subseteq Pending(r)
    BY <2>2 DEF Pending, Committed
  <2>4. ASSUME NEW p \in FlowRequests, NEW r \in FlowRooms, StartsFor(p, r)'
        PROVE  StartsFor(p, r) \/ Pending(r) = {}
    <3>1. flowAsk[p] \in FlowAsk
      BY <1>1
    <3>2. CASE flowAsk'[p] = flowAsk[p]
      BY <2>4, <3>2 DEF StartsFor
    <3>3. ASSUME FlowStep(p) PROVE StartsFor(p, r) \/ Pending(r) = {}
      <4>1. CASE \/ HitWindow(p) \/ QueryWindow(p) \/ FillWindow(p) \/ InsertAnswer(p)
        BY <1>1, <2>4, <3>1, <4>1 DEF HitWindow, QueryWindow, FillWindow, InsertAnswer, IsAt,
             FlowGo,
           FlowAsk, StartsFor
      <4>2. CASE \E s \in WhatsAppRooms : BeginMessage(p, s) \/ BeginAnswer(p, s)
        <5>1. flowAsk'[p].is \in {"message", "answer"}
          BY <1>1, <4>2 DEF BeginMessage, BeginAnswer, BeginAsk, NoAsk
        <5>2. QED
          BY <2>4, <5>1 DEF StartsFor
      <4>3. CASE SendInWindow(p) \/ RefuseOutside(p) \/ SaveAnswered(p)
        BY <1>1, <2>4, <4>3 DEF SendInWindow, RefuseOutside, SaveAnswered, FlowDone, NoAsk,
             StartsFor
      <4>4. CASE ClearWindow(p)
        BY <1>1, <2>4, <3>1, <4>4 DEF ClearWindow, IsAt, FlowGo, FlowDone, NoAsk, FlowAsk, StartsFor
      <4>5. CASE \E f \in Flows : StartAlone(p, f)
        BY <1>1, <2>4, <4>5 DEF StartAlone, NoAsk, StartsFor
      <4>6. CASE \E f \in Flows, s \in WhatsAppRooms : BeginStart(p, s, f)
        BY <1>1, <2>4, <4>6 DEF BeginStart, MayStart, BeginAsk, NoAsk, StartsFor
      <4>7. CASE InWindow(p) \/ InsertStart(p) \/ AskFlows(p) \/ FailStart(p)
        BY <1>1, <2>4, <3>1, <4>7 DEF InWindow, InsertStart, AskFlows, FailStart, IsAt, FlowGo,
           FlowDone, NoAsk, FlowAsk, StartsFor
      <4>8. CASE \E f \in Flows \cup {NoFlow} : BeginTicket(p, f)
        BY <1>1, <2>4, <4>8 DEF BeginTicket, BeginAsk, NoAsk, StartsFor
      <4>9. CASE FindRoom(p)
        <5>1. PICK n : IF flowRoom[starts[n].room].is = "open"
                       THEN flowAsk' = [flowAsk EXCEPT ![p].at = "attach", ![p].start = n,
                                                       ![p].room = starts[n].room]
                       ELSE FlowGo(p, "open")
          BY <4>9 DEF FindRoom
        <5>2. flowAsk[p].is = "ticket"
          BY <4>9 DEF FindRoom, IsAt
        <5>3. QED
          BY <1>1, <2>4, <3>1, <5>1, <5>2 DEF FlowGo, FlowAsk, StartsFor
      <4>10. CASE \E yes \in BOOLEAN : EndOthers(p, yes)
        BY <1>1, <2>4, <3>1, <4>10 DEF EndOthers, IsAt, FlowAsk, StartsFor
      <4>11. CASE \/ \E yes \in BOOLEAN : AttachTicket(p, yes)
                  \/ RefuseAttach(p) \/ RefuseTicket(p)
                  \/ \E s \in FlowRooms, since \in 0..lastStart, online \in BOOLEAN :
                         OpenTicket(p, s, since, online)
        BY <1>1, <2>4, <4>11 DEF AttachTicket, RefuseAttach, RefuseTicket, OpenTicket, FlowDone,
             NoAsk,
           StartsFor
      <4>12. QED
        BY <1>3, <3>3, <4>1, <4>2, <4>3, <4>4, <4>5, <4>6, <4>7, <4>8, <4>9, <4>10, <4>11, Zenon
           DEF FlowStep
    <3>4. CASE \E q \in FlowRequests \ {p} : FlowStep(q)
      BY <3>2, <3>4, OneMoves
    <3>5. CASE ~\E q \in FlowRequests : FlowStep(q)
      <4>1. UNCHANGED flowAsk
        BY <3>5 DEF FlowStartsNext, ExpireWindow, CloseDay, CloseFlowRoom, flowVars
      <4>2. QED
        BY <3>2, <4>1
    <3>6. QED
      BY <3>3, <3>4, <3>5
  <2>5. ASSUME NEW r \in FlowRooms \ crossedStarts
        PROVE  /\ \A m, n \in Pending(r)' : m = n
               /\ (\E o \in FlowRequests : StartsFor(o, r)') => Pending(r)' = {}
    <3>1. (\E o \in FlowRequests : StartsFor(o, r)') => Pending(r) = {}
      BY <2>4 DEF StartsFitRooms
    <3>2. QED
      BY <2>3, <3>1 DEF StartsFitRooms
  <2>6. QED
    BY <2>1, <2>5 DEF StartsFitRooms
<1>4. QED
  BY <1>2, <1>3

(***************************************************************************)
(* Whatever rooms, flows, requests and bound on the starts there are: a    *)
(* message is refused only out of its window, a start hands one room and   *)
(* gets one ticket, what waits was asked, and no start of a room is lost   *)
(* beside another unless they crossed.                                     *)
(***************************************************************************)
THEOREM FlowStartsKept == FlowStartsSpec => []FlowStartsHold
<1> DEFINE Fits == RefusalsFit /\ AttachedOnce /\ HandsFit /\ WaitsFit /\ StartsFitRooms
<1>1. FlowStartsInit => Fits
  <2> SUFFICES ASSUME FlowStartsInit PROVE Fits
    OBVIOUS
  <2>1. /\ \A r \in FlowRooms : flowRoom[r] =
              [is |-> "none", waiting |-> FALSE, since |-> 0, by |-> NoStart]
        /\ \A p \in FlowRequests : flowAsk[p] = NoAsk
        /\ \A r \in FlowRooms : Pending(r) = {}
        /\ ~wronged /\ ~attachedLate
    BY DEF FlowStartsInit, Pending, Committed
  <2>2. RefusalsFit
    BY <2>1 DEF RefusalsFit, NoAsk
  <2>3. AttachedOnce /\ StartsFitRooms
    BY <2>1 DEF AttachedOnce, StartsFitRooms
  <2>4. HandsFit /\ WaitsFit
    BY <2>1 DEF HandsFit, HandedOnce, WaitsFit
  <2>5. QED
    BY <2>2, <2>3, <2>4
<1>2. FlowInv /\ Fits /\ [FlowStartsNext]_flowVars => Fits'
  BY RefusalsStillFit, TicketsStillFit, HandsStillFit, WaitsStillFit, StartsStillFit
<1>3. Fits => FlowStartsHold
  BY DEF FlowStartsHold, RefusalsFit, RefusedRightly, HandsFit, WaitsFit, WaitingWasAsked,
     StartsFitRooms, OneStartPerRoom
<1>4. QED
  BY <1>1, <1>2, <1>3, FlowsBegin, FlowsStillFit, PTL DEF FlowStartsSpec

-----------------------------------------------------------------------------
(* RoomDetails, for any tags, sectors, users, notes, requests and limit.   *)

\* What each kind of request holds.
LEMMA DetailHolds ==
  ASSUME NEW d \in Detail
  PROVE  /\ d.is \in {"none"} \cup OfRoom \cup NoteRequests
         /\ d.is \in TagRequests => d.tag \in RoomTags
         /\ d.is = "close" => d.room \in Tagged /\ d.keeps \in BOOLEAN /\ d.tags \subseteq RoomTags
         /\ d.is = "transfer" => /\ d.room \in Tagged /\ d.from \in RoomSectors
                                 /\ d.saved \in BOOLEAN /\ d.cleared \subseteq RoomTags
         /\ d.is \in NoteRequests => d.note \in Notes /\ d.at \in {"check", "write", "message"}
<1>1. CASE d \in [is: {"none"}]
  BY <1>1 DEF TagRequests, NoteRequests, OfRoom
<1>2. CASE d \in [is: TagRequests, tag: RoomTags]
  BY <1>2 DEF TagRequests, NoteRequests, OfRoom
<1>3. CASE d \in [is: {"close"}, room: Tagged, keeps: BOOLEAN, tags: SUBSET RoomTags]
  BY <1>3 DEF TagRequests, NoteRequests, OfRoom
<1>4. CASE d \in [is: {"transfer"}, room: Tagged, from: RoomSectors, saved: BOOLEAN,
                  cleared: SUBSET RoomTags]
  BY <1>4 DEF TagRequests, NoteRequests, OfRoom
<1>5. CASE d \in [is: NoteRequests, at: {"check", "write", "message"}, note: Notes]
  BY <1>5 DEF TagRequests, NoteRequests, OfRoom
<1>6. QED
  BY <1>1, <1>2, <1>3, <1>4, <1>5 DEF Detail

\* What steps make of the records.
LEMMA DetailEdits ==
  ASSUME NEW d \in Detail, NEW place \in {"check", "write", "message"}, NEW gone \in SUBSET RoomTags
  PROVE  /\ NoDetail \in Detail
         /\ d.is \in NoteRequests => [d EXCEPT !.at = place] \in Detail
         /\ d.is = "transfer" => [d EXCEPT !.saved = TRUE, !.cleared = gone] \in Detail
<1>1. NoDetail \in Detail
  BY DEF NoDetail, Detail
<1>2. ASSUME d.is \in NoteRequests PROVE [d EXCEPT !.at = place] \in Detail
  <2>1. d \in [is: NoteRequests, at: {"check", "write", "message"}, note: Notes]
    BY <1>2 DEF Detail, NoteRequests, TagRequests
  <2>2. QED
    BY <2>1 DEF Detail
<1>3. ASSUME d.is = "transfer" PROVE [d EXCEPT !.saved = TRUE, !.cleared = gone] \in Detail
  <2>1. d \in [is: {"transfer"}, room: Tagged, from: RoomSectors, saved: BOOLEAN,
               cleared: SUBSET RoomTags]
    BY <1>3 DEF Detail, NoteRequests, TagRequests
  <2>2. QED
    BY <2>1 DEF Detail
<1>4. QED
  BY <1>1, <1>2, <1>3

LEMMA NoteEdits ==
  ASSUME NEW note \in Note, NEW yes \in BOOLEAN, NEW is \in {"none", "live", "gone"}, NEW k \in Nat
  PROVE  /\ [note EXCEPT !.message = yes] \in Note
         /\ [note EXCEPT !.deletable = yes] \in Note
         /\ [note EXCEPT !.is = is] \in Note
         /\ [note EXCEPT !.is = is, !.medias = k] \in Note
         /\ [note EXCEPT !.medias = note.medias + 1] \in Note
<1>1. [note EXCEPT !.message = yes] \in Note /\ [note EXCEPT !.deletable = yes] \in Note
  BY DEF Note
<1>2. [note EXCEPT !.is = is] \in Note /\ [note EXCEPT !.is = is, !.medias = k] \in Note
  BY DEF Note
<1>3. note.medias + 1 \in Nat
  BY DEF Note
<1>4. [note EXCEPT !.medias = note.medias + 1] \in Note
  BY <1>3 DEF Note
<1>5. QED
  BY <1>1, <1>2, <1>4

LEMMA TaggedEdits ==
  ASSUME NEW room \in Tagged, NEW u \in NoteUsers \cup {Unassigned}, NEW s \in RoomSectors,
         NEW yes \in BOOLEAN
  PROVE  /\ [room EXCEPT !.asked = yes] \in Tagged /\ [room EXCEPT !.active = yes] \in Tagged
         /\ [room EXCEPT !.user = u, !.sector = s] \in Tagged
  BY DEF Tagged

LEMMA DetailsBegin == RoomDetailsInit => RoomDetailsTypeOK
<1> SUFFICES ASSUME RoomDetailsInit PROVE RoomDetailsTypeOK
  OBVIOUS
<1>1. tagged \in Tagged
  BY DEF RoomDetailsInit, Tagged
<1>2. NoNote \in Note /\ NoDetail \in Detail
  BY DEF NoNote, Note, NoDetail, Detail
<1>3. QED
  BY <1>1, <1>2 DEF RoomDetailsInit, RoomDetailsTypeOK

LEMMA DetailsKeepTypes == RoomDetailsTypeOK /\ [RoomDetailsNext]_detailVars => RoomDetailsTypeOK'
<1> SUFFICES ASSUME RoomDetailsTypeOK, [RoomDetailsNext]_detailVars PROVE RoomDetailsTypeOK'
  OBVIOUS
<1> USE DEF RoomDetailsTypeOK
<1>1. CASE UNCHANGED detailVars \/ LeaveClosed
  BY <1>1 DEF detailVars, LeaveClosed
<1>2. ASSUME NEW p \in DetailRequests, DetailStep(p) PROVE RoomDetailsTypeOK'
  <2> DEFINE d == detail[p]
  <2>d. d \in Detail /\ NoDetail \in Detail /\ (Ends(p) => detail' \in [DetailRequests -> Detail])
    BY DetailEdits DEF Ends, Asks
  <2>o. Overwrites(p) => behind' \subseteq DetailRequests /\ strayed' \in BOOLEAN
    BY DEF Overwrites
  <2>1. ASSUME NEW t \in RoomTags, NEW kind \in TagRequests, BeginTag(p, kind, t)
        PROVE  RoomDetailsTypeOK'
    <3>1. [is |-> kind, tag |-> t] \in Detail
      BY DEF Detail
    <3>2. QED
      BY <2>1, <3>1 DEF BeginTag, Asks, crossings, noteHistory
  <2>2. CASE WriteTag(p)
    <3>1. d.is \in TagRequests
      BY <2>2 DEF WriteTag
    <3>2. d.tag \in RoomTags
      BY <3>1, <2>d, DetailHolds
    <3>3. roomTags' \subseteq RoomTags
      BY <2>2, <3>2 DEF WriteTag
    <3>4. QED
      BY <2>2, <2>d, <2>o, <3>3 DEF WriteTag, noteHistory
  <2>3. ASSUME NEW keeps \in BOOLEAN, NEW tags \in SUBSET RoomTags, BeginClose(p, keeps, tags)
        PROVE  RoomDetailsTypeOK'
    <3>1. [tagged EXCEPT !.asked = TRUE] \in Tagged
      BY TaggedEdits DEF Tagged
    <3>2. [is |-> "close", room |-> [tagged EXCEPT !.asked = TRUE], keeps |-> keeps,
           tags |-> tags] \in Detail
      BY <3>1 DEF Detail
    <3>3. QED
      BY <2>3, <3>2 DEF BeginClose, Asks, crossings, noteHistory
  <2>4. ASSUME NEW keeps \in BOOLEAN, BeginOtherClose(p, keeps) PROVE RoomDetailsTypeOK'
    <3>1. [is |-> "close", room |-> tagged, keeps |-> keeps, tags |-> {}] \in Detail
      BY DEF Detail
    <3>2. QED
      BY <2>4, <3>1 DEF BeginOtherClose, Asks, crossings, noteHistory
  <2>5. CASE CloseTagged(p)
    <3>1. d.room \in Tagged /\ d.tags \subseteq RoomTags
      BY <2>5, <2>d, DetailHolds DEF CloseTagged, Under
    <3>2. [d.room EXCEPT !.active = FALSE] \in Tagged
      BY <3>1 DEF Tagged
    <3>3. tagged' \in Tagged
      BY <2>5, <3>2 DEF CloseTagged
    <3>4. roomTags' \subseteq RoomTags
      BY <2>5, <3>1 DEF CloseTagged
    <3>5. QED
      BY <2>5, <2>d, <2>o, <3>3, <3>4 DEF CloseTagged, noteHistory
  <2>6. CASE RefuseUpdate(p) \/ RollBackTransfer(p)
    BY <2>6, <2>d DEF RefuseUpdate, RollBackTransfer, noteHistory
  <2>7. ASSUME NEW u \in NoteUsers \cup {Unassigned}, NEW s \in RoomSectors,
               BeginTransfer(p, u, s)
        PROVE  RoomDetailsTypeOK'
    <3>1. [tagged EXCEPT !.user = u, !.sector = s] \in Tagged /\ tagged.sector \in RoomSectors
      BY TaggedEdits DEF Tagged
    <3>2. [is |-> "transfer", room |-> [tagged EXCEPT !.user = u, !.sector = s],
           from |-> tagged.sector, saved |-> FALSE, cleared |-> {}] \in Detail
      BY <3>1 DEF Detail
    <3>3. QED
      BY <2>7, <3>2 DEF BeginTransfer, Asks, crossings, noteHistory
  <2>8. CASE SaveTransfer(p)
    <3>1. ToClear(p) \in SUBSET RoomTags
      BY DEF ToClear
    <3>2. [d EXCEPT !.saved = TRUE, !.cleared = ToClear(p)] \in Detail
      BY <2>8, <2>d, <3>1, DetailEdits DEF SaveTransfer, Under
    <3>3. QED
      BY <2>8, <3>2 DEF SaveTransfer, Asks, crossings, noteHistory
  <2>9. CASE CommitTransfer(p)
    <3>1. d.room \in Tagged
      BY <2>9, <2>d, DetailHolds DEF CommitTransfer, Under
    <3>2. \A n \in Notes : Marked(n) \in Note
      BY NoteEdits DEF Marked
    <3>3. notes' \in [Notes -> Note]
      BY <2>9, <3>2 DEF CommitTransfer
    <3>4. QED
      BY <2>9, <2>d, <2>o, <3>1, <3>3 DEF CommitTransfer, Live
  <2>10. ASSUME NEW n \in Notes, BeginNote(p, n) \/ BeginDelete(p, n) \/ BeginUpload(p, n)
         PROVE  RoomDetailsTypeOK'
    <3>1. [notes EXCEPT ![n].message = TRUE] \in [Notes -> Note]
      BY NoteEdits
    <3>2. \A kind \in NoteRequests, place \in {"check", "write", "message"} :
              [is |-> kind, at |-> place, note |-> n] \in Detail
      BY DEF Detail
    <3>3. QED
      BY <2>10, <3>1, <3>2 DEF BeginNote, BeginDelete, BeginUpload, Asks, crossings, noteHistory,
         NoteRequests
  <2>11. CASE WriteNote(p) \/ BreakOff(p) \/ DeleteNote(p) \/ DeleteMessage(p) \/ CheckUpload(p)
              \/ InsertMedia(p)
    <3>1. d.is \in NoteRequests
      BY <2>11 DEF WriteNote, BreakOff, DeleteNote, DeleteMessage, CheckUpload, InsertMedia, OnNote,
         Under, NoteRequests
    <3>2. d.note \in Notes
      BY <3>1, <2>d, DetailHolds
    <3>3. \A place \in {"check", "write", "message"} : [d EXCEPT !.at = place] \in Detail
      BY <3>1, <2>d, DetailEdits
    <3> DEFINE n == d.note
    <3>4. /\ [notes EXCEPT ![n].is = "live"] \in [Notes -> Note]
          /\ [notes EXCEPT ![n].is = "gone", ![n].medias = 0] \in [Notes -> Note]
          /\ [notes EXCEPT ![n].message = MessageLeft(n)] \in [Notes -> Note]
          /\ [notes EXCEPT ![n].medias = @ + 1] \in [Notes -> Note]
      BY <3>2, NoteEdits DEF MessageLeft
    <3>5. notes' \in [Notes -> Note]
      BY <2>11, <3>4 DEF WriteNote, BreakOff, DeleteNote, DeleteMessage, CheckUpload, InsertMedia
    <3>6. detail' \in [DetailRequests -> Detail]
      BY <2>11, <2>d, <3>3 DEF WriteNote, BreakOff, DeleteNote, DeleteMessage, CheckUpload,
         InsertMedia, Asks
    <3>7. QED
      BY <2>11, <3>2, <3>5, <3>6 DEF WriteNote, BreakOff, DeleteNote, DeleteMessage, CheckUpload,
         InsertMedia, crossings, noteHistory
  <2>12. QED
    BY <1>2, <2>1, <2>2, <2>3, <2>4, <2>5, <2>6, <2>7, <2>8, <2>9, <2>10, <2>11 DEF DetailStep
<1>3. QED
  BY <1>1, <1>2 DEF RoomDetailsNext

THEOREM RoomDetailsTypeCorrect == RoomDetailsSpec => []RoomDetailsTypeOK
  BY DetailsBegin, DetailsKeepTypes, PTL DEF RoomDetailsSpec

-----------------------------------------------------------------------------
\* A request since whose reading nothing of the room was changed holds it as it is.
UpToDate(d, room, tags) ==
    /\ d.is \in OfRoom => room.active
    /\ d.is = "add" => SectorOf[d.tag] = room.sector
    /\ d.is = "close" =>
           /\ d.room.sector = room.sector
           /\ d.keeps \/ d.tags \subseteq TagsIn(room.sector)
           /\ d.room.asked /\ room.sector \in TagsRequiredIn =>
                  IF d.keeps THEN tags # {} ELSE d.tags # {}
    /\ d.is = "transfer" =>
           /\ d.from = room.sector
           /\ d.saved /\ d.room.sector # d.from => d.cleared = tags

\* Only a close asks for tags, so only a closed room was asked for them.
Opens(d) == d.is = "transfer" => d.room.active

RoomInv ==
    /\ RoomDetailsTypeOK
    /\ tagged.active => ~tagged.asked
    /\ \A p \in DetailRequests :
           Opens(detail[p]) /\ (p \notin behind => UpToDate(detail[p], tagged, roomTags))
    /\ \A p \in DetailRequests : detail[p].is = "transfer" => ~detail[p].room.asked
    /\ TagsOfItsSector /\ ClosedWithTags

LEMMA NoDetailUpToDate ==
  ASSUME NEW room, NEW tags, NEW d, d.is \notin OfRoom
  PROVE  UpToDate(d, room, tags) /\ Opens(d) /\ d.is # "transfer"
  BY DEF UpToDate, OfRoom, Opens

\* A step that leaves the room and its tags alone changes what one request holds.
LEMMA LeftAsItIs ==
  ASSUME RoomInv, RoomDetailsTypeOK', NEW p \in DetailRequests, NEW d,
         detail' = [detail EXCEPT ![p] = d],
         UNCHANGED <<tagged, roomTags, strayed>>, behind' \in {behind, behind \ {p}},
         Opens(d), d.is = "transfer" => ~d.room.asked,
         p \notin behind' => UpToDate(d, tagged, roomTags)
  PROVE  RoomInv'
<1>1. DOMAIN detail = DetailRequests
  BY DEF RoomInv, RoomDetailsTypeOK
<1>2. detail'[p] = d /\ \A o \in DetailRequests \ {p} : detail'[o] = detail[o]
  BY <1>1
<1>3. \A o \in DetailRequests \ {p} : o \in behind' <=> o \in behind
  OBVIOUS
<1>4. ASSUME NEW o \in DetailRequests
      PROVE  /\ Opens(detail'[o]) /\ (detail'[o].is = "transfer" => ~detail'[o].room.asked)
             /\ o \notin behind' => UpToDate(detail'[o], tagged', roomTags')
  <2>1. CASE o = p
    BY <2>1, <1>2
  <2>2. CASE o # p
    BY <2>2, <1>2, <1>3 DEF RoomInv
  <2>3. QED
    BY <2>1, <2>2
<1>5. (TagsOfItsSector /\ ClosedWithTags)'
  BY DEF RoomInv, TagsOfItsSector, ClosedWithTags
<1>6. QED
  BY <1>4, <1>5 DEF RoomInv

\* One that writes the room or its tags: whoever had read them is behind.
LEMMA WrittenOver ==
  ASSUME RoomInv, RoomDetailsTypeOK', NEW p \in DetailRequests, Ends(p), Overwrites(p),
         tagged'.active => ~tagged'.asked,
         p \notin behind /\ ~strayed =>
             /\ roomTags' \subseteq TagsIn(tagged'.sector)
             /\ ~tagged'.active /\ tagged'.asked /\ tagged'.sector \in TagsRequiredIn
                    => roomTags' # {}
  PROVE  RoomInv'
<1>1. DOMAIN detail = DetailRequests
  BY DEF RoomInv, RoomDetailsTypeOK
<1>2. detail'[p] = NoDetail /\ \A o \in DetailRequests \ {p} : detail'[o] = detail[o]
  BY <1>1 DEF Ends, Asks
<1>3. ASSUME NEW o \in DetailRequests
      PROVE  /\ Opens(detail'[o]) /\ (detail'[o].is = "transfer" => ~detail'[o].room.asked)
             /\ o \notin behind' => UpToDate(detail'[o], tagged', roomTags')
  <2>1. CASE o = p
    <3>1. detail'[o].is \notin OfRoom
      BY <2>1, <1>2 DEF NoDetail, OfRoom
    <3>2. QED
      BY <3>1, NoDetailUpToDate
  <2>2. CASE o # p /\ detail[o].is \in OfRoom
    <3>1. o \in behind'
      BY <2>2 DEF Overwrites
    <3>2. QED
      BY <2>2, <3>1, <1>2 DEF RoomInv
  <2>3. CASE o # p /\ detail[o].is \notin OfRoom
    BY <2>3, <1>2, NoDetailUpToDate
  <2>4. QED
    BY <2>1, <2>2, <2>3
<1>4. (TagsOfItsSector /\ ClosedWithTags)'
  BY DEF Overwrites, TagsOfItsSector, ClosedWithTags, TagsIn
<1>5. QED
  BY <1>3, <1>4 DEF RoomInv

LEMMA RoomBegins == RoomDetailsInit => RoomInv
<1> SUFFICES ASSUME RoomDetailsInit PROVE RoomInv
  OBVIOUS
<1>1. \A p \in DetailRequests : detail[p].is \notin OfRoom
  BY DEF RoomDetailsInit, NoDetail, OfRoom
<1>2. ~tagged.asked /\ tagged.active
  BY DEF RoomDetailsInit
<1>3. TagsOfItsSector /\ ClosedWithTags
  BY <1>2 DEF RoomDetailsInit, TagsOfItsSector, ClosedWithTags
<1>4. QED
  BY <1>1, <1>2, <1>3, DetailsBegin, NoDetailUpToDate DEF RoomInv

LEMMA RoomStaysTidy == RoomInv /\ [RoomDetailsNext]_detailVars => RoomInv'
<1> SUFFICES ASSUME RoomInv, [RoomDetailsNext]_detailVars PROVE RoomInv'
  OBVIOUS
<1>0. RoomDetailsTypeOK /\ RoomDetailsTypeOK'
  BY DetailsKeepTypes DEF RoomInv
<1>1. CASE UNCHANGED detailVars \/ LeaveClosed
  BY <1>0, <1>1 DEF RoomInv, detailVars, LeaveClosed, TagsOfItsSector, ClosedWithTags
<1>2. ASSUME NEW p \in DetailRequests, DetailStep(p) PROVE RoomInv'
  <2> DEFINE d == detail[p]
  <2>d. d \in Detail /\ NoDetail.is \notin OfRoom
    BY <1>0 DEF RoomDetailsTypeOK, NoDetail, OfRoom
  <2>u. /\ Opens(d) /\ (d.is = "transfer" => ~d.room.asked)
        /\ p \notin behind => UpToDate(d, tagged, roomTags)
        /\ tagged.active => ~tagged.asked
        /\ TagsOfItsSector /\ ClosedWithTags
    BY DEF RoomInv
  <2>a. ASSUME NEW e, Asks(p, e), UNCHANGED <<tagged, roomTags, strayed>>,
               behind' \in {behind, behind \ {p}},
               Opens(e), e.is = "transfer" => ~e.room.asked,
               p \notin behind' => UpToDate(e, tagged, roomTags)
        PROVE  RoomInv'
    BY <1>0, <2>a, LeftAsItIs DEF Asks
  <2>n. ASSUME NEW e, Asks(p, e), UNCHANGED <<tagged, roomTags, strayed>>,
               behind' \in {behind, behind \ {p}}, e.is \notin OfRoom
        PROVE  RoomInv'
    BY <2>n, <2>a, NoDetailUpToDate
  <2>1. ASSUME NEW t \in RoomTags, NEW kind \in TagRequests, BeginTag(p, kind, t)
        PROVE  RoomInv'
    <3> DEFINE e == [is |-> kind, tag |-> t]
    <3>1. UpToDate(e, tagged, roomTags) /\ Opens(e) /\ e.is # "transfer"
      BY <2>1 DEF BeginTag, UpToDate, Opens, IsOfSector, TagsIn, TagRequests
    <3>2. Asks(p, e) /\ UNCHANGED <<tagged, roomTags, strayed, behind>>
      BY <2>1 DEF BeginTag, crossings
    <3> HIDE DEF e
    <3>3. QED
      BY <3>1, <3>2, <2>a
  <2>2. CASE WriteTag(p)
    <3>1. d.is \in TagRequests /\ Ends(p) /\ Overwrites(p) /\ tagged' = tagged
      BY <2>2 DEF WriteTag
    <3>2. ASSUME p \notin behind, ~strayed
          PROVE  roomTags' \subseteq TagsIn(tagged.sector) /\ tagged.active
      <4>1. UpToDate(d, tagged, roomTags) /\ roomTags \subseteq TagsIn(tagged.sector)
        BY <3>2, <2>u DEF TagsOfItsSector
      <4>2. tagged.active
        BY <4>1, <3>1 DEF UpToDate, TagRequests, OfRoom
      <4>3. CASE d.is = "add"
        <5>1. d.tag \in RoomTags
          BY <2>d, <3>1, DetailHolds
        <5>2. d.tag \in TagsIn(tagged.sector)
          BY <4>1, <4>3, <5>1 DEF UpToDate, TagsIn
        <5>3. QED
          BY <4>1, <4>2, <4>3, <5>2, <2>2 DEF WriteTag, Under
      <4>4. CASE d.is # "add"
        BY <4>1, <4>2, <4>4, <2>2 DEF WriteTag, Under
      <4>5. QED
        BY <4>3, <4>4
    <3>3. QED
      BY <1>0, <2>u, <3>1, <3>2, WrittenOver
  <2>3. ASSUME NEW keeps \in BOOLEAN, NEW tags \in SUBSET RoomTags, BeginClose(p, keeps, tags)
        PROVE  RoomInv'
    <3> DEFINE room == [tagged EXCEPT !.asked = TRUE]
               e == [is |-> "close", room |-> room, keeps |-> keeps, tags |-> tags]
    <3>1. room.sector = tagged.sector
      BY <1>0 DEF RoomDetailsTypeOK, Tagged
    <3>2. e.is = "close" /\ e.room = room /\ e.keeps = keeps /\ e.tags = tags
      OBVIOUS
    <3>3. /\ Asks(p, e) /\ UNCHANGED <<tagged, roomTags, strayed, behind>>
          /\ tagged.active /\ tags \subseteq TagsIn(tagged.sector)
          /\ tagged.sector \in TagsRequiredIn => IF keeps THEN roomTags # {} ELSE tags # {}
      BY <2>3 DEF BeginClose, HasTags, crossings
    <3> HIDE DEF e
    <3>4. UpToDate(e, tagged, roomTags) /\ Opens(e) /\ e.is # "transfer"
      BY <3>1, <3>2, <3>3 DEF UpToDate, Opens
    <3>5. QED
      BY <3>3, <3>4, <2>a
  <2>4. ASSUME NEW keeps \in BOOLEAN, BeginOtherClose(p, keeps) PROVE RoomInv'
    <3> DEFINE e == [is |-> "close", room |-> tagged, keeps |-> keeps, tags |-> {}]
    <3>1. e.is = "close" /\ e.room = tagged /\ e.keeps = keeps /\ e.tags = {}
      OBVIOUS
    <3>2. Asks(p, e) /\ UNCHANGED <<tagged, roomTags, strayed, behind>> /\ tagged.active
      BY <2>4 DEF BeginOtherClose, crossings
    <3> HIDE DEF e
    <3>3. UpToDate(e, tagged, roomTags) /\ Opens(e) /\ e.is # "transfer"
      BY <3>1, <3>2, <2>u DEF UpToDate, Opens
    <3>4. QED
      BY <3>2, <3>3, <2>a
  <2>5. CASE CloseTagged(p)
    <3>1. /\ d.is = "close" /\ Ends(p) /\ Overwrites(p)
          /\ tagged' = [d.room EXCEPT !.active = FALSE]
          /\ roomTags' = IF d.keeps THEN roomTags ELSE d.tags
      BY <2>5 DEF CloseTagged, Under
    <3>2. d.room \in Tagged
      BY <2>d, <3>1, DetailHolds
    <3>3. tagged'.active = FALSE /\ tagged'.sector = d.room.sector /\ tagged'.asked = d.room.asked
      BY <3>1, <3>2 DEF Tagged
    <3>4. ASSUME p \notin behind, ~strayed
          PROVE  /\ roomTags' \subseteq TagsIn(tagged'.sector)
                 /\ tagged'.asked /\ tagged'.sector \in TagsRequiredIn => roomTags' # {}
      <4>1. UpToDate(d, tagged, roomTags) /\ roomTags \subseteq TagsIn(tagged.sector)
        BY <3>4, <2>u DEF TagsOfItsSector
      <4>2. QED
        BY <4>1, <3>1, <3>3 DEF UpToDate
    <3>5. QED
      BY <1>0, <3>1, <3>3, <3>4, WrittenOver
  <2>6. CASE RefuseUpdate(p) \/ RollBackTransfer(p)
    <3>1. Asks(p, NoDetail) /\ UNCHANGED <<tagged, roomTags, strayed>> /\ behind' = behind \ {p}
      BY <2>6 DEF RefuseUpdate, RollBackTransfer, Ends
    <3>2. QED
      BY <2>d, <3>1, <2>n
  <2>7. ASSUME NEW u \in NoteUsers \cup {Unassigned}, NEW s \in RoomSectors,
               BeginTransfer(p, u, s)
        PROVE  RoomInv'
    <3> DEFINE room == [tagged EXCEPT !.user = u, !.sector = s]
               e == [is |-> "transfer", room |-> room, from |-> tagged.sector, saved |-> FALSE,
                     cleared |-> {}]
    <3>1. room.active = tagged.active /\ room.asked = tagged.asked
      BY <1>0 DEF RoomDetailsTypeOK, Tagged
    <3>2. e.is = "transfer" /\ e.room = room /\ e.from = tagged.sector /\ e.saved = FALSE
      OBVIOUS
    <3>3. Asks(p, e) /\ UNCHANGED <<tagged, roomTags, strayed, behind>> /\ tagged.active
      BY <2>7 DEF BeginTransfer, crossings
    <3> HIDE DEF e, room
    <3>4. UpToDate(e, tagged, roomTags) /\ Opens(e) /\ ~e.room.asked
      BY <3>1, <3>2, <3>3, <2>u DEF UpToDate, Opens, OfRoom
    <3>5. QED
      BY <3>3, <3>4, <2>a
  <2>8. CASE SaveTransfer(p)
    <3> DEFINE e == [d EXCEPT !.saved = TRUE, !.cleared = ToClear(p)]
    <3>1. d.is = "transfer" /\ Asks(p, e) /\ tagged.active
          /\ UNCHANGED <<tagged, roomTags, strayed, behind>>
      BY <2>8 DEF SaveTransfer, Under, crossings
    <3>2. d \in [is: {"transfer"}, room: Tagged, from: RoomSectors, saved: BOOLEAN,
                 cleared: SUBSET RoomTags]
      BY <2>d, <3>1 DEF Detail, TagRequests, NoteRequests
    <3>3. e.is = "transfer" /\ e.room = d.room /\ e.from = d.from /\ e.cleared = ToClear(p)
      BY <3>1, <3>2
    <3> HIDE DEF e
    <3>4. e.room.sector # e.from => e.cleared = roomTags
      BY <3>3 DEF ToClear
    <3>5. Opens(e) /\ ~e.room.asked
      BY <3>1, <3>3, <2>u DEF Opens
    <3>6. p \notin behind => UpToDate(e, tagged, roomTags)
      BY <3>1, <3>3, <3>4, <2>u DEF UpToDate
    <3>7. QED
      BY <3>1, <3>5, <3>6, <2>a
  <2>9. CASE CommitTransfer(p)
    <3>1. /\ d.is = "transfer" /\ d.saved /\ Ends(p) /\ Overwrites(p)
          /\ tagged' = d.room /\ roomTags' = roomTags \ d.cleared
      BY <2>9 DEF CommitTransfer, Under
    <3>2. tagged'.active /\ ~tagged'.asked
      BY <3>1, <2>u DEF Opens
    <3>3. ASSUME p \notin behind, ~strayed
          PROVE  roomTags' \subseteq TagsIn(tagged'.sector)
      <4>1. UpToDate(d, tagged, roomTags) /\ roomTags \subseteq TagsIn(tagged.sector)
        BY <3>3, <2>u DEF TagsOfItsSector
      <4>2. CASE d.room.sector # d.from
        BY <4>1, <4>2, <3>1 DEF UpToDate
      <4>3. CASE d.room.sector = d.from
        BY <4>1, <4>3, <3>1 DEF UpToDate
      <4>4. QED
        BY <4>2, <4>3
    <3>4. QED
      BY <1>0, <3>1, <3>2, <3>3, WrittenOver
  <2>10. ASSUME NEW n \in Notes, BeginNote(p, n) \/ BeginDelete(p, n) \/ BeginUpload(p, n)
         PROVE  RoomInv'
    <3>1. PICK e \in [is: NoteRequests, at: {"check", "write"}, note: {n}] : Asks(p, e)
      BY <2>10 DEF BeginNote, BeginDelete, BeginUpload, NoteRequests
    <3>2. UNCHANGED <<tagged, roomTags, strayed, behind>> /\ e.is \notin OfRoom
      BY <2>10, <3>1 DEF BeginNote, BeginDelete, BeginUpload, crossings, OfRoom, NoteRequests
    <3>3. QED
      BY <3>1, <3>2, <2>n
  <2>11. CASE WriteNote(p) \/ BreakOff(p) \/ DeleteMessage(p) \/ InsertMedia(p)
    <3>1. Asks(p, NoDetail) /\ UNCHANGED <<tagged, roomTags, strayed, behind>>
      BY <2>11 DEF WriteNote, BreakOff, DeleteMessage, InsertMedia, Ends, crossings
    <3>2. QED
      BY <2>d, <3>1, <2>n
  <2>12. CASE DeleteNote(p) \/ CheckUpload(p)
    <3>1. d.is \in NoteRequests /\ UNCHANGED <<tagged, roomTags, strayed, behind>>
      BY <2>12 DEF DeleteNote, CheckUpload, OnNote, Under, NoteRequests, crossings
    <3>2. d \in [is: NoteRequests, at: {"check", "write", "message"}, note: Notes]
      BY <2>d, <3>1 DEF Detail, TagRequests, NoteRequests
    <3>3. \A place \in {"write", "message"} : [d EXCEPT !.at = place].is \notin OfRoom
      BY <3>2 DEF OfRoom, NoteRequests
    <3>4. \/ Asks(p, NoDetail)
          \/ \E place \in {"write", "message"} : Asks(p, [d EXCEPT !.at = place])
      BY <2>12 DEF DeleteNote, CheckUpload, Ends
    <3>5. QED
      BY <2>d, <3>1, <3>3, <3>4, <2>n
  <2>13. QED
    BY <1>2, <2>1, <2>2, <2>3, <2>4, <2>5, <2>6, <2>7, <2>8, <2>9, <2>10, <2>11, <2>12
       DEF DetailStep
<1>3. QED
  BY <1>1, <1>2 DEF RoomDetailsNext

-----------------------------------------------------------------------------
\* What a request holds of a note, and where the note is by then.
NoteFits(d, table, before, late) ==
    /\ d.is = "note" => table[d.note].is = "none" /\ table[d.note].message
    /\ d.is = "delete" /\ d.at = "write" =>
           table[d.note].is # "none" /\ (d.note \in before => d.note \in late)
    /\ d.is = "delete" /\ d.at = "message" => table[d.note].is = "gone"

SameNote(d, e) == d.is = "note" /\ e.is = "note" /\ d.note = e.note

Places(d) == (d.is = "note" => d.at = "write") /\ (d.is = "delete" => d.at # "check")

IsWritten(n, asks) ==
    \E p \in DetailRequests :
        /\ \/ asks[p].is = "note" /\ asks[p].at = "write"
           \/ asks[p].is = "delete" /\ asks[p].at = "message"
        /\ asks[p].note = n

NotesInv ==
    /\ RoomDetailsTypeOK
    /\ \A p \in DetailRequests : NoteFits(detail[p], notes, settled, overtaken)
    /\ \A p \in DetailRequests : Places(detail[p])
    /\ \A p, o \in DetailRequests : SameNote(detail[p], detail[o]) => p = o
    /\ \A n \in settled : notes[n].is # "none"
    /\ NotesOutliveTransfers /\ NotesHaveTheirMessage

LEMMA NotesBegin == RoomDetailsInit => NotesInv
<1> SUFFICES ASSUME RoomDetailsInit PROVE NotesInv
  OBVIOUS
<1>1. \A p \in DetailRequests : detail[p].is = "none"
  BY DEF RoomDetailsInit, NoDetail
<1>2. \A n \in Notes : notes[n].is = "none" /\ ~notes[n].message
  BY DEF RoomDetailsInit, NoNote
<1>3. NotesOutliveTransfers /\ NotesHaveTheirMessage /\ settled = {}
  BY <1>2 DEF RoomDetailsInit, NotesOutliveTransfers, NotesHaveTheirMessage, Live
<1>4. QED
  BY <1>1, <1>3, DetailsBegin DEF NotesInv, NoteFits, SameNote, Places

\* A step that leaves the notes alone, of a request that is in the middle of none of its own.
LEMMA NotesLeft ==
  ASSUME NotesInv, RoomDetailsTypeOK', NEW p \in DetailRequests, NEW d,
         detail' = [detail EXCEPT ![p] = d], UNCHANGED <<notes, settled, overtaken>>,
         broken \subseteq broken',
         d.is # "note", Places(d), NoteFits(d, notes, settled, overtaken),
         \/ detail[p].is # "note" /\ ~(detail[p].is = "delete" /\ detail[p].at = "message")
         \/ detail[p].note \in broken'
  PROVE  NotesInv'
<1>1. DOMAIN detail = DetailRequests
  BY DEF NotesInv, RoomDetailsTypeOK
<1>2. detail'[p] = d /\ \A o \in DetailRequests \ {p} : detail'[o] = detail[o]
  BY <1>1
<1>3. \A o \in DetailRequests : NoteFits(detail'[o], notes, settled, overtaken)
  BY <1>2 DEF NotesInv
<1>4. \A o, q \in DetailRequests : SameNote(detail'[o], detail'[q]) => o = q
  BY <1>2 DEF NotesInv, SameNote
<1>5. \A o \in DetailRequests : Places(detail'[o])
  BY <1>2 DEF NotesInv
<1>6. ASSUME NEW n \in Notes, notes[n].is # "live", notes[n].message
      PROVE  n \in broken' \/ Writes(n)'
  <2>1. n \in broken \/ Writes(n)
    BY <1>6 DEF NotesInv, NotesHaveTheirMessage, Live
  <2>2. CASE n \in broken
    BY <2>2
  <2>3. CASE Writes(n)
    <3>1. PICK o \in DetailRequests :
              (OnNote(o, "note", "write") \/ OnNote(o, "delete", "message")) /\ detail[o].note = n
      BY <2>3 DEF Writes
    <3>2. CASE o = p
      BY <3>1, <3>2 DEF OnNote, Under
    <3>3. CASE o # p
      BY <3>1, <3>3, <1>2 DEF Writes, OnNote, Under
    <3>4. QED
      BY <3>2, <3>3
  <2>4. QED
    BY <2>1, <2>2, <2>3
<1>7. NotesHaveTheirMessage'
  BY <1>6 DEF NotesInv, NotesHaveTheirMessage, Live
<1>8. NotesOutliveTransfers'
  BY DEF NotesInv, NotesOutliveTransfers
<1>9. QED
  BY <1>3, <1>4, <1>5, <1>7, <1>8 DEF NotesInv

SetsNote(n, entry) == notes' = [notes EXCEPT ![n] = entry]

\* One that writes a note, whose name only it holds unless the note goes.
LEMMA NoteWritten ==
  ASSUME NotesInv, RoomDetailsTypeOK', NEW p \in DetailRequests, NEW d, NEW n \in Notes, NEW entry,
         Asks(p, d), SetsNote(n, entry),
         UNCHANGED noteHistory,
         NoteFits(d, notes', settled, overtaken), Places(d), d.is = "note" => d.note = n,
         \A o \in DetailRequests \ {p} :
             detail[o].is \in NoteRequests /\ detail[o].note = n =>
                 /\ detail[o].is # "note"
                 /\ detail[o].is = "delete" => entry.is \in {"gone", notes[n].is},
         n \in settled => /\ entry.is # "none" /\ (entry.is # "live" \/ ~entry.deletable)
                          /\ entry.is # "gone" \/ n \in overtaken,
         entry.is = "live" => entry.message,
         entry.is # "live" /\ entry.message => n \in broken \/ IsWritten(n, detail'),
         detail[p].is \in {"note", "delete"} => detail[p].note = n
  PROVE  NotesInv'
<1>1. DOMAIN detail = DetailRequests /\ DOMAIN notes = Notes
  BY DEF NotesInv, RoomDetailsTypeOK
<1>2. detail'[p] = d /\ \A o \in DetailRequests \ {p} : detail'[o] = detail[o]
  BY <1>1 DEF Asks
<1>3. notes'[n] = entry /\ \A m \in Notes \ {n} : notes'[m] = notes[m]
  BY <1>1 DEF SetsNote
<1>4. ASSUME NEW o \in DetailRequests \ {p} PROVE NoteFits(detail[o], notes', settled, overtaken)
  <2>1. NoteFits(detail[o], notes, settled, overtaken) /\ detail[o] \in Detail
    BY DEF NotesInv, RoomDetailsTypeOK
  <2>2. CASE detail[o].is \notin {"note", "delete"}
    BY <2>2 DEF NoteFits
  <2>3. CASE detail[o].is \in {"note", "delete"}
    <3>1. detail[o].is \in NoteRequests
      BY <2>3 DEF NoteRequests
    <3>2. detail[o].note \in Notes
      BY <2>1, <3>1, DetailHolds
    <3>3. CASE detail[o].note # n
      BY <2>1, <3>2, <3>3, <1>3 DEF NoteFits
    <3>4. CASE detail[o].note = n
      BY <2>1, <2>3, <3>1, <3>4, <1>3 DEF NoteFits
    <3>5. QED
      BY <3>3, <3>4
  <2>4. QED
    BY <2>2, <2>3
<1>5. \A o \in DetailRequests : NoteFits(detail'[o], notes', settled, overtaken)
  BY <1>2, <1>4
<1>6. \A o \in DetailRequests : Places(detail'[o])
  BY <1>2 DEF NotesInv
<1>7. ASSUME NEW o \in DetailRequests, NEW q \in DetailRequests, SameNote(detail'[o], detail'[q])
      PROVE  o = q
  <2>1. \A r \in DetailRequests \ {p} : detail[r].is = "note" => detail[r].note # n
    BY DEF NoteRequests
  <2>2. QED
    BY <1>2, <1>7, <2>1 DEF NotesInv, SameNote
<1>8. \A m \in settled : notes'[m].is # "none"
  BY <1>3 DEF NotesInv, RoomDetailsTypeOK
<1>9. ASSUME NEW m \in Notes
      PROVE  IF notes'[m].is = "live" THEN notes'[m].message
             ELSE notes'[m].message => m \in broken \/ Writes(m)'
  <2>1. CASE m = n
    BY <2>1, <1>3 DEF Writes, IsWritten, OnNote, Under
  <2>2. CASE m # n /\ notes[m].is # "live" /\ notes[m].message
    <3>1. m \in broken \/ Writes(m)
      BY <2>2 DEF NotesInv, NotesHaveTheirMessage, Live
    <3>2. ASSUME Writes(m) PROVE Writes(m)'
      <4>1. PICK o \in DetailRequests :
                (OnNote(o, "note", "write") \/ OnNote(o, "delete", "message")) /\ detail[o].note = m
        BY <3>2 DEF Writes
      <4>2. o # p
        BY <4>1, <2>2 DEF OnNote, Under
      <4>3. QED
        BY <4>1, <4>2, <1>2 DEF Writes, OnNote, Under
    <3>3. QED
      BY <2>2, <3>1, <3>2, <1>3
  <2>3. CASE m # n /\ (notes[m].is = "live" \/ ~notes[m].message)
    BY <2>3, <1>3 DEF NotesInv, NotesHaveTheirMessage, Live
  <2>4. QED
    BY <2>1, <2>2, <2>3
<1>10. NotesHaveTheirMessage'
  BY <1>9 DEF NotesHaveTheirMessage, Live, noteHistory
<1>11. NotesOutliveTransfers'
  BY <1>3 DEF NotesInv, NotesOutliveTransfers, RoomDetailsTypeOK, noteHistory
<1>12. QED
  BY <1>5, <1>6, <1>7, <1>8, <1>10, <1>11 DEF NotesInv, noteHistory

LEMMA NotesStayWhole == NotesInv /\ [RoomDetailsNext]_detailVars => NotesInv'
<1> SUFFICES ASSUME NotesInv, [RoomDetailsNext]_detailVars PROVE NotesInv'
  OBVIOUS
<1>0. RoomDetailsTypeOK /\ RoomDetailsTypeOK'
  BY DetailsKeepTypes DEF NotesInv
<1>1. CASE UNCHANGED detailVars \/ LeaveClosed
  <2>1. UNCHANGED <<notes, detail, settled, overtaken, broken>>
    BY <1>1 DEF detailVars, LeaveClosed
  <2>2. (NotesOutliveTransfers /\ NotesHaveTheirMessage)'
    BY <2>1 DEF NotesInv, NotesOutliveTransfers, NotesHaveTheirMessage, Live, Writes, OnNote, Under
  <2>3. QED
    BY <1>0, <2>1, <2>2 DEF NotesInv
<1>2. ASSUME NEW p \in DetailRequests, DetailStep(p) PROVE NotesInv'
  <2> DEFINE d == detail[p]
  <2>d. /\ d \in Detail /\ NoteFits(d, notes, settled, overtaken)
        /\ Places(d)
    BY <1>0 DEF RoomDetailsTypeOK, NotesInv
  \* Of the room alone.
  <2>r. ASSUME NEW e, Asks(p, e), UNCHANGED <<notes, noteHistory>>, e.is \notin {"note", "delete"},
               d.is \notin {"note", "delete"}
        PROVE  NotesInv'
    <3>1. NoteFits(e, notes, settled, overtaken) /\ Places(e)
      BY <2>r DEF NoteFits, Places
    <3>2. detail' = [detail EXCEPT ![p] = e] /\ UNCHANGED <<notes, settled, overtaken, broken>>
      BY <2>r DEF Asks, noteHistory
    <3>3. QED
      BY <1>0, <2>r, <3>1, <3>2, NotesLeft
  <2>1. ASSUME \/ \E t \in RoomTags, kind \in TagRequests : BeginTag(p, kind, t)
               \/ \E keeps \in BOOLEAN, tags \in SUBSET RoomTags : BeginClose(p, keeps, tags)
               \/ \E keeps \in BOOLEAN : BeginOtherClose(p, keeps)
               \/ \E u \in NoteUsers \cup {Unassigned}, s \in RoomSectors : BeginTransfer(p, u, s)
        PROVE  NotesInv'
    <3>1. d.is = "none" /\ UNCHANGED <<notes, noteHistory>>
      BY <2>1 DEF BeginTag, BeginClose, BeginOtherClose, BeginTransfer, Under
    <3>2. CASE \E t \in RoomTags, kind \in TagRequests : BeginTag(p, kind, t)
      <4>1. PICK t \in RoomTags, kind \in TagRequests : Asks(p, [is |-> kind, tag |-> t])
        BY <3>2 DEF BeginTag
      <4>2. [is |-> kind, tag |-> t].is \notin {"note", "delete"}
        BY DEF TagRequests
      <4>3. QED
        BY <3>1, <4>1, <4>2, <2>r
    <3>3. CASE \E keeps \in BOOLEAN, tags \in SUBSET RoomTags : BeginClose(p, keeps, tags)
      BY <3>1, <3>3, <2>r DEF BeginClose
    <3>4. CASE \E keeps \in BOOLEAN : BeginOtherClose(p, keeps)
      BY <3>1, <3>4, <2>r DEF BeginOtherClose
    <3>5. CASE \E u \in NoteUsers \cup {Unassigned}, s \in RoomSectors : BeginTransfer(p, u, s)
      BY <3>1, <3>5, <2>r DEF BeginTransfer
    <3>6. QED
      BY <2>1, <3>2, <3>3, <3>4, <3>5
  <2>2. CASE WriteTag(p) \/ CloseTagged(p) \/ RefuseUpdate(p) \/ RollBackTransfer(p)
    <3>1. Asks(p, NoDetail) /\ d.is \notin {"note", "delete"} /\ UNCHANGED <<notes, noteHistory>>
      BY <2>2 DEF WriteTag, CloseTagged, RefuseUpdate, RollBackTransfer, Ends, Under, TagRequests
    <3>2. QED
      BY <3>1, <2>r DEF NoDetail
  <2>3. CASE SaveTransfer(p)
    <3> DEFINE e == [d EXCEPT !.saved = TRUE, !.cleared = ToClear(p)]
    <3>1. d.is = "transfer" /\ Asks(p, e) /\ UNCHANGED <<notes, noteHistory>>
      BY <2>3 DEF SaveTransfer, Under
    <3>2. d \in [is: {"transfer"}, room: Tagged, from: RoomSectors, saved: BOOLEAN,
                 cleared: SUBSET RoomTags]
      BY <2>d, <3>1 DEF Detail, TagRequests, NoteRequests
    <3>3. e.is = "transfer"
      BY <3>1, <3>2
    <3>4. QED
      BY <3>1, <3>3, <2>r
  <2>4. CASE CommitTransfer(p)
    <3>1. /\ d.is = "transfer" /\ Asks(p, NoDetail) /\ notes' = [n \in Notes |-> Marked(n)]
          /\ settled' = settled \cup Live /\ broken' = broken
          /\ overtaken' = overtaken \cup {n \in Live : \E o \in DetailRequests :
                                             OnNote(o, "delete", "write") /\ detail[o].note = n}
      BY <2>4 DEF CommitTransfer, Ends, Under
    <3>2. DOMAIN detail = DetailRequests
      BY <1>0 DEF RoomDetailsTypeOK
    <3>3. detail'[p] = NoDetail /\ \A o \in DetailRequests \ {p} : detail'[o] = detail[o]
      BY <3>1, <3>2 DEF Asks
    <3>4. \A n \in Notes : /\ notes'[n].is = notes[n].is /\ notes'[n].message = notes[n].message
                           /\ n \in Live => ~notes'[n].deletable
                           /\ n \notin Live => notes'[n] = notes[n]
      BY <1>0, <3>1 DEF RoomDetailsTypeOK, Marked, Note
    <3>5. ASSUME NEW o \in DetailRequests
          PROVE  /\ NoteFits(detail'[o], notes', settled', overtaken')
                 /\ Places(detail'[o])
      <4>1. CASE o = p
        BY <4>1, <3>3 DEF NoDetail, NoteFits, Places
      <4>2. CASE o # p /\ detail[o].is \in {"note", "delete"}
        <5>1. detail[o].note \in Notes
          BY <1>0, <4>2, DetailHolds DEF RoomDetailsTypeOK, NoteRequests
        <5>2. NoteFits(detail[o], notes, settled, overtaken)
          BY DEF NotesInv
        <5>3. QED
          BY <4>2, <5>1, <5>2, <3>1, <3>3, <3>4 DEF NoteFits, NotesInv, OnNote, Under
      <4>3. CASE o # p /\ detail[o].is \notin {"note", "delete"}
        BY <4>3, <3>3 DEF NoteFits, Places
      <4>4. QED
        BY <4>1, <4>2, <4>3
    <3>6. \A o, q \in DetailRequests : SameNote(detail'[o], detail'[q]) => o = q
      BY <3>3 DEF NotesInv, SameNote, NoDetail
    <3>7. \A n \in settled' : notes'[n].is # "none"
      BY <1>0, <3>1, <3>4 DEF NotesInv, Live, RoomDetailsTypeOK
    <3>8. NotesOutliveTransfers'
      BY <1>0, <3>1, <3>4 DEF NotesInv, NotesOutliveTransfers, Live, RoomDetailsTypeOK
    <3>9. ASSUME NEW n \in Notes, Writes(n) PROVE Writes(n)'
      <4>1. PICK o \in DetailRequests :
                (OnNote(o, "note", "write") \/ OnNote(o, "delete", "message")) /\ detail[o].note = n
        BY <3>9 DEF Writes
      <4>2. o # p
        BY <4>1, <3>1 DEF OnNote, Under
      <4>3. QED
        BY <4>1, <4>2, <3>3 DEF Writes, OnNote, Under
    <3>10. NotesHaveTheirMessage'
      BY <3>1, <3>4, <3>9 DEF NotesInv, NotesHaveTheirMessage, Live
    <3>11. QED
      BY <1>0, <3>5, <3>6, <3>7, <3>8, <3>10 DEF NotesInv
  <2>5. ASSUME NEW n \in Notes, BeginDelete(p, n) \/ BeginUpload(p, n) PROVE NotesInv'
    <3>1. PICK e \in [is: {"delete", "upload"}, at: {"check", "write"}, note: {n}] :
              Asks(p, e) /\ (BeginDelete(p, n) => e.is = "delete" /\ e.at = "write")
                         /\ (~BeginDelete(p, n) => e.is = "upload")
      BY <2>5 DEF BeginDelete, BeginUpload
    <3>2. d.is = "none" /\ UNCHANGED <<notes, noteHistory>>
      BY <2>5 DEF BeginDelete, BeginUpload, Under
    <3>3. BeginDelete(p, n) => notes[n].is = "live" /\ n \notin settled
      BY DEF BeginDelete, MayDelete, NotesInv, NotesOutliveTransfers
    <3>4. NoteFits(e, notes, settled, overtaken) /\ e.is # "note" /\ Places(e)
      BY <3>1, <3>3 DEF NoteFits, Places
    <3>5. detail' = [detail EXCEPT ![p] = e] /\ UNCHANGED <<notes, settled, overtaken, broken>>
      BY <3>1, <3>2 DEF Asks, noteHistory
    <3>6. QED
      BY <1>0, <3>2, <3>4, <3>5, NotesLeft
  <2>6. CASE BreakOff(p)
    <3>1. NoteFits(NoDetail, notes, settled, overtaken) /\ NoDetail.is # "note" /\ Places(NoDetail)
      BY DEF NoteFits, NoDetail, Places
    <3>2. /\ detail' = [detail EXCEPT ![p] = NoDetail] /\ UNCHANGED <<notes, settled, overtaken>>
          /\ broken \subseteq broken' /\ d.note \in broken'
      BY <2>6 DEF BreakOff, Ends, Asks
    <3>3. QED
      BY <1>0, <3>1, <3>2, NotesLeft
  <2>7. CASE CheckUpload(p)
    <3>1. d.is = "upload" /\ UNCHANGED <<notes, noteHistory>>
      BY <2>7 DEF CheckUpload, OnNote, Under
    <3>2. d \in [is: NoteRequests, at: {"check", "write", "message"}, note: Notes]
      BY <2>d, <3>1 DEF Detail, TagRequests, NoteRequests
    <3>3. [d EXCEPT !.at = "write"].is = "upload" /\ NoDetail.is = "none"
      BY <3>1, <3>2 DEF NoDetail
    <3>4. Asks(p, NoDetail) \/ Asks(p, [d EXCEPT !.at = "write"])
      BY <2>7 DEF CheckUpload, Ends
    <3>5. QED
      BY <3>1, <3>3, <3>4, <2>r
  <2>8. ASSUME NEW n \in Notes, BeginNote(p, n) PROVE NotesInv'
    <3> DEFINE e == [is |-> "note", at |-> "write", note |-> n]
               entry == [notes[n] EXCEPT !.message = TRUE]
    <3>1. /\ d.is = "none" /\ notes[n] = NoNote /\ UNCHANGED noteHistory
          /\ Asks(p, e) /\ SetsNote(n, entry)
      BY <2>8 DEF BeginNote, SetsNote, Under
    <3>2. entry.is = "none" /\ entry.message /\ n \notin settled
      BY <3>1 DEF NoNote, NotesInv
    <3>3. notes'[n] = entry /\ detail'[p] = e
      BY <1>0, <3>1 DEF RoomDetailsTypeOK, Asks, SetsNote
    <3>4. e.is = "note" /\ e.at = "write" /\ e.note = n
      OBVIOUS
    <3> HIDE DEF e, entry
    <3>5. NoteFits(e, notes', settled, overtaken) /\ Places(e)
      BY <3>2, <3>3, <3>4 DEF NoteFits, Places
    <3>6. IsWritten(n, detail')
      BY <3>3, <3>4 DEF IsWritten
    <3>7. \A o \in DetailRequests \ {p} :
             detail[o].is \in NoteRequests /\ detail[o].note = n =>
                 /\ detail[o].is # "note"
                 /\ detail[o].is = "delete" => entry.is \in {"gone", notes[n].is}
      BY <3>1, <3>2 DEF NotesInv, NoteFits, NoNote
    <3>8. QED
      BY <1>0, <3>1, <3>2, <3>4, <3>5, <3>6, <3>7, NoteWritten
  <2>9. CASE WriteNote(p) \/ DeleteMessage(p) \/ InsertMedia(p)
    <3> DEFINE n == d.note
    <3>1. /\ d.is \in NoteRequests /\ UNCHANGED noteHistory
          /\ Asks(p, NoDetail)
      BY <2>9 DEF WriteNote, DeleteMessage, InsertMedia, OnNote, Under, NoteRequests, Ends
    <3>2. n \in Notes
      BY <2>d, <3>1, DetailHolds
    <3>3. notes[n] \in Note
      BY <1>0, <3>2 DEF RoomDetailsTypeOK
    <3>4. NoteFits(NoDetail, notes', settled, overtaken) /\ NoDetail.is # "note" /\ Places(NoDetail)
      BY DEF NoteFits, NoDetail, Places
    <3>5. CASE WriteNote(p)
      <4> DEFINE entry == [notes[n] EXCEPT !.is = "live"]
      <4>1. SetsNote(n, entry) /\ d.is = "note"
        BY <3>5 DEF WriteNote, OnNote, Under, SetsNote
      <4>2. notes[n].is = "none" /\ notes[n].message /\ n \notin settled
        BY <2>d, <4>1 DEF NoteFits, NotesInv
      <4>3. entry.is = "live" /\ entry.message
        BY <3>3, <4>2 DEF Note
      <4>4. \A o \in DetailRequests \ {p} :
               detail[o].is \in NoteRequests /\ detail[o].note = n =>
                   /\ detail[o].is # "note"
                   /\ detail[o].is = "delete" => entry.is \in {"gone", notes[n].is}
        <5>1. SUFFICES ASSUME NEW o \in DetailRequests \ {p},
                              detail[o].is \in NoteRequests, detail[o].note = n
                       PROVE  detail[o].is \notin {"note", "delete"}
          OBVIOUS
        <5>2. detail[o].is # "note"
          BY <4>1, <5>1 DEF NotesInv, SameNote
        <5>3. NoteFits(detail[o], notes, settled, overtaken) /\ detail[o] \in Detail
          BY <1>0 DEF NotesInv, RoomDetailsTypeOK
        <5>4. detail[o].is = "delete" => detail[o].at \in {"check", "write", "message"}
          BY <5>3, DetailHolds DEF NoteRequests
        <5>5. detail[o].is = "delete" => detail[o].at # "check"
          BY DEF NotesInv, Places
        <5>6. QED
          BY <4>2, <5>1, <5>2, <5>3, <5>4, <5>5 DEF NoteFits
      <4> HIDE DEF entry
      <4>5. QED
        BY <1>0, <3>1, <3>2, <3>4, <4>1, <4>2, <4>3, <4>4, NoteWritten
    <3>6. CASE DeleteMessage(p)
      <4> DEFINE entry == [notes[n] EXCEPT !.message = FALSE]
      <4>1. SetsNote(n, entry) /\ d.is = "delete" /\ d.at = "message"
        BY <3>6 DEF DeleteMessage, OnNote, Under, MessageLeft, SetsNote
      <4>2. notes[n].is = "gone"
        BY <2>d, <4>1 DEF NoteFits
      <4>3. entry.is = "gone" /\ ~entry.message
        BY <3>3, <4>2 DEF Note
      <4>4. n \in settled => n \in overtaken
        BY <4>2 DEF NotesInv, NotesOutliveTransfers
      <4>5. \A o \in DetailRequests \ {p} :
               detail[o].is \in NoteRequests /\ detail[o].note = n => detail[o].is # "note"
        BY <4>2 DEF NotesInv, NoteFits
      <4> HIDE DEF entry
      <4>6. QED
        BY <1>0, <3>1, <3>2, <3>4, <4>1, <4>2, <4>3, <4>4, <4>5, NoteWritten
    <3>7. CASE InsertMedia(p) /\ n \in Live
      <4> DEFINE entry == [notes[n] EXCEPT !.medias = notes[n].medias + 1]
      <4>1. SetsNote(n, entry) /\ d.is = "upload"
        BY <3>7 DEF InsertMedia, OnNote, Under, SetsNote
      <4>2. /\ entry.is = "live" /\ notes[n].is = "live" /\ entry.message
            /\ entry.deletable = notes[n].deletable
        BY <3>2, <3>3, <3>7 DEF Note, Live, NotesInv, NotesHaveTheirMessage
      <4>3. n \in settled => ~entry.deletable
        BY <4>2 DEF NotesInv, NotesOutliveTransfers
      <4>4. \A o \in DetailRequests \ {p} :
               detail[o].is \in NoteRequests /\ detail[o].note = n => detail[o].is # "note"
        BY <4>2 DEF NotesInv, NoteFits
      <4> HIDE DEF entry
      <4>5. QED
        BY <1>0, <3>1, <3>2, <3>4, <4>1, <4>2, <4>3, <4>4, NoteWritten
    <3>8. CASE InsertMedia(p) /\ n \notin Live
      <4>1. Asks(p, NoDetail) /\ UNCHANGED <<notes, noteHistory>> /\ d.is = "upload"
        BY <3>8 DEF InsertMedia, OnNote, Under, Ends
      <4>2. QED
        BY <4>1, <2>r DEF NoDetail
    <3>9. QED
      BY <2>9, <3>5, <3>6, <3>7, <3>8
  <2>10. CASE DeleteNote(p)
    <3> DEFINE n == d.note
               e == [d EXCEPT !.at = "message"]
               entry == [notes[n] EXCEPT !.is = "gone", !.medias = 0]
    <3>1. /\ d.is = "delete" /\ d.at = "write" /\ UNCHANGED noteHistory
          /\ Asks(p, e) /\ SetsNote(n, entry)
      BY <2>10 DEF DeleteNote, OnNote, Under, SetsNote
    <3>2. d \in [is: NoteRequests, at: {"check", "write", "message"}, note: Notes]
      BY <2>d, <3>1 DEF Detail, TagRequests, NoteRequests
    <3>3. e.is = "delete" /\ e.at = "message" /\ e.note = n /\ n \in Notes
      BY <3>1, <3>2
    <3>4. notes[n] \in Note
      BY <1>0, <3>3 DEF RoomDetailsTypeOK
    <3>5. entry.is = "gone"
      BY <3>4 DEF Note
    <3>6. notes[n].is # "none" /\ (n \in settled => n \in overtaken)
      BY <2>d, <3>1 DEF NoteFits
    <3>7. notes'[n] = entry /\ detail'[p] = e
      BY <1>0, <3>1, <3>3 DEF RoomDetailsTypeOK, Asks, SetsNote
    <3> HIDE DEF e, entry
    <3>8. NoteFits(e, notes', settled, overtaken) /\ Places(e)
      BY <3>3, <3>5, <3>7 DEF NoteFits, Places
    <3>9. IsWritten(n, detail')
      BY <3>3, <3>7 DEF IsWritten
    <3>10. \A o \in DetailRequests \ {p} :
              detail[o].is \in NoteRequests /\ detail[o].note = n => detail[o].is # "note"
      BY <3>6 DEF NotesInv, NoteFits
    <3>11. QED
      BY <1>0, <3>1, <3>3, <3>5, <3>6, <3>8, <3>9, <3>10, NoteWritten
  <2>11. QED
    BY <1>2, <2>1, <2>2, <2>3, <2>4, <2>5, <2>6, <2>7, <2>8, <2>9, <2>10 DEF DetailStep
<1>3. QED
  BY <1>1, <1>2 DEF RoomDetailsNext

-----------------------------------------------------------------------------
\* Uploads that have counted the files of a note for the last time.
Uploading(n, asks) ==
    {p \in DetailRequests : asks[p].is = "upload" /\ asks[p].at = "write" /\ asks[p].note = n}

MediaInv ==
    /\ RoomDetailsTypeOK
    /\ \A n \in Notes : notes[n].medias + Cardinality(Uploading(n, detail))
                            < MediaLimit + Cardinality(DetailRequests)

LEMMA UploadsAreRequests ==
  ASSUME NEW n, NEW asks
  PROVE  /\ IsFiniteSet(Uploading(n, asks)) /\ Cardinality(Uploading(n, asks)) \in Nat
         /\ Cardinality(DetailRequests) \in Nat
         /\ Cardinality(Uploading(n, asks)) <= Cardinality(DetailRequests)
<1>1. IsFiniteSet(DetailRequests)
  BY RoomDetailsAssumption
<1>2. Uploading(n, asks) \subseteq DetailRequests
  BY DEF Uploading
<1>3. QED
  BY <1>1, <1>2, FS_Subset, FS_CardinalityType

LEMMA FewerUploads ==
  ASSUME NEW n, NEW table, NEW asks, Uploading(n, asks) \subseteq Uploading(n, table)
  PROVE  Cardinality(Uploading(n, asks)) <= Cardinality(Uploading(n, table))
  BY UploadsAreRequests, FS_Subset

\* Whatever a request goes on to, unless it counted just now, it uploads no more than it did.
LEMMA UploadsEnd ==
  ASSUME RoomDetailsTypeOK, NEW p \in DetailRequests, NEW d, Asks(p, d), NEW n \in Notes,
         ~(d.is = "upload" /\ d.at = "write")
  PROVE  Uploading(n, detail') = Uploading(n, detail) \ {p}
<1>1. detail'[p] = d /\ \A o \in DetailRequests \ {p} : detail'[o] = detail[o]
  BY DEF RoomDetailsTypeOK, Asks
<1>2. QED
  BY <1>1 DEF Uploading

LEMMA MediasBegin == RoomDetailsInit => MediaInv
<1> SUFFICES ASSUME RoomDetailsInit PROVE MediaInv
  OBVIOUS
<1>1. ASSUME NEW n \in Notes
      PROVE  notes[n].medias = 0 /\ Uploading(n, detail) = {}
  BY DEF RoomDetailsInit, NoNote, NoDetail, Uploading
<1>2. ASSUME NEW n \in Notes
      PROVE  notes[n].medias + Cardinality(Uploading(n, detail))
                 < MediaLimit + Cardinality(DetailRequests)
  BY <1>1, UploadsAreRequests, FS_EmptySet, RoomDetailsAssumption
<1>3. QED
  BY <1>2, DetailsBegin DEF MediaInv

LEMMA MediasStayFew == MediaInv /\ [RoomDetailsNext]_detailVars => MediaInv'
<1> SUFFICES ASSUME MediaInv, [RoomDetailsNext]_detailVars,
                    NEW n \in Notes
             PROVE  notes'[n].medias + Cardinality(Uploading(n, detail'))
                        < MediaLimit + Cardinality(DetailRequests)
  BY DetailsKeepTypes DEF MediaInv
<1>0. /\ RoomDetailsTypeOK /\ RoomDetailsTypeOK'
      /\ notes[n].medias \in Nat /\ notes'[n].medias \in Nat /\ MediaLimit \in Nat \ {0}
      /\ notes[n].medias + Cardinality(Uploading(n, detail))
             < MediaLimit + Cardinality(DetailRequests)
  BY DetailsKeepTypes, RoomDetailsAssumption DEF MediaInv, RoomDetailsTypeOK, Note
<1> DEFINE size == Cardinality(Uploading(n, detail))
           size2 == Cardinality(Uploading(n, detail'))
           all == Cardinality(DetailRequests)
<1>c. size \in Nat /\ size2 \in Nat /\ all \in Nat /\ size2 <= all
  BY UploadsAreRequests
\* No more files, and no more uploads of them.
<1>s. ASSUME notes'[n].medias = notes[n].medias, Uploading(n, detail') \subseteq Uploading(n, detail)
      PROVE  notes'[n].medias + size2 < MediaLimit + all
  <2>1. size2 <= size
    BY <1>s, FewerUploads
  <2>2. QED
    BY <1>0, <1>c, <1>s, <2>1
<1>1. CASE UNCHANGED detailVars \/ LeaveClosed
  BY <1>1, <1>s DEF detailVars, LeaveClosed
<1>2. ASSUME NEW p \in DetailRequests, DetailStep(p)
      PROVE  notes'[n].medias + size2 < MediaLimit + all
  <2> DEFINE d == detail[p]
  <2>e. ASSUME NEW e, Asks(p, e), ~(e.is = "upload" /\ e.at = "write"),
               notes'[n].medias = notes[n].medias
        PROVE  notes'[n].medias + size2 < MediaLimit + all
    BY <1>0, <1>s, <2>e, UploadsEnd
  <2>1. CASE WriteTag(p) \/ CloseTagged(p) \/ RefuseUpdate(p) \/ RollBackTransfer(p) \/ BreakOff(p)
    BY <2>1, <2>e DEF WriteTag, CloseTagged, RefuseUpdate, RollBackTransfer, BreakOff, Ends, NoDetail
  <2>2. CASE \E t \in RoomTags, kind \in TagRequests : BeginTag(p, kind, t)
    <3>1. PICK t \in RoomTags, kind \in TagRequests : BeginTag(p, kind, t)
      BY <2>2
    <3>2. [is |-> kind, tag |-> t].is # "upload"
      BY DEF TagRequests
    <3>3. QED
      BY <3>1, <3>2, <2>e DEF BeginTag
  <2>3. CASE \/ \E keeps \in BOOLEAN, tags \in SUBSET RoomTags : BeginClose(p, keeps, tags)
             \/ \E keeps \in BOOLEAN : BeginOtherClose(p, keeps)
    BY <2>3, <2>e DEF BeginClose, BeginOtherClose
  <2>4. CASE \E u \in NoteUsers \cup {Unassigned}, s \in RoomSectors : BeginTransfer(p, u, s)
    BY <2>4, <2>e DEF BeginTransfer
  <2>5. CASE SaveTransfer(p)
    <3> DEFINE e == [d EXCEPT !.saved = TRUE, !.cleared = ToClear(p)]
    <3>1. d.is = "transfer" /\ Asks(p, e) /\ UNCHANGED notes
      BY <2>5 DEF SaveTransfer, Under
    <3>2. d \in [is: {"transfer"}, room: Tagged, from: RoomSectors, saved: BOOLEAN,
                 cleared: SUBSET RoomTags]
      BY <1>0, <3>1 DEF RoomDetailsTypeOK, Detail, TagRequests, NoteRequests
    <3>3. e.is = "transfer"
      BY <3>1, <3>2
    <3>4. QED
      BY <3>1, <3>3, <2>e
  <2>6. CASE CommitTransfer(p)
    <3>1. Asks(p, NoDetail) /\ notes' = [m \in Notes |-> Marked(m)]
      BY <2>6 DEF CommitTransfer, Ends
    <3>2. notes'[n].medias = notes[n].medias
      BY <1>0, <3>1 DEF Marked, RoomDetailsTypeOK, Note
    <3>3. QED
      BY <3>1, <3>2, <2>e DEF NoDetail
  <2>7. ASSUME NEW m \in Notes, BeginNote(p, m) \/ BeginDelete(p, m) \/ BeginUpload(p, m)
        PROVE  notes'[n].medias + size2 < MediaLimit + all
    <3>1. notes'[n].medias = notes[n].medias
      BY <1>0, <2>7 DEF BeginNote, BeginDelete, BeginUpload, RoomDetailsTypeOK, Note
    <3>2. QED
      BY <2>7, <3>1, <2>e DEF BeginNote, BeginDelete, BeginUpload
  <2>8. CASE WriteNote(p) \/ DeleteMessage(p)
    <3>1. notes'[n].medias = notes[n].medias
      BY <1>0, <2>8 DEF WriteNote, DeleteMessage, RoomDetailsTypeOK, Note
    <3>2. QED
      BY <2>8, <3>1, <2>e DEF WriteNote, DeleteMessage, Ends, NoDetail
  <2>9. CASE DeleteNote(p)
    <3> DEFINE e == [d EXCEPT !.at = "message"]
    <3>1. d.is = "delete" /\ Asks(p, e)
          /\ notes' = [notes EXCEPT ![d.note].is = "gone", ![d.note].medias = 0]
      BY <2>9 DEF DeleteNote, OnNote, Under
    <3>2. d \in [is: NoteRequests, at: {"check", "write", "message"}, note: Notes]
      BY <1>0, <3>1 DEF RoomDetailsTypeOK, Detail, TagRequests, NoteRequests
    <3>3. e.is = "delete"
      BY <3>1, <3>2
    <3>4. CASE d.note # n
      <4>1. notes'[n].medias = notes[n].medias
        BY <1>0, <3>1, <3>4 DEF RoomDetailsTypeOK
      <4>2. QED
        BY <3>1, <3>3, <4>1, <2>e
    <3>5. CASE d.note = n
      <4>1. notes'[n].medias = 0
        BY <1>0, <3>1, <3>5 DEF RoomDetailsTypeOK, Note
      <4>2. QED
        BY <1>0, <1>c, <4>1
    <3>6. QED
      BY <3>4, <3>5
  <2>10. CASE CheckUpload(p)
    <3> DEFINE e == [d EXCEPT !.at = "write"]
    <3>1. d.is = "upload" /\ UNCHANGED notes
          /\ (Asks(p, NoDetail) \/ (Asks(p, e) /\ Accepts(d.note)))
      BY <2>10 DEF CheckUpload, OnNote, Under, Ends
    <3>2. d \in [is: NoteRequests, at: {"check", "write", "message"}, note: Notes]
      BY <1>0, <3>1 DEF RoomDetailsTypeOK, Detail, TagRequests, NoteRequests
    <3>3. CASE Asks(p, NoDetail)
      BY <3>1, <3>3, <2>e DEF NoDetail
    <3>4. CASE Asks(p, e) /\ d.note = n /\ Accepts(n)
      <4>1. notes[n].medias < MediaLimit
        BY <3>4 DEF Accepts
      <4>2. QED
        BY <1>0, <1>c, <3>1, <4>1
    <3>5. CASE Asks(p, e) /\ d.note # n
      <4>1. detail'[p].note # n /\ \A o \in DetailRequests \ {p} : detail'[o] = detail[o]
        BY <1>0, <3>2, <3>5 DEF RoomDetailsTypeOK, Asks
      <4>2. Uploading(n, detail') \subseteq Uploading(n, detail)
        BY <4>1 DEF Uploading
      <4>3. QED
        BY <3>1, <4>2, <1>s
    <3>6. QED
      BY <3>1, <3>3, <3>4, <3>5
  <2>11. CASE InsertMedia(p)
    <3>1. /\ d.is = "upload" /\ d.at = "write" /\ Asks(p, NoDetail)
          /\ notes' = IF d.note \in Live THEN [notes EXCEPT ![d.note].medias = @ + 1] ELSE notes
      BY <2>11 DEF InsertMedia, OnNote, Under, Ends
    <3>2. CASE notes'[n].medias = notes[n].medias
      BY <3>1, <3>2, <2>e DEF NoDetail
    <3>3. CASE notes'[n].medias # notes[n].medias
      <4>1. d.note = n /\ notes'[n].medias = notes[n].medias + 1
        BY <1>0, <3>1, <3>3 DEF RoomDetailsTypeOK, Note, Live
      <4>2. p \in Uploading(n, detail)
        BY <3>1, <4>1 DEF Uploading
      <4>3. Uploading(n, detail') = Uploading(n, detail) \ {p}
        BY <1>0, <3>1, UploadsEnd DEF NoDetail
      <4>4. size2 = size - 1
        BY <4>2, <4>3, UploadsAreRequests, FS_RemoveElement
      <4> HIDE DEF size, size2, all
      <4>5. QED
        BY <1>0, <1>c, <4>1, <4>4 DEF size, all
    <3>4. QED
      BY <3>2, <3>3
  <2>12. QED
    BY <1>2, <2>1, <2>2, <2>3, <2>4, <2>5, <2>6, <2>7, <2>8, <2>9, <2>10, <2>11 DEF DetailStep
<1>3. QED
  BY <1>1, <1>2 DEF RoomDetailsNext

LEMMA FewMedias == MediaInv => MediasFit
<1> SUFFICES ASSUME MediaInv, NEW n \in Notes
             PROVE  notes[n].medias < MediaLimit + Cardinality(DetailRequests)
  BY DEF MediasFit
<1>1. notes[n].medias \in Nat /\ MediaLimit \in Nat
  BY RoomDetailsAssumption DEF MediaInv, RoomDetailsTypeOK, Note
<1>2. QED
  BY <1>1, UploadsAreRequests DEF MediaInv

(***************************************************************************)
(* What is put on a room agrees whoever writes to it at once: its tags are *)
(* of its sector unless a request wrote that had read it before another    *)
(* one, notes outlive transfers with their messages, and uploads that meet *)
(* pass the limit of files by one less than their number.                  *)
(***************************************************************************)
THEOREM DetailsKept == RoomDetailsSpec => []DetailsHold
<1>1. RoomDetailsInit => RoomInv /\ NotesInv /\ MediaInv
  BY RoomBegins, NotesBegin, MediasBegin
<1>2. RoomInv /\ NotesInv /\ MediaInv /\ [RoomDetailsNext]_detailVars
          => (RoomInv /\ NotesInv /\ MediaInv)'
  BY RoomStaysTidy, NotesStayWhole, MediasStayFew
<1>3. RoomInv /\ NotesInv /\ MediaInv => DetailsHold
  BY FewMedias DEF RoomInv, NotesInv, DetailsHold
<1>4. QED
  BY <1>1, <1>2, <1>3, PTL DEF RoomDetailsSpec

-----------------------------------------------------------------------------
(* MCRooms.  The components share no variable: a step of the run is a step *)
(* of one of them and a stutter of the others.                             *)

LEMMA RunIsRooms ==
  RoomsSpec => Spec /\ DashSpec /\ ReportPagesSpec /\ FlowStartsSpec /\ RoomDetailsSpec
<1>1. RoomsInit => Init /\ DashInit /\ ReportPagesInit /\ FlowStartsInit /\ RoomDetailsInit
  BY DEF RoomsInit
<1>2. [RoomsNext]_roomsVars =>
          /\ [Next]_vars /\ [DashNext]_dashVars /\ [ReportPagesNext]_pageVars
          /\ [FlowStartsNext]_flowVars /\ [RoomDetailsNext]_detailVars
  BY DEF RoomsNext, roomsVars
<1>3. QED
  BY <1>1, <1>2, PTL DEF RoomsSpec, roomsVars, Spec, DashSpec, ReportPagesSpec,
     FlowStartsSpec, RoomDetailsSpec

(***************************************************************************)
(* The state of everything about rooms keeps its types.                    *)
(***************************************************************************)
THEOREM RoomsTypeCorrect == RoomsSpec => []RoomsTypeOK
  BY RunIsRooms, TypeCorrect, DashTypeCorrect, ReportPagesTypeCorrect, FlowStartsTypeCorrect,
     RoomDetailsTypeCorrect, PTL DEF RoomsTypeOK

(***************************************************************************)
(* In the run that puts rooms together, what is told and reported of them  *)
(* fits, starts and tickets agree, what is put on them agrees, and they    *)
(* come in as by themselves.                                               *)
(***************************************************************************)
THEOREM RoomsKeepPromises ==
  RoomsSpec => [](RoomsHold /\ OneOpenRoomPerContact /\ LimitRespected /\ NeverAllBlocked)
  BY RunIsRooms, DashboardsFit, ReportsKept, PagesKept, FlowStartsKept, DetailsKept, OneOpenRoom,
     QueueLimitHolds, NoDeadlock, PTL DEF RoomsHold
=============================================================================
