------------------------- MODULE RoomAssignmentProofs -------------------------
(***************************************************************************)
(* Theorems about RoomAssignment, for any rooms, agents, limits, keys and  *)
(* request threads.                                                        *)
(***************************************************************************)
EXTENDS RoomAssignment, FiniteSetTheorems, TLAPS

-----------------------------------------------------------------------------
(***************************************************************************)
(* Type correctness.                                                       *)
(***************************************************************************)
LEMMA BlankIsRow == Blank \in Row
<1>1. (CHOOSE q \in Queues : TRUE) \in Queues
  BY ConstantsAssumption
<1> QED BY <1>1 DEF Blank, Row

LEMMA TypeInit == Init => TypeOK
  BY ConstantsAssumption, BlankIsRow DEF Init, TypeOK, Locations, Procs, Choosing

LEMMA HandleType ==
  ASSUME TypeOK, NEW h \in Handlers, Handle(h)
  PROVE  TypeOK'
<1>1. PICK r \in Rooms, row \in Row : Fetch(h, r, row)
  <2>1. PICK r \in Rooms :
           \/ \E a \in Agents : Pick(h, r, a)
           \/ \E a \in Agents, q \in Queues : TransferToUser(h, r, a, q)
           \/ \E q \in Queues : TransferToQueue(h, r, q)
           \/ Requeue(h, r) \/ UpdateCustomFields(h, r) \/ Close(h, r)
    BY DEF Handle
  <2>2. db[r] \in Row
    BY DEF TypeOK
  <2>3. /\ \A a \in Agents \cup {NoAgent} : [db[r] EXCEPT !.user = a] \in Row
        /\ \A a \in Agents, q \in Queues : [db[r] EXCEPT !.user = a, !.queue = q] \in Row
        /\ \A q \in Queues : [db[r] EXCEPT !.queue = q, !.user = NoAgent] \in Row
        /\ [db[r] EXCEPT !.active = FALSE] \in Row
    BY <2>2 DEF Row
  <2> QED BY <2>1, <2>2, <2>3
          DEF Pick, TransferToUser, TransferToQueue, Requeue, UpdateCustomFields, Close
<1> QED BY <1>1, ConstantsAssumption
        DEF Fetch, TypeOK, Procs, Locations, Choosing, rowVars, passVars, presence

LEMMA CheckActiveType ==
  ASSUME TypeOK, NEW p \in Procs, CheckActive(p)
  PROVE  TypeOK'
BY ConstantsAssumption DEF CheckActive, TypeOK, Procs, Locations, Choosing, rowVars, passVars,
                               presence

LEMMA RejectClosedType ==
  ASSUME TypeOK, NEW p \in Procs, RejectClosed(p)
  PROVE  TypeOK'
BY ConstantsAssumption, BlankIsRow
DEF RejectClosed, TypeOK, Procs, Locations, Choosing, rowVars, presence

LEMMA WriteType ==
  ASSUME TypeOK, NEW p \in Procs, Write(p)
  PROVE  TypeOK'
<1>1. room[p] \in Rooms /\ copy[p] \in Row
  BY DEF Write, TypeOK
<1>2. /\ db' \in [Rooms -> Row] /\ routed' \subseteq Rooms /\ exposed' \subseteq Rooms
      /\ crossed' \subseteq Rooms
  BY <1>1 DEF Write, TypeOK
<1> QED BY <1>1, <1>2, ConstantsAssumption, BlankIsRow
        DEF Write, Continue, TypeOK, Procs, Locations, Choosing, passVars, presence

LEMMA RouteType ==
  ASSUME TypeOK, NEW k \in Keys, Route(k)
  PROVE  TypeOK'
<1> USE ConstantsAssumption, BlankIsRow
    DEF TypeOK, Procs, Locations, Choosing, rowVars, passVars, presence
<1>1. CASE BeginPass(k)
  BY <1>1 DEF BeginPass
<1>2. ASSUME NEW q \in Queues, OpenQueue(k, q) PROVE TypeOK'
  BY <1>2 DEF OpenQueue, RoomsToRoute
<1>3. ASSUME NEW r \in Rooms, SkipAssigned(k, r) PROVE TypeOK'
  BY <1>3 DEF SkipAssigned
<1>4. ASSUME NEW r \in Rooms, Refresh(k, r) PROVE TypeOK'
  BY <1>4 DEF Refresh
<1>5. ASSUME NEW a \in Agents, ChooseAgent(k, a) PROVE TypeOK'
  <2>1. copy' \in [Procs -> Row]
    BY <1>5 DEF ChooseAgent, Row
  <2> QED BY <1>5, <2>1 DEF ChooseAgent
<1>6. CASE EndQueue(k)
  BY <1>6 DEF EndQueue
<1>7. CASE StillOnline(k)
  BY <1>7 DEF StillOnline
<1>8. CASE StillHasCapacity(k)
  BY <1>8 DEF StillHasCapacity
<1>9. CASE LeaveRoom(k)
  BY <1>9 DEF LeaveRoom
<1>10. CASE EndPass(k)
  BY <1>10 DEF EndPass
<1> QED BY <1>1, <1>2, <1>3, <1>4, <1>5, <1>6, <1>7, <1>8, <1>9, <1>10 DEF Route

LEMMA TypeStep == TypeOK /\ [Next]_vars => TypeOK'
<1> SUFFICES ASSUME TypeOK, [Next]_vars PROVE TypeOK'
  OBVIOUS
<1>1. ASSUME NEW a \in Agents, ChangeStatus(a) \/ ChangeReadiness(a) PROVE TypeOK'
  BY <1>1 DEF ChangeStatus, ChangeReadiness, TypeOK, rowVars, passVars
<1>2. CASE UNCHANGED vars
  BY <1>2 DEF vars, TypeOK
<1> QED BY <1>1, <1>2, HandleType, CheckActiveType, RejectClosedType, WriteType, RouteType
        DEF Next

(***************************************************************************)
(* Every variable keeps its type, and a process that is choosing an agent  *)
(* for a room, saving it or writing it always has a room.                  *)
(***************************************************************************)
THEOREM TypeCorrect == Spec => []TypeOK
  BY TypeInit, TypeStep, PTL DEF Spec

-----------------------------------------------------------------------------
(***************************************************************************)
(* A closed room that is not exposed has no save past its SELECT.          *)
(***************************************************************************)
NobodyWritesClosed == \A r \in Rooms : ~db[r].active /\ r \notin exposed => Writing(r) = {}

LEMMA NobodyWritesInit == Init => NobodyWritesClosed
  BY DEF Init, NobodyWritesClosed, Writing

\* Every step but Write and CheckActive leaves the rows and the writers alone.
LEMMA OtherStepsWriteNothing ==
  ASSUME TypeOK, [Next]_vars,
         ~ \E p \in Procs : CheckActive(p) \/ Write(p)
  PROVE  UNCHANGED rowVars /\ \A r \in Rooms : Writing(r)' \subseteq Writing(r)
<1> USE DEF TypeOK, Procs
<1>1. ASSUME NEW h \in Handlers, Handle(h)
      PROVE  UNCHANGED rowVars /\ \A r \in Rooms : Writing(r)' \subseteq Writing(r)
  <2>1. PICK r \in Rooms : \E row : Fetch(h, r, row)
    BY <1>1 DEF Handle, Pick, TransferToUser, TransferToQueue, Requeue,
                UpdateCustomFields, Close
  <2> QED BY <2>1 DEF Fetch, Writing
<1>2. ASSUME NEW p \in Procs, RejectClosed(p)
      PROVE  UNCHANGED rowVars /\ \A r \in Rooms : Writing(r)' \subseteq Writing(r)
  BY <1>2 DEF RejectClosed, Writing
<1>3. ASSUME NEW k \in Keys, Route(k)
      PROVE  UNCHANGED rowVars /\ \A r \in Rooms : Writing(r)' \subseteq Writing(r)
  BY <1>3 DEF Route, BeginPass, OpenQueue, SkipAssigned, Refresh, ChooseAgent, EndQueue,
              StillOnline, StillHasCapacity, LeaveRoom, EndPass, Writing
<1>4. ASSUME NEW a \in Agents, ChangeStatus(a) \/ ChangeReadiness(a)
      PROVE  UNCHANGED rowVars /\ \A r \in Rooms : Writing(r)' \subseteq Writing(r)
  BY <1>4 DEF ChangeStatus, ChangeReadiness, Writing
<1>5. CASE UNCHANGED vars
  BY <1>5 DEF vars, rowVars, Writing
<1> QED BY <1>1, <1>2, <1>3, <1>4, <1>5 DEF Next

LEMMA NobodyWritesStep == TypeOK /\ NobodyWritesClosed /\ [Next]_vars => NobodyWritesClosed'
<1> SUFFICES ASSUME TypeOK, NobodyWritesClosed, [Next]_vars PROVE NobodyWritesClosed'
  OBVIOUS
<1>1. ASSUME NEW p \in Procs, CheckActive(p) PROVE NobodyWritesClosed'
  <2>1. \A r \in Rooms : r # room[p] => Writing(r)' = Writing(r)
    BY <1>1 DEF CheckActive, Writing, TypeOK
  <2> QED BY <1>1, <2>1 DEF CheckActive, NobodyWritesClosed, rowVars
<1>2. ASSUME NEW p \in Procs, Write(p) PROVE NobodyWritesClosed'
  <2>1. PICK r0 \in Rooms : r0 = room[p]
    BY <1>2 DEF Write, TypeOK
  <2>2. Continue(p) # "write"
    BY DEF Continue
  <2>3. ASSUME NEW r \in Rooms PROVE Writing(r)' = Writing(r) \ {p}
    BY <1>2, <2>2 DEF Write, Writing, TypeOK
  <2>4. ASSUME NEW r \in Rooms, r # r0
        PROVE  Writing(r)' = Writing(r) /\ db'[r] = db[r] /\ (r \in exposed' <=> r \in exposed)
    BY <1>2, <2>1, <2>3, <2>4 DEF Write, Writing, TypeOK
  <2>5. r0 \notin exposed' => Writing(r0)' = {}
    BY <1>2, <2>1, <2>3 DEF Write
  <2>6. ASSUME NEW r \in Rooms, ~db'[r].active, r \notin exposed' PROVE Writing(r)' = {}
    BY <2>4, <2>5, <2>6 DEF NobodyWritesClosed
  <2> QED BY <2>6 DEF NobodyWritesClosed
<1>3. CASE ~ \E p \in Procs : CheckActive(p) \/ Write(p)
  BY <1>3, OtherStepsWriteNothing DEF NobodyWritesClosed, rowVars
<1> QED BY <1>1, <1>2, <1>3

(***************************************************************************)
(* The test of is_active in Room.save suffices for every save that did not *)
(* overlap the closing: such a room stays closed.                          *)
(***************************************************************************)
THEOREM ClosedRoomsHold == Spec => ClosedHolds
<1> DEFINE A == \A r \in Rooms : ~db[r].active /\ r \notin exposed => ~db'[r].active
<1>1. TypeOK /\ NobodyWritesClosed /\ [Next]_vars => [A]_vars
  <2> SUFFICES ASSUME TypeOK, NobodyWritesClosed, [Next]_vars,
                      NEW r \in Rooms, ~db[r].active, r \notin exposed
               PROVE  ~db'[r].active
    OBVIOUS
  <2>1. Writing(r) = {}
    BY DEF NobodyWritesClosed
  <2>2. ASSUME NEW p \in Procs, CheckActive(p) PROVE ~db'[r].active
    BY <2>2 DEF CheckActive, rowVars
  <2>3. ASSUME NEW p \in Procs, Write(p) PROVE ~db'[r].active
    <3>1. room[p] # r
      BY <2>1, <2>3 DEF Write, Writing
    <3> QED BY <2>3, <3>1 DEF Write, TypeOK
  <2>4. CASE ~ \E p \in Procs : CheckActive(p) \/ Write(p)
    BY <2>4, OtherStepsWriteNothing DEF rowVars
  <2> QED BY <2>2, <2>3, <2>4
<1> QED BY TypeCorrect, NobodyWritesInit, NobodyWritesStep, <1>1, PTL DEF Spec, ClosedHolds

-----------------------------------------------------------------------------
(***************************************************************************)
(* The overshoot of passes.                                                *)
(***************************************************************************)
LEMMA LimitsAreNat == Cardinality(Keys) \in Nat /\ \A a \in Agents : Limit[a] \in Nat
  BY ConstantsAssumption, FS_CardinalityType

LEMMA CountsAreNat ==
  ASSUME TypeOK, NEW a
  PROVE  /\ IsFiniteSet(RoutedTo(a)) /\ Cardinality(RoutedTo(a)) \in Nat
         /\ IsFiniteSet(Committed(a)) /\ Cardinality(Committed(a)) \in Nat
         /\ IsFiniteSet(Held(a)) /\ Cardinality(Held(a)) \in Nat
<1>1. RoutedTo(a) \in SUBSET Rooms /\ Held(a) \in SUBSET Rooms /\ Committed(a) \in SUBSET Keys
  BY DEF RoutedTo, Held, Committed, TypeOK
<1> QED BY <1>1, ConstantsAssumption, FS_Subset, FS_CardinalityType

\* A step that moves no room and no pass towards the agent keeps the bound.
LEMMA BoundKept ==
  ASSUME TypeOK, TypeOK', OvershootBounded, NEW a \in Agents,
         RoutedTo(a)' \subseteq RoutedTo(a), Committed(a)' \subseteq Committed(a)
  PROVE  Cardinality(RoutedTo(a)') + Cardinality(Committed(a)') < Limit[a] + Cardinality(Keys)
<1>1. Cardinality(RoutedTo(a)') <= Cardinality(RoutedTo(a))
  BY CountsAreNat, FS_Subset
<1>2. Cardinality(Committed(a)') <= Cardinality(Committed(a))
  BY CountsAreNat, FS_Subset
<1>3. /\ Cardinality(RoutedTo(a)) \in Nat /\ Cardinality(Committed(a)) \in Nat
      /\ Cardinality(RoutedTo(a)') \in Nat /\ Cardinality(Committed(a)') \in Nat
  <2>1. \A S : S \in {RoutedTo(a)', Committed(a)'} => IsFiniteSet(S)
    BY CountsAreNat, FS_Subset
  <2> QED BY <2>1, CountsAreNat, FS_CardinalityType
<1> QED BY <1>1, <1>2, <1>3, LimitsAreNat DEF OvershootBounded

\* get_available_agent returns nobody who has reached the limit.
LEMMA ChooseAgentBound ==
  ASSUME TypeOK, TypeOK', OvershootBounded, NEW k \in Keys, NEW b \in Agents,
         ChooseAgent(k, b), NEW a \in Agents
  PROVE  Cardinality(RoutedTo(a)') + Cardinality(Committed(a)') < Limit[a] + Cardinality(Keys)
<1>1. RoutedTo(a)' = RoutedTo(a)
  BY DEF ChooseAgent, RoutedTo, rowVars
<1>2. CASE a = b
  <2>1. Cardinality(Held(a)) < Limit[a]
    BY <1>2 DEF ChooseAgent, LeastLoaded, AvailableAgents, HasCapacity, Load
  <2>2. RoutedTo(a) \in SUBSET Held(a)
    BY DEF RoutedTo, Held, TypeOK
  <2>3. Cardinality(RoutedTo(a)) <= Cardinality(Held(a))
    BY <2>2, CountsAreNat, FS_Subset
  <2>4. Committed(a)' \in SUBSET Keys
    BY DEF Committed
  <2>5. Cardinality(Committed(a)') <= Cardinality(Keys) /\ Cardinality(Committed(a)') \in Nat
    BY <2>4, ConstantsAssumption, FS_Subset, FS_CardinalityType
  <2> QED BY <1>1, <2>1, <2>3, <2>5, CountsAreNat, LimitsAreNat
<1>3. CASE a # b
  <2>1. Committed(a)' \subseteq Committed(a)
    BY <1>3 DEF ChooseAgent, Committed, TypeOK, Row, Procs
  <2> QED BY <1>1, <2>1, BoundKept
<1> QED BY <1>2, <1>3

\* A pass turns its commitment into a room.
LEMMA PassWriteBound ==
  ASSUME TypeOK, TypeOK', OvershootBounded, NEW k \in Keys, Write(k), NEW a \in Agents
  PROVE  Cardinality(RoutedTo(a)') + Cardinality(Committed(a)') < Limit[a] + Cardinality(Keys)
<1>1. PICK r \in Rooms : r = room[k]
  BY DEF Write, TypeOK, Procs
<1>2. db' = [db EXCEPT ![r] = copy[k]] /\ routed' = routed \cup {r}
  BY <1>1 DEF Write
<1>3. Committed(a)' = Committed(a) \ {k}
  BY DEF Write, Committed, Continue, TypeOK, Procs
<1>4. CASE copy[k].user = a
  <2>1. k \in Committed(a)
    BY <1>4 DEF Write, Committed
  <2>2. Cardinality(Committed(a)') = Cardinality(Committed(a)) - 1
    BY <1>3, <2>1, CountsAreNat, FS_RemoveElement
  <2>3. RoutedTo(a)' \in SUBSET (RoutedTo(a) \cup {r})
    BY <1>2 DEF RoutedTo, TypeOK
  <2>4. /\ IsFiniteSet(RoutedTo(a) \cup {r})
        /\ Cardinality(RoutedTo(a) \cup {r}) <= Cardinality(RoutedTo(a)) + 1
        /\ Cardinality(RoutedTo(a) \cup {r}) \in Nat
    <3>1. IsFiniteSet(RoutedTo(a)) /\ Cardinality(RoutedTo(a)) \in Nat
      BY CountsAreNat
    <3>2. /\ IsFiniteSet(RoutedTo(a) \cup {r})
          /\ Cardinality(RoutedTo(a) \cup {r}) =
                IF r \in RoutedTo(a) THEN Cardinality(RoutedTo(a)) ELSE Cardinality(RoutedTo(a)) + 1
      BY <3>1, FS_AddElement
    <3> QED BY <3>1, <3>2
  <2>5. /\ Cardinality(RoutedTo(a)') <= Cardinality(RoutedTo(a)) + 1
        /\ Cardinality(RoutedTo(a)') \in Nat
    BY <2>3, <2>4, CountsAreNat, FS_Subset, FS_CardinalityType
  <2> QED BY <2>2, <2>5, CountsAreNat, LimitsAreNat DEF OvershootBounded
<1>5. CASE copy[k].user # a
  <2>1. RoutedTo(a)' \subseteq RoutedTo(a)
    BY <1>2, <1>5 DEF RoutedTo, TypeOK
  <2> QED BY <1>3, <2>1, BoundKept
<1> QED BY <1>4, <1>5

\* A handler's write counts only if the agent held the room before it.
LEMMA HandlerWriteBound ==
  ASSUME TypeOK, TypeOK', OvershootBounded, NEW h \in Handlers, Write(h), NEW a \in Agents
  PROVE  Cardinality(RoutedTo(a)') + Cardinality(Committed(a)') < Limit[a] + Cardinality(Keys)
<1>1. PICK r \in Rooms : r = room[h]
  BY DEF Write, TypeOK, Procs
<1>2. h \notin Keys
  BY ConstantsAssumption
<1>3. /\ db' = [db EXCEPT ![r] = copy[h]]
      /\ routed' = IF Holder(copy[h]) = Holder(db[r]) THEN routed ELSE routed \ {r}
  BY <1>1, <1>2 DEF Write
<1>4. RoutedTo(a)' \subseteq RoutedTo(a)
  BY <1>3, ConstantsAssumption DEF RoutedTo, Holder, TypeOK
<1>5. Committed(a)' \subseteq Committed(a)
  BY <1>2 DEF Write, Committed, TypeOK, Procs
<1> QED BY <1>4, <1>5, BoundKept

LEMMA OvershootInit == Init => OvershootBounded
<1> SUFFICES ASSUME Init, NEW a \in Agents
             PROVE  Cardinality(RoutedTo(a)) + Cardinality(Committed(a)) < Limit[a] + Cardinality(Keys)
  BY DEF OvershootBounded
<1>1. RoutedTo(a) = {} /\ Committed(a) = {}
  BY DEF Init, RoutedTo, Committed, Procs
<1>2. Cardinality(Keys) # 0
  BY ConstantsAssumption, FS_EmptySet
<1> QED BY <1>1, <1>2, FS_EmptySet, LimitsAreNat

LEMMA OvershootStep == TypeOK /\ OvershootBounded /\ [Next]_vars => OvershootBounded'
<1> SUFFICES ASSUME TypeOK, OvershootBounded, [Next]_vars, NEW a \in Agents
             PROVE  Cardinality(RoutedTo(a)') + Cardinality(Committed(a)') < Limit[a] + Cardinality(Keys)
  BY DEF OvershootBounded
<1>0. TypeOK'
  BY TypeStep
<1>1. ASSUME NEW h \in Handlers, Handle(h)
      PROVE  RoutedTo(a)' \subseteq RoutedTo(a) /\ Committed(a)' \subseteq Committed(a)
  <2>1. PICK r \in Rooms : \E row : Fetch(h, r, row)
    BY <1>1 DEF Handle, Pick, TransferToUser, TransferToQueue, Requeue,
                UpdateCustomFields, Close
  <2> QED BY <2>1, ConstantsAssumption
          DEF Fetch, RoutedTo, Committed, rowVars, TypeOK, Procs
<1>2. ASSUME NEW p \in Procs, CheckActive(p) \/ RejectClosed(p)
      PROVE  RoutedTo(a)' \subseteq RoutedTo(a) /\ Committed(a)' \subseteq Committed(a)
  BY <1>2 DEF CheckActive, RejectClosed, RoutedTo, Committed, rowVars, TypeOK, Procs
<1>3. ASSUME NEW p \in Procs, Write(p)
      PROVE  Cardinality(RoutedTo(a)') + Cardinality(Committed(a)') < Limit[a] + Cardinality(Keys)
  BY <1>0, <1>3, PassWriteBound, HandlerWriteBound DEF Procs
<1>4. ASSUME NEW k \in Keys, Route(k), ~ \E b \in Agents : ChooseAgent(k, b)
      PROVE  RoutedTo(a)' \subseteq RoutedTo(a) /\ Committed(a)' \subseteq Committed(a)
  BY <1>4 DEF Route, BeginPass, OpenQueue, SkipAssigned, Refresh, EndQueue, StillOnline,
              StillHasCapacity, LeaveRoom, EndPass, RoutedTo, Committed, rowVars, passVars,
              TypeOK, Procs
<1>5. ASSUME NEW k \in Keys, NEW b \in Agents, ChooseAgent(k, b)
      PROVE  Cardinality(RoutedTo(a)') + Cardinality(Committed(a)') < Limit[a] + Cardinality(Keys)
  BY <1>0, <1>5, ChooseAgentBound
<1>6. ASSUME NEW b \in Agents, ChangeStatus(b) \/ ChangeReadiness(b)
      PROVE  RoutedTo(a)' \subseteq RoutedTo(a) /\ Committed(a)' \subseteq Committed(a)
  BY <1>6 DEF ChangeStatus, ChangeReadiness, RoutedTo, Committed, rowVars
<1>7. CASE UNCHANGED vars
  <2>1. RoutedTo(a)' \subseteq RoutedTo(a) /\ Committed(a)' \subseteq Committed(a)
    BY <1>7 DEF vars, RoutedTo, Committed
  <2> QED BY <1>0, <2>1, BoundKept
<1> QED BY <1>0, <1>1, <1>2, <1>3, <1>4, <1>5, <1>6, <1>7, BoundKept DEF Next

(***************************************************************************)
(* With one cooldown key passes respect the limit exactly; each further    *)
(* key that routes rooms of the sector can exceed it by one room.  Neither *)
(* the handlers nor the capacity recheck change this.                      *)
(***************************************************************************)
THEOREM PassesOvershootByKeys == Spec => []OvershootBounded
  BY TypeCorrect, OvershootInit, OvershootStep, PTL DEF Spec

-----------------------------------------------------------------------------
(***************************************************************************)
(* A room that a pass is working on has no agent from a pass, unless they  *)
(* crossed over it.                                                        *)
(***************************************************************************)
NotRoutedYet(r) == r \in routed /\ Holder(db[r]) # NoAgent => r \in crossed

InHandNotRouted == \A r \in Rooms : InHand(r) # {} => NotRoutedYet(r)

LEMMA InHandInit == Init => InHandNotRouted
  BY DEF Init, InHandNotRouted, InHand, Procs, Choosing

\* The steps that write nothing leave rooms and passes as they are, or let go of a room,
\* or take up one without an agent.
LEMMA OtherStepsTakeUnassigned ==
  ASSUME TypeOK, [Next]_vars, ~ \E p \in Procs : Write(p), NEW r \in Rooms
  PROVE  UNCHANGED rowVars /\ (InHand(r)' \subseteq InHand(r) \/ db[r].user = NoAgent)
<1> USE DEF TypeOK, Procs, Choosing, InHand
<1>1. ASSUME NEW h \in Handlers, Handle(h) PROVE UNCHANGED rowVars /\ InHand(r)' \subseteq InHand(r)
  <2>1. PICK q \in Rooms : \E row : Fetch(h, q, row)
    BY <1>1 DEF Handle, Pick, TransferToUser, TransferToQueue, Requeue,
                UpdateCustomFields, Close
  <2> QED BY <2>1, ConstantsAssumption DEF Fetch
<1>2. ASSUME NEW p \in Procs, CheckActive(p) \/ RejectClosed(p)
      PROVE  UNCHANGED rowVars /\ InHand(r)' \subseteq InHand(r)
  BY <1>2 DEF CheckActive, RejectClosed
<1>3. ASSUME NEW k \in Keys, Route(k)
      PROVE  UNCHANGED rowVars /\ (InHand(r)' \subseteq InHand(r) \/ db[r].user = NoAgent)
  <2>1. ASSUME NEW q \in Rooms, Refresh(k, q)
        PROVE  UNCHANGED rowVars /\ (InHand(r)' \subseteq InHand(r) \/ db[r].user = NoAgent)
    BY <2>1 DEF Refresh, Unassigned
  <2>2. CASE ~ \E q \in Rooms : Refresh(k, q)
    BY <1>3, <2>2 DEF Route, BeginPass, OpenQueue, SkipAssigned, ChooseAgent, EndQueue,
                      StillOnline, StillHasCapacity, LeaveRoom, EndPass, passVars
  <2> QED BY <2>1, <2>2
<1>4. ASSUME NEW a \in Agents, ChangeStatus(a) \/ ChangeReadiness(a)
      PROVE  UNCHANGED rowVars /\ InHand(r)' \subseteq InHand(r)
  BY <1>4 DEF ChangeStatus, ChangeReadiness
<1>5. CASE UNCHANGED vars
  BY <1>5 DEF vars, rowVars
<1> QED BY <1>1, <1>2, <1>3, <1>4, <1>5 DEF Next

LEMMA InHandStep == TypeOK /\ InHandNotRouted /\ [Next]_vars => InHandNotRouted'
<1> SUFFICES ASSUME TypeOK, InHandNotRouted, [Next]_vars, NEW r \in Rooms, InHand(r)' # {}
             PROVE  NotRoutedYet(r)'
  BY DEF InHandNotRouted
<1> USE DEF TypeOK, Procs
<1>1. ASSUME NEW p \in Procs, Write(p), room[p] # r PROVE NotRoutedYet(r)'
  <2>1. InHand(r)' \subseteq InHand(r)
    BY <1>1 DEF Write, Continue, InHand, Choosing
  <2>2. db'[r] = db[r] /\ (r \in routed' <=> r \in routed) /\ (r \in crossed' <=> r \in crossed)
    BY <1>1 DEF Write
  <2> QED BY <2>1, <2>2 DEF InHandNotRouted, NotRoutedYet, Holder
<1>2. ASSUME NEW k \in Keys, Write(k), room[k] = r PROVE NotRoutedYet(r)'
  <2>1. InHand(r)' = InHand(r) \ {k} /\ k \in InHand(r)
    BY <1>2 DEF Write, Continue, InHand, Choosing
  <2>2. r \in crossed'
    BY <1>2, <2>1 DEF Write
  <2> QED BY <2>2 DEF NotRoutedYet
<1>3. ASSUME NEW h \in Handlers, Write(h), room[h] = r PROVE NotRoutedYet(r)'
  <2>1. h \notin Keys
    BY ConstantsAssumption
  <2>2. InHand(r)' = InHand(r)
    BY <1>3, <2>1 DEF Write, Continue, InHand, Choosing
  <2>3. NotRoutedYet(r)
    BY <2>2 DEF InHandNotRouted
  <2>4. /\ crossed' = crossed /\ db'[r] = copy[h]
        /\ r \in routed' => r \in routed /\ Holder(copy[h]) = Holder(db[r])
    BY <1>3, <2>1 DEF Write
  <2> QED BY <2>3, <2>4 DEF NotRoutedYet, Holder
<1>4. CASE ~ \E p \in Procs : Write(p)
  <2>1. UNCHANGED rowVars /\ (InHand(r)' \subseteq InHand(r) \/ db[r].user = NoAgent)
    BY <1>4, OtherStepsTakeUnassigned
  <2> QED BY <2>1 DEF InHandNotRouted, NotRoutedYet, Holder, rowVars
<1> QED BY <1>1, <1>2, <1>3, <1>4

(***************************************************************************)
(* The refresh before each room does what it can: under any number of      *)
(* cooldown keys, and whatever request handlers do to the room in between, *)
(* a pass replaces the agent that a pass has given a room only if both had *)
(* the room in hand at once.                                               *)
(***************************************************************************)
THEOREM PassesRouteOnce == Spec => RoutedOnce
<1> DEFINE A == \A r \in Rooms : Replaces(r) => r \in crossed
<1>1. TypeOK /\ InHandNotRouted /\ [Next]_vars => [A]_vars
  <2> SUFFICES ASSUME TypeOK, InHandNotRouted, [Next]_vars, NEW r \in Rooms, Replaces(r)
               PROVE  r \in crossed
    OBVIOUS
  <2>1. PICK p \in Procs : Write(p) /\ room[p] = r
    <3>1. CASE \E p \in Procs : CheckActive(p) \/ Write(p)
      BY <3>1 DEF Replaces, CheckActive, Write, TypeOK, rowVars
    <3>2. CASE ~ \E p \in Procs : CheckActive(p) \/ Write(p)
      BY <3>2, OtherStepsWriteNothing DEF Replaces, rowVars
    <3> QED BY <3>1, <3>2
  <2>2. CASE p \in Keys
    <3>1. p \in InHand(r)
      BY <2>1, <2>2 DEF Write, InHand
    <3> QED BY <3>1 DEF InHandNotRouted, NotRoutedYet, Replaces
  <2>3. CASE p \in Handlers
    BY <2>1, <2>3, ConstantsAssumption DEF Write, TypeOK, Holder, Replaces
  <2> QED BY <2>2, <2>3 DEF Procs
<1> QED BY TypeCorrect, InHandInit, InHandStep, <1>1, PTL DEF Spec, RoutedOnce
=============================================================================
