---------------------------- MODULE AgentsProofs ----------------------------
(***************************************************************************)
(* Proofs about the components of MCAgents.  A step of the run is a step   *)
(* of each component or leaves it alone, so what is proved of a component  *)
(* by itself is proved of the run.                                         *)
(***************************************************************************)
EXTENDS MCAgents, FiniteSetTheorems, TLAPS

-----------------------------------------------------------------------------
(* AgentStatus.  BreakHolds rests on InsertersSawTheBreak: as long as an   *)
(* unexposed break is active, whoever is about to insert In-Service is the *)
(* close_status of that break.                                             *)

InsertersSawTheBreak ==
    OnBreak /\ ~exposed => \A h \in Handlers : pc[h] = "insert" => break[h] = active

(***************************************************************************)
(* The variables keep their types (CustomStatus, ProjectPermission): in    *)
(* particular a room under creation is held by one handler only.           *)
(***************************************************************************)
THEOREM StatusTypeCorrect == Spec => []TypeOK
<1> USE ConstantsAssumption DEF ConstantsAssumption, TypeOK, Locations
<1>1. Init => TypeOK
  <2> SUFFICES ASSUME Init PROVE TypeOK
    OBVIOUS
  <2>1. rooms \in [Rooms -> {"unborn", "waiting", "mine", "closed"}]
    BY DEF Init
  <2>2. QED
    BY <2>1 DEF Init
<1>2. TypeOK /\ [Next]_vars => TypeOK'
  <2> SUFFICES ASSUME TypeOK, [Next]_vars PROVE TypeOK'
    OBVIOUS
  <2>1. ASSUME NEW h \in Handlers, NEW r \in Rooms, CreateAndCheck(h, r) PROVE TypeOK'
    BY <2>1 DEF CreateAndCheck
  <2>2. ASSUME NEW h \in Handlers, NEW r \in Rooms, Create(h, r) PROVE TypeOK'
    BY <2>2 DEF Create, handlerVars
  <2>3. ASSUME NEW h \in Handlers, NEW r \in Rooms, Close(h, r) PROVE TypeOK'
    BY <2>3 DEF Close, GoTo
  <2>4. ASSUME NEW h \in Handlers, Count(h) \/ End(h) PROVE TypeOK'
    BY <2>4 DEF Count, End, GoTo
  <2>5. ASSUME NEW h \in Handlers, NEW b \in Breaks, CheckLast(h, b) PROVE TypeOK'
    BY <2>5 DEF CheckLast
  <2>6. ASSUME NEW h \in Handlers, EndBreakOnline(h) \/ EndBreak(h) PROVE TypeOK'
    BY <2>6 DEF EndBreakOnline, EndBreak, Done
  <2>7. ASSUME NEW h \in Handlers,
               EndBreakAndCheck(h) \/ EndBreaks(h) \/ SaveOnline(h) \/ CheckService(h)
        PROVE  TypeOK'
    BY <2>7 DEF EndBreakAndCheck, EndBreaks, SaveOnline, CheckService, GoTo
  <2>8. ASSUME NEW h \in Handlers,
               SaveOffline(h) \/ EndService(h) \/ LoseConnection(h) \/ Finalize(h)
        PROVE  TypeOK'
    BY <2>8 DEF SaveOffline, EndService, LoseConnection, Finalize, GoTo
  <2>9. ASSUME NEW h \in Handlers, InsertService(h) PROVE TypeOK'
    BY <2>9 DEF InsertService, Done
  <2>10. ASSUME NEW h \in Handlers, Collide(h) PROVE TypeOK'
    BY <2>10 DEF Collide, Done
  <2>11. ASSUME NEW r \in Rooms, AssignWaiting(r) \/ Unassign(r) PROVE TypeOK'
    BY <2>11 DEF AssignWaiting, Unassign, handlerVars
  <2>12. ASSUME NEW b \in Breaks, StartBreak(b) PROVE TypeOK'
    BY <2>12 DEF StartBreak, handlerVars
  <2>13. CASE DisconnectAgent
    BY <2>13 DEF DisconnectAgent, handlerVars
  <2>14. CASE UNCHANGED vars
    BY <2>14 DEF vars, handlerVars
  <2>15. QED
    BY <2>1, <2>2, <2>3, <2>4, <2>5, <2>6, <2>7, <2>8, <2>9, <2>10, <2>11, <2>12, <2>13,
       <2>14 DEF Next, Handle
<1>3. QED
  BY <1>1, <1>2, PTL DEF Spec

\* Nobody reaches the insertion of In-Service while another break is active.
LEMMA InsertersStillSawTheBreak ==
  ASSUME TypeOK, InsertersSawTheBreak, [Next]_vars PROVE InsertersSawTheBreak'
<1> USE ConstantsAssumption
    DEF ConstantsAssumption, TypeOK, InsertersSawTheBreak, OnBreak, HasPriority, Locations
<1>1. ASSUME NEW h \in Handlers, NEW r \in Rooms, CreateAndCheck(h, r)
      PROVE  InsertersSawTheBreak'
  BY <1>1 DEF CreateAndCheck
<1>2. ASSUME NEW h \in Handlers, NEW r \in Rooms, Create(h, r) PROVE InsertersSawTheBreak'
  BY <1>2 DEF Create, handlerVars
<1>3. ASSUME NEW h \in Handlers, NEW r \in Rooms, Close(h, r) PROVE InsertersSawTheBreak'
  BY <1>3 DEF Close, GoTo
<1>4. ASSUME NEW h \in Handlers, Count(h) \/ End(h) PROVE InsertersSawTheBreak'
  BY <1>4 DEF Count, End, GoTo
<1>5. ASSUME NEW h \in Handlers, NEW b \in Breaks, CheckLast(h, b)
      PROVE  InsertersSawTheBreak'
  BY <1>5 DEF CheckLast
<1>6. ASSUME NEW h \in Handlers, EndBreakOnline(h) \/ EndBreak(h)
      PROVE  InsertersSawTheBreak'
  BY <1>6 DEF EndBreakOnline, EndBreak, Done
<1>7. ASSUME NEW h \in Handlers,
             EndBreakAndCheck(h) \/ EndBreaks(h) \/ SaveOnline(h) \/ CheckService(h)
      PROVE  InsertersSawTheBreak'
  BY <1>7 DEF EndBreakAndCheck, EndBreaks, SaveOnline, CheckService, GoTo
<1>8. ASSUME NEW h \in Handlers,
             SaveOffline(h) \/ EndService(h) \/ LoseConnection(h) \/ Finalize(h)
      PROVE  InsertersSawTheBreak'
  BY <1>8 DEF SaveOffline, EndService, LoseConnection, Finalize, GoTo
<1>9. ASSUME NEW h \in Handlers, InsertService(h) \/ Collide(h) PROVE InsertersSawTheBreak'
  BY <1>9 DEF InsertService, Collide, Done
<1>10. ASSUME NEW r \in Rooms, AssignWaiting(r) \/ Unassign(r) PROVE InsertersSawTheBreak'
  BY <1>10 DEF AssignWaiting, Unassign, handlerVars
<1>11. ASSUME NEW b \in Breaks, StartBreak(b) PROVE InsertersSawTheBreak'
  \* The break is exposed unless nobody is inserting.
  BY <1>11 DEF StartBreak, handlerVars, Inserting
<1>12. CASE DisconnectAgent
  BY <1>12 DEF DisconnectAgent, handlerVars
<1>13. CASE UNCHANGED vars
  BY <1>13 DEF vars, handlerVars
<1>14. QED
  BY <1>1, <1>2, <1>3, <1>4, <1>5, <1>6, <1>7, <1>8, <1>9, <1>10, <1>11, <1>12, <1>13
     DEF Next, Handle

\* Only two actions make In-Service active, and both see the break they replace.
LEMMA StepHoldsBreak ==
  ASSUME TypeOK, InsertersSawTheBreak, Next, OnBreak, ~exposed, active' = "service"
  PROVE  \E h \in Handlers : Ends(h, active) /\ pc'[h] = "idle"
<1> USE ConstantsAssumption DEF ConstantsAssumption, TypeOK, OnBreak
<1>1. active # "service" /\ active # "none" /\ active # NoBreak
  OBVIOUS
<1>2. ASSUME NEW h \in Handlers, InsertService(h)
      PROVE  Ends(h, active) /\ pc'[h] = "idle"
  BY <1>2 DEF InsertService, Done, InsertersSawTheBreak, Ends
<1>3. ASSUME NEW h \in Handlers, EndBreakOnline(h)
      PROVE  Ends(h, active) /\ pc'[h] = "idle"
  <2>1. active = break[h]
    BY <1>1, <1>3 DEF EndBreakOnline, HasPriority
  <2>2. QED
    BY <1>3, <2>1 DEF EndBreakOnline, Done, Ends
<1>4. (\E h \in Handlers : InsertService(h) \/ EndBreakOnline(h)) \/ active' # "service"
  <2>1. \A h \in Handlers :
          /\ \A r \in Rooms : CreateAndCheck(h, r) \/ Create(h, r) \/ Close(h, r)
                             => active' = active
          /\ Count(h) \/ EndBreakAndCheck(h) \/ SaveOnline(h) \/ CheckService(h) => active' = active
          /\ SaveOffline(h) \/ LoseConnection(h) \/ Finalize(h) \/ Collide(h) => active' = active
          /\ \A b \in Breaks : CheckLast(h, b) => active' = active
    BY DEF CreateAndCheck, Create, Close, Count, EndBreakAndCheck, SaveOnline, CheckService,
           SaveOffline, LoseConnection, Finalize, Collide, CheckLast
  <2>2. \A h \in Handlers : End(h) \/ EndBreak(h) \/ EndBreaks(h) \/ EndService(h)
                           => active' # "service"
    BY <1>1 DEF End, EndBreak, EndBreaks, EndService
  <2>3. \A r \in Rooms : AssignWaiting(r) \/ Unassign(r) => active' = active
    BY DEF AssignWaiting, Unassign
  <2>4. (\E b \in Breaks : StartBreak(b)) \/ DisconnectAgent => active' # "service"
    BY <1>1 DEF StartBreak, DisconnectAgent
  <2>5. QED
    BY <1>1, <2>1, <2>2, <2>3, <2>4 DEF Next, Handle
<1>5. QED
  BY <1>2, <1>3, <1>4

(***************************************************************************)
(* BreakHolds, for any number of handlers, breaks and rooms                *)
(* (has_priority_status and CustomStatus.save).                            *)
(***************************************************************************)
THEOREM BreaksHold == Spec => BreakHolds
<1>1. Init => InsertersSawTheBreak
  BY ConstantsAssumption DEF Init, InsertersSawTheBreak, OnBreak, ConstantsAssumption
<1>2. TypeOK /\ InsertersSawTheBreak /\ [Next]_vars => InsertersSawTheBreak'
  BY InsertersStillSawTheBreak
<1>3. TypeOK /\ InsertersSawTheBreak /\ [Next]_vars
      => [OnBreak /\ ~exposed /\ active' = "service"
          => \E h \in Handlers : Ends(h, active) /\ pc'[h] = "idle"]_vars
  BY StepHoldsBreak
<1>4. QED
  BY <1>1, <1>2, <1>3, StatusTypeCorrect, PTL DEF Spec, BreakHolds

-----------------------------------------------------------------------------
(* RoomWaits. *)

\* The instance a handover leaves is a room, if its stay is within the bound.
LEMMA HandoverGivesRoom ==
  ASSUME WaitsTypeOK, NEW k \in Kinds, NEW i \in HandedRooms,
         AfterHandover(k, i).since <= MaxStays
  PROVE  AfterHandover(k, i) \in HandedRooms
<1> USE DEF AfterHandover, HandedRooms
<1>1. CASE k \in {"requeue", "return"} /\ i.queued
  BY <1>1
<1>2. CASE k \in {"requeue", "return"} /\ ~i.queued
  <2>1. AfterHandover(k, i) = [i EXCEPT !.queued = TRUE, !.since = lastStay + 1]
    BY <1>2
  <2>2. AfterHandover(k, i).since = lastStay + 1
    BY <2>1
  <2>3. lastStay + 1 \in Stays
    BY <2>2, WaitsAssumption DEF WaitsTypeOK, WaitsAssumption, Stays
  <2>4. QED
    BY <2>1, <2>3
<1>3. CASE k \in {"close", "expire"}
  <2>1. AfterHandover(k, i) = [i EXCEPT !.open = FALSE]
    BY <1>3
  <2>2. QED
    BY <2>1
<1>4. CASE k \notin {"requeue", "return", "close", "expire"}
  <2>1. AfterHandover(k, i) = [i EXCEPT !.queued = FALSE, !.assigned = TRUE]
    BY <1>4
  <2>2. QED
    BY <2>1
<1>5. QED
  BY <1>1, <1>2, <1>3, <1>4

\* Saving the row leaves a stay that is not beyond the last.
LEMMA SaveKeepsRoom ==
  ASSUME WaitsTypeOK, NEW p \in Handovers, SaveRoom(p)
  PROVE  /\ handed' \in HandedRooms /\ lastStay' \in Stays /\ handed'.since <= lastStay'
         /\ blurred' \subseteq Stays
<1>1. kind[p] \in Kinds /\ read[p] \in HandedRooms
  BY DEF WaitsTypeOK
<1>2. handed' \in HandedRooms
  BY <1>1, HandoverGivesRoom DEF SaveRoom
<1>3. handed'.since \in Stays /\ handed.since \in Stays /\ read[p].since \in Stays
  BY <1>1, <1>2 DEF HandedRooms, WaitsTypeOK
<1>4. lastStay' \in Stays /\ handed'.since <= lastStay'
  <2>1. lastStay' = IF handed'.since > lastStay THEN handed'.since ELSE lastStay
    BY DEF SaveRoom
  <2>2. handed'.since \in Nat /\ lastStay \in Nat
    BY <1>3, WaitsAssumption DEF WaitsTypeOK, Stays, WaitsAssumption
  <2>3. QED
    BY <1>3, <2>1, <2>2 DEF WaitsTypeOK
<1>5. blurred' \subseteq Stays
  <2>1. blurred \subseteq Stays
    BY DEF WaitsTypeOK
  <2>2. AfterHandover(kind[p], read[p]).since \in Stays
    BY <1>3 DEF SaveRoom
  <2>3. QED
    BY <1>3, <2>1, <2>2 DEF SaveRoom
<1>6. QED
  BY <1>2, <1>4, <1>5

\* Adding a stay to metrics gives metrics.
LEMMA StayIsAdded ==
  ASSUME NEW m \in Metrics, NEW s \in Stays PROVE AddStay(m, s) \in Metrics
<1>1. m.counted \in [Stays -> Nat] /\ m.counted[s] + 1 \in Nat
  BY DEF Metrics
<1>2. [m.counted EXCEPT ![s] = @ + 1] \in [Stays -> Nat]
  BY <1>1
<1>3. AddStay(m, s) = [m EXCEPT !.counted = [m.counted EXCEPT ![s] = @ + 1]]
  BY DEF AddStay, Metrics
<1>4. QED
  BY <1>2, <1>3 DEF Metrics

(***************************************************************************)
(* A room and its metrics keep their types, and the stay of the room is    *)
(* never beyond the last (Room.save, RoomMetrics).                         *)
(***************************************************************************)
THEOREM WaitsTypeCorrect == WaitsSpec => []WaitsTypeOK
<1>0. NewRoom \in HandedRooms /\ NoMetrics \in Metrics /\ "pick" \in Kinds /\ NewRoom.since = 1
  BY WaitsAssumption
     DEF NewRoom, HandedRooms, NoMetrics, Metrics, Stays, Kinds, Takings, WaitsAssumption
<1>1. WaitsInit => WaitsTypeOK
  <2> SUFFICES ASSUME WaitsInit PROVE WaitsTypeOK
    OBVIOUS
  <2>1. lastStay \in Stays /\ waitFaults \in 0..MaxWaitFaults
    BY WaitsAssumption DEF WaitsInit, Stays, WaitsAssumption
  <2>2. handed \in HandedRooms /\ metric \in Metrics /\ handed.since <= lastStay
    BY <1>0 DEF WaitsInit
  <2>3. read \in [Handovers -> HandedRooms] /\ metricCopy \in [Handovers -> Metrics]
        /\ closingCopy \in [Handovers -> Metrics]
    BY <1>0 DEF WaitsInit
  <2>4. kind \in [Handovers -> Kinds]
    BY <1>0 DEF WaitsInit
  <2>5. QED
    BY <2>1, <2>2, <2>3, <2>4 DEF WaitsInit, WaitsTypeOK
<1>2. WaitsTypeOK /\ [WaitsNext]_waitVars => WaitsTypeOK'
  <2> SUFFICES ASSUME WaitsTypeOK, [WaitsNext]_waitVars PROVE WaitsTypeOK'
    OBVIOUS
  <2>0. NewRoom \in HandedRooms /\ NoMetrics \in Metrics /\ "pick" \in Kinds /\ handed.since \in Stays
    BY <1>0 DEF HandedRooms, WaitsTypeOK
  <2>1. ASSUME NEW p \in Handovers, NEW k \in Kinds, Begin(p, k) PROVE WaitsTypeOK'
    BY <2>1 DEF Begin, Proceed, WaitsTypeOK, roomVars, taskVars, chatVars, waitHistory
  <2>2. ASSUME NEW p \in Handovers, SaveTaking(p) PROVE WaitsTypeOK'
    BY <2>2, SaveKeepsRoom DEF SaveTaking, Proceed, SendGreeting, WaitsTypeOK
  <2>3. ASSUME NEW p \in Handovers, SaveOnly(p) PROVE WaitsTypeOK'
    BY <2>0, <2>3, SaveKeepsRoom DEF SaveOnly, Proceed, Forget, WaitsTypeOK, chatVars
  <2>4. ASSUME NEW p \in Handovers, SaveClosed(p) PROVE WaitsTypeOK'
    BY <2>4, SaveKeepsRoom DEF SaveClosed, Proceed, WaitsTypeOK, chatVars
  <2>5. ASSUME NEW p \in Handovers, RefuseHandover(p) \/ RefuseMove(p) PROVE WaitsTypeOK'
    BY <2>0, <2>5
       DEF RefuseHandover, RefuseMove, Proceed, Forget, WaitsTypeOK, roomVars, taskVars, chatVars,
           waitHistory
  <2>6. ASSUME NEW p \in Handovers, ReadMetric(p) PROVE WaitsTypeOK'
    <3>1. ClosingStay \subseteq Stays
      BY <2>0 DEF ClosingStay
    <3>2. QED
      BY <2>6, <3>1 DEF ReadMetric, Proceed, WaitsTypeOK, roomVars, taskVars, chatVars
  <2>7. ASSUME NEW p \in Handovers PROVE /\ Counted(p, read[p].since) \in Metrics
                                         /\ Overwritten(metricCopy[p]) \subseteq Stays
    <3>1. metricCopy[p] \in Metrics /\ read[p].since \in Stays
      BY DEF WaitsTypeOK, HandedRooms
    <3>2. QED
      BY <3>1, StayIsAdded DEF Counted, Overwritten
  <2>8. ASSUME NEW p \in Handovers, WriteMetric(p) PROVE WaitsTypeOK'
    BY <2>0, <2>7, <2>8 DEF WriteMetric, Proceed, SaveMetric, Forget, WaitsTypeOK, taskVars, chatVars
  <2>9. ASSUME NEW p \in Handovers, CommitMove(p) PROVE WaitsTypeOK'
    <3>1. kind[p] \in Kinds /\ read[p] \in HandedRooms /\ read[p].since \in Stays
      BY DEF WaitsTypeOK, HandedRooms
    <3>2. handed' \in HandedRooms /\ handed'.since \in Stays
      BY <2>9, <3>1, HandoverGivesRoom DEF CommitMove, HandedRooms
    <3>3. lastStay' \in Stays /\ handed'.since <= lastStay'
      BY <2>9, <3>2, WaitsAssumption DEF CommitMove, WaitsTypeOK, Stays, WaitsAssumption
    <3>4. metric' \in Metrics /\ blurredTime' \in BOOLEAN
      BY <2>7, <2>9 DEF CommitMove, SaveMetric, WaitsTypeOK
    <3>5. blurred' \subseteq Stays
      BY <2>0, <2>7, <2>9, <3>1, <3>2 DEF CommitMove, WaitsTypeOK
    <3>6. QED
      BY <2>0, <2>9, <3>2, <3>3, <3>4, <3>5
         DEF CommitMove, Proceed, SendGreeting, Forget, WaitsTypeOK
  <2>10. ASSUME NEW p \in Handovers, CutHandover(p) PROVE WaitsTypeOK'
    <3>1. read[p].since \in Stays
      BY DEF WaitsTypeOK, HandedRooms
    <3>2. QED
      BY <2>0, <2>10, <3>1, WaitsAssumption
         DEF CutHandover, Forget, WaitsTypeOK, roomVars, chatVars, WaitsAssumption
  <2>11. ASSUME NEW p \in Handovers, ReadClosing(p) PROVE WaitsTypeOK'
    <3>1. ClosingStay \subseteq Stays
      BY <2>0 DEF ClosingStay
    <3>2. QED
      BY <2>11, <3>1 DEF ReadClosing, WaitsTypeOK, roomVars, chatVars
  <2>12. ASSUME NEW p \in Handovers, WriteClosing(p) PROVE WaitsTypeOK'
    <3>1. metric' \in Metrics /\ blurredTime' \in BOOLEAN
      BY <2>0, <2>12, StayIsAdded DEF WriteClosing, SaveMetric, WaitsTypeOK
    <3>2. Overwritten(closingCopy[p]) \subseteq Stays
      BY DEF Overwritten
    <3>3. QED
      BY <2>0, <2>12, <3>1, <3>2 DEF WriteClosing, WaitsTypeOK, chatVars
  <2>13. ASSUME NEW p \in Handovers, CheckGreeting(p) \/ Greet(p) PROVE WaitsTypeOK'
    <3>1. greeting' \in [Handovers -> {"none", "sent", "checked", "over"}]
      <4>1. \E to \in {"checked", "over"} : greeting' = [greeting EXCEPT ![p] = to]
        BY <2>13 DEF CheckGreeting, Greet
      <4>2. QED
        BY <4>1 DEF WaitsTypeOK
    <3>2. greetings' \in Nat
      BY <2>13 DEF CheckGreeting, Greet, WaitsTypeOK
    <3>3. greetedTwice \in BOOLEAN
      BY DEF WaitsTypeOK
    <3>4. greetedTwice' \in BOOLEAN
      BY <2>13, <3>3 DEF CheckGreeting, Greet, waitHistory
    <3>5. QED
      BY <2>13, <3>1, <3>2, <3>4 DEF CheckGreeting, Greet, WaitsTypeOK, roomVars, waitHistory
  <2>14. ASSUME NEW m \in Replies, InsertReply(m) \/ CommitReply(m) PROVE WaitsTypeOK'
    BY <2>14 DEF InsertReply, CommitReply, WaitsTypeOK, roomVars, waitHistory
  <2>15. ASSUME NEW m \in Replies, StoreFirstResponse(m) PROVE WaitsTypeOK'
    <3>1. metric' \in Metrics /\ blurredTime' \in BOOLEAN
      <4>1. CASE metric.first = "null" /\ Answered
        BY <2>15, <4>1 DEF StoreFirstResponse, WaitsTypeOK, Metrics
      <4>2. CASE metric.first = "null" /\ ~Answered
        BY <2>15, <4>2 DEF StoreFirstResponse, WaitsTypeOK, Metrics
      <4>3. CASE metric.first # "null"
        BY <2>15, <4>3 DEF StoreFirstResponse, WaitsTypeOK
      <4>4. QED
        BY <4>1, <4>2, <4>3
    <3>2. QED
      BY <2>15, <3>1 DEF StoreFirstResponse, WaitsTypeOK
  <2>16. CASE UNCHANGED waitVars
    BY <2>16 DEF WaitsTypeOK, waitVars, roomVars, taskVars, chatVars, waitHistory
  <2>17. QED
    BY <2>1, <2>2, <2>3, <2>4, <2>5, <2>6, <2>8, <2>9, <2>10, <2>11, <2>12, <2>13, <2>14,
       <2>15, <2>16 DEF WaitsNext
<1>3. QED
  BY <1>1, <1>2, PTL DEF WaitsSpec

-----------------------------------------------------------------------------
(* ProjectSetup.  That managers and queues are of sectors that exist rests *)
(* on the sector a consumer is at, which it has made or found.             *)

AtABuiltSector == \A e \in EventMessages : current[e] \subseteq built
SetupInv == SetupTypeOK /\ AtABuiltSector

(***************************************************************************)
(* The messages about a project and its rows keep their types; a consumer  *)
(* is at one sector at most, and what is not underway has nothing to do    *)
(* (ProjectConsumer, SectorSetupHandlerUseCase).                           *)
(***************************************************************************)
THEOREM SetupTypeCorrect == SetupSpec => []SetupInv
<1>0. /\ Cardinality({}) = 0
      /\ \A s \in SetupSectors : Cardinality({s}) = 1
  BY FS_EmptySet, FS_Singleton
<1>1. SetupInit => SetupInv
  <2> SUFFICES ASSUME SetupInit PROVE SetupInv
    OBVIOUS
  <2>1. setupFaults \in 0..MaxSetupFaults
    BY SetupAssumption DEF SetupInit, SetupAssumption
  <2>2. todo \in [EventMessages -> SUBSET SetupSectors] /\ current = todo
    BY DEF SetupInit
  <2>3. ticketers \in [SetupSectors -> Nat]
    BY DEF SetupInit
  <2>4. \A e \in EventMessages : todo[e] = {} /\ current[e] = {} /\ at[e] = "start"
    BY DEF SetupInit
  <2>5. /\ place \in [EventMessages -> {"queued", "taken", "acked", "dead", "dropped"}]
        /\ at \in [EventMessages -> {"start", "admitted", "created", "granted", "sectors",
                                   "sector", "queue", "ticketer", "end"}]
        /\ {project, others, option, overwritten} \subseteq BOOLEAN
        /\ owner \in {"none", "agent", "admin"}
        /\ built = {} /\ managed = {} /\ ready = {} /\ cutShort = {}
    BY DEF SetupInit
  <2>6. QED
    BY <1>0, <2>1, <2>2, <2>3, <2>4, <2>5 DEF SetupInv, AtABuiltSector, SetupTypeOK
<1>2. SetupInv /\ [SetupNext]_setupVars => SetupInv'
  <2> SUFFICES ASSUME SetupInv, [SetupNext]_setupVars PROVE SetupInv'
    OBVIOUS
  <2> USE DEF SetupInv, AtABuiltSector, SetupTypeOK
  <2>1. ASSUME NEW e \in EventMessages, NEW p \in {"queued", "acked", "dead"}, Settle(e, p),
               UNCHANGED <<projectRows, sectorRows, overwritten>>,
               setupFaults' \in 0..MaxSetupFaults, cutShort' \subseteq EventMessages
        PROVE  SetupInv'
    BY <1>0, <2>1 DEF Settle, projectRows, sectorRows
  <2>2. ASSUME NEW e \in EventMessages, ExpireEvent(e) \/ ReceiveEvent(e) \/ DropDead(e)
        PROVE  SetupInv'
    <3>1. /\ place' \in [EventMessages -> {"queued", "taken", "acked", "dead", "dropped"}]
          /\ \A o \in EventMessages : place[o] = "taken" => place'[o] = "taken"
      BY <2>2 DEF ExpireEvent, ReceiveEvent, DropDead
    <3>2. UNCHANGED <<at, todo, current, projectRows, sectorRows, cutShort, overwritten>>
      BY <2>2 DEF ExpireEvent, ReceiveEvent, DropDead, setupHistory
    <3>3. setupFaults' \in 0..MaxSetupFaults
      BY <2>2, SetupAssumption
         DEF ExpireEvent, ReceiveEvent, DropDead, setupHistory, SetupAssumption
    <3>4. \A o \in EventMessages : place'[o] # "taken" =>
              at'[o] = "start" /\ todo'[o] = {} /\ current'[o] = {}
      BY <3>1, <3>2
    <3>5. QED
      BY <3>1, <3>2, <3>3, <3>4 DEF projectRows, sectorRows
  <2>3. ASSUME NEW e \in EventMessages, KillConsumer(e) \/ CreatorCollides(e) PROVE SetupInv'
    <3>1. setupFaults' \in 0..MaxSetupFaults /\ cutShort' \subseteq EventMessages
      BY <2>3, SetupAssumption DEF KillConsumer, CreatorCollides, SetupAssumption
    <3>2. UNCHANGED <<projectRows, sectorRows, overwritten>>
      BY <2>3 DEF KillConsumer, CreatorCollides, Reject
    <3>3. Settle(e, "queued") \/ Settle(e, "dead")
      BY <2>3 DEF KillConsumer, CreatorCollides, Reject
    <3>4. QED
      BY <2>1, <3>1, <3>2, <3>3
  <2>4. ASSUME NEW e \in EventMessages, AckEvent(e) \/ RefuseProject(e) \/ RefuseOthers(e)
        PROVE  SetupInv'
    BY <2>1, <2>4 DEF AckEvent, RefuseProject, RefuseOthers, Reject, setupHistory
  <2>5. ASSUME NEW e \in EventMessages,
               AdmitProject(e) \/ CreateProject(e) \/ GrantCreator(e) \/ GrantOthers(e)
        PROVE  SetupInv'
    BY <2>5 DEF AdmitProject, CreateProject, GrantCreator, GrantOthers, Go, Underway,
                projectRows, sectorRows, setupHistory, SetupSectors
  <2>6. ASSUME NEW e \in EventMessages, NEW s \in SetupSectors, BeginSector(e, s)
        PROVE  SetupInv'
    BY <1>0, <2>6 DEF BeginSector, Go, Underway, projectRows, setupHistory
  <2>7. ASSUME NEW e \in EventMessages, NEW s \in SetupSectors, SkipSector(e, s)
        PROVE  SetupInv'
    BY <2>7 DEF SkipSector, Underway, projectRows, sectorRows, setupHistory
  <2>8. ASSUME NEW e \in EventMessages, GrantManager(e) \/ AddQueue(e) \/ RequestTicketer(e)
        PROVE  SetupInv'
    <3>1. current[e] \subseteq SetupSectors
      OBVIOUS
    <3>2. CASE GrantManager(e)
      BY <3>2 DEF GrantManager, Go, Underway, projectRows, setupHistory
    <3>3. CASE AddQueue(e)
      BY <3>3 DEF AddQueue, Go, Underway, projectRows, setupHistory
    <3>4. CASE RequestTicketer(e)
      BY <1>0, <3>4 DEF RequestTicketer, Go, Underway, projectRows, setupHistory
    <3>5. QED
      BY <2>8, <3>2, <3>3, <3>4
  <2>9. ASSUME NEW e \in EventMessages, SaveProject(e) \/ EndFeature(e) \/ UpdateConfig(e)
        PROVE  SetupInv'
    BY <2>9 DEF SaveProject, EndFeature, UpdateConfig, Go, Underway, projectRows, sectorRows,
                setupHistory
  <2>10. ASSUME NEW e \in EventMessages, BeginFeature(e) PROVE SetupInv'
    BY <2>10 DEF BeginFeature, Go, Underway, projectRows, sectorRows, setupHistory,
                 SetupSectors
  <2>11. ASSUME NEW role \in {"agent", "admin"}, OrderPermission(role) PROVE SetupInv'
    BY <2>11 DEF OrderPermission, eventVars, sectorRows, setupHistory
  <2>12. CASE UNCHANGED setupVars
    BY <2>12 DEF setupVars, eventVars, projectRows, sectorRows, setupHistory
  <2>13. QED
    BY <2>2, <2>3, <2>4, <2>5, <2>6, <2>7, <2>8, <2>9, <2>10, <2>11, <2>12
       DEF SetupNext, Consume
<1>3. QED
  BY <1>1, <1>2, PTL DEF SetupSpec

-----------------------------------------------------------------------------
(* RoomViews. *)

\* Whoever has an authorization is a user.
LEMMA JoinedHaveRoles ==
  ASSUME ViewsTypeOK
  PROVE  /\ \A a \in inQueue : a = <<a[1], a[2]>> /\ a[1] \in joined /\ a[2] \in ViewQueues
         /\ \A a \in inSector : /\ a = <<a[1], a[2], a[3]>>
                                /\ a[1] \in joined /\ a[2] \in ViewSectors /\ a[3] \in SectorRoles
  BY DEF ViewsTypeOK

(***************************************************************************)
(* Rooms, pins and authorizations keep their types: whoever was removed    *)
(* has no authorization left (ProjectPermission.delete).                   *)
(***************************************************************************)
THEOREM ViewsTypeCorrect == ViewsSpec => []ViewsTypeOK
<1>1. ViewsInit => ViewsTypeOK
  <2> SUFFICES ASSUME ViewsInit PROVE ViewsTypeOK
    OBVIOUS
  <2>1. inQueue \subseteq joined \X ViewQueues /\ inSector \subseteq joined \X ViewSectors \X SectorRoles
    BY DEF ViewsInit
  <2>2. viewRow \in [ViewRooms -> ViewRowType]
    <3>1. [is: {"unmade"}, queue: ViewQueues, user: {NoUser}] \subseteq ViewRowType
      BY DEF ViewRowType
    <3>2. QED
      BY <3>1 DEF ViewsInit
  <2>3. upsets \in 0..MaxUpsets
    BY ViewsAssumption DEF ViewsInit, ViewsAssumption
  <2>4. QED
    BY <2>1, <2>2, <2>3 DEF ViewsInit, ViewsTypeOK
<1>2. ViewsTypeOK /\ [ViewsNext]_viewVars => ViewsTypeOK'
  <2> SUFFICES ASSUME ViewsTypeOK, [ViewsNext]_viewVars PROVE ViewsTypeOK'
    OBVIOUS
  <2>1. ASSUME NEW r \in ViewRooms, NEW row \in ViewRowType,
               NEW pins \in SUBSET (Users \X ViewRooms), PutRoom(r, row, pins)
        PROVE  ViewsTypeOK'
    BY <2>1 DEF PutRoom, ViewsTypeOK, configVars
  <2>2. ASSUME NEW r \in ViewRooms
        PROVE  /\ viewRow[r] \in ViewRowType /\ Unpinned(r) \in SUBSET (Users \X ViewRooms)
               /\ pinned \in SUBSET (Users \X ViewRooms)
               /\ viewRow[r].queue \in ViewQueues
    BY DEF ViewsTypeOK, ViewRowType, Unpinned
  <2>3. ASSUME NEW r \in ViewRooms, NEW is \in {"flow", "open"}, MakeViewRoom(r, is)
        PROVE  ViewsTypeOK'
    <3>1. [viewRow[r] EXCEPT !.is = is] \in ViewRowType
      BY <2>2 DEF ViewRowType
    <3>2. QED
      BY <2>1, <2>2, <2>3, <3>1 DEF MakeViewRoom
  <2>4. ASSUME NEW r \in ViewRooms, AnswerFlow(r) PROVE ViewsTypeOK'
    <3>1. [viewRow[r] EXCEPT !.is = "open"] \in ViewRowType
      BY <2>2 DEF ViewRowType
    <3>2. QED
      BY <2>1, <2>2, <2>4, <3>1 DEF AnswerFlow
  <2>5. ASSUME NEW r \in ViewRooms, NEW u \in Users \cup {NoUser}, NEW q \in ViewQueues, HandTo(r, u, q)
        PROVE  ViewsTypeOK'
    <3>1. [viewRow[r] EXCEPT !.user = u, !.queue = q] \in ViewRowType
      BY <2>2 DEF ViewRowType
    <3>2. QED
      BY <2>1, <2>2, <2>5, <3>1 DEF HandTo
  <2>6. ASSUME NEW r \in ViewRooms, NEW u \in Users, PickQueueRoom(u, r) PROVE ViewsTypeOK'
    BY <2>2, <2>5, <2>6 DEF PickQueueRoom
  <2>7. ASSUME NEW r \in ViewRooms, NEW u \in Users, NEW v \in Users, TransferToUser(u, r, v)
        PROVE  ViewsTypeOK'
    BY <2>2, <2>5, <2>7 DEF TransferToUser
  <2>8. ASSUME NEW r \in ViewRooms, NEW u \in Users, NEW q \in ViewQueues, TransferToQueue(u, r, q)
        PROVE  ViewsTypeOK'
    BY <2>5, <2>8 DEF TransferToQueue
  <2>9. ASSUME NEW r \in ViewRooms, NEW u \in Users, CloseView(u, r) PROVE ViewsTypeOK'
    <3>1. [viewRow[r] EXCEPT !.is = "closed"] \in ViewRowType
      BY <2>2 DEF ViewRowType
    <3>2. QED
      BY <2>1, <2>2, <2>9, <3>1 DEF CloseView
  <2>10. ASSUME NEW r \in ViewRooms, NEW u \in Users, PinView(u, r) PROVE ViewsTypeOK'
    <3>1. pinned \cup {<<u, r>>} \in SUBSET (Users \X ViewRooms)
      BY <2>2
    <3>2. QED
      BY <2>1, <2>2, <2>10, <3>1 DEF PinView
  <2>11. ASSUME Upset PROVE upsets' \in 0..MaxUpsets /\ UNCHANGED <<viewRow, pinned>>
    BY <2>11, ViewsAssumption DEF Upset, ViewsTypeOK, ViewsAssumption
  <2>12. ASSUME NEW q \in ViewQueues, DeleteQueue(q) PROVE ViewsTypeOK'
    BY <2>11, <2>12 DEF DeleteQueue, ViewsTypeOK
  <2>13. ASSUME NEW s \in ViewSectors, DeleteSector(s) PROVE ViewsTypeOK'
    BY <2>11, <2>13 DEF DeleteSector, ViewsTypeOK
  <2>14. ASSUME NEW u \in Users, RemoveUser(u) PROVE ViewsTypeOK'
    <3>1. /\ inQueue' \subseteq joined' \X ViewQueues
          /\ inSector' \subseteq joined' \X ViewSectors \X SectorRoles
      BY <2>14, JoinedHaveRoles DEF RemoveUser
    <3>2. QED
      BY <2>11, <2>14, <3>1 DEF RemoveUser, ViewsTypeOK
  <2>15. ASSUME NEW a, RevokeQueue(a) \/ RevokeSector(a) PROVE ViewsTypeOK'
    BY <2>11, <2>15 DEF RevokeQueue, RevokeSector, ViewsTypeOK
  <2>16. CASE UNCHANGED viewVars
    BY <2>16 DEF viewVars, configVars, ViewsTypeOK
  <2>17. QED
    BY <2>3, <2>4, <2>6, <2>7, <2>8, <2>9, <2>10, <2>12, <2>13, <2>14, <2>15, <2>16 DEF ViewsNext
<1>3. QED
  BY <1>1, <1>2, PTL DEF ViewsSpec

-----------------------------------------------------------------------------
(* StatusTimes.  That the time told of a type is at most the time spent    *)
(* also bounds it by the clock, so types and sums go together.             *)

TimedTypes == {"In-Service", "BREAK"}
CustomType == [type: {"none", "In-Service", "BREAK"}, since: 0..clock]

\* What is told of a type, the active row included.
ToldOf(t) == spent[t] + (IF custom.type = t THEN clock - custom.since ELSE 0)

TimeSums ==
    /\ ToldOf("In-Service") = lived["In-Service"]
    /\ ~replaced => ToldOf("BREAK") = lived["BREAK"]
    /\ ToldOf("BREAK") <= lived["BREAK"]

TimesInv == TimesTypeOK /\ TimeSums /\ LogInOrder

\* The active row ends, with its length, or goes on; another may follow.
RowEnds ==
    /\ custom' \in {NoCustom, [type |-> "In-Service", since |-> clock]}
    /\ spent' = Lengthened(custom)
RowGoesOn == UNCHANGED <<custom, spent>>

LEMMA LengthenedIsTold ==
  ASSUME TimesInv
  PROVE  /\ Lengthened(custom) \in [TimedTypes -> 0..clock]
         /\ \A t \in TimedTypes : Lengthened(custom)[t] = ToldOf(t)
<1>1. /\ clock \in Nat /\ custom.since \in Nat /\ custom.since <= clock
      /\ spent \in [TimedTypes -> Nat] /\ custom.type \in TimedTypes \cup {"none"}
      /\ "none" \notin TimedTypes
  BY DEF TimesInv, TimesTypeOK, TimedTypes
<1>2. \A t \in TimedTypes : lived[t] \in Nat /\ lived[t] <= clock
  BY <1>1 DEF TimesInv, TimesTypeOK, TimedTypes
<1>3. \A t \in TimedTypes : ToldOf(t) \in Nat
  BY <1>1 DEF ToldOf
<1>4. \A t \in TimedTypes : ToldOf(t) <= lived[t]
  BY <1>2, <1>3 DEF TimesInv, TimeSums, TimedTypes
<1>5. \A t \in TimedTypes : ToldOf(t) \in 0..clock
  BY <1>1, <1>2, <1>3, <1>4
<1>6. \A t \in TimedTypes : Lengthened(custom)[t] = ToldOf(t)
  BY <1>1 DEF Lengthened, ToldOf
<1>7. Lengthened(custom) = [t \in TimedTypes |-> ToldOf(t)]
  BY <1>1, <1>6 DEF Lengthened
<1>8. QED
  BY <1>5, <1>6, <1>7

\* However the rows follow on each other, no time is lost but a replaced break's.
LEMMA RowsKeepSums ==
  ASSUME TimesInv, UNCHANGED <<clock, lived>>,
         \/ (RowEnds \/ RowGoesOn) /\ UNCHANGED replaced
         \/ /\ custom' = [type |-> "BREAK", since |-> clock]
            /\ spent' = Lengthened(IF custom.type = "In-Service" THEN custom ELSE NoCustom)
            /\ replaced' = (replaced \/ custom.type = "BREAK")
  PROVE  TimeSums' /\ custom' \in CustomType /\ spent' \in [TimedTypes -> 0..clock]
<1>1. /\ clock \in Nat /\ custom \in CustomType /\ spent \in [TimedTypes -> 0..clock]
      /\ custom.since \in 0..clock /\ custom.type \in TimedTypes \cup {"none"}
      /\ TimedTypes = {"In-Service", "BREAK"}
  BY DEF TimesInv, TimesTypeOK, TimedTypes, CustomType
<1>2. CASE RowGoesOn /\ UNCHANGED replaced
  BY <1>1, <1>2 DEF TimesInv, TimeSums, RowGoesOn, ToldOf
<1>3. CASE RowEnds /\ UNCHANGED replaced
  <2>1. custom' \in CustomType /\ spent' \in [TimedTypes -> 0..clock]
    BY <1>1, <1>3, LengthenedIsTold DEF RowEnds, CustomType, NoCustom
  <2>2. \A t \in TimedTypes : ToldOf(t)' = spent'[t]
    BY <1>1, <1>3, <2>1 DEF RowEnds, ToldOf, NoCustom
  <2>3. \A t \in TimedTypes : ToldOf(t)' = ToldOf(t)
    BY <1>3, <2>2, LengthenedIsTold DEF RowEnds
  <2>4. QED
    BY <1>1, <1>3, <2>1, <2>3 DEF TimesInv, TimeSums
<1>4. CASE /\ custom' = [type |-> "BREAK", since |-> clock]
           /\ spent' = Lengthened(IF custom.type = "In-Service" THEN custom ELSE NoCustom)
           /\ replaced' = (replaced \/ custom.type = "BREAK")
  <2>1. custom' \in CustomType
    BY <1>1, <1>4 DEF CustomType
  <2>2. CASE custom.type = "In-Service"
    <3>1. spent' = Lengthened(custom) /\ replaced' = replaced
      BY <1>4, <2>2, <1>1 DEF TimesInv, TimesTypeOK
    <3>2. \A t \in TimedTypes : ToldOf(t)' = spent'[t]
      BY <1>1, <1>4, <3>1, LengthenedIsTold DEF ToldOf
    <3>3. \A t \in TimedTypes : ToldOf(t)' = ToldOf(t)
      BY <3>1, <3>2, LengthenedIsTold
    <3>4. QED
      BY <1>1, <2>1, <3>1, <3>3, LengthenedIsTold DEF TimesInv, TimeSums
  <2>3. CASE custom.type # "In-Service"
    <3>1. spent' = spent
      BY <1>4, <2>3 DEF Lengthened, NoCustom
    <3>2. ToldOf("In-Service")' = ToldOf("In-Service")
      BY <1>4, <2>3, <3>1 DEF ToldOf
    <3>3. ToldOf("BREAK")' = spent["BREAK"] /\ spent["BREAK"] \in 0..clock
      BY <1>1, <1>4, <3>1 DEF ToldOf
    <3>4. ToldOf("BREAK")' <= ToldOf("BREAK")
      BY <1>1, <3>3 DEF ToldOf
    <3>5. ~replaced' => ToldOf("BREAK")' = ToldOf("BREAK")
      <4>1. ~replaced' => ~replaced /\ custom.type # "BREAK"
        BY <1>4
      <4>2. custom.type # "BREAK" => ToldOf("BREAK") = spent["BREAK"]
        BY <3>3 DEF ToldOf
      <4>3. QED
        BY <3>3, <4>1, <4>2
    <3>6. ToldOf("BREAK") \in Int /\ lived["BREAK"] \in Int
      BY <1>1 DEF ToldOf, TimesInv, TimesTypeOK, TimedTypes
    <3>7. ~replaced' => ~replaced
      BY <1>4
    <3>8. ToldOf("BREAK")' <= lived["BREAK"]
      BY <3>3, <3>4, <3>6 DEF TimesInv, TimeSums
    <3>9. TimeSums'
      BY <3>2, <3>5, <3>7, <3>8 DEF TimesInv, TimeSums
    <3>10. QED
      BY <1>1, <2>1, <3>1, <3>9
  <2>4. QED
    BY <2>2, <2>3
<1>5. QED
  BY <1>2, <1>3, <1>4

\* A request: it changes the rows, the status and what is to be logged, no more.
LEMMA RequestsKeepTimes ==
  ASSUME TimesInv, Change,
         TimeSums', custom' \in CustomType, spent' \in [TimedTypes -> 0..clock],
         agentIs' \in {"ONLINE", "OFFLINE"}, {attends', finishing', unlogged', replaced'} \subseteq BOOLEAN,
         toLog' \in Seq(LogTask)
  PROVE  TimesInv'
<1>1. /\ UNCHANGED <<clock, logging, statusLog, wasOnline, onlineToday, lived>>
      /\ changes' \in 0..MaxChanges /\ prompt' \in BOOLEAN
  BY TimesAssumption DEF Change, TimesInv, TimesTypeOK, TimesAssumption
<1>2. LogInOrder'
  BY <1>1 DEF TimesInv, LogInOrder
<1>3. TimesTypeOK'
  BY <1>1 DEF TimesInv, TimesTypeOK, CustomType, TimedTypes
<1>4. QED
  BY <1>2, <1>3 DEF TimesInv

\* What a worker appends keeps the log in order.
LEMMA AppendedInOrder ==
  ASSUME TimesInv, NEW e \in Entries, NEW d \in Days, e.at \div DayLength = d
  PROVE  LET log == Appended(d, e)
         IN  /\ log \in Seq(Entries)
             /\ \A i \in 1..Len(log) :
                    /\ log[i].at \div DayLength = d
                    /\ i > 1 => log[i].state # log[i - 1].state
<1>1. statusLog[d] \in Seq(Entries)
  BY DEF TimesInv, TimesTypeOK
<1>2. \A i \in 1..Len(statusLog[d]) :
          /\ statusLog[d][i].at \div DayLength = d
          /\ i > 1 => statusLog[d][i].state # statusLog[d][i - 1].state
  BY DEF TimesInv, LogInOrder
<1>3. CASE statusLog[d] # <<>> /\ Last(statusLog[d]).state = e.state
  BY <1>1, <1>2, <1>3 DEF Appended
<1>4. CASE ~(statusLog[d] # <<>> /\ Last(statusLog[d]).state = e.state)
  <2> DEFINE log == Append(statusLog[d], e)
             n == Len(statusLog[d])
  <2>1. /\ log \in Seq(Entries) /\ Len(log) = n + 1 /\ n \in Nat
        /\ log[n + 1] = e /\ \A i \in 1..n : log[i] = statusLog[d][i]
    BY <1>1
  <2>2. n > 0 => statusLog[d][n].state # e.state
    BY <1>1, <1>4 DEF Last
  <2>3. ASSUME NEW i \in 1..Len(log)
        PROVE  /\ log[i].at \div DayLength = d
               /\ i > 1 => log[i].state # log[i - 1].state
    <3>1. CASE i <= n
      BY <1>2, <2>1, <3>1
    <3>2. CASE i = n + 1
      <4>1. n > 0 => log[n] = statusLog[d][n]
        BY <2>1
      <4>2. QED
        BY <2>1, <2>2, <3>2, <4>1
    <3>3. QED
      BY <2>1, <3>1, <3>2
  <2>4. Appended(d, e) = log
    BY <1>4 DEF Appended
  <2>5. QED
    BY <2>1, <2>3, <2>4
<1>5. QED
  BY <1>3, <1>4

\* A row of the log tells of one of the states.
LEMMA EntryIsTyped ==
  ASSUME TimesInv, NEW task \in LogTask PROVE Entry(task) \in Entries
<1>1. Named(task) \in {"none", "In-Service", "BREAK"} /\ clock \in 0..MaxClock
  BY DEF Named, LogTask, TimesInv, TimesTypeOK
<1>2. QED
  BY <1>1 DEF Entry, Entries, LogTask

(***************************************************************************)
(* However statuses follow on each other and tasks run late, the variables *)
(* keep their types, what the rows of a type tell adds up to the time they *)
(* were active, and a day's log has no entry twice in a row.               *)
(***************************************************************************)
THEOREM TimesAreKept == TimesSpec => []TimesInv
<1>0. /\ 0 \in 0..MaxClock /\ 0 \in 0..MaxChanges
      /\ MaxClock \in Nat /\ MaxChanges \in Nat
  BY TimesAssumption DEF TimesAssumption
<1>1. TimesInit => TimesInv
  <2> SUFFICES ASSUME TimesInit PROVE TimesInv
    OBVIOUS
  <2>1. TimesTypeOK
    <3>1. /\ clock \in 0..MaxClock /\ clock = 0 /\ 0 \in 0..clock
          /\ wasOnline \in 0..clock /\ onlineToday \in 0..wasOnline
          /\ changes \in 0..MaxChanges
      BY <1>0 DEF TimesInit
    <3>2. custom \in [type: {"none", "In-Service", "BREAK"}, since: 0..clock]
      BY <3>1 DEF TimesInit, NoCustom
    <3>3. spent \in [{"In-Service", "BREAK"} -> 0..clock] /\ lived = spent
      BY <3>1 DEF TimesInit
    <3>4. /\ toLog \in Seq(LogTask) /\ statusLog \in [Days -> Seq(Entries)]
          /\ logging \in [LogWorkers -> Entries \cup {NoTask}]
      BY DEF TimesInit
    <3>5. QED
      BY <3>1, <3>2, <3>3, <3>4 DEF TimesInit, TimesTypeOK
  <2>2. TimeSums
    BY DEF TimesInit, TimeSums, ToldOf, NoCustom
  <2>3. LogInOrder
    BY DEF TimesInit, LogInOrder
  <2>4. QED
    BY <2>1, <2>2, <2>3 DEF TimesInv
<1>2. TimesInv /\ [TimesNext]_timesVars => TimesInv'
  <2> SUFFICES ASSUME TimesInv, [TimesNext]_timesVars PROVE TimesInv'
    OBVIOUS
  <2>0. /\ clock \in 0..MaxClock /\ custom \in CustomType /\ toLog \in Seq(LogTask)
        /\ agentIs \in {"ONLINE", "OFFLINE"}
        /\ {attends, finishing, unlogged, replaced, prompt} \subseteq BOOLEAN
        /\ spent \in [TimedTypes -> 0..clock]
        /\ custom.type = "none" => custom \in [type: {"none"}, since: 0..clock]
    BY DEF TimesInv, TimesTypeOK, CustomType, TimedTypes
  <2>1. ASSUME NEW st \in {"ONLINE", "OFFLINE"}, NEW type \in {"none", "In-Service", "BREAK"},
               Log(st, type)
        PROVE  toLog' \in Seq(LogTask)
    BY <2>0, <2>1 DEF Log, LogTask
  <2>2. Resumed \in {NoCustom, [type |-> "In-Service", since |-> clock]}
    BY DEF Resumed
  <2>3. CASE AskOnline
    <3>1. (RowEnds \/ RowGoesOn) /\ UNCHANGED replaced
      BY <2>2, <2>3 DEF AskOnline, RowEnds, RowGoesOn
    <3>2. TimeSums' /\ custom' \in CustomType /\ spent' \in [TimedTypes -> 0..clock]
      BY <2>3, <3>1, RowsKeepSums DEF AskOnline, Change
    <3>3. QED
      BY <2>0, <2>1, <2>3, <3>2, RequestsKeepTimes DEF AskOnline
  <2>4. CASE AskOffline \/ DropConnection
    <3>1. RowGoesOn /\ UNCHANGED replaced /\ Change
      BY <2>4 DEF AskOffline, DropConnection, RowGoesOn
    <3>2. TimeSums' /\ custom' \in CustomType /\ spent' \in [TimedTypes -> 0..clock]
      BY <3>1, RowsKeepSums DEF Change
    <3>3. unlogged' \in BOOLEAN /\ finishing' \in BOOLEAN
      BY <2>0, <2>4 DEF AskOffline, DropConnection
    <3>4. QED
      BY <2>0, <2>1, <2>4, <3>1, <3>2, <3>3, RequestsKeepTimes DEF AskOffline, DropConnection
  <2>5. CASE Disconnected
    <3>1. (RowEnds \/ RowGoesOn) /\ UNCHANGED replaced /\ Change
      BY <2>5 DEF Disconnected, RowEnds, RowGoesOn
    <3>2. TimeSums' /\ custom' \in CustomType /\ spent' \in [TimedTypes -> 0..clock]
      BY <3>1, RowsKeepSums DEF Change
    <3>3. unlogged' \in BOOLEAN
      BY <2>0, <2>5 DEF Disconnected
    <3>4. agentIs' \in {"ONLINE", "OFFLINE"}
      BY <2>0, <2>5 DEF Disconnected
    <3>5. QED
      BY <2>0, <2>5, <3>1, <3>2, <3>3, <3>4, RequestsKeepTimes DEF Disconnected
  <2>6. CASE BeginBreak
    <3>1. TimeSums' /\ custom' \in CustomType /\ spent' \in [TimedTypes -> 0..clock]
      BY <2>6, RowsKeepSums DEF BeginBreak, Change
    <3>2. replaced' \in BOOLEAN
      BY <2>0, <2>6 DEF BeginBreak
    <3>3. QED
      BY <2>0, <2>1, <2>6, <3>1, <3>2, RequestsKeepTimes DEF BeginBreak
  <2>7. ASSUME NEW online \in BOOLEAN, CloseStatus(online) PROVE TimesInv'
    <3>1. RowEnds /\ UNCHANGED replaced /\ Change
      BY <2>2, <2>7 DEF CloseStatus, RowEnds
    <3>2. TimeSums' /\ custom' \in CustomType /\ spent' \in [TimedTypes -> 0..clock]
      BY <3>1, RowsKeepSums DEF Change
    <3>3. toLog' \in Seq(LogTask) /\ agentIs' \in {"ONLINE", "OFFLINE"}
      BY <2>0, <2>1, <2>7 DEF CloseStatus
    <3>4. QED
      BY <2>0, <2>7, <3>1, <3>2, <3>3, RequestsKeepTimes DEF CloseStatus
  <2>8. CASE FirstRoom
    <3>1. (RowEnds \/ RowGoesOn) /\ UNCHANGED replaced /\ Change
      BY <2>8 DEF FirstRoom, RowEnds, RowGoesOn, Lengthened
    <3>2. TimeSums' /\ custom' \in CustomType /\ spent' \in [TimedTypes -> 0..clock]
      BY <3>1, RowsKeepSums DEF Change
    <3>3. toLog' \in Seq(LogTask)
      BY <2>0, <2>1, <2>8 DEF FirstRoom
    <3>4. QED
      BY <2>0, <2>8, <3>1, <3>2, <3>3, RequestsKeepTimes DEF FirstRoom
  <2>9. CASE LastRoom
    <3>1. (RowEnds \/ RowGoesOn) /\ UNCHANGED replaced /\ Change
      BY <2>9 DEF LastRoom, RowEnds, RowGoesOn
    <3>2. TimeSums' /\ custom' \in CustomType /\ spent' \in [TimedTypes -> 0..clock]
      BY <3>1, RowsKeepSums DEF Change
    <3>3. toLog' \in Seq(LogTask)
      BY <2>0, <2>1, <2>9 DEF LastRoom
    <3>4. QED
      BY <2>0, <2>9, <3>1, <3>2, <3>3, RequestsKeepTimes DEF LastRoom
  <2>10. CASE FinishOffline
    <3>1. (RowEnds \/ RowGoesOn) /\ UNCHANGED replaced
      BY <2>10 DEF FinishOffline, RowEnds, RowGoesOn
    <3>2. TimeSums' /\ custom' \in CustomType /\ spent' \in [TimedTypes -> 0..clock]
      BY <2>10, <3>1, RowsKeepSums DEF FinishOffline
    <3>3. QED
      BY <2>10, <3>2
         DEF FinishOffline, TimesInv, TimesTypeOK, LogInOrder, CustomType, TimedTypes, logVars
  <2>11. ASSUME NEW w \in LogWorkers, NEW i \in 1..Len(toLog), StartLog(w, i) PROVE TimesInv'
    <3>1. toLog[i] \in LogTask
      BY <2>0
    <3>2. logging' \in [LogWorkers -> Entries \cup {NoTask}]
      BY <2>11, <3>1, EntryIsTyped DEF StartLog, TimesInv, TimesTypeOK
    <3>3. toLog' \in Seq(LogTask)
      BY <2>0, <2>11 DEF StartLog, RemoveAt
    <3>4. prompt' \in BOOLEAN
      BY <2>11 DEF StartLog
    <3>5. TimeSums' /\ LogInOrder'
      BY <2>11 DEF StartLog, agentVars, TimesInv, TimeSums, ToldOf, LogInOrder
    <3>6. QED
      BY <2>11, <3>2, <3>3, <3>4, <3>5 DEF StartLog, agentVars, TimesInv, TimesTypeOK
  <2>12. ASSUME NEW w \in LogWorkers, EndLog(w) PROVE TimesInv'
    <3> DEFINE e == logging[w]
               day == e.at \div DayLength
    <3>1. e \in Entries
      BY <2>12 DEF EndLog, TimesInv, TimesTypeOK
    <3>2. /\ statusLog' = [statusLog EXCEPT ![day] = Appended(day, e)]
          /\ logging' = [logging EXCEPT ![w] = NoTask]
          /\ UNCHANGED <<clock, agentVars, toLog, changes, wasOnline, onlineToday, lived,
                         replaced, prompt, unlogged>>
      BY <2>12 DEF EndLog
    <3>3. statusLog \in [Days -> Seq(Entries)]
      BY DEF TimesInv, TimesTypeOK
    <3>4. statusLog' \in [Days -> Seq(Entries)] /\ LogInOrder'
      <4>1. CASE day \in Days
        <5> DEFINE log == Appended(day, e)
        <5>1. /\ log \in Seq(Entries)
              /\ \A i \in 1..Len(log) :
                     /\ log[i].at \div DayLength = day
                     /\ i > 1 => log[i].state # log[i - 1].state
          BY <3>1, <4>1, AppendedInOrder
        <5> HIDE DEF log, day, e
        <5>2. statusLog' = [statusLog EXCEPT ![day] = log]
          BY <3>2 DEF log
        <5>3. /\ statusLog'[day] = log
              /\ \A d \in Days \ {day} : statusLog'[d] = statusLog[d]
          BY <3>3, <4>1, <5>2
        <5>4. statusLog' \in [Days -> Seq(Entries)]
          BY <3>3, <4>1, <5>1, <5>2
        <5>5. LogInOrder'
          BY <5>1, <5>3 DEF TimesInv, LogInOrder
        <5>6. QED
          BY <5>4, <5>5
      <4>2. CASE day \notin Days
        <5>1. statusLog' = statusLog
          BY <3>2, <3>3, <4>2
        <5>2. QED
          BY <3>3, <5>1 DEF TimesInv, LogInOrder
      <4>3. QED
        BY <4>1, <4>2
    <3>5. TimeSums'
      BY <3>2 DEF agentVars, TimesInv, TimeSums, ToldOf
    <3>6. QED
      BY <3>2, <3>4, <3>5 DEF agentVars, TimesInv, TimesTypeOK
  <2>13. CASE TimePasses
    <3>0. /\ clock \in Nat /\ clock' = clock + 1 /\ clock' \in 0..MaxClock
          /\ custom' = custom /\ spent' = spent /\ replaced' = replaced
      BY <1>0, <2>0, <2>13 DEF TimePasses, agentVars
    <3>1. wasOnline' \in 0..clock'
      BY <2>13, <3>0 DEF TimePasses, TimesInv, TimesTypeOK
    <3>2. onlineToday' \in 0..wasOnline'
      <4>1. wasOnline \in Nat /\ onlineToday \in Nat /\ onlineToday <= wasOnline
        BY <3>0 DEF TimesInv, TimesTypeOK
      <4>2. wasOnline' \in {wasOnline, wasOnline + 1}
        BY <2>13 DEF TimePasses
      <4>3. onlineToday' \in {0, onlineToday + wasOnline' - wasOnline}
        BY <2>13 DEF TimePasses
      <4>4. CASE wasOnline' = wasOnline
        BY <4>1, <4>3, <4>4
      <4>5. CASE wasOnline' = wasOnline + 1
        <5>1. onlineToday' \in {0, onlineToday + 1}
          BY <4>1, <4>3, <4>5
        <5>2. QED
          BY <4>1, <4>5, <5>1
      <4>6. QED
        BY <4>2, <4>4, <4>5
    <3>3. /\ lived \in [TimedTypes -> 0..clock]
          /\ lived' = [t \in TimedTypes |-> IF custom.type = t THEN lived[t] + 1 ELSE lived[t]]
      BY <2>13 DEF TimePasses, TimesInv, TimesTypeOK, TimedTypes
    <3>4. lived' \in [TimedTypes -> 0..clock']
      BY <3>0, <3>3
    <3>5. custom' \in [type: {"none", "In-Service", "BREAK"}, since: 0..clock']
      BY <2>0, <3>0 DEF CustomType
    <3>6. spent' \in [TimedTypes -> 0..clock']
      BY <2>0, <3>0
    <3>7. TimeSums'
      <4>1. ASSUME NEW t \in TimedTypes
            PROVE  /\ ToldOf(t) \in Int /\ lived[t] \in Int
                   /\ ToldOf(t)' - ToldOf(t) = lived'[t] - lived[t]
        <5>1. custom.since \in Int /\ spent[t] \in Int /\ lived[t] \in Int
          BY <2>0, <3>3 DEF CustomType
        <5>2. CASE custom.type = t
          BY <3>0, <3>3, <5>1, <5>2 DEF ToldOf
        <5>3. CASE custom.type # t
          BY <3>0, <3>3, <5>1, <5>3 DEF ToldOf
        <5>4. QED
          BY <5>2, <5>3
      <4>2. ASSUME NEW t \in TimedTypes PROVE ToldOf(t)' \in Int /\ lived'[t] \in Int
        BY <2>0, <3>0, <3>4, <4>2 DEF ToldOf, CustomType
      <4>3. "In-Service" \in TimedTypes /\ "BREAK" \in TimedTypes
        BY DEF TimedTypes
      <4>4. QED
        BY <3>0, <4>1, <4>2, <4>3 DEF TimesInv, TimeSums
    <3>8. LogInOrder' /\ prompt' \in BOOLEAN
      BY <2>13 DEF TimePasses, logVars, TimesInv, LogInOrder
    <3>9. QED
      BY <2>13, <3>0, <3>1, <3>2, <3>4, <3>5, <3>6, <3>7, <3>8
         DEF TimePasses, agentVars, logVars, TimesInv, TimesTypeOK, TimedTypes
  <2>14. CASE UNCHANGED timesVars
    BY <2>14 DEF timesVars, agentVars, logVars, TimesInv, TimesTypeOK, TimeSums, ToldOf, LogInOrder
  <2>15. QED
    BY <2>3, <2>4, <2>5, <2>6, <2>7, <2>8, <2>9, <2>10, <2>11, <2>12, <2>13, <2>14 DEF TimesNext
<1>3. QED
  BY <1>1, <1>2, PTL DEF TimesSpec

-----------------------------------------------------------------------------
(* RoomViews, continued: what is shown follows from the rows of the moment *)
(* except for the pins, which are rows of their own.                       *)

\* Who pinned an open room has it still.
PinsFollow == \A p \in pinned : Alive(p[2]) /\ viewRow[p[2]].user = p[1]

LEMMA PinsStillFollow ==
  ASSUME ViewsTypeOK, PinsFollow, [ViewsNext]_viewVars PROVE PinsFollow'
<1>0. /\ \A p \in pinned : p[1] \in Users /\ p[2] \in ViewRooms
      /\ \A r \in ViewRooms : viewRow[r] \in ViewRowType
      /\ viewRow \in [ViewRooms -> ViewRowType]
  BY DEF ViewsTypeOK
<1>1. ASSUME NEW r \in ViewRooms, NEW row, NEW pins \in SUBSET pinned, PutRoom(r, row, pins),
             \/ \A p \in pins : p[2] # r
             \/ row.is \in {"flow", "open"} /\ row.user = viewRow[r].user
      PROVE  PinsFollow'
  BY <1>0, <1>1 DEF PutRoom, PinsFollow, Alive
<1>2. ASSUME NEW r \in ViewRooms
      PROVE  /\ Unpinned(r) \in SUBSET pinned /\ \A p \in Unpinned(r) : p[2] # r
  BY DEF Unpinned
<1>3. ASSUME NEW r \in ViewRooms, NEW is \in {"flow", "open"}, MakeViewRoom(r, is)
      PROVE  PinsFollow'
  <2>1. \A p \in pinned : p[2] # r
    BY <1>3 DEF MakeViewRoom, PinsFollow, Alive
  <2>2. QED
    BY <1>1, <1>3, <2>1 DEF MakeViewRoom
<1>4. ASSUME NEW r \in ViewRooms, AnswerFlow(r) PROVE PinsFollow'
  <2>1. LET row == [viewRow[r] EXCEPT !.is = "open"]
        IN  row.is = "open" /\ row.user = viewRow[r].user
    BY <1>0 DEF ViewRowType
  <2>2. QED
    BY <1>1, <1>4, <2>1 DEF AnswerFlow
<1>5. ASSUME NEW r \in ViewRooms, NEW u, NEW q, HandTo(r, u, q) PROVE PinsFollow'
  <2>1. LET row == [viewRow[r] EXCEPT !.user = u, !.queue = q]
        IN  row.is = viewRow[r].is /\ row.user = u
    BY <1>0 DEF ViewRowType
  <2>2. QED
    BY <1>1, <1>2, <1>5, <2>1 DEF HandTo, Alive
<1>6. ASSUME NEW r \in ViewRooms, NEW u \in Users, CloseView(u, r) PROVE PinsFollow'
  BY <1>1, <1>2, <1>6 DEF CloseView
<1>7. ASSUME NEW r \in ViewRooms, NEW u \in Users, PinView(u, r) PROVE PinsFollow'
  <2>1. viewRow' = viewRow /\ pinned' = pinned \cup {<<u, r>>}
    BY <1>0, <1>7 DEF PinView, PutRoom
  <2>2. Alive(r) /\ viewRow[r].user = u
    BY <1>7 DEF PinView
  <2>3. QED
    BY <2>1, <2>2 DEF PinsFollow, Alive
<1>8. ASSUME UNCHANGED <<viewRow, pinned>> PROVE PinsFollow'
  BY <1>8 DEF PinsFollow, Alive
<1>9. ASSUME \/ \E q \in ViewQueues : DeleteQueue(q)
             \/ \E s \in ViewSectors : DeleteSector(s)
             \/ \E u \in Users : RemoveUser(u)
             \/ \E a \in inQueue : RevokeQueue(a)
             \/ \E a \in inSector : RevokeSector(a)
             \/ UNCHANGED viewVars
      PROVE  PinsFollow'
  BY <1>8, <1>9 DEF DeleteQueue, DeleteSector, RemoveUser, RevokeQueue, RevokeSector, Upset, viewVars
<1>10. QED
  BY <1>3, <1>4, <1>5, <1>6, <1>7, <1>9
     DEF ViewsNext, PickQueueRoom, TransferToUser, TransferToQueue

\* Who finds a room of a queue of theirs may act on it.
LEMMA QueueMembersMayAct ==
  ASSUME NEW u \in joined, NEW r \in ViewRooms, viewRow[r].queue \in QueueIds(u),
         RoomSector(r) \notin goneSectors \/ IsAnyManager(u)
  PROVE  MayAct(u, r)
<1>1. IsAgent(u, viewRow[r].queue)
  <2>1. CASE u \in Admins
    BY <2>1 DEF IsAgent
  <2>2. CASE \E a \in inSector : a[1] = u
    BY <2>2 DEF IsAgent, IsAnyManager
  <2>3. CASE u \notin Admins /\ <<u, viewRow[r].queue>> \in inQueue
    BY <2>3 DEF IsAgent, RoomSector
  <2>4. QED
    BY <2>1, <2>2, <2>3 DEF QueueIds
<1>2. QED
  BY <1>1 DEF MayAct

LEMMA ViewsFollowFromRows ==
  ASSUME ViewsTypeOK, PinsFollow PROVE ViewsHold
<1>0. /\ joined \subseteq Users /\ NoUser \notin Users /\ Admins \subseteq Users
      /\ \A r \in ViewRooms : viewRow[r].queue \in ViewQueues
      /\ \A r \in ViewRooms : viewRow[r].user \in Users \cup {NoUser}
  BY ViewsAssumption DEF ViewsTypeOK, ViewsAssumption, ViewRowType
<1>1. \A u \in joined : \A r \in Pins(u) : Alive(r) /\ MayWrite(u, r)
  BY DEF Pins, PinsFollow, MayWrite
<1>2. ListedMayAct
  <2> SUFFICES ASSUME NEW u \in joined, NEW r \in ViewRooms
               PROVE  /\ r \in LegacyList(u) /\ (RoomSector(r) \notin goneSectors \/ IsAnyManager(u)) =>
                             MayAct(u, r) /\ MayRead(u, r)
                      /\ Alive(r) /\ MayWrite(u, r)
                             /\ ~(u \in Admins /\ RoomSector(r) \in goneSectors) =>
                             r \in Filtered(u)
    BY DEF ListedMayAct
  <2>1. ASSUME r \in LegacyList(u), RoomSector(r) \notin goneSectors \/ IsAnyManager(u)
        PROVE  MayAct(u, r) /\ MayRead(u, r)
    <3>1. CASE viewRow[r].user = u
      BY <3>1 DEF MayAct, MayRead
    <3>2. CASE viewRow[r].user # u
      <4>1. r \in Filtered(u)
        BY <1>1, <2>1, <3>2 DEF LegacyList, MayWrite
      <4>2. viewRow[r].queue \in QueueIds(u)
        BY <3>2, <4>1 DEF Filtered
      <4>3. QED
        BY <2>1, <4>2, QueueMembersMayAct DEF MayRead
    <3>3. QED
      BY <3>1, <3>2
  <2>2. ASSUME Alive(r), MayWrite(u, r), ~(u \in Admins /\ RoomSector(r) \in goneSectors)
        PROVE  r \in Filtered(u)
    BY <1>0, <2>2 DEF Filtered, MayWrite, QueueIds, RoomSector
  <2>3. QED
    BY <2>1, <2>2
<1>3. NoRoomOutOfSight
  <2> SUFFICES ASSUME NEW r \in ViewRooms, Alive(r), RoomSector(r) \notin goneSectors,
                      joined \cap Admins # {}, ~Unattended(r) => viewRow[r].user \in joined
               PROVE  \E u \in joined : r \in Filtered(u) /\ MayAct(u, r)
    BY DEF NoRoomOutOfSight
  <2>1. CASE Unattended(r)
    <3>1. PICK u \in joined : u \in Admins
      OBVIOUS
    <3>2. viewRow[r].queue \in QueueIds(u)
      BY <1>0, <3>1 DEF QueueIds, RoomSector
    <3>3. r \in Filtered(u)
      BY <2>1, <3>1, <3>2 DEF Filtered, Unattended
    <3>4. QED
      BY <3>2, <3>3, QueueMembersMayAct
  <2>2. CASE ~Unattended(r)
    <3>1. viewRow[r].user \in joined /\ MayAct(viewRow[r].user, r)
      BY <2>2 DEF MayAct
    <3>2. viewRow[r].user \in Admins => viewRow[r].queue \in QueueIds(viewRow[r].user)
      BY <1>0 DEF QueueIds, RoomSector
    <3>3. r \in Filtered(viewRow[r].user)
      BY <3>1, <3>2 DEF Filtered
    <3>4. QED
      BY <3>1, <3>3
  <2>3. QED
    BY <2>1, <2>2
<1>4. CountsMatchList
  <2> SUFFICES ASSUME NEW u \in joined, NEW q \in CountedQueues(u, TRUE)
               PROVE  LET shown == {r \in Filtered(u) : viewRow[r].queue = q}
                      IN  /\ AwaitingCount(q) = shown \cap AwaitingRooms
                          /\ ProgressCount(u, TRUE, q) = shown \cap Ongoing
                          /\ q \in CountedQueues(u, FALSE)
                          /\ ProgressCount(u, TRUE, q) \subseteq ProgressCount(u, FALSE, q)
                          /\ AwaitingCount(q) \subseteq CountWaiting(q)
                          /\ ProgressCount(u, FALSE, q) \subseteq CountInService(q)
    BY DEF CountsMatchList
  <2> DEFINE shown == {r \in Filtered(u) : viewRow[r].queue = q}
  <2>1. q \in QueueIds(u) /\ q \in ViewQueues \ goneQueues /\ SectorHas[q] \notin goneSectors
    BY DEF CountedQueues
  <2>2. u # NoUser
    BY <1>0
  <2>3. AwaitingCount(q) = shown \cap AwaitingRooms
    BY <2>1 DEF AwaitingCount, AwaitingRooms, Filtered, Unattended
  <2>4. ProgressCount(u, TRUE, q) = shown \cap Ongoing
    BY <2>1, <2>2 DEF ProgressCount, Ongoing, Filtered, Unattended
  <2>5. q \in CountedQueues(u, FALSE)
    BY <2>1 DEF CountedQueues
  <2>6. /\ ProgressCount(u, TRUE, q) \subseteq ProgressCount(u, FALSE, q)
        /\ AwaitingCount(q) \subseteq CountWaiting(q)
        /\ ProgressCount(u, FALSE, q) \subseteq CountInService(q)
    BY DEF ProgressCount, AwaitingCount, CountWaiting, CountInService, AwaitingRooms, Ongoing
  <2>7. QED
    BY <2>3, <2>4, <2>5, <2>6
<1>5. PinListsAgree
  <2> SUFFICES ASSUME NEW u \in joined
               PROVE  /\ OptimizedMain(u) \cup OptimizedPins(u) = LegacyList(u)
                      /\ OptimizedMain(u) \cap OptimizedPins(u) = {}
    BY <1>1 DEF PinListsAgree
  <2>1. ActivePins(u) = Pins(u)
    BY <1>1 DEF ActivePins
  <2>2. Filtered(u) \subseteq InProject(u)
    BY DEF Filtered, InProject, Alive
  <2>3. QED
    BY <2>1, <2>2 DEF OptimizedMain, OptimizedPins, LegacyList
<1>6. ClosedIsHistory
  BY DEF ClosedIsHistory, History, MayWrite, MayRead
<1>7. QED
  BY <1>2, <1>3, <1>4, <1>5, <1>6 DEF ViewsHold

(***************************************************************************)
(* What is shown of rooms fits with what may be done with them, whatever   *)
(* becomes of sectors, queues, authorizations and members.                 *)
(***************************************************************************)
THEOREM ShownMayAct == ViewsSpec => []ViewsHold
<1>1. ViewsInit => PinsFollow
  BY DEF ViewsInit, PinsFollow
<1>2. ViewsTypeOK /\ PinsFollow /\ [ViewsNext]_viewVars => PinsFollow'
  BY PinsStillFollow
<1>3. ViewsTypeOK /\ PinsFollow => ViewsHold
  BY ViewsFollowFromRows
<1>4. QED
  BY <1>1, <1>2, <1>3, ViewsTypeCorrect, PTL DEF ViewsSpec

-----------------------------------------------------------------------------
(* Feedbacks.  What a request that nobody crossed has read still holds     *)
(* when it writes: the day's count is below the bound and, after midnight, *)
(* lower than it was read; nothing was answered since the survey it read   *)
(* of; the last showing is the one it counted rooms since, and their       *)
(* number only grows.                                                      *)

\* a: what a request has read.
RequestFits(a) ==
    /\ a.at # "idle" => a.dates \in 1..surveysBegun
    /\ a.at \in {"answered", "rooms", "show", "count", "tell"} => shownCount < ShowingsADay
    /\ a.at \in {"rooms", "show", "create"} => ~AnsweredSince(a.dates)
    /\ a.at = "show" => a.last = lastShown /\ EndedSince(a.dates, lastShown) >= EnoughRooms
    /\ a.at = "tell" => a.count < ShowingsADay /\ shownCount <= a.count

\* Surveys begin one after the other, and none has begun after the last showing unless the
\* rooms counted in it ended after that.
SurveysFit ==
    /\ inDates \subseteq 1..surveysBegun /\ cachedDates <= surveysBegun
    /\ lastShown.survey <= surveysBegun /\ lastShown.ended <= endedRooms
    /\ \A s \in Surveys : s > surveysBegun => feedbacks[s] = 0
    /\ \A s \in 1..surveysBegun : /\ startedAt[s] <= endedRooms
                                  /\ lastShown.survey < s => lastShown.ended <= startedAt[s]

CountFits == shownToday <= shownCount /\ shownCount <= ShowingsADay
UncrossedFit == \A p \in Prompts : asking[p].late \/ RequestFits(asking[p])
FeedbacksFit == FeedbacksHold /\ (feedbackCrossed \/ (CountFits /\ UncrossedFit))

\* The types of the cached dates and of a request's dates.
LEMMA DatesRead ==
  ASSUME FeedbacksTypeOK PROVE SurveyRead \in 0..LastSurvey
BY DEF FeedbacksTypeOK, SurveyRead

\* What a request is while it goes on.
PromptTypes ==
  [at: {"idle", "answered", "rooms", "show", "count", "tell", "check", "create"},
   dates: 0..LastSurvey, last: Showings, count: Nat, late: BOOLEAN]

LEMMA MovesAreTyped ==
  ASSUME NEW p \in Prompts, NEW onto \in PromptTypes, asking \in [Prompts -> PromptTypes],
         feedbackCrossed \in BOOLEAN
  PROVE  /\ Move(p, onto) => asking' \in [Prompts -> PromptTypes]
         /\ MoveAndWrite(p, onto) =>
               asking' \in [Prompts -> PromptTypes] /\ feedbackCrossed' \in BOOLEAN
<1>1. \A q \in Prompts : [asking[q] EXCEPT !.late = TRUE] \in PromptTypes
  BY DEF PromptTypes
<1>2. asking[p].late \in BOOLEAN
  BY DEF PromptTypes
<1>3. QED
  BY <1>1, <1>2 DEF Move, MoveAndWrite

LEMMA NoPromptIsTyped == NoPrompt \in PromptTypes
BY FeedbacksAssumption DEF NoPrompt, PromptTypes, NeverShown, Showings, FeedbacksAssumption

(***************************************************************************)
(* The flag's surveys, the rows of feedback and what each request has read *)
(* keep their types (UserFeedbackService).                                 *)
(***************************************************************************)
THEOREM FeedbacksTypeCorrect == FeedbacksSpec => []FeedbacksTypeOK
<1>1. FeedbacksInit => FeedbacksTypeOK
  <2> SUFFICES ASSUME FeedbacksInit PROVE FeedbacksTypeOK
    OBVIOUS
  <2>1. asking \in [Prompts -> PromptTypes]
    BY NoPromptIsTyped DEF FeedbacksInit
  <2>2. startedAt \in [Surveys -> 0..MaxEnded] /\ lastShown \in Showings
    BY FeedbacksAssumption DEF FeedbacksInit, NeverShown, Showings, FeedbacksAssumption
  <2>3. QED
    <3>1. feedbacks \in [Surveys -> Nat] /\ inDates \subseteq Surveys
      BY DEF FeedbacksInit
    <3>2. 0 \in 0..MaxEnded /\ 0 \in 0..LastSurvey
      BY FeedbacksAssumption DEF FeedbacksAssumption
    <3>3. QED
      BY <2>1, <2>2, <3>1, <3>2 DEF FeedbacksInit, FeedbacksTypeOK, PromptTypes
<1>2. FeedbacksTypeOK /\ [FeedbacksNext]_feedbackVars => FeedbacksTypeOK'
  <2> SUFFICES ASSUME FeedbacksTypeOK, [FeedbacksNext]_feedbackVars PROVE FeedbacksTypeOK'
    OBVIOUS
  <2> DEFINE Rows == /\ lastShown \in Showings /\ shownCount \in Nat
                     /\ feedbacks \in [Surveys -> Nat]
                     /\ shownToday \in Nat /\ unearned \in BOOLEAN /\ feedbackCrossed \in BOOLEAN
             Around == /\ endedRooms \in 0..MaxEnded /\ surveysBegun \in 0..LastSurvey
                       /\ startedAt \in [Surveys -> 0..MaxEnded] /\ inDates \subseteq Surveys
  <2>1. /\ Rows /\ Around /\ cachedDates \in 0..LastSurvey
        /\ asking \in [Prompts -> PromptTypes]
    BY DEF FeedbacksTypeOK, PromptTypes
  <2>2. ASSUME Rows', Around', cachedDates' \in 0..LastSurvey,
               asking' \in [Prompts -> PromptTypes]
        PROVE  FeedbacksTypeOK'
    BY <2>2 DEF FeedbacksTypeOK, PromptTypes
  <2>3. ASSUME UNCHANGED feedbackRows PROVE Rows'
    BY <2>1, <2>3 DEF feedbackRows
  <2>4. ASSUME UNCHANGED surveyVars PROVE Around'
    BY <2>1, <2>4 DEF surveyVars
  <2>5. CASE EndRoom \/ BeginSurvey \/ \E s \in Surveys : EndSurvey(s)
    <3>1. UNCHANGED <<cachedDates, asking, feedbackRows>>
      BY <2>5 DEF EndRoom, BeginSurvey, EndSurvey
    <3>2. Around'
      <4>1. CASE EndRoom
        BY <2>1, <4>1, FeedbacksAssumption DEF EndRoom, FeedbacksAssumption
      <4>2. CASE BeginSurvey
        <5>1. surveysBegun + 1 \in Surveys
          BY <2>1, <4>2, FeedbacksAssumption DEF BeginSurvey, Surveys, FeedbacksAssumption
        <5>2. QED
          BY <2>1, <4>2, <5>1, FeedbacksAssumption DEF BeginSurvey, Surveys, FeedbacksAssumption
      <4>3. CASE \E s \in Surveys : EndSurvey(s)
        BY <2>1, <4>3 DEF EndSurvey
      <4>4. QED
        BY <2>5, <4>1, <4>2, <4>3
    <3>3. QED
      BY <2>1, <2>2, <2>3, <3>1, <3>2
  <2>6. CASE DatesExpire \/ NextDay
    <3>1. UNCHANGED <<surveyVars, asking>> /\ cachedDates' \in 0..LastSurvey
      BY <2>1, <2>6, FeedbacksAssumption DEF DatesExpire, NextDay, FeedbacksAssumption
    <3>2. Rows'
      BY <2>1, <2>6 DEF DatesExpire, NextDay, feedbackRows
    <3>3. QED
      BY <2>1, <2>2, <2>4, <3>1, <3>2
  <2>7. ASSUME NEW p \in Prompts, NEW goal \in {"answered", "check"}, BeginWithin(p, goal)
        PROVE  FeedbacksTypeOK'
    <3>1. [NoPrompt EXCEPT !.at = goal, !.dates = SurveyRead] \in PromptTypes
      BY NoPromptIsTyped, DatesRead DEF PromptTypes
    <3>2. asking' \in [Prompts -> PromptTypes]
      BY <2>1, <2>7, <3>1, NoPromptIsTyped, MovesAreTyped DEF BeginWithin
    <3>3. QED
      BY <2>2, <2>3, <2>4, <2>7, <3>2, DatesRead DEF BeginWithin
  <2>8. ASSUME NEW p \in Prompts, NEW onto \in PromptTypes, Move(p, onto),
               UNCHANGED <<surveyVars, cachedDates, feedbackRows>>
        PROVE  FeedbacksTypeOK'
    <3>1. asking' \in [Prompts -> PromptTypes]
      BY <2>1, <2>8, MovesAreTyped
    <3>2. QED
      BY <2>1, <2>2, <2>3, <2>4, <2>8, <3>1
  <2>9. ASSUME NEW p \in Prompts,
               CheckShowAnswered(p) \/ CountEnded(p) \/ FailToShow(p) \/ ReadCount(p)
               \/ CheckCreate(p)
        PROVE  FeedbacksTypeOK'
    <3>1. /\ \A goal \in {"rooms", "create", "tell", "show"} :
                [asking[p] EXCEPT !.at = goal] \in PromptTypes
          /\ [asking[p] EXCEPT !.at = "show", !.last = lastShown] \in PromptTypes
          /\ [asking[p] EXCEPT !.at = "tell", !.count = shownCount] \in PromptTypes
      BY <2>1 DEF PromptTypes
    <3>2. UNCHANGED <<surveyVars, cachedDates, feedbackRows>>
      BY <2>9 DEF CheckShowAnswered, CountEnded, FailToShow, ReadCount, CheckCreate, CheckAnswered
    <3>3. PICK onto \in PromptTypes : Move(p, onto)
      BY <2>9, <3>1, NoPromptIsTyped
         DEF CheckShowAnswered, CountEnded, FailToShow, ReadCount, CheckCreate, CheckAnswered
    <3>4. QED
      BY <2>8, <3>2, <3>3
  <2>10. ASSUME NEW p \in Prompts, Show(p) \/ Tell(p) \/ CreateFeedback(p)
         PROVE  FeedbacksTypeOK'
    <3>1. [asking[p] EXCEPT !.at = "count"] \in PromptTypes /\ asking[p].count \in Nat
      BY <2>1 DEF PromptTypes
    <3>2. asking' \in [Prompts -> PromptTypes] /\ feedbackCrossed' \in BOOLEAN
      BY <2>1, <2>10, <3>1, NoPromptIsTyped, MovesAreTyped DEF Show, Tell, CreateFeedback
    <3>3. UNCHANGED <<surveyVars, cachedDates>>
      BY <2>10 DEF Show, Tell, CreateFeedback
    <3>4. Rows'
      <4>1. CASE Show(p)
        <5>1. lastShown' \in Showings
          BY <2>1, <4>1, FeedbacksAssumption DEF Show, Showings, FeedbacksAssumption
        <5>2. unearned' \in BOOLEAN
          BY <2>1, <4>1 DEF Show
        <5>3. QED
          BY <2>1, <3>2, <4>1, <5>1, <5>2 DEF Show
      <4>2. CASE Tell(p)
        BY <2>1, <3>1, <3>2, <4>2 DEF Tell
      <4>3. CASE CreateFeedback(p)
        <5>1. feedbacks' \in [Surveys -> Nat]
          <6>1. surveysBegun \in Surveys => feedbacks[surveysBegun] + 1 \in Nat
            BY <2>1
          <6>2. feedbacks' = [feedbacks EXCEPT ![surveysBegun] = feedbacks[surveysBegun] + 1]
            BY <4>3 DEF CreateFeedback
          <6>3. feedbacks \in [Surveys -> Nat]
            BY <2>1
          <6>4. QED
            BY <6>1, <6>2, <6>3
        <5>2. QED
          BY <2>1, <3>2, <4>3, <5>1 DEF CreateFeedback
      <4>4. QED
        BY <2>10, <4>1, <4>2, <4>3
    <3>5. QED
      BY <2>1, <2>2, <2>4, <3>2, <3>3, <3>4
  <2>11. CASE UNCHANGED feedbackVars
    BY <2>11 DEF feedbackVars, FeedbacksTypeOK
  <2>12. QED
    BY <2>5, <2>6, <2>7, <2>9, <2>10, <2>11 DEF FeedbacksNext, AskWhetherToShow, AskToCreate
<1>3. QED
  BY <1>1, <1>2, PTL DEF FeedbacksSpec

\* Surveys begin in order, and what is shown or answered belongs to the last of them.
LEMMA SurveysStillFit ==
  ASSUME FeedbacksTypeOK, SurveysFit, [FeedbacksNext]_feedbackVars
  PROVE  SurveysFit'
<1>1. /\ endedRooms \in Nat /\ surveysBegun \in 0..LastSurvey /\ LastSurvey \in Nat
      /\ startedAt \in [Surveys -> Nat] /\ cachedDates \in Nat
      /\ lastShown.survey \in Nat /\ lastShown.ended \in Nat
      /\ feedbacks \in [Surveys -> Nat]
  BY FeedbacksAssumption DEF FeedbacksTypeOK, FeedbacksAssumption, Showings
<1>a. \A s \in 1..surveysBegun : s \in Surveys /\ startedAt[s] \in Nat
  BY <1>1 DEF Surveys
<1>2. CASE EndRoom
  <2>1. endedRooms' = endedRooms + 1 /\ UNCHANGED <<surveysBegun, startedAt, inDates, cachedDates,
                                                     lastShown, feedbacks>>
    BY <1>2 DEF EndRoom, feedbackRows
  <2>2. \A s \in 1..surveysBegun : startedAt[s] <= endedRooms + 1
    BY <1>1, <1>a DEF SurveysFit
  <2>3. QED
    BY <1>1, <2>1, <2>2 DEF SurveysFit
<1>3. CASE BeginSurvey
  <2>1. /\ surveysBegun' = surveysBegun + 1 /\ inDates' = inDates \cup {surveysBegun + 1}
        /\ UNCHANGED <<endedRooms, cachedDates, lastShown, feedbacks>>
        /\ surveysBegun + 1 \in Surveys
    BY <1>1, <1>3 DEF BeginSurvey, feedbackRows, Surveys
  <2>2. \A s \in Surveys :
           startedAt'[s] = IF s = surveysBegun + 1 THEN endedRooms ELSE startedAt[s]
    BY <1>1, <1>3 DEF BeginSurvey
  <2>3. \A s \in 1..surveysBegun' : s \in Surveys /\ (s = surveysBegun + 1 \/ s \in 1..surveysBegun)
    BY <1>1, <2>1 DEF Surveys
  <2>4. \A s \in 1..surveysBegun' :
           /\ startedAt'[s] <= endedRooms'
           /\ lastShown'.survey < s => lastShown'.ended <= startedAt'[s]
    BY <1>1, <2>1, <2>2, <2>3 DEF SurveysFit
  <2>5. inDates' \subseteq 1..surveysBegun' /\ cachedDates' <= surveysBegun'
        /\ lastShown'.survey <= surveysBegun' /\ lastShown'.ended <= endedRooms'
    BY <1>1, <2>1 DEF SurveysFit
  <2>6. \A s \in Surveys : s > surveysBegun' => feedbacks'[s] = 0
    BY <1>1, <2>1 DEF SurveysFit, Surveys
  <2>7. QED
    BY <2>4, <2>5, <2>6 DEF SurveysFit
<1>4. CASE \E s \in Surveys : EndSurvey(s)
  BY <1>4 DEF SurveysFit, EndSurvey, feedbackRows
<1>5. CASE DatesExpire \/ NextDay
  <2>1. /\ UNCHANGED <<surveyVars, lastShown, feedbacks>>
        /\ cachedDates' = 0 \/ UNCHANGED cachedDates
    BY <1>5 DEF DatesExpire, NextDay, feedbackRows
  <2>2. cachedDates' <= surveysBegun
    BY <1>1, <2>1 DEF SurveysFit
  <2>3. QED
    BY <2>1, <2>2 DEF SurveysFit, surveyVars
<1>6. ASSUME NEW p \in Prompts, NEW goal \in {"answered", "check"}, BeginWithin(p, goal)
      PROVE  SurveysFit'
  <2>1. UNCHANGED <<surveyVars, feedbackRows>> /\ cachedDates' = SurveyRead
    BY <1>6 DEF BeginWithin
  <2>2. SurveyRead <= surveysBegun
    BY <1>1 DEF SurveyRead, SurveysFit
  <2>3. QED
    BY <2>1, <2>2 DEF SurveysFit, surveyVars, feedbackRows
<1>7. ASSUME NEW p \in Prompts,
             CheckShowAnswered(p) \/ CountEnded(p) \/ FailToShow(p) \/ ReadCount(p)
             \/ CheckCreate(p)
      PROVE  SurveysFit'
  <2>1. UNCHANGED <<surveyVars, cachedDates, feedbackRows>>
    BY <1>7 DEF CheckShowAnswered, CountEnded, FailToShow, ReadCount, CheckCreate, CheckAnswered
  <2>2. QED
    BY <2>1 DEF SurveysFit, surveyVars, feedbackRows
<1>8. ASSUME NEW p \in Prompts, Show(p) PROVE SurveysFit'
  <2>1. /\ lastShown'.survey = surveysBegun /\ lastShown'.ended = endedRooms
        /\ UNCHANGED <<surveyVars, cachedDates, feedbacks>>
    BY <1>8 DEF Show
  <2>2. QED
    BY <1>1, <2>1 DEF SurveysFit, surveyVars
<1>9. ASSUME NEW p \in Prompts, Tell(p) PROVE SurveysFit'
  BY <1>9 DEF SurveysFit, Tell, surveyVars
<1>10. ASSUME NEW p \in Prompts, CreateFeedback(p) PROVE SurveysFit'
  <2>1. /\ UNCHANGED <<surveyVars, cachedDates, lastShown>>
        /\ feedbacks' = [feedbacks EXCEPT ![surveysBegun] = feedbacks[surveysBegun] + 1]
    BY <1>10 DEF CreateFeedback
  <2>2. \A s \in Surveys : s > surveysBegun => feedbacks'[s] = feedbacks[s]
    BY <1>1, <2>1
  <2>3. QED
    BY <2>1, <2>2 DEF SurveysFit, surveyVars
<1>11. CASE UNCHANGED feedbackVars
  BY <1>11 DEF feedbackVars, SurveysFit
<1>12. QED
  BY <1>2, <1>3, <1>4, <1>5, <1>6, <1>7, <1>8, <1>9, <1>10, <1>11
     DEF FeedbacksNext, AskWhetherToShow, AskToCreate

\* A request that goes on by itself leaves the others as they were.
LEMMA MovesStillFit ==
  ASSUME FeedbacksTypeOK, FeedbacksFit, NEW p \in Prompts, NEW onto, Move(p, onto),
         UNCHANGED <<surveyVars, feedbackRows>>,
         ~feedbackCrossed => onto.late \/ RequestFits(onto)
  PROVE  FeedbacksFit'
<1>1. asking \in [Prompts -> PromptTypes]
  BY DEF FeedbacksTypeOK, PromptTypes
<1>2. \A q \in Prompts : asking'[q] = IF q = p THEN onto ELSE asking[q]
  BY <1>1 DEF Move
<1>3. \A a : RequestFits(a)' <=> RequestFits(a)
  BY DEF RequestFits, AnsweredSince, EndedSince, surveyVars, feedbackRows
<1>5. FeedbacksHold' <=> FeedbacksHold
  BY DEF FeedbacksHold, feedbackRows
<1>6. UncrossedFit /\ ~feedbackCrossed => UncrossedFit'
  <2> SUFFICES ASSUME UncrossedFit, ~feedbackCrossed, NEW q \in Prompts
               PROVE  (asking[q].late \/ RequestFits(asking[q]))'
    BY DEF UncrossedFit
  <2>1. CASE q = p
    <3>1. asking'[q] = onto
      BY <1>2, <2>1
    <3>2. onto.late \/ RequestFits(onto)
      OBVIOUS
    <3>3. onto.late \/ RequestFits(onto)'
      BY <1>3, <3>2
    <3>4. QED
      BY <3>1, <3>3 DEF RequestFits, AnsweredSince, EndedSince
  <2>2. CASE q # p
    <3>1. asking'[q] = asking[q]
      BY <1>2, <2>2
    <3>2. asking[q].late \/ RequestFits(asking[q])
      BY DEF UncrossedFit
    <3>3. QED
      BY <3>1, <3>2 DEF RequestFits, AnsweredSince, EndedSince, surveyVars, feedbackRows
  <2>3. QED
    BY <2>1, <2>2
<1>7. CountFits' <=> CountFits
  BY DEF CountFits, feedbackRows
<1>8. feedbackCrossed' = feedbackCrossed
  BY DEF feedbackRows
<1>9. QED
  BY <1>5, <1>6, <1>7, <1>8, Zenon DEF FeedbacksFit

\* The request that writes was not crossed, or it is told so; the others are, if they are
\* under way.
LEMMA WritersCross ==
  ASSUME FeedbacksTypeOK, NEW p \in Prompts, NEW onto \in PromptTypes, MoveAndWrite(p, onto)
  PROVE  /\ ~feedbackCrossed' => ~feedbackCrossed /\ ~asking[p].late
         /\ asking'[p] = onto
         /\ \A q \in Prompts \ {p} : asking'[q].late \/ asking'[q].at = "idle"
<1>1. asking \in [Prompts -> PromptTypes] /\ feedbackCrossed \in BOOLEAN
      /\ asking[p].late \in BOOLEAN
  BY DEF FeedbacksTypeOK, PromptTypes
<1>2. \A q \in Prompts : [asking[q] EXCEPT !.late = TRUE].late = TRUE
  BY <1>1 DEF PromptTypes
<1>3. QED
  BY <1>1, <1>2 DEF MoveAndWrite

\* So a request that writes has only to account for itself.
LEMMA WritesStillFit ==
  ASSUME FeedbacksTypeOK, FeedbacksFit, NEW p \in Prompts, NEW onto \in PromptTypes,
         MoveAndWrite(p, onto),
         ~feedbackCrossed /\ ~asking[p].late /\ CountFits /\ RequestFits(asking[p]) =>
            FeedbacksHold' /\ CountFits' /\ (onto.late \/ RequestFits(onto)')
  PROVE  FeedbacksFit'
<1> SUFFICES ASSUME ~feedbackCrossed' PROVE FeedbacksHold' /\ CountFits' /\ UncrossedFit'
  BY DEF FeedbacksFit, FeedbacksHold
<1>1. ~feedbackCrossed /\ ~asking[p].late
  BY WritersCross
<1>2. CountFits /\ RequestFits(asking[p])
  BY <1>1 DEF FeedbacksFit, UncrossedFit
<1>3. FeedbacksHold' /\ CountFits' /\ (onto.late \/ RequestFits(onto)')
  BY <1>1, <1>2
<1>4. ASSUME NEW q \in Prompts PROVE (asking[q].late \/ RequestFits(asking[q]))'
  <2>1. CASE q = p
    <3>1. asking'[q] = onto
      BY <2>1, WritersCross
    <3>2. QED
      BY <1>3, <3>1 DEF RequestFits, AnsweredSince, EndedSince
  <2>2. CASE q # p
    <3>1. asking'[q].late \/ asking'[q].at = "idle"
      BY <2>2, WritersCross
    <3>2. QED
      BY <3>1 DEF RequestFits
  <2>3. QED
    BY <2>1, <2>2
<1>5. QED
  BY <1>3, <1>4 DEF UncrossedFit

\* Nothing that goes on around the requests undoes what one of them has read.
LEMMA AroundStillFits ==
  ASSUME FeedbacksTypeOK, SurveysFit, FeedbacksFit,
         EndRoom \/ BeginSurvey \/ (\E s \in Surveys : EndSurvey(s)) \/ DatesExpire \/ NextDay
  PROVE  FeedbacksFit'
<1>1. /\ UNCHANGED <<asking, lastShown, feedbacks, unearned, feedbackCrossed>>
      /\ (UNCHANGED <<shownCount, shownToday>>) \/ (shownCount' = 0 /\ shownToday' = 0)
  BY DEF EndRoom, BeginSurvey, EndSurvey, DatesExpire, NextDay, feedbackRows
<1>2. /\ endedRooms \in Nat /\ surveysBegun \in 0..LastSurvey /\ LastSurvey \in Nat
      /\ startedAt \in [Surveys -> Nat] /\ shownCount \in Nat /\ shownToday \in Nat
      /\ ShowingsADay \in Nat \ {0} /\ EnoughRooms \in Nat
      /\ lastShown.survey \in Nat /\ lastShown.ended \in Nat
      /\ \A p \in Prompts : asking[p].count \in Nat /\ asking[p].dates \in Nat
  BY FeedbacksAssumption DEF FeedbacksTypeOK, FeedbacksAssumption, Showings
<1>3. endedRooms' \in Nat /\ endedRooms' >= endedRooms /\ surveysBegun' \in Nat
      /\ surveysBegun' >= surveysBegun
  BY <1>2 DEF EndRoom, BeginSurvey, EndSurvey, DatesExpire, NextDay, surveyVars
<1>4. \A s \in 1..surveysBegun : startedAt'[s] = startedAt[s] /\ startedAt[s] \in Nat
  BY <1>2 DEF EndRoom, BeginSurvey, EndSurvey, DatesExpire, NextDay, surveyVars, Surveys
<1>5. FeedbacksHold'
  BY <1>1, <1>2 DEF FeedbacksFit, FeedbacksHold
<1>6. ASSUME CountFits PROVE CountFits'
  BY <1>1, <1>2, <1>6 DEF CountFits
<1>7. ASSUME NEW p \in Prompts, RequestFits(asking[p]) PROVE RequestFits(asking[p])'
  <2> DEFINE a == asking[p]
  <2>1. asking'[p] = a
    BY <1>1
  <2>2. a.at # "idle" => a.dates \in 1..surveysBegun'
    BY <1>2, <1>3, <1>7 DEF RequestFits
  <2>3. a.at \in {"answered", "rooms", "show", "count", "tell"} => shownCount' < ShowingsADay
    BY <1>1, <1>2, <1>7 DEF RequestFits
  <2>4. a.at \in {"rooms", "show", "create"} => ~AnsweredSince(a.dates)'
    BY <1>1, <1>7 DEF RequestFits, AnsweredSince
  <2>5. a.at = "show" => a.last = lastShown' /\ EndedSince(a.dates, lastShown)' >= EnoughRooms
    <3> SUFFICES ASSUME a.at = "show"
                 PROVE  a.last = lastShown' /\ EndedSince(a.dates, lastShown)' >= EnoughRooms
      OBVIOUS
    <3>1. a.last = lastShown /\ EndedSince(a.dates, lastShown) >= EnoughRooms
          /\ a.dates \in 1..surveysBegun
      BY <1>7 DEF RequestFits
    <3>2. startedAt'[a.dates] = startedAt[a.dates] /\ startedAt[a.dates] \in Nat
      BY <1>4, <3>1
    <3>3. asking'[p].dates = a.dates
      BY <1>1
    <3>4. QED
      BY <1>1, <1>2, <1>3, <3>1, <3>2, <3>3 DEF EndedSince
  <2>6. a.at = "tell" => a.count < ShowingsADay /\ shownCount' <= a.count
    BY <1>1, <1>2, <1>7 DEF RequestFits
  <2>7. QED
    BY <2>1, <2>2, <2>3, <2>4, <2>5, <2>6 DEF RequestFits
<1>8. UncrossedFit => UncrossedFit'
  BY <1>1, <1>7 DEF UncrossedFit
<1>9. QED
  BY <1>1, <1>5, <1>6, <1>8 DEF FeedbacksFit

\* A request that reads goes on with what fits.
LEMMA ReadsStillFit ==
  ASSUME FeedbacksTypeOK, SurveysFit, FeedbacksFit, NEW p \in Prompts,
         CheckShowAnswered(p) \/ CountEnded(p) \/ FailToShow(p) \/ ReadCount(p) \/ CheckCreate(p)
  PROVE  FeedbacksFit'
<1>1. asking[p] \in PromptTypes
  BY DEF FeedbacksTypeOK, PromptTypes
<1>2. UNCHANGED <<surveyVars, cachedDates, feedbackRows>>
  BY DEF CheckShowAnswered, CountEnded, FailToShow, ReadCount, CheckCreate, CheckAnswered
<1> DEFINE Onward(onto) == onto = NoPrompt
                           \/ (onto.late = asking[p].late /\ (RequestFits(asking[p]) => RequestFits(onto)))
<1>3. ASSUME NEW onto, Onward(onto), Move(p, onto), CountFits \/ feedbackCrossed PROVE FeedbacksFit'
  <2>1. ~feedbackCrossed => onto.late \/ RequestFits(onto)
    <3>1. NoPrompt.at = "idle"
      BY DEF NoPrompt
    <3>2. RequestFits(NoPrompt)
      BY <3>1 DEF RequestFits
    <3>3. QED
      BY <1>3, <3>2 DEF FeedbacksFit, UncrossedFit
  <2>2. UNCHANGED <<surveyVars, feedbackRows>> /\ Move(p, onto)
    BY <1>2, <1>3
  <2>3. QED
    BY <2>1, <2>2, MovesStillFit
<1>4. \E onto : Onward(onto) /\ Move(p, onto)
  <2>1. CASE CheckShowAnswered(p)
    <3> DEFINE on == [asking[p] EXCEPT !.at = "rooms"]
    <3>1. on.at = "rooms" /\ on.dates = asking[p].dates /\ on.late = asking[p].late
      BY <1>1 DEF PromptTypes
    <3>2. asking[p].at = "answered"
          /\ Move(p, IF AnsweredSince(asking[p].dates) THEN NoPrompt ELSE on)
      BY <2>1 DEF CheckShowAnswered, CheckAnswered
    <3>3. ~AnsweredSince(asking[p].dates) => Onward(on)
      <4> HIDE DEF on
      <4>1. QED
        BY <3>1, <3>2 DEF RequestFits
    <3>4. QED
      BY <3>2, <3>3
  <2>2. CASE CheckCreate(p)
    <3> DEFINE on == [asking[p] EXCEPT !.at = "create"]
    <3>1. on.at = "create" /\ on.dates = asking[p].dates /\ on.late = asking[p].late
      BY <1>1 DEF PromptTypes
    <3>2. asking[p].at = "check"
          /\ Move(p, IF AnsweredSince(asking[p].dates) THEN NoPrompt ELSE on)
      BY <2>2 DEF CheckCreate, CheckAnswered
    <3>3. ~AnsweredSince(asking[p].dates) => Onward(on)
      <4> HIDE DEF on
      <4>1. QED
        BY <3>1, <3>2 DEF RequestFits
    <3>4. QED
      BY <3>2, <3>3
  <2>3. CASE CountEnded(p)
    <3> DEFINE on == [asking[p] EXCEPT !.at = "show", !.last = lastShown]
    <3>1. /\ on.at = "show" /\ on.dates = asking[p].dates /\ on.late = asking[p].late
          /\ on.last = lastShown
      BY <1>1 DEF PromptTypes
    <3>2. asking[p].at = "rooms"
          /\ Move(p, IF EndedSince(asking[p].dates, lastShown) >= EnoughRooms THEN on ELSE NoPrompt)
      BY <2>3 DEF CountEnded
    <3>3. EndedSince(asking[p].dates, lastShown) >= EnoughRooms => Onward(on)
      <4> HIDE DEF on
      <4>1. QED
        BY <3>1, <3>2 DEF RequestFits
    <3>4. QED
      BY <3>2, <3>3
  <2>4. CASE FailToShow(p)
    BY <2>4 DEF FailToShow
  <2>5. CASE ReadCount(p)
    <3> DEFINE on == [asking[p] EXCEPT !.at = "tell", !.count = shownCount]
    <3>1. /\ on.at = "tell" /\ on.dates = asking[p].dates /\ on.late = asking[p].late
          /\ on.count = shownCount /\ shownCount \in Nat
      BY <1>1 DEF PromptTypes, FeedbacksTypeOK
    <3>2. asking[p].at = "count" /\ Move(p, on)
      BY <2>5 DEF ReadCount
    <3>3. Onward(on)
      <4> HIDE DEF on
      <4>1. QED
        BY <3>1, <3>2 DEF RequestFits
    <3>4. QED
      BY <3>2, <3>3
  <2>6. QED
    BY <2>1, <2>2, <2>3, <2>4, <2>5
<1>5. CountFits \/ feedbackCrossed
  BY DEF FeedbacksFit
<1>6. QED
  BY <1>3, <1>4, <1>5

\* So does one that begins, with the dates it read.
LEMMA BeginningsFit ==
  ASSUME FeedbacksTypeOK, SurveysFit, FeedbacksFit, NEW p \in Prompts,
         AskWhetherToShow(p) \/ AskToCreate(p)
  PROVE  FeedbacksFit'
<1>1. PICK goal \in {"answered", "check"} :
         BeginWithin(p, goal) /\ (goal = "answered" => shownCount < ShowingsADay)
  BY DEF AskWhetherToShow, AskToCreate
<1> DEFINE newTask == [NoPrompt EXCEPT !.at = goal, !.dates = SurveyRead]
<1>2. newTask.at = goal /\ newTask.dates = SurveyRead /\ NoPrompt.at = "idle" /\ ~NoPrompt.late
  BY DEF NoPrompt
<1>3. SurveyRead \in inDates => RequestFits(newTask)
  <2> HIDE DEF newTask
  <2>1. SurveyRead \in inDates => SurveyRead \in 1..surveysBegun
    BY DEF SurveysFit
  <2>2. QED
    BY <1>1, <1>2, <2>1 DEF RequestFits
<1>4. RequestFits(NoPrompt)
  BY <1>2 DEF RequestFits
<1>5. /\ UNCHANGED <<surveyVars, feedbackRows>> /\ asking[p].at = "idle"
      /\ Move(p, IF SurveyRead \in inDates THEN newTask ELSE NoPrompt)
  BY <1>1 DEF BeginWithin
<1>6. QED
  <2>1. PICK onto : RequestFits(onto) /\ Move(p, onto)
    BY <1>3, <1>4, <1>5
  <2>2. QED
    BY <1>5, <2>1, MovesStillFit

\* The rooms it counted have ended since the last showing, whichever survey that was in.
LEMMA ShowingsFit ==
  ASSUME FeedbacksTypeOK, SurveysFit, FeedbacksFit, NEW p \in Prompts, Show(p)
  PROVE  FeedbacksFit'
<1>1. PICK shown : /\ shown \in PromptTypes /\ MoveAndWrite(p, shown)
                   /\ shown.at = "count" /\ shown.dates = asking[p].dates
  <2> DEFINE counted == [asking[p] EXCEPT !.at = "count"]
  <2>1. /\ counted \in PromptTypes /\ MoveAndWrite(p, counted)
        /\ counted.at = "count" /\ counted.dates = asking[p].dates
    BY DEF FeedbacksTypeOK, PromptTypes, Show
  <2>2. QED
    BY <2>1
<1>2. /\ endedRooms \in Nat /\ startedAt \in [Surveys -> Nat] /\ EnoughRooms \in Nat
      /\ lastShown.survey \in Nat /\ lastShown.ended \in Nat
      /\ surveysBegun \in 0..LastSurvey /\ LastSurvey \in Nat /\ unearned \in BOOLEAN
  BY FeedbacksAssumption DEF FeedbacksTypeOK, FeedbacksAssumption, Showings
<1>3. UNCHANGED <<surveyVars, shownCount, feedbacks, shownToday>>
  BY DEF Show
<1>4. ASSUME ~feedbackCrossed, CountFits, RequestFits(asking[p])
      PROVE  FeedbacksHold' /\ CountFits' /\ RequestFits(shown)'
  <2>1. /\ asking[p].at = "show" /\ asking[p].dates \in 1..surveysBegun
        /\ ~AnsweredSince(asking[p].dates) /\ shownCount < ShowingsADay
        /\ EndedSince(asking[p].dates, lastShown) >= EnoughRooms
    BY <1>4 DEF Show, RequestFits
  <2>2. asking[p].dates \in Surveys /\ startedAt[asking[p].dates] \in Nat
    BY <1>2, <2>1 DEF Surveys
  <2>3. endedRooms - lastShown.ended >= EnoughRooms
    BY <1>2, <2>1, <2>2 DEF SurveysFit, EndedSince
  <2>4. ~unearned /\ ~(lastShown # NeverShown /\ endedRooms - lastShown.ended < EnoughRooms)
    BY <1>2, <1>4, <2>3 DEF FeedbacksFit, FeedbacksHold
  <2>5. ~unearned'
    BY <2>1, <2>4 DEF Show
  <2>6. FeedbacksHold'
    BY <1>3, <1>4, <2>5 DEF FeedbacksFit, FeedbacksHold
  <2>7. CountFits'
    BY <1>3, <1>4 DEF CountFits
  <2>8. shown.at = "count" /\ shown.dates \in 1..surveysBegun' /\ shownCount' < ShowingsADay
    BY <1>1, <1>3, <2>1 DEF surveyVars
  <2>9. RequestFits(shown)'
    BY <2>8 DEF RequestFits
  <2>10. QED
    BY <2>6, <2>7, <2>9
<1>5. QED
  BY <1>1, <1>4, WritesStillFit

\* The count it read was below the bound and no lower than the day's.
LEMMA TellingsFit ==
  ASSUME FeedbacksTypeOK, FeedbacksFit, NEW p \in Prompts, Tell(p)
  PROVE  FeedbacksFit'
<1>1. asking[p].count \in Nat /\ shownToday \in Nat /\ shownCount \in Nat /\ ShowingsADay \in Nat
  BY FeedbacksAssumption DEF FeedbacksTypeOK, FeedbacksAssumption
<1>2. NoPrompt \in PromptTypes /\ MoveAndWrite(p, NoPrompt) /\ NoPrompt.at = "idle"
  BY NoPromptIsTyped DEF Tell, NoPrompt
<1>3. ASSUME ~feedbackCrossed, CountFits, RequestFits(asking[p])
      PROVE  FeedbacksHold' /\ CountFits' /\ RequestFits(NoPrompt)'
  <2>1. asking[p].count < ShowingsADay /\ shownToday <= shownCount /\ shownCount <= asking[p].count
    BY <1>3 DEF Tell, RequestFits, CountFits
  <2>2. shownCount' = asking[p].count + 1 /\ shownToday' = shownToday + 1
        /\ UNCHANGED <<feedbacks, unearned>>
    BY DEF Tell
  <2>3. CountFits'
    BY <1>1, <2>1, <2>2 DEF CountFits
  <2>4. shownToday' <= ShowingsADay
    BY <1>1, <2>1, <2>2
  <2>5. FeedbacksHold'
    BY <1>3, <2>2, <2>4 DEF FeedbacksFit, FeedbacksHold
  <2>6. QED
    BY <1>2, <2>3, <2>5 DEF RequestFits
<1>4. QED
  BY <1>2, <1>3, WritesStillFit

\* It saw no answer since its survey began, so none is since the last one did.
LEMMA AnswersFit ==
  ASSUME FeedbacksTypeOK, SurveysFit, FeedbacksFit, NEW p \in Prompts, CreateFeedback(p)
  PROVE  FeedbacksFit'
<1>1. /\ feedbacks \in [Surveys -> Nat] /\ surveysBegun \in 0..LastSurvey /\ LastSurvey \in Nat
  BY FeedbacksAssumption DEF FeedbacksTypeOK, FeedbacksAssumption
<1>2. NoPrompt \in PromptTypes /\ MoveAndWrite(p, NoPrompt) /\ NoPrompt.at = "idle"
  BY NoPromptIsTyped DEF CreateFeedback, NoPrompt
<1>3. ASSUME ~feedbackCrossed, CountFits, RequestFits(asking[p])
      PROVE  FeedbacksHold' /\ CountFits' /\ RequestFits(NoPrompt)'
  <2>1. asking[p].dates \in 1..surveysBegun /\ ~AnsweredSince(asking[p].dates)
    BY <1>3 DEF CreateFeedback, RequestFits
  <2>2. /\ feedbacks' = [feedbacks EXCEPT ![surveysBegun] = feedbacks[surveysBegun] + 1]
        /\ UNCHANGED <<shownCount, shownToday, unearned>>
    BY DEF CreateFeedback
  <2>3. surveysBegun \in Surveys /\ surveysBegun >= asking[p].dates
    BY <1>1, <2>1 DEF Surveys
  <2>4. feedbacks[surveysBegun] = 0
    BY <1>1, <2>1, <2>3 DEF AnsweredSince
  <2>5. \A s \in Surveys : feedbacks[s] <= 1
    BY <1>3 DEF FeedbacksFit, FeedbacksHold
  <2>6. \A s \in Surveys : feedbacks'[s] <= 1
    BY <1>1, <2>2, <2>4, <2>5
  <2>7. FeedbacksHold' /\ CountFits'
    BY <1>3, <2>2, <2>6 DEF FeedbacksFit, FeedbacksHold, CountFits
  <2>8. QED
    BY <1>2, <2>7 DEF RequestFits
<1>4. QED
  BY <1>2, <1>3, WritesStillFit

(***************************************************************************)
(* A user is asked what they think at most ShowingsADay times a day, after *)
(* as many rooms as are enough and not after an answer, and answers a      *)
(* survey once, unless two of their requests crossed: what                 *)
(* should_show_feedback_form and can_create_feedback check still holds     *)
(* when their request writes.                                              *)
(***************************************************************************)
THEOREM FeedbacksKept == FeedbacksSpec => []FeedbacksHold
<1>1. FeedbacksInit => SurveysFit /\ FeedbacksFit
  <2> SUFFICES ASSUME FeedbacksInit PROVE SurveysFit /\ FeedbacksFit
    OBVIOUS
  <2>1. SurveysFit
    BY DEF FeedbacksInit, SurveysFit, NeverShown
  <2>2. FeedbacksHold /\ CountFits
    BY FeedbacksAssumption DEF FeedbacksInit, FeedbacksHold, CountFits, FeedbacksAssumption
  <2>3. \A p \in Prompts : asking[p].at = "idle"
    BY DEF FeedbacksInit, NoPrompt
  <2>4. UncrossedFit
    BY <2>3 DEF UncrossedFit, RequestFits
  <2>5. QED
    BY <2>1, <2>2, <2>4 DEF FeedbacksFit
<1>2. FeedbacksTypeOK /\ SurveysFit /\ FeedbacksFit /\ [FeedbacksNext]_feedbackVars => FeedbacksFit'
  <2> SUFFICES ASSUME FeedbacksTypeOK, SurveysFit, FeedbacksFit, [FeedbacksNext]_feedbackVars
               PROVE  FeedbacksFit'
    OBVIOUS
  <2>1. CASE UNCHANGED feedbackVars
    BY <2>1 DEF feedbackVars, FeedbacksFit, FeedbacksHold, CountFits, UncrossedFit, RequestFits,
                AnsweredSince, EndedSince
  <2>2. CASE FeedbacksNext
    BY <2>2, AroundStillFits, BeginningsFit, ReadsStillFit, ShowingsFit, TellingsFit, AnswersFit
       DEF FeedbacksNext
  <2>3. QED
    BY <2>1, <2>2
<1>3. FeedbacksFit => FeedbacksHold
  BY DEF FeedbacksFit
<1>4. QED
  BY <1>1, <1>2, <1>3, SurveysStillFit, FeedbacksTypeCorrect, PTL DEF FeedbacksSpec

-----------------------------------------------------------------------------
(***************************************************************************)
(* Messages of agents.  Unless its key expired or was not asked, a         *)
(* request_id has one maker at a time, who finds no message of it.         *)
(***************************************************************************)
Makes(a) == attemptAt[a] \in {"claimed", "valid", "posted", "committed", "failing"}
Sure(a) == RequestOf[a] \notin unsure

OneMaker ==
    \A a, b \in Attempts :
        Makes(a) /\ Makes(b) /\ RequestOf[a] = RequestOf[b] /\ Sure(a) => a = b

MakerHasKey ==
    \A a \in Attempts : Makes(a) /\ Sure(a) => requestKey[RequestOf[a]] = Pending

NoneBefore ==
    \A a \in Attempts, m \in messageRows :
        Makes(a) /\ attemptAt[a] # "committed" /\ Sure(a) => RequestOf[m] # RequestOf[a]

FreeIsFresh ==
    \A m \in messageRows : Sure(m) => requestKey[RequestOf[m]] # NoKey

OneRow ==
    \A m, n \in messageRows : RequestOf[m] = RequestOf[n] /\ Sure(m) => m = n

KeysNameTheirOwn ==
    \A i \in RequestIds : requestKey[i] \in Attempts => RequestOf[requestKey[i]] = i

CommittedIsRow == \A a \in Attempts : attemptAt[a] = "committed" => a \in messageRows

\* What the contact has read by then.
ReadAtMost ==
    /\ \A i \in RequestIds \ unsure :
          /\ heard[i] <= 1 + takenBack[i]
          /\ requestKey[i] = NoKey => heard[i] <= takenBack[i]
    /\ \A a \in Attempts :
          attemptAt[a] \in {"claimed", "valid", "failing"} /\ Sure(a) =>
              heard[RequestOf[a]] <= takenBack[RequestOf[a]]

Makers == OneMaker /\ MakerHasKey /\ NoneBefore
RowsOfRequests == FreeIsFresh /\ OneRow /\ CommittedIsRow
MessageInv == Makers /\ RowsOfRequests /\ KeysNameTheirOwn /\ ReadAtMost /\ AnswersAreTrue

\* The steps of an attempt: it claims its request_id, polls, tries to send, and ends.
ClaimSteps(a) == Claim(a) \/ ClaimBlindly(a)
PollSteps(a) == FindClaimed(a) \/ ResolveExisting(a) \/ StopPolling(a)
SendSteps(a) ==
    \/ Validate(a) \/ RefuseMessage(a) \/ PostToContact(a) \/ PostUnheard(a)
    \/ CommitMessage(a) \/ RollBackMessage(a)
EndSteps(a) ==
    StoreMessage(a) \/ StoreNothing(a) \/ ReleaseKey(a) \/ ReleaseNothing(a) \/ KillAttempt(a)
MessageStep(a) == ClaimSteps(a) \/ PollSteps(a) \/ SendSteps(a) \/ EndSteps(a)

LEMMA MessageTypeStep ==
  ASSUME MessagesTypeOK, TRUE, NEW a \in Attempts, MessageStep(a)
  PROVE  MessagesTypeOK'
<1> USE AttemptAssumption DEF AttemptGoes, SetKey, NoMessageFault, MessageFault, messageBounds, MessagesTypeOK, InProgress
<1>1. CASE ClaimSteps(a)
  BY <1>1 DEF ClaimSteps, Claim, ClaimBlindly
<1>2. CASE PollSteps(a)
  BY <1>2 DEF PollSteps, FindClaimed, ResolveExisting, StopPolling
<1>3. CASE SendSteps(a)
  BY <1>3 DEF SendSteps, Validate, RefuseMessage, PostToContact, PostUnheard, RollBackMessage, CommitMessage
<1>4. CASE EndSteps(a)
  BY <1>4 DEF EndSteps, StoreMessage, StoreNothing, ReleaseKey, ReleaseNothing, KillAttempt
<1> QED BY <1>1, <1>2, <1>3, <1>4 DEF MessageStep

LEMMA OneMakerStep ==
  ASSUME MessagesTypeOK, Makers, RowsOfRequests, NEW a \in Attempts, MessageStep(a)
  PROVE  OneMaker'
<1> USE AttemptAssumption DEF AttemptGoes, SetKey, NoMessageFault, MessageFault, messageBounds, MessagesTypeOK, Makers, OneMaker, MakerHasKey, Makes, Sure
<1>1. CASE ClaimSteps(a)
  BY <1>1 DEF ClaimSteps, Claim, ClaimBlindly
<1>2. CASE PollSteps(a)
  BY <1>2 DEF PollSteps, FindClaimed, ResolveExisting, StopPolling
<1>3. CASE SendSteps(a)
  BY <1>3 DEF SendSteps, Validate, RefuseMessage, PostToContact, PostUnheard, RollBackMessage, CommitMessage
<1>4. CASE EndSteps(a)
  BY <1>4 DEF EndSteps, StoreMessage, StoreNothing, ReleaseKey, ReleaseNothing, KillAttempt
<1> QED BY <1>1, <1>2, <1>3, <1>4 DEF MessageStep

LEMMA MakerHasKeyStep ==
  ASSUME MessagesTypeOK, Makers, RowsOfRequests, NEW a \in Attempts, MessageStep(a)
  PROVE  MakerHasKey'
<1> USE AttemptAssumption DEF AttemptGoes, SetKey, NoMessageFault, MessageFault, messageBounds, MessagesTypeOK, Makers, OneMaker, MakerHasKey, Makes, Sure
<1>1. CASE ClaimSteps(a)
  BY <1>1 DEF ClaimSteps, Claim, ClaimBlindly
<1>2. CASE PollSteps(a)
  BY <1>2 DEF PollSteps, FindClaimed, ResolveExisting, StopPolling
<1>3. CASE SendSteps(a)
  BY <1>3 DEF SendSteps, Validate, RefuseMessage, PostToContact, PostUnheard, RollBackMessage, CommitMessage
<1>4. CASE EndSteps(a)
  BY <1>4 DEF EndSteps, StoreMessage, StoreNothing, ReleaseKey, ReleaseNothing, KillAttempt
<1> QED BY <1>1, <1>2, <1>3, <1>4 DEF MessageStep

LEMMA NoneBeforeStep ==
  ASSUME MessagesTypeOK, Makers, RowsOfRequests, NEW a \in Attempts, MessageStep(a)
  PROVE  NoneBefore'
<1> USE AttemptAssumption DEF AttemptGoes, SetKey, NoMessageFault, MessageFault, messageBounds, MessagesTypeOK, Makers, OneMaker, NoneBefore, RowsOfRequests, FreeIsFresh, Makes, Sure
<1>1. CASE ClaimSteps(a)
  BY <1>1 DEF ClaimSteps, Claim, ClaimBlindly
<1>2. CASE PollSteps(a)
  BY <1>2 DEF PollSteps, FindClaimed, ResolveExisting, StopPolling
<1>3. CASE SendSteps(a)
  BY <1>3 DEF SendSteps, Validate, RefuseMessage, PostToContact, PostUnheard, RollBackMessage, CommitMessage
<1>4. CASE EndSteps(a)
  BY <1>4 DEF EndSteps, StoreMessage, StoreNothing, ReleaseKey, ReleaseNothing, KillAttempt
<1> QED BY <1>1, <1>2, <1>3, <1>4 DEF MessageStep

LEMMA RowsStep ==
  ASSUME MessagesTypeOK, Makers, RowsOfRequests, NEW a \in Attempts, MessageStep(a)
  PROVE  RowsOfRequests'
<1> USE AttemptAssumption DEF AttemptGoes, SetKey, NoMessageFault, MessageFault, messageBounds, MessagesTypeOK, Makers, MakerHasKey, NoneBefore, RowsOfRequests, FreeIsFresh, OneRow, CommittedIsRow, Makes, Sure
<1>1. CASE ClaimSteps(a)
  BY <1>1 DEF ClaimSteps, Claim, ClaimBlindly
<1>2. CASE PollSteps(a)
  BY <1>2 DEF PollSteps, FindClaimed, ResolveExisting, StopPolling
<1>3. CASE SendSteps(a)
  BY <1>3 DEF SendSteps, Validate, RefuseMessage, PostToContact, PostUnheard, RollBackMessage, CommitMessage
<1>4. CASE EndSteps(a)
  BY <1>4 DEF EndSteps, StoreMessage, StoreNothing, ReleaseKey, ReleaseNothing, KillAttempt
<1> QED BY <1>1, <1>2, <1>3, <1>4 DEF MessageStep

LEMMA KeysNameStep ==
  ASSUME MessagesTypeOK, Makers, KeysNameTheirOwn, NEW a \in Attempts, MessageStep(a)
  PROVE  KeysNameTheirOwn'
<1> USE AttemptAssumption DEF AttemptGoes, SetKey, NoMessageFault, MessageFault, messageBounds, MessagesTypeOK, KeysNameTheirOwn
<1>1. CASE ClaimSteps(a)
  BY <1>1 DEF ClaimSteps, Claim, ClaimBlindly
<1>2. CASE PollSteps(a)
  BY <1>2 DEF PollSteps, FindClaimed, ResolveExisting, StopPolling
<1>3. CASE SendSteps(a)
  BY <1>3 DEF SendSteps, Validate, RefuseMessage, PostToContact, PostUnheard, RollBackMessage, CommitMessage
<1>4. CASE EndSteps(a)
  BY <1>4 DEF EndSteps, StoreMessage, StoreNothing, ReleaseKey, ReleaseNothing, KillAttempt
<1> QED BY <1>1, <1>2, <1>3, <1>4 DEF MessageStep

LEMMA ReadStep ==
  ASSUME MessagesTypeOK, Makers, ReadAtMost, NEW a \in Attempts, MessageStep(a)
  PROVE  ReadAtMost'
<1> USE AttemptAssumption DEF AttemptGoes, SetKey, NoMessageFault, MessageFault, messageBounds, MessagesTypeOK, Makers, OneMaker, MakerHasKey, ReadAtMost, Makes, Sure, InProgress
<1>1. CASE ClaimSteps(a)
  BY <1>1 DEF ClaimSteps, Claim, ClaimBlindly
<1>2. CASE PollSteps(a)
  BY <1>2 DEF PollSteps, FindClaimed, ResolveExisting, StopPolling
<1>3. CASE SendSteps(a)
  BY <1>3 DEF SendSteps, Validate, RefuseMessage, PostToContact, PostUnheard, RollBackMessage, CommitMessage
<1>4. CASE EndSteps(a)
  BY <1>4 DEF EndSteps, StoreMessage, StoreNothing, ReleaseKey, ReleaseNothing, KillAttempt
<1> QED BY <1>1, <1>2, <1>3, <1>4 DEF MessageStep

LEMMA AnswersStep ==
  ASSUME MessagesTypeOK, RowsOfRequests, KeysNameTheirOwn, AnswersAreTrue, NEW a \in Attempts, MessageStep(a)
  PROVE  AnswersAreTrue'
<1> USE AttemptAssumption DEF AttemptGoes, SetKey, NoMessageFault, MessageFault, messageBounds, MessagesTypeOK, RowsOfRequests, CommittedIsRow, KeysNameTheirOwn, AnswersAreTrue
<1>1. CASE ClaimSteps(a)
  BY <1>1 DEF ClaimSteps, Claim, ClaimBlindly
<1>2. CASE PollSteps(a)
  BY <1>2 DEF PollSteps, FindClaimed, ResolveExisting, StopPolling
<1>3. CASE SendSteps(a)
  BY <1>3 DEF SendSteps, Validate, RefuseMessage, PostToContact, PostUnheard, RollBackMessage, CommitMessage
<1>4. CASE EndSteps(a)
  BY <1>4 DEF EndSteps, StoreMessage, StoreNothing, ReleaseKey, ReleaseNothing, KillAttempt
<1> QED BY <1>1, <1>2, <1>3, <1>4 DEF MessageStep

\* What other steps change: the key of a request_id that is then unsure, and the room.
LEMMA RestOfMessages ==
  ASSUME MessagesTypeOK, MessageInv,
         (\E i \in RequestIds : ExpireKey(i)) \/ ChangeRoom \/ UNCHANGED messageVars
  PROVE  MessagesTypeOK' /\ MessageInv'
<1> USE DEF MessagesTypeOK, MessageInv, Makers, OneMaker, MakerHasKey, NoneBefore, RowsOfRequests,
            FreeIsFresh, OneRow, CommittedIsRow, KeysNameTheirOwn, ReadAtMost, AnswersAreTrue,
            Makes, Sure
<1>1. ASSUME NEW i \in RequestIds, ExpireKey(i) PROVE MessagesTypeOK' /\ MessageInv'
  BY <1>1, AttemptAssumption DEF ExpireKey, SetKey, Busy, InProgress
<1>2. CASE ChangeRoom
  BY <1>2 DEF ChangeRoom, messageBounds
<1>3. CASE UNCHANGED messageVars
  BY <1>3 DEF messageVars, messageBounds
<1> QED BY <1>1, <1>2, <1>3

LEMMA MessageInvariant == MessagesSpec => [](MessagesTypeOK /\ MessageInv)
<1>1. MessagesInit => MessagesTypeOK /\ MessageInv
  BY AttemptAssumption
     DEF MessagesInit, MessagesTypeOK, MessageInv, Makers, OneMaker, MakerHasKey, NoneBefore,
         RowsOfRequests, FreeIsFresh, OneRow, CommittedIsRow, KeysNameTheirOwn, ReadAtMost,
         AnswersAreTrue, Makes, Sure
<1>2. MessagesTypeOK /\ MessageInv /\ [MessagesNext]_messageVars => MessagesTypeOK' /\ MessageInv'
  <2> SUFFICES ASSUME MessagesTypeOK, MessageInv, [MessagesNext]_messageVars
               PROVE  MessagesTypeOK' /\ MessageInv'
    OBVIOUS
  <2>1. ASSUME NEW a \in Attempts, MessageStep(a) PROVE MessagesTypeOK' /\ MessageInv'
    <3>1. Makers' 
      BY <2>1, OneMakerStep, MakerHasKeyStep, NoneBeforeStep DEF Makers, MessageInv
    <3> QED BY <2>1, <3>1, MessageTypeStep, RowsStep, KeysNameStep, ReadStep, AnswersStep
            DEF MessageInv
  <2>2. MessagesNext => (\E a \in Attempts : MessageStep(a))
                        \/ (\E i \in RequestIds : ExpireKey(i)) \/ ChangeRoom
    BY DEF MessagesNext, MessageStep, ClaimSteps, PollSteps, SendSteps, EndSteps
  <2> QED BY <2>1, <2>2, RestOfMessages
<1> QED BY <1>1, <1>2, PTL DEF MessagesSpec

(***************************************************************************)
(* Keys, messages and attempts keep the values the code gives them.        *)
(***************************************************************************)
THEOREM MessagesType == MessagesSpec => []MessagesTypeOK
BY MessageInvariant, PTL

(***************************************************************************)
(* A text that is sent again creates no second message and is not read     *)
(* again unless it was taken back, and an answer names a message of the    *)
(* request that is committed, for any attempts, faults and kills.          *)
(***************************************************************************)
THEOREM MessagesAreOne == MessagesSpec => []MessagesHold
<1>1. ASSUME MessagesTypeOK, MessageInv PROVE MessagesHold
  <2>1. OneMessagePerRequest
    <3> SUFFICES ASSUME NEW i \in RequestIds \ unsure
                 PROVE  Cardinality({a \in messageRows : RequestOf[a] = i}) <= 1
      BY DEF OneMessagePerRequest
    <3>1. CASE {a \in messageRows : RequestOf[a] = i} = {}
      BY <3>1, FS_EmptySet
    <3>2. ASSUME NEW m \in messageRows, RequestOf[m] = i
          PROVE  Cardinality({a \in messageRows : RequestOf[a] = i}) <= 1
      <4>1. {a \in messageRows : RequestOf[a] = i} = {m}
        BY <1>1, <3>2 DEF MessageInv, RowsOfRequests, OneRow, Sure
      <4>2. Cardinality({m}) = 1
        BY FS_Singleton
      <4> QED BY <4>1, <4>2
    <3> QED BY <3>1, <3>2
  <2>2. ContactReadsOnce
    BY <1>1 DEF MessageInv, ReadAtMost, ContactReadsOnce
  <2> QED BY <1>1, <2>1, <2>2 DEF MessageInv, MessagesHold
<1> QED BY <1>1, MessageInvariant, PTL

-----------------------------------------------------------------------------
(***************************************************************************)
(* Statuses of messages: what workers hold.                                *)
(***************************************************************************)
WorkerFits(w) ==
    /\ buffer[w] \in Seq(Reports) /\ Len(buffer[w]) < BulkSize
    /\ drained[w] \in Seq(Reports) /\ Len(drained[w]) <= BulkSize
    /\ \E n \in 0..Len(drained[w]) : DOMAIN instances[w] = 1..n
    /\ \A k \in DOMAIN instances[w] : instances[w][k] \subseteq {"delivered", "read"}

WorkersFit ==
    /\ DOMAIN buffer = StatusWorkers /\ DOMAIN drained = StatusWorkers
    /\ DOMAIN instances = StatusWorkers
    /\ \A w \in StatusWorkers : WorkerFits(w)

\* What a worker holds was accepted, and what was accepted or waits in a task was reported.
HeldWasAccepted == \A w \in StatusWorkers : Waiting(w) \cup Saving(w) \subseteq accepted

WasReported ==
    /\ \A r \in accepted : idState[r.id] = "indexed" /\ statusState[r] # "none"
    /\ \A t \in statusTasks : statusState[t.report] # "none"

\* A flag that is set stays set, so an instance has none that its message lacks,
\* unless it stands for a read that failed.
InstancesAreOld ==
    \A w \in StatusWorkers : \A k \in DOMAIN instances[w] :
        \/ drained[w][k] \in lostStatuses
        \/ instances[w][k] \subseteq flags[MessageOf[drained[w][k].id]]

StatusInv ==
    /\ WorkersFit /\ HeldWasAccepted /\ WasReported /\ InstancesAreOld
    /\ StatusesAreKept /\ StatusesAreTrue

\* The state outside the workers, by its type.
StatusRows ==
    /\ idState \in [WhatsAppIds -> {"none", "queued", "indexed", "dropped"}]
    /\ closed \in BOOLEAN
    /\ statusState \in [Reports -> {"none", "queued", "consumed"}]
    /\ statusTasks \subseteq [report : Reports, tries : 0..MaxStatusTries]

StatusMarks ==
    /\ flags \in Flags
    /\ statusFaults \in 0..MaxStatusFaults
    /\ accepted \subseteq Reports /\ lostStatuses \subseteq accepted

LEMMA StatusTypeParts ==
  /\ StatusTypeOK => StatusRows /\ StatusMarks
  /\ StatusRows /\ StatusMarks /\ WorkersFit => StatusTypeOK
<1>1. StatusTypeOK => StatusRows /\ StatusMarks
  BY DEF StatusTypeOK, StatusRows, StatusMarks
<1>2. ASSUME WorkersFit, NEW w \in StatusWorkers
      PROVE  DOMAIN instances[w] \subseteq 1..Len(drained[w])
  <2>1. drained[w] \in Seq(Reports)
    BY <1>2 DEF WorkersFit, WorkerFits
  <2>2. PICK n \in 0..Len(drained[w]) : DOMAIN instances[w] = 1..n
    BY <1>2 DEF WorkersFit, WorkerFits
  <2>3. Len(drained[w]) \in Nat
    BY <2>1
  <2> QED BY <2>2, <2>3
<1>3. StatusRows /\ StatusMarks /\ WorkersFit => StatusTypeOK
  BY <1>2 DEF StatusTypeOK, StatusRows, StatusMarks, WorkersFit, WorkerFits
<1> QED BY <1>1, <1>3

LEMMA StatusTypeAfter == StatusRows' /\ StatusMarks' /\ WorkersFit' => StatusTypeOK'
<1>1. StatusRows /\ StatusMarks /\ WorkersFit => StatusTypeOK
  BY StatusTypeParts
<1> QED BY <1>1, PTL

LEMMA ReportFields ==
  /\ \A r \in Reports : /\ r.id \in WhatsAppIds /\ r.status \in {"delivered", "read"}
                        /\ r = [id |-> r.id, status |-> r.status]
                        /\ MessageOf[r.id] \in ReportedMessages
  /\ \A f \in Flags, m \in ReportedMessages : f[m] \subseteq {"delivered", "read"}
BY DEF Reports, ReportedMessages, Flags

-----------------------------------------------------------------------------
\* The steps in front of the workers: reports, their queues and tasks.
QueueStatusStep ==
    \/ \E i \in WhatsAppIds : ReportId(i) \/ SetExternalId(i)
    \/ \E r \in Reports : ReportStatus(r) \/ ConsumeStatus(r) \/ ConsumeTwice(r)
    \/ CloseWindow
    \/ \E w \in StatusWorkers, t \in statusTasks : RetryStatus(w, t) \/ GiveUpStatus(w, t)

LEMMA QueueStatusRows ==
  ASSUME StatusRows, StatusMarks, WasReported, QueueStatusStep
  PROVE  /\ StatusRows' /\ StatusMarks' /\ WasReported'
         /\ UNCHANGED <<workerVars, flags, accepted, lostStatuses>>
         /\ \A i \in WhatsAppIds : idState[i] = "indexed" => idState'[i] = "indexed"
         /\ \A r \in Reports : statusState[r] # "none" => statusState'[r] # "none"
<1> USE StatusAssumption DEF StatusRows, StatusMarks, WasReported, statusHistory
<1>1. ASSUME NEW i \in WhatsAppIds, ReportId(i) \/ SetExternalId(i)
      PROVE  /\ StatusRows' /\ StatusMarks'
             /\ UNCHANGED <<workerVars, flags, accepted, lostStatuses>>
             /\ statusState' = statusState /\ statusTasks' = statusTasks
             /\ \A j \in WhatsAppIds : idState[j] = "indexed" => idState'[j] = "indexed"
  BY <1>1 DEF ReportId, SetExternalId, IdArrives
<1>2. ASSUME NEW r \in Reports, ReportStatus(r) \/ ConsumeStatus(r) \/ ConsumeTwice(r)
      PROVE  /\ StatusRows' /\ StatusMarks'
             /\ UNCHANGED <<workerVars, flags, accepted, lostStatuses>>
             /\ idState' = idState
             /\ \A s \in Reports : statusState[s] # "none" => statusState'[s] # "none"
             /\ \A t \in statusTasks' : t \in statusTasks \/ (t.report = r /\ statusState'[r] # "none")
  <2>1. [report |-> r, tries |-> 0] \in [report : Reports, tries : 0..MaxStatusTries]
    BY <1>2
  <2>2. statusFaults' \in 0..MaxStatusFaults
    BY <1>2 DEF ReportStatus, ConsumeStatus, ConsumeTwice, StatusFault
  <2>3. /\ \A s \in Reports : statusState[s] # "none" => statusState'[s] # "none"
        /\ statusState' \in [Reports -> {"none", "queued", "consumed"}]
        /\ \A t \in statusTasks' : t \in statusTasks
              \/ (t = [report |-> r, tries |-> 0] /\ statusState'[r] # "none")
    BY <1>2 DEF ReportStatus, ConsumeStatus, ConsumeTwice, queueVars
  <2>4. UNCHANGED <<workerVars, flags, accepted, lostStatuses, idState, closed>>
    BY <1>2 DEF ReportStatus, ConsumeStatus, ConsumeTwice, queueVars
  <2> QED BY <2>1, <2>2, <2>3, <2>4
<1>3. CASE CloseWindow
  BY <1>3 DEF CloseWindow
<1>4. ASSUME NEW w \in StatusWorkers, NEW t \in statusTasks, RetryStatus(w, t) \/ GiveUpStatus(w, t)
      PROVE  /\ StatusRows' /\ StatusMarks'
             /\ UNCHANGED <<workerVars, flags, accepted, lostStatuses, idState, statusState>>
             /\ \A u \in statusTasks' : \E v \in statusTasks : u.report = v.report
  <2>1. t \in [report : Reports, tries : 0..MaxStatusTries]
    BY <1>4
  <2>2. t.tries < MaxStatusTries - 1 =>
            /\ [t EXCEPT !.tries = @ + 1] \in [report : Reports, tries : 0..MaxStatusTries]
            /\ [t EXCEPT !.tries = @ + 1].report = t.report
    BY <2>1
  <2>3. /\ statusTasks' \subseteq [report : Reports, tries : 0..MaxStatusTries]
        /\ \A u \in statusTasks' : \E v \in statusTasks : u.report = v.report
    BY <1>4, <2>2 DEF RetryStatus, GiveUpStatus
  <2>4. UNCHANGED <<workerVars, flags, statusFaults, accepted, lostStatuses, idState, closed,
                    statusState>>
    BY <1>4 DEF RetryStatus, GiveUpStatus, queueVars
  <2> QED BY <2>3, <2>4
<1>5. /\ StatusRows' /\ StatusMarks'
      /\ UNCHANGED <<workerVars, flags, accepted, lostStatuses>>
      /\ \A i \in WhatsAppIds : idState[i] = "indexed" => idState'[i] = "indexed"
      /\ \A r \in Reports : statusState[r] # "none" => statusState'[r] # "none"
      /\ \A t \in statusTasks' : statusState'[t.report] # "none"
  <2>1. CASE \E i \in WhatsAppIds : ReportId(i) \/ SetExternalId(i)
    BY <1>1, <2>1
  <2>2. CASE \E r \in Reports : ReportStatus(r) \/ ConsumeStatus(r) \/ ConsumeTwice(r)
    <3>1. PICK r \in Reports : ReportStatus(r) \/ ConsumeStatus(r) \/ ConsumeTwice(r)
      BY <2>2
    <3>2. \A t \in statusTasks : t.report \in Reports
      OBVIOUS
    <3> QED BY <1>2, <3>1, <3>2
  <2>3. CASE CloseWindow
    BY <1>3, <2>3 DEF CloseWindow
  <2>4. CASE \E w \in StatusWorkers, t \in statusTasks : RetryStatus(w, t) \/ GiveUpStatus(w, t)
    BY <1>4, <2>4
  <2> QED BY <2>1, <2>2, <2>3, <2>4 DEF QueueStatusStep
<1>6. \A r \in accepted' : idState'[r.id] = "indexed" /\ statusState'[r] # "none"
  BY <1>5, ReportFields
<1> QED BY <1>5, <1>6

LEMMA TrueStays ==
  ASSUME StatusesAreTrue, flags' = flags,
         \A i \in WhatsAppIds : idState[i] = "indexed" => idState'[i] = "indexed",
         \A r \in Reports : statusState[r] # "none" => statusState'[r] # "none"
  PROVE  StatusesAreTrue'
<1> SUFFICES ASSUME NEW m \in ReportedMessages, NEW s \in {"delivered", "read"}, s \in flags[m]
             PROVE  \E i \in WhatsAppIds :
                       /\ MessageOf[i] = m /\ idState'[i] = "indexed"
                       /\ statusState'[[id |-> i, status |-> s]] # "none"
  BY DEF StatusesAreTrue
<1>1. PICK i \in WhatsAppIds : /\ MessageOf[i] = m /\ idState[i] = "indexed"
                               /\ statusState[[id |-> i, status |-> s]] # "none"
  BY DEF StatusesAreTrue
<1>2. [id |-> i, status |-> s] \in Reports
  BY DEF Reports
<1> QED BY <1>1, <1>2

LEMMA QueueStatusInv ==
  ASSUME StatusTypeOK, StatusInv, QueueStatusStep
  PROVE  StatusTypeOK' /\ StatusInv'
<1>1. /\ StatusRows' /\ StatusMarks' /\ WasReported'
      /\ buffer' = buffer /\ drained' = drained /\ instances' = instances
      /\ flags' = flags /\ accepted' = accepted /\ lostStatuses' = lostStatuses
      /\ \A i \in WhatsAppIds : idState[i] = "indexed" => idState'[i] = "indexed"
      /\ \A r \in Reports : statusState[r] # "none" => statusState'[r] # "none"
  BY QueueStatusRows, StatusTypeParts DEF StatusInv, workerVars
<1>2. WorkersFit' /\ HeldWasAccepted' /\ InstancesAreOld' /\ StatusesAreKept'
  BY <1>1 DEF StatusInv, WorkersFit, WorkerFits, HeldWasAccepted, InstancesAreOld, StatusesAreKept,
              Waiting, Saving
<1>3. StatusesAreTrue'
  BY <1>1, TrueStays DEF StatusInv
<1>4. StatusTypeOK'
  BY <1>1, <1>2, StatusTypeAfter
<1> QED BY <1>1, <1>2, <1>3, <1>4 DEF StatusInv

-----------------------------------------------------------------------------
\* A step of one worker leaves the others alone.
OnlyWorker(w, b, d, n) ==
    /\ DOMAIN buffer' = StatusWorkers /\ DOMAIN drained' = StatusWorkers
    /\ DOMAIN instances' = StatusWorkers
    /\ buffer'[w] = b /\ drained'[w] = d /\ instances'[w] = n
    /\ \A v \in StatusWorkers : v # w =>
          buffer'[v] = buffer[v] /\ drained'[v] = drained[v] /\ instances'[v] = instances[v]

LEMMA OtherWorkers ==
  ASSUME StatusInv, NEW w \in StatusWorkers, NEW b, NEW d, NEW n, OnlyWorker(w, b, d, n),
         \A m \in ReportedMessages : flags[m] \subseteq flags'[m], accepted \subseteq accepted',
         WorkerFits(w)', b \in Seq(Reports), d \in Seq(Reports),
         \A k \in DOMAIN b : b[k] \in accepted', \A k \in DOMAIN d : d[k] \in accepted',
         lostStatuses \subseteq lostStatuses',
         \A k \in DOMAIN n : \/ d[k] \in lostStatuses'
                              \/ n[k] \subseteq flags'[MessageOf[d[k].id]]
  PROVE  WorkersFit' /\ HeldWasAccepted' /\ InstancesAreOld'
<1>1. /\ DOMAIN buffer' = StatusWorkers /\ DOMAIN drained' = StatusWorkers
      /\ DOMAIN instances' = StatusWorkers
      /\ buffer'[w] = b /\ drained'[w] = d /\ instances'[w] = n
      /\ \A v \in StatusWorkers : v # w =>
            buffer'[v] = buffer[v] /\ drained'[v] = drained[v] /\ instances'[v] = instances[v]
  BY DEF OnlyWorker
<1>2. \A v \in StatusWorkers : v # w => WorkerFits(v)'
  BY <1>1 DEF StatusInv, WorkersFit, WorkerFits
<1>3. WorkersFit'
  BY <1>1, <1>2 DEF WorkersFit
<1>4. \A v \in StatusWorkers : v # w => (Waiting(v) \cup Saving(v))' \subseteq accepted'
  BY <1>1 DEF StatusInv, HeldWasAccepted, Waiting, Saving
<1>5. (Waiting(w) \cup Saving(w))' \subseteq accepted'
  BY <1>1 DEF Waiting, Saving
<1>6. HeldWasAccepted'
  BY <1>4, <1>5 DEF HeldWasAccepted
<1>7. ASSUME NEW v \in StatusWorkers, NEW k \in DOMAIN instances'[v]
      PROVE  \/ drained'[v][k] \in lostStatuses'
             \/ instances'[v][k] \subseteq flags'[MessageOf[drained'[v][k].id]]
  <2>1. CASE v = w
    BY <1>1, <1>7, <2>1
  <2>2. CASE v # w
    <3>1. k \in DOMAIN instances[v] /\ k \in 1..Len(drained[v]) /\ drained[v] \in Seq(Reports)
      <4>1. WorkerFits(v) /\ k \in DOMAIN instances[v]
        BY <1>1, <1>7, <2>2 DEF StatusInv, WorkersFit
      <4>2. PICK j \in 0..Len(drained[v]) : DOMAIN instances[v] = 1..j
        BY <4>1 DEF WorkerFits
      <4> QED BY <4>1, <4>2 DEF WorkerFits
    <3>2. MessageOf[drained[v][k].id] \in ReportedMessages
      BY <3>1, ReportFields
    <3>3. \/ drained[v][k] \in lostStatuses
          \/ instances[v][k] \subseteq flags[MessageOf[drained[v][k].id]]
      BY <3>1 DEF StatusInv, InstancesAreOld
    <3> QED BY <1>1, <2>2, <3>2, <3>3
  <2> QED BY <2>1, <2>2
<1>8. InstancesAreOld'
  BY <1>7 DEF InstancesAreOld
<1> QED BY <1>3, <1>6, <1>8

\* No flag is taken away, and what was waiting elsewhere still waits.
LEMMA KeptStays ==
  ASSUME StatusInv, StatusMarks, NEW w \in StatusWorkers,
         \A m \in ReportedMessages : flags[m] \subseteq flags'[m], lostStatuses \subseteq lostStatuses',
         \A v \in StatusWorkers : v # w => buffer'[v] = buffer[v] /\ drained'[v] = drained[v],
         accepted' \subseteq Reports,
         \A r \in accepted' :
            r \notin accepted \/ r \in Waiting(w) \cup Saving(w) =>
                \/ r \in lostStatuses' \/ r.status \in flags'[MessageOf[r.id]]
                \/ r \in (Waiting(w) \cup Saving(w))'
  PROVE  StatusesAreKept'
<1> SUFFICES ASSUME NEW r \in accepted' \ lostStatuses'
             PROVE  \/ r.status \in flags'[MessageOf[r.id]]
                    \/ \E v \in StatusWorkers : r \in (Waiting(v) \cup Saving(v))'
  BY DEF StatusesAreKept
<1>1. CASE r \notin accepted \/ r \in Waiting(w) \cup Saving(w)
  BY <1>1
<1>2. CASE r \in accepted /\ r \notin Waiting(w) \cup Saving(w)
  <2>1. r \in Reports /\ r \notin lostStatuses
    OBVIOUS
  <2>2. CASE r.status \in flags[MessageOf[r.id]]
    BY <2>1, <2>2, ReportFields
  <2>3. ASSUME NEW v \in StatusWorkers, r \in Waiting(v) \cup Saving(v)
        PROVE  r \in (Waiting(v) \cup Saving(v))'
    BY <1>2, <2>3 DEF Waiting, Saving
  <2> QED BY <1>2, <2>1, <2>2, <2>3 DEF StatusInv, StatusesAreKept
<1> QED BY <1>1, <1>2

LEMMA TrueIfMarked ==
  ASSUME StatusInv, idState' = idState, statusState' = statusState,
         \A m \in ReportedMessages : \A s \in flags'[m] :
            s \in flags[m] \/ \E r \in accepted : MessageOf[r.id] = m /\ r.status = s,
         accepted \subseteq Reports
  PROVE  StatusesAreTrue'
<1> SUFFICES ASSUME NEW m \in ReportedMessages, NEW s \in {"delivered", "read"}, s \in flags'[m]
             PROVE  \E i \in WhatsAppIds :
                       /\ MessageOf[i] = m /\ idState[i] = "indexed"
                       /\ statusState[[id |-> i, status |-> s]] # "none"
  BY DEF StatusesAreTrue
<1>1. CASE s \in flags[m]
  BY <1>1 DEF StatusInv, StatusesAreTrue
<1>2. ASSUME NEW r \in accepted, MessageOf[r.id] = m, r.status = s
      PROVE  \E i \in WhatsAppIds :
                /\ MessageOf[i] = m /\ idState[i] = "indexed"
                /\ statusState[[id |-> i, status |-> s]] # "none"
  <2>1. r.id \in WhatsAppIds /\ r = [id |-> r.id, status |-> s]
    BY <1>2, ReportFields
  <2> QED BY <1>2, <2>1 DEF StatusInv, WasReported
<1> QED BY <1>1, <1>2

LEMMA AcceptInv ==
  ASSUME StatusTypeOK, StatusInv, NEW w \in StatusWorkers, NEW t \in statusTasks, AcceptStatus(w, t)
  PROVE  StatusTypeOK' /\ StatusInv'
<1>1. /\ drained[w] = <<>> /\ Known(t) /\ statusTasks' = statusTasks \ {t}
      /\ accepted' = accepted \cup {t.report} /\ instances' = instances
      /\ idState' = idState /\ closed' = closed /\ statusState' = statusState
      /\ flags' = flags /\ statusFaults' = statusFaults /\ lostStatuses' = lostStatuses
  BY DEF AcceptStatus, AtRest, queueVars
<1>2. t.report \in Reports /\ WorkerFits(w)
  BY DEF StatusTypeOK, StatusInv, WorkersFit
<1>3. PICK all : all = Append(buffer[w], t.report)
  OBVIOUS
<1>4. /\ all \in Seq(Reports) /\ Len(all) = Len(buffer[w]) + 1
      /\ \A k \in DOMAIN all : all[k] \in accepted'
      /\ \A k \in DOMAIN buffer[w] : k \in DOMAIN all /\ all[k] = buffer[w][k]
      /\ all[Len(all)] = t.report /\ Len(all) \in DOMAIN all
  <2>1. buffer[w] \in Seq(Reports) /\ \A k \in DOMAIN buffer[w] : buffer[w][k] \in accepted
    BY <1>2 DEF WorkerFits, StatusInv, HeldWasAccepted, Waiting
  <2> QED BY <1>1, <1>2, <1>3, <2>1
<1>5. PICK b, d : /\ OnlyWorker(w, b, d, instances[w])
                  /\ \/ Len(all) < BulkSize /\ b = all /\ d = <<>>
                     \/ ~(Len(all) < BulkSize) /\ b = <<>> /\ d = all
  <2>1. CASE Len(all) < BulkSize
    <3>1. buffer' = [buffer EXCEPT ![w] = all] /\ drained' = drained
      BY <1>3, <2>1 DEF AcceptStatus
    <3>2. OnlyWorker(w, all, <<>>, instances[w])
      BY <1>1, <3>1 DEF OnlyWorker, StatusInv, WorkersFit
    <3> QED BY <2>1, <3>2
  <2>2. CASE ~(Len(all) < BulkSize)
    <3>1. buffer' = [buffer EXCEPT ![w] = <<>>] /\ drained' = [drained EXCEPT ![w] = all]
      BY <1>3, <2>2 DEF AcceptStatus
    <3>2. OnlyWorker(w, <<>>, all, instances[w])
      BY <1>1, <3>1 DEF OnlyWorker, StatusInv, WorkersFit
    <3> QED BY <2>2, <3>2
  <2> QED BY <2>1, <2>2
<1>6. DOMAIN instances[w] = {} /\ \E n \in 0..Len(d) : DOMAIN instances[w] = 1..n
  <2>1. PICK n \in 0..Len(drained[w]) : DOMAIN instances[w] = 1..n
    BY <1>2 DEF WorkerFits
  <2>2. DOMAIN instances[w] = 1..0
    BY <1>1, <2>1
  <2>3. Len(d) \in Nat
    BY <1>4, <1>5
  <2> QED BY <2>2, <2>3
<1>7. BulkSize \in Nat \ {0}
  BY StatusAssumption
<1>8. /\ b \in Seq(Reports) /\ Len(b) < BulkSize /\ d \in Seq(Reports) /\ Len(d) <= BulkSize
      /\ \A k \in DOMAIN b : b[k] \in accepted'
      /\ \A k \in DOMAIN d : d[k] \in accepted'
  <2>1. Len(all) <= BulkSize
    BY <1>2, <1>4, <1>7 DEF WorkerFits
  <2>2. <<>> \in Seq(Reports) /\ Len(<<>>) = 0 /\ DOMAIN <<>> = {}
    OBVIOUS
  <2>3. CASE b = all /\ d = <<>> /\ Len(all) < BulkSize
    BY <1>4, <1>7, <2>2, <2>3
  <2>4. CASE b = <<>> /\ d = all
    BY <1>4, <1>7, <2>1, <2>2, <2>4
  <2> QED BY <1>5, <2>3, <2>4
<1>9. WorkerFits(w)'
  BY <1>5, <1>6, <1>8 DEF OnlyWorker, WorkerFits
<1>10. WorkersFit' /\ HeldWasAccepted' /\ InstancesAreOld'
  BY <1>1, <1>5, <1>6, <1>8, <1>9, OtherWorkers
<1>11. \A r \in accepted' :
          r \notin accepted \/ r \in Waiting(w) \cup Saving(w) => r \in (Waiting(w) \cup Saving(w))'
  <2>1. \A r \in accepted' :
           r \notin accepted \/ r \in Waiting(w) \cup Saving(w) =>
              \E k \in DOMAIN all : all[k] = r
    BY <1>1, <1>4 DEF Waiting, Saving
  <2>2. \A k \in DOMAIN all : all[k] \in (Waiting(w) \cup Saving(w))'
    BY <1>5 DEF OnlyWorker, Waiting, Saving
  <2> QED BY <2>1, <2>2
<1>12. StatusRows' /\ StatusMarks'
  BY <1>1, <1>2, StatusTypeParts DEF StatusRows, StatusMarks
<1>13. StatusesAreKept'
  BY <1>1, <1>5, <1>11, <1>12, StatusTypeParts, KeptStays DEF OnlyWorker, StatusMarks
<1>14. StatusesAreTrue'
  BY <1>1, TrueIfMarked DEF StatusTypeOK
<1>15. WasReported'
  BY <1>1 DEF WasReported, StatusInv, Known
<1> QED BY <1>10, <1>12, <1>13, <1>14, <1>15, StatusTypeAfter DEF StatusInv

\* An instance is what the message was when it was read, or the read is lost.
LEMMA ReadInv ==
  ASSUME StatusTypeOK, StatusInv, NEW w \in StatusWorkers, ReadMessage(w) \/ MissMessage(w)
  PROVE  StatusTypeOK' /\ StatusInv'
<1>1. PICK n \in 0..Len(drained[w]) : DOMAIN instances[w] = 1..n
  BY DEF StatusInv, WorkersFit, WorkerFits
<1>2. drained[w] \in Seq(Reports) /\ n \in Nat /\ Cardinality(1..n) = n
  <2>1. drained[w] \in Seq(Reports)
    BY DEF StatusTypeOK
  <2>2. n \in Nat
    BY <2>1
  <2>3. Cardinality(1..n) = IF 1 > n THEN 0 ELSE n - 1 + 1
    BY <2>2, FS_Interval
  <2> QED BY <2>1, <2>2, <2>3
<1>3. PICK k : k = n + 1
  OBVIOUS
<1>4. PICK seen : /\ Reads(w, seen) /\ seen \subseteq {"delivered", "read"}
                  /\ lostStatuses \subseteq lostStatuses'
                  /\ lostStatuses' \subseteq lostStatuses \cup {drained[w][k]}
                  /\ statusFaults' \in 0..MaxStatusFaults
                  /\ \/ drained[w][k] \in lostStatuses'
                     \/ seen \subseteq flags[MessageOf[drained[w][k].id]]
  <2>1. NextRead(w) = k
    BY <1>1, <1>2, <1>3 DEF NextRead
  <2>2. CASE ReadMessage(w)
    <3>1. drained[w][k] \in Reports
      BY <1>2, <1>3, <2>1, <2>2 DEF ReadMessage, Reads
    <3>2. flags[MessageOf[drained[w][k].id]] \subseteq {"delivered", "read"}
      BY <3>1, ReportFields DEF StatusTypeOK
    <3> QED BY <2>1, <2>2, <3>2 DEF ReadMessage, StatusTypeOK
  <2>3. CASE MissMessage(w)
    BY <2>1, <2>3, StatusAssumption DEF MissMessage, StatusFault, StatusTypeOK
  <2> QED BY <2>2, <2>3
<1>5. PICK new : /\ new = [j \in 1..k |-> IF j = k THEN seen ELSE instances[w][j]]
                 /\ k <= Len(drained[w])
                 /\ instances' = [instances EXCEPT ![w] = new]
                 /\ queueVars' = queueVars /\ statusTasks' = statusTasks
                 /\ buffer' = buffer /\ drained' = drained /\ flags' = flags
                 /\ accepted' = accepted
  <2>1. NextRead(w) = k
    BY <1>1, <1>2, <1>3 DEF NextRead
  <2> QED BY <1>4, <2>1 DEF Reads
<1>6. OnlyWorker(w, buffer[w], drained[w], new)
  BY <1>5 DEF OnlyWorker, StatusInv, WorkersFit
<1>7. \A j \in 1..k : /\ drained[w][j] \in Reports
                      /\ \/ drained[w][j] \in lostStatuses'
                         \/ new[j] \subseteq flags[MessageOf[drained[w][j].id]]
                      /\ new[j] \subseteq {"delivered", "read"}
  <2> SUFFICES ASSUME NEW j \in 1..k
               PROVE  /\ drained[w][j] \in Reports
                      /\ \/ drained[w][j] \in lostStatuses'
                         \/ new[j] \subseteq flags[MessageOf[drained[w][j].id]]
                      /\ new[j] \subseteq {"delivered", "read"}
    OBVIOUS
  <2>1. j \in 1..Len(drained[w]) /\ (j # k => j \in 1..n)
    BY <1>2, <1>3, <1>5
  <2>2. drained[w][j] \in Reports
    BY <1>2, <2>1
  <2>3. CASE j = k
    BY <1>4, <1>5, <2>2, <2>3
  <2>4. CASE j # k
    <3>1. \/ drained[w][j] \in lostStatuses
          \/ instances[w][j] \subseteq flags[MessageOf[drained[w][j].id]]
      BY <1>1, <2>1, <2>4 DEF StatusInv, InstancesAreOld
    <3>2. instances[w][j] \subseteq {"delivered", "read"}
      BY <1>1, <2>1, <2>4 DEF StatusInv, WorkersFit, WorkerFits
    <3> QED BY <1>4, <1>5, <2>2, <2>4, <3>1, <3>2
  <2> QED BY <2>3, <2>4
<1>8. WorkerFits(w)'
  <2>1. k \in 0..Len(drained[w]) /\ DOMAIN new = 1..k
    BY <1>2, <1>3, <1>4, <1>5
  <2>2. \A j \in DOMAIN new : new[j] \subseteq {"delivered", "read"}
    BY <1>7, <2>1
  <2> QED BY <1>6, <2>1, <2>2 DEF OnlyWorker, WorkerFits, StatusInv, WorkersFit
<1>9. WorkersFit' /\ HeldWasAccepted' /\ InstancesAreOld'
  <2>1. /\ buffer[w] \in Seq(Reports) /\ DOMAIN new = 1..k
        /\ \A j \in DOMAIN buffer[w] : buffer[w][j] \in accepted
        /\ \A j \in DOMAIN drained[w] : drained[w][j] \in accepted
    BY <1>5 DEF StatusTypeOK, StatusInv, HeldWasAccepted, Waiting, Saving
  <2> QED BY <1>2, <1>4, <1>5, <1>6, <1>7, <1>8, <2>1, OtherWorkers
<1>10. StatusRows' /\ StatusMarks' /\ WasReported'
  <2>1. k \in DOMAIN drained[w] /\ drained[w][k] \in accepted
    <3>1. k \in 1..Len(drained[w])
      BY <1>2, <1>3, <1>5
    <3>2. k \in DOMAIN drained[w]
      BY <1>2, <3>1
    <3> QED BY <3>2 DEF StatusInv, HeldWasAccepted, Saving
  <2> QED BY <1>4, <1>5, <2>1, StatusTypeParts
          DEF StatusRows, StatusMarks, queueVars, StatusInv, WasReported
<1>11. StatusesAreKept'
  BY <1>4, <1>5 DEF StatusInv, StatusesAreKept, Waiting, Saving
<1>12. StatusesAreTrue'
  <2>1. idState' = idState /\ statusState' = statusState /\ flags' = flags
    BY <1>5 DEF queueVars
  <2> QED BY <2>1, TrueIfMarked DEF StatusTypeOK
<1> QED BY <1>9, <1>10, <1>11, <1>12, StatusTypeAfter DEF StatusInv

-----------------------------------------------------------------------------
\* A worker drops what it drained and read, and perhaps its deque too.
LEMMA DropInv ==
  ASSUME StatusInv, NEW w \in StatusWorkers, NEW b, b = buffer[w] \/ b = <<>>,
         OnlyWorker(w, b, <<>>, NothingRead), accepted' = accepted,
         lostStatuses \subseteq lostStatuses',
         \A m \in ReportedMessages : flags[m] \subseteq flags'[m]
  PROVE  WorkersFit' /\ HeldWasAccepted' /\ InstancesAreOld'
<1>1. /\ <<>> \in Seq(Reports) /\ Len(<<>>) = 0 /\ DOMAIN <<>> = {}
      /\ DOMAIN NothingRead = {} /\ 1..0 = {} /\ 0 \in 0..0 /\ 0 < BulkSize /\ 0 <= BulkSize
  BY StatusAssumption DEF NothingRead
<1>2. /\ b \in Seq(Reports) /\ Len(b) < BulkSize
      /\ \A k \in DOMAIN b : b[k] \in accepted
  BY <1>1 DEF StatusInv, WorkersFit, WorkerFits, HeldWasAccepted, Waiting
<1>3. WorkerFits(w)'
  BY <1>1, <1>2 DEF OnlyWorker, WorkerFits
<1> QED BY <1>1, <1>2, <1>3, OtherWorkers

LEMMA EndsBatch ==
  ASSUME StatusInv, NEW w \in StatusWorkers, EndBatch(w), buffer' = buffer
  PROVE  OnlyWorker(w, buffer[w], <<>>, NothingRead)
BY DEF StatusInv, WorkersFit, EndBatch, OnlyWorker

\* What a worker drained is written, or was set when it was read, or is counted as lost.
LEMMA WrittenOrLost ==
  ASSUME StatusTypeOK, StatusInv, NEW w \in StatusWorkers, ReadAll(w),
         NEW columns \in SUBSET {"delivered", "read"}, WriteColumns(w, columns),
         lostStatuses' = lostStatuses \cup Unset(w, {"delivered", "read"} \ columns)
  PROVE  /\ flags' \in Flags
         /\ \A m \in ReportedMessages : flags[m] \subseteq flags'[m]
         /\ \A m \in ReportedMessages : \A s \in flags'[m] :
               s \in flags[m] \/ \E r \in accepted : MessageOf[r.id] = m /\ r.status = s
         /\ \A r \in Saving(w) : r \in lostStatuses' \/ r.status \in flags'[MessageOf[r.id]]
         /\ lostStatuses' \subseteq accepted
<1>1. Saving(w) \subseteq accepted /\ accepted \subseteq Reports
  BY DEF StatusInv, HeldWasAccepted, StatusTypeOK
<1>2. \A c : Unset(w, c) \subseteq Saving(w)
  BY DEF Unset, Saving
<1>3. \A m \in ReportedMessages :
        flags'[m] = flags[m] \cup {r.status : r \in {u \in Unset(w, columns) : MessageOf[u.id] = m}}
  BY DEF WriteColumns
<1>4. \A m \in ReportedMessages : flags[m] \subseteq flags'[m]
  BY <1>3
<1>5. \A m \in ReportedMessages : \A s \in flags'[m] :
         s \in flags[m] \/ \E r \in accepted : MessageOf[r.id] = m /\ r.status = s
  BY <1>1, <1>2, <1>3
<1>6. flags' \in Flags
  <2>1. \A m \in ReportedMessages : flags'[m] \subseteq {"delivered", "read"}
    BY <1>1, <1>5, ReportFields DEF StatusTypeOK
  <2> QED BY <2>1 DEF WriteColumns, Flags
<1>7. ASSUME NEW r \in Saving(w), r \notin lostStatuses' PROVE r.status \in flags'[MessageOf[r.id]]
  <2>1. PICK k \in DOMAIN drained[w] : r = drained[w][k]
    BY <1>7 DEF Saving
  <2>2. r \in Reports /\ r.status \in {"delivered", "read"} /\ MessageOf[r.id] \in ReportedMessages
    BY <1>1, <1>7, ReportFields
  <2>3. CASE r.status \in instances[w][k]
    <3>1. k \in DOMAIN instances[w]
      <4>1. PICK n \in 0..Len(drained[w]) : DOMAIN instances[w] = 1..n
        BY DEF StatusInv, WorkersFit, WorkerFits
      <4>2. drained[w] \in Seq(Reports) /\ n \in Nat
        <5>1. drained[w] \in Seq(Reports)
          BY DEF StatusTypeOK
        <5> QED BY <5>1
      <4>3. Cardinality(1..n) = n
        <5>1. Cardinality(1..n) = IF 1 > n THEN 0 ELSE n - 1 + 1
          BY <4>2, FS_Interval
        <5> QED BY <4>2, <5>1
      <4>4. n = Len(drained[w])
        BY <4>1, <4>3 DEF ReadAll
      <4> QED BY <2>1, <4>1, <4>2, <4>4
    <3>2. r.status \in flags[MessageOf[r.id]]
      BY <1>7, <2>1, <2>3, <3>1 DEF StatusInv, InstancesAreOld
    <3> QED BY <1>4, <2>2, <3>2
  <2>4. CASE r.status \notin instances[w][k]
    <3>1. \A c : r.status \in c => r \in Unset(w, c)
      BY <2>1, <2>4 DEF Unset
    <3>2. r.status \in columns
      BY <1>7, <2>2, <3>1
    <3>3. r \in Unset(w, columns)
      BY <3>1, <3>2
    <3> QED BY <1>3, <2>2, <3>3
  <2> QED BY <2>3, <2>4
<1>8. lostStatuses' \subseteq accepted
  BY <1>1, <1>2 DEF StatusTypeOK
<1> QED BY <1>4, <1>5, <1>6, <1>7, <1>8

LEMMA SaveInv ==
  ASSUME StatusTypeOK, StatusInv, NEW w \in StatusWorkers,
         UpdateFlags(w) \/ \E saved \in {{}, {"delivered"}, {"read"}} : FailUpdate(w, saved)
  PROVE  StatusTypeOK' /\ StatusInv'
<1>1. PICK columns \in SUBSET {"delivered", "read"} :
         /\ ReadAll(w) /\ WriteColumns(w, columns) /\ EndBatch(w)
         /\ lostStatuses' = lostStatuses \cup Unset(w, {"delivered", "read"} \ columns)
         /\ statusFaults' \in 0..MaxStatusFaults
         /\ queueVars' = queueVars /\ statusTasks' = statusTasks /\ buffer' = buffer
         /\ accepted' = accepted
  <2>1. CASE UpdateFlags(w)
    <3>1. Unset(w, {"delivered", "read"} \ {"delivered", "read"}) = {}
      BY DEF Unset
    <3> QED BY <2>1, <3>1 DEF UpdateFlags, statusHistory, StatusTypeOK
  <2>2. ASSUME NEW saved \in {{}, {"delivered"}, {"read"}}, FailUpdate(w, saved)
        PROVE  statusFaults' \in 0..MaxStatusFaults
    BY <2>2, StatusAssumption DEF FailUpdate, StatusFault, StatusTypeOK
  <2> QED BY <2>1, <2>2 DEF FailUpdate
<1>2. OnlyWorker(w, buffer[w], <<>>, NothingRead)
  BY <1>1, EndsBatch
<1>3. WorkersFit' /\ HeldWasAccepted' /\ InstancesAreOld'
  BY <1>1, <1>2, DropInv, WrittenOrLost
<1>4. StatusRows' /\ StatusMarks' /\ WasReported'
  <2>1. flags' \in Flags /\ lostStatuses' \subseteq accepted
    BY <1>1, WrittenOrLost
  <2> QED BY <1>1, <2>1, StatusTypeParts
          DEF StatusRows, StatusMarks, queueVars, StatusInv, WasReported
<1>5. StatusesAreKept'
  <2>1. \A r \in accepted' :
           r \notin accepted \/ r \in Waiting(w) \cup Saving(w) =>
                \/ r \in lostStatuses' \/ r.status \in flags'[MessageOf[r.id]]
                \/ r \in (Waiting(w) \cup Saving(w))'
    <3>1. Waiting(w)' = Waiting(w)
      BY <1>1 DEF Waiting
    <3> QED BY <1>1, <3>1, WrittenOrLost
  <2>2. /\ \A m \in ReportedMessages : flags[m] \subseteq flags'[m]
        /\ lostStatuses \subseteq lostStatuses'
        /\ \A v \in StatusWorkers : v # w => buffer'[v] = buffer[v] /\ drained'[v] = drained[v]
    BY <1>1, <1>2, WrittenOrLost DEF OnlyWorker
  <2>3. StatusMarks /\ accepted' \subseteq Reports
    BY <1>4, StatusTypeParts DEF StatusMarks
  <2> QED BY <2>1, <2>2, <2>3, KeptStays
<1>6. StatusesAreTrue'
  BY <1>1, WrittenOrLost, TrueIfMarked DEF queueVars, StatusTypeOK
<1> QED BY <1>3, <1>4, <1>5, <1>6, StatusTypeAfter DEF StatusInv

LEMMA KillStatusInv ==
  ASSUME StatusTypeOK, StatusInv, NEW w \in StatusWorkers, KillStatusWorker(w)
  PROVE  StatusTypeOK' /\ StatusInv'
<1>1. /\ StatusFault /\ lostStatuses' = lostStatuses \cup Waiting(w) \cup Saving(w)
      /\ buffer' = [buffer EXCEPT ![w] = <<>>] /\ EndBatch(w)
      /\ queueVars' = queueVars /\ statusTasks' = statusTasks /\ flags' = flags
      /\ accepted' = accepted
  BY DEF KillStatusWorker
<1>2. OnlyWorker(w, <<>>, <<>>, NothingRead)
  BY <1>1 DEF EndBatch, OnlyWorker, StatusInv, WorkersFit
<1>3. WorkersFit' /\ HeldWasAccepted' /\ InstancesAreOld'
  BY <1>1, <1>2, DropInv
<1>4. StatusRows' /\ StatusMarks' /\ WasReported'
  <2>1. lostStatuses' \subseteq accepted /\ statusFaults' \in 0..MaxStatusFaults
    BY <1>1, StatusAssumption DEF StatusInv, HeldWasAccepted, StatusTypeOK, StatusFault
  <2> QED BY <1>1, <2>1, StatusTypeParts
          DEF StatusRows, StatusMarks, queueVars, StatusInv, WasReported
<1>5. StatusesAreKept'
  BY <1>1, <1>2, <1>4, StatusTypeParts, KeptStays DEF OnlyWorker, StatusMarks
<1>6. StatusesAreTrue'
  BY <1>1, TrueIfMarked DEF queueVars, StatusTypeOK
<1> QED BY <1>3, <1>4, <1>5, <1>6, StatusTypeAfter DEF StatusInv

LEMMA StatusInvariant == StatusSpec => [](StatusTypeOK /\ StatusInv)
<1>1. StatusInit => StatusTypeOK /\ StatusInv
  <2> SUFFICES ASSUME StatusInit PROVE StatusTypeOK /\ StatusInv
    OBVIOUS
  <2>1. /\ <<>> \in Seq(Reports) /\ Len(<<>>) = 0 /\ DOMAIN <<>> = {}
        /\ DOMAIN NothingRead = {} /\ 1..0 = {} /\ 0 \in 0..0 /\ 0 < BulkSize /\ 0 <= BulkSize
    BY StatusAssumption DEF NothingRead
  <2>2. WorkersFit
    BY <2>1 DEF StatusInit, WorkersFit, WorkerFits
  <2>3. StatusRows /\ StatusMarks
    <3>1. StatusRows
      BY DEF StatusInit, StatusRows
    <3>2. 0 \in 0..MaxStatusFaults
      BY StatusAssumption
    <3>3. StatusMarks
      BY <3>2 DEF StatusInit, StatusMarks, Flags
    <3> QED BY <3>1, <3>3
  <2>4. HeldWasAccepted /\ WasReported /\ InstancesAreOld /\ StatusesAreKept /\ StatusesAreTrue
    BY <2>1 DEF StatusInit, HeldWasAccepted, WasReported, InstancesAreOld, StatusesAreKept,
                StatusesAreTrue, Waiting, Saving
  <2> QED BY <2>2, <2>3, <2>4, StatusTypeParts DEF StatusInv
<1>2. StatusTypeOK /\ StatusInv /\ [StatusNext]_statusVars => StatusTypeOK' /\ StatusInv'
  <2> SUFFICES ASSUME StatusTypeOK, StatusInv, [StatusNext]_statusVars
               PROVE  StatusTypeOK' /\ StatusInv'
    OBVIOUS
  <2>1. CASE UNCHANGED statusVars
    <3>1. /\ idState' = idState /\ closed' = closed /\ statusState' = statusState
          /\ statusTasks' = statusTasks /\ flags' = flags /\ statusFaults' = statusFaults
          /\ accepted' = accepted /\ lostStatuses' = lostStatuses
          /\ buffer' = buffer /\ drained' = drained /\ instances' = instances
      BY <2>1 DEF statusVars, queueVars, workerVars, statusHistory
    <3>2. WorkersFit' /\ HeldWasAccepted' /\ InstancesAreOld' /\ StatusesAreKept'
      BY <3>1 DEF StatusInv, WorkersFit, WorkerFits, HeldWasAccepted, InstancesAreOld,
                  StatusesAreKept, Waiting, Saving
    <3>3. StatusRows' /\ StatusMarks' /\ WasReported'
      BY <3>1, StatusTypeParts DEF StatusRows, StatusMarks, WasReported, StatusInv
    <3>4. StatusesAreTrue'
      BY <3>1, TrueIfMarked DEF StatusTypeOK
    <3> QED BY <3>2, <3>3, <3>4, StatusTypeAfter DEF StatusInv
  <2>2. CASE StatusNext
    BY <2>2, QueueStatusInv, AcceptInv, ReadInv, SaveInv, KillStatusInv
       DEF StatusNext, QueueStatusStep
  <2> QED BY <2>1, <2>2
<1> QED BY <1>1, <1>2, PTL DEF StatusSpec

(***************************************************************************)
(* Ids, statuses, tasks and workers keep the values the code gives them;   *)
(* no deque outgrows MESSAGE_BULK_SIZE.                                    *)
(***************************************************************************)
THEOREM StatusesType == StatusSpec => []StatusTypeOK
BY StatusInvariant, PTL

(***************************************************************************)
(* A status that was taken is in its message, in the memory of a living    *)
(* worker, or lost with a killed worker or a failed update, and nothing is *)
(* shown that was not reported; for any workers, ids, sizes of batches and *)
(* faults.                                                                 *)
(***************************************************************************)
THEOREM StatusesAreShown == StatusSpec => []StatusHolds
<1>1. StatusInv => StatusHolds
  BY DEF StatusInv, StatusHolds
<1> QED BY <1>1, StatusInvariant, PTL

-----------------------------------------------------------------------------
(***************************************************************************)
(* Department groups.  What a request read about a sector or a queue and a *)
(* member is still so when it writes, where no other one crossed it; and   *)
(* then the member has the place as long as both belong to the group.      *)
(***************************************************************************)
RoleAt(x) == IF x \in Sectors THEN "manager" ELSE "agent"
Home(x) == IF x \in Sectors THEN x ELSE SectorOf[x]
Linked(x) == Home(x) \in linked
Belongs(x, m) == <<m, RoleAt(x)>> \in memberships
Exists(x) == x \in SectorQueues => x \in queues

\* A queue that is committed before its agents are looked for.
BeingMade(x) ==
    \E r \in GroupRequests :
        doing[r].kind = "create" /\ doing[r].queue = x /\ groupAt[r] # "begun"

PairFits(x, m) ==
    /\ Linked(x) /\ Belongs(x, m) /\ Exists(x) /\ ~BeingMade(x) => <<x, m>> \in access \cup exempt
    /\ <<x, m>> \in access => Linked(x) /\ Belongs(x, m)

\* Requests that look for the places of one member, of one kind.
OnPeople(task) == task.kind \in {"authorize", "unauthorize"}
OnQueues(task) == task.kind \in {"enable", "disable"}
Removes(task) == task.kind \in {"remove", "destroy"}
ForAgent(task) == OnQueues(task) \/ (OnPeople(task) /\ task.role = "agent")

ReadFits(r, x, m) ==
    /\ OnPeople(doing[r]) /\ doing[r].role = "manager" /\ groupAt[r] = "commit" /\ x \in Sectors =>
          (x \in places[r] <=> Linked(x))
    /\ ForAgent(doing[r]) /\ groupAt[r] = "sectors" /\ x \in SectorQueues =>
          (SectorOf[x] \in places[r] <=> Linked(x))
    /\ ForAgent(doing[r]) /\ groupAt[r] = "commit" /\ x \in SectorQueues =>
          (x \in places[r] <=> x \in queues /\ Linked(x))
    /\ OnQueues(doing[r]) /\ groupAt[r] # "begun" /\ x \in SectorQueues => Belongs(x, m)
    /\ doing[r].kind = "add" /\ groupAt[r] = "commit" /\ x \in Sectors =>
          (<<m, "manager">> \in people[r] <=> Belongs(x, m))
    /\ Removes(doing[r]) /\ groupAt[r] \in {"sectors", "commit"} /\ Home(x) \in places[r] =>
          (<<m, RoleAt(x)>> \in people[r] <=> Belongs(x, m))
    /\ Removes(doing[r]) /\ groupAt[r] = "commit" /\ Home(x) \in places[r] /\ x \in SectorQueues =>
          (x \in places[r] <=> x \in queues)
    /\ doing[r].kind \in {"create", "bulk"} /\ groupAt[r] = "commit" =>
          (<<m, "agent">> \in people[r] <=> Linked(x) /\ Belongs(x, m))

\* Where a request of each kind can be, and what places it holds there.
GroupRequestFits(r) ==
    /\ OnPeople(doing[r]) => groupAt[r] \in {"begun", "sectors", "commit"}
    /\ OnPeople(doing[r]) /\ doing[r].role = "manager" => groupAt[r] # "sectors"
    /\ OnPeople(doing[r]) /\ doing[r].role = "manager" /\ groupAt[r] = "commit" => places[r] \subseteq Sectors
    /\ OnQueues(doing[r]) => groupAt[r] \in {"begun", "people", "sectors", "commit"}
    /\ doing[r].kind = "add" => groupAt[r] \in {"begun", "commit"}
    /\ doing[r].kind = "remove" => groupAt[r] \in {"begun", "sectors", "commit"}
    /\ doing[r].kind = "destroy" => groupAt[r] \in {"begun", "loop", "sectors", "commit"}
    /\ doing[r].kind = "create" => groupAt[r] \in {"begun", "people", "commit"}
    /\ doing[r].kind = "bulk" => groupAt[r] \in {"begun", "commit"}
    /\ groupAt[r] = "sectors" => places[r] \subseteq Sectors
    /\ ForAgent(doing[r]) /\ groupAt[r] = "commit" => places[r] \subseteq queues
    /\ Removes(doing[r]) /\ groupAt[r] = "sectors" => \E s \in Sectors : places[r] = {s}
    /\ Removes(doing[r]) /\ groupAt[r] = "commit" =>
          \E s \in Sectors : places[r] \cap Sectors = {s}
    /\ Removes(doing[r]) /\ groupAt[r] = "commit" =>
          \A x \in places[r] : Exists(x) /\ Home(x) \in places[r]
    /\ doing[r].kind = "remove" /\ groupAt[r] # "begun" => doing[r].sector \in places[r]

GroupInv ==
    /\ \A r \in GroupRequests : GroupRequestFits(r)
    /\ \A q \in SectorQueues, m \in GroupMembers : <<q, m>> \in access => q \in queues
    /\ \A x \in Places, m \in GroupMembers :
          <<x, m>> \notin disturbed =>
              /\ PairFits(x, m)
              /\ \A r \in GroupRequests : <<x, m>> \in PairsOf(doing[r]) => ReadFits(r, x, m)

LEMMA TaskFacts ==
  \A task \in Tasks \cup {Idle} :
      /\ task.kind \in {"authorize", "unauthorize", "add", "remove", "create", "bulk", "enable",
                        "disable", "destroy", "idle"}
      /\ OnPeople(task) => task.who \in GroupMembers /\ task.role \in Roles
      /\ OnQueues(task) => task.who \in GroupMembers /\ task.queue \in SectorQueues
      /\ task.kind \in {"add", "remove"} => task.sector \in Sectors
      /\ task.kind \in {"create", "bulk"} => task.queue \in SectorQueues
      /\ task.kind = "idle" <=> task = Idle
BY GroupAssumption DEF Tasks, Idle, OnPeople, OnQueues

LEMMA IdleIsNoTask == Idle \notin Tasks /\ Idle.kind = "idle"
BY DEF Tasks, Idle

LEMMA HomeFits == \A x \in Places : Home(x) \in Sectors /\ (x \notin Sectors <=> x \in SectorQueues)
BY GroupAssumption DEF Home, Places

\* What a request may change.
LEMMA AboutFacts ==
  ASSUME NEW task \in Tasks \cup {Idle}, NEW x \in Places, NEW m \in GroupMembers
  PROVE  <<x, m>> \in PairsOf(task) <=>
            \/ OnPeople(task) /\ m = task.who
            \/ OnQueues(task) /\ m = task.who /\ x \in SectorQueues
            \/ task.kind \in {"add", "remove"} /\ Home(x) = task.sector
            \/ task.kind \in {"create", "bulk"} /\ x = task.queue
            \/ task.kind = "destroy"
<1>1. task.kind \in {"authorize", "unauthorize", "add", "remove", "create", "bulk", "enable",
                     "disable", "destroy", "idle"}
  BY TaskFacts
<1> USE DEF PairsOf, OnPeople, OnQueues
<1>2. CASE OnPeople(task)
  BY <1>2
<1>3. CASE OnQueues(task)
  BY <1>3
<1>4. CASE task.kind \in {"add", "remove"}
  BY <1>4, TaskFacts, HomeFits DEF Home
<1>5. CASE task.kind \in {"create", "bulk"}
  BY <1>5
<1>6. CASE task.kind = "destroy"
  BY <1>6
<1>7. CASE task.kind = "idle"
  BY <1>7
<1> QED BY <1>1, <1>2, <1>3, <1>4, <1>5, <1>6, <1>7

LEMMA AboutIsPairs ==
  ASSUME NEW task \in Tasks \cup {Idle}
  PROVE  PairsOf(task) \subseteq Places \X GroupMembers
<1>1. task.kind \in {"authorize", "unauthorize", "add", "remove", "create", "bulk", "enable",
                     "disable", "destroy", "idle"}
  BY TaskFacts
<1> QED BY <1>1, TaskFacts DEF PairsOf, OnPeople, OnQueues, Places

LEMMA DisturbsIsPairs ==
  ASSUME GroupTypeOK, NEW r \in GroupRequests
  PROVE  Disturbs(r) \subseteq Places \X GroupMembers
BY AboutIsPairs DEF Disturbs, GroupTypeOK

SameDoing(s) ==
    groupAt'[s] = groupAt[s] /\ doing'[s] = doing[s] /\ places'[s] = places[s]
    /\ people'[s] = people[s] /\ toRemove'[s] = toRemove[s]

\* Steps that read, that change the members, that change the sectors, that change the queues.
ReadSteps(r) ==
    \/ ReadSectors(r) \/ ReadQueues(r) \/ RefuseSector(r) \/ ReadManagers(r) \/ ReadGroup(r)
    \/ ReadForRemoval(r) \/ RefuseRemoval(r) \/ DeleteGroup(r) \/ ReadAgents(r)
MemberSteps(r) ==
    \/ AuthorizeMember(r) \/ UnauthorizeMember(r) \/ EnsureMembership(r) \/ EnableQueue(r)
    \/ DisableQueue(r)
SectorSteps(r) == LinkSector(r) \/ UnlinkSector(r)
MakeSteps(r) == SaveQueue(r) \/ GrantQueue(r)

LEMMA GroupCases ==
  ASSUME NEW r \in GroupRequests, GroupStep(r)
  PROVE  ReadSteps(r) \/ MemberSteps(r) \/ SectorSteps(r) \/ MakeSteps(r)
BY DEF GroupStep, ReadSteps, MemberSteps, SectorSteps, MakeSteps

LEMMA OtherRequests ==
  ASSUME GroupTypeOK, NEW r \in GroupRequests, NEW s \in GroupRequests, s # r,
         GroupStep(r) \/ \E task \in Tasks : BeginTask(r, task)
  PROVE  SameDoing(s)
<1> USE DEF GroupTypeOK, Advances, EndsRequest, SameDoing
<1>1. CASE ReadSteps(r)
  BY <1>1 DEF ReadSteps, ReadSectors, ReadQueues, RefuseSector, ReadManagers, ReadGroup, ReadForRemoval,
              RefuseRemoval, DeleteGroup, ReadAgents
<1>2. CASE MemberSteps(r)
  BY <1>2 DEF MemberSteps, AuthorizeMember, UnauthorizeMember, EnsureMembership, EnableQueue, DisableQueue
<1>3. CASE SectorSteps(r)
  BY <1>3 DEF SectorSteps, LinkSector, UnlinkSector
<1>4. CASE MakeSteps(r)
  BY <1>4 DEF MakeSteps, SaveQueue, GrantQueue
<1>5. CASE \E task \in Tasks : BeginTask(r, task)
  BY <1>5 DEF BeginTask
<1> QED BY <1>1, <1>2, <1>3, <1>4, <1>5, GroupCases

-----------------------------------------------------------------------------
\* The requests, and then the rows, stay within their types.
RequestsFit ==
    /\ groupAt \in [GroupRequests -> {"idle", "begun", "sectors", "people", "commit", "loop"}]
    /\ doing \in [GroupRequests -> Tasks \cup {Idle}]
    /\ \A r \in GroupRequests : (doing[r] = Idle) = (groupAt[r] = "idle")
    /\ places \in [GroupRequests -> SUBSET Places]
    /\ people \in [GroupRequests -> SUBSET (GroupMembers \X Roles)]
    /\ toRemove \in [GroupRequests -> SUBSET Sectors]
    /\ begun \in 0..MaxGroupRequests

LEMMA EndsFits ==
  ASSUME GroupTypeOK, NEW r \in GroupRequests, EndsRequest(r), begun' = begun
  PROVE  RequestsFit'
BY IdleIsNoTask DEF EndsRequest, GroupTypeOK, RequestsFit

LEMMA RequestsFitStep ==
  ASSUME GroupTypeOK, NEW r \in GroupRequests,
         GroupStep(r) \/ \E task \in Tasks : BeginTask(r, task)
  PROVE  RequestsFit'
<1>0. /\ QueuesOf(places[r]) \subseteq Places /\ linked \subseteq Places
      /\ (doing[r].kind = "remove" => doing[r].sector \in Places)
  BY TaskFacts DEF QueuesOf, GroupTypeOK, Places
<1> USE <1>0 DEF GroupTypeOK, Advances, RequestsFit
<1>1. CASE ReadSectors(r)
  BY <1>1, IdleIsNoTask DEF ReadSectors
<1>2. CASE ReadQueues(r)
  BY <1>2 DEF ReadQueues
<1>3. CASE ReadManagers(r)
  BY <1>3 DEF ReadManagers
<1>4. CASE ReadGroup(r)
  BY <1>4 DEF ReadGroup
<1>5. CASE ReadForRemoval(r)
  BY <1>5 DEF ReadForRemoval, Places
<1>6. CASE ReadAgents(r)
  BY <1>6 DEF ReadAgents
<1>7. CASE RefuseSector(r) \/ RefuseRemoval(r) \/ DeleteGroup(r) \/ AuthorizeMember(r)
           \/ UnauthorizeMember(r) \/ EnableQueue(r) \/ DisableQueue(r) \/ LinkSector(r) \/ GrantQueue(r)
  BY <1>7, EndsFits DEF RefuseSector, RefuseRemoval, DeleteGroup, AuthorizeMember, UnauthorizeMember,
              EnableQueue, DisableQueue, LinkSector, GrantQueue
<1>8. CASE EnsureMembership(r)
  BY <1>8 DEF EnsureMembership
<1>9. CASE UnlinkSector(r)
  <2>1. CASE EndsRequest(r)
    BY <1>9, <2>1, EndsFits DEF UnlinkSector
  <2>2. CASE ~EndsRequest(r)
    BY <1>9, <2>2 DEF UnlinkSector, Removing
  <2> QED BY <2>1, <2>2
<1>10. CASE SaveQueue(r)
  BY <1>10 DEF SaveQueue
<1>11. ASSUME NEW task \in Tasks, BeginTask(r, task) PROVE RequestsFit'
  <2>1. begun' \in 0..MaxGroupRequests
    BY <1>11, GroupAssumption DEF BeginTask
  <2> QED BY <1>11, <2>1, IdleIsNoTask DEF BeginTask
<1> QED BY <1>1, <1>2, <1>3, <1>4, <1>5, <1>6, <1>7, <1>8, <1>9, <1>10, <1>11 DEF GroupStep

RowsFit ==
    /\ groupDeleted \in BOOLEAN
    /\ linked \subseteq Sectors
    /\ queues \subseteq SectorQueues
    /\ memberships \subseteq GroupMembers \X Roles
    /\ access \subseteq Places \X GroupMembers
    /\ exempt \subseteq SectorQueues \X GroupMembers
    /\ disturbed \subseteq Places \X GroupMembers

LEMMA RowsFitStep ==
  ASSUME GroupTypeOK, NEW r \in GroupRequests,
         GroupStep(r) \/ \E task \in Tasks : BeginTask(r, task)
  PROVE  RowsFit'
<1>0. /\ Disturbs(r) \subseteq Places \X GroupMembers
      /\ \A sectors : QueuesOf(sectors) \subseteq SectorQueues
      /\ \A role : With(r, role) \subseteq GroupMembers
      /\ OnPeople(doing[r]) => doing[r].who \in GroupMembers /\ doing[r].role \in Roles
      /\ OnQueues(doing[r]) => doing[r].who \in GroupMembers /\ doing[r].queue \in SectorQueues
      /\ doing[r].kind = "add" => doing[r].sector \in Sectors
      /\ doing[r].kind \in {"create", "bulk"} => doing[r].queue \in SectorQueues
      /\ places[r] \subseteq Places
  BY DisturbsIsPairs, TaskFacts DEF QueuesOf, With, GroupTypeOK
<1> USE <1>0 DEF RowsFit, GroupTypeOK, Grants, Withdraws, OnPeople, OnQueues
<1>1. CASE ReadSteps(r)
  <2>1. (UNCHANGED groupRows \/ DeleteGroup(r)) /\ exempt' = exempt /\ disturbed' = disturbed
    BY <1>1 DEF ReadSteps, ReadSectors, ReadQueues, RefuseSector, ReadManagers, ReadGroup, ReadForRemoval,
              RefuseRemoval, DeleteGroup, ReadAgents
  <2> QED BY <2>1 DEF groupRows, DeleteGroup
<1>2. CASE AuthorizeMember(r)
  BY <1>2 DEF AuthorizeMember
<1>3. CASE UnauthorizeMember(r)
  BY <1>3 DEF UnauthorizeMember
<1>4. CASE EnsureMembership(r)
  BY <1>4 DEF EnsureMembership, Roles
<1>5. CASE EnableQueue(r)
  BY <1>5 DEF EnableQueue, Places
<1>6. CASE DisableQueue(r)
  BY <1>6 DEF DisableQueue
<1>7. CASE LinkSector(r)
  BY <1>7 DEF LinkSector, Places
<1>8. CASE UnlinkSector(r)
  BY <1>8 DEF UnlinkSector
<1>9. CASE SaveQueue(r)
  BY <1>9 DEF SaveQueue
<1>10. CASE GrantQueue(r)
  BY <1>10 DEF GrantQueue, Places
<1>11. ASSUME NEW task \in Tasks, BeginTask(r, task) PROVE RowsFit'
  BY <1>11 DEF BeginTask, groupRows
<1> QED BY <1>1, <1>2, <1>3, <1>4, <1>5, <1>6, <1>7, <1>8, <1>9, <1>10, <1>11, GroupCases
        DEF MemberSteps, SectorSteps, MakeSteps

LEMMA GroupTypeStep ==
  ASSUME GroupTypeOK, NEW r \in GroupRequests,
         GroupStep(r) \/ \E task \in Tasks : BeginTask(r, task)
  PROVE  GroupTypeOK'
BY RequestsFitStep, RowsFitStep DEF RequestsFit, RowsFit, GroupTypeOK

-----------------------------------------------------------------------------
LEMMA RequestFitsEnded ==
  ASSUME GroupTypeOK, NEW r \in GroupRequests, EndsRequest(r)
  PROVE  GroupRequestFits(r)' /\ groupAt'[r] = "idle" /\ doing'[r] = Idle
BY IdleIsNoTask DEF EndsRequest, GroupTypeOK, GroupRequestFits, OnPeople, OnQueues, ForAgent, Removes

LEMMA QueuesGrow ==
  ASSUME GroupTypeOK, NEW r \in GroupRequests,
         GroupStep(r) \/ \E task \in Tasks : BeginTask(r, task)
  PROVE  queues \subseteq queues'
BY GroupCases DEF ReadSteps, ReadSectors, ReadQueues, RefuseSector, ReadManagers, ReadGroup, ReadForRemoval,
       RefuseRemoval, DeleteGroup, ReadAgents, MemberSteps, AuthorizeMember, UnauthorizeMember,
       EnsureMembership, EnableQueue, DisableQueue, SectorSteps, LinkSector, UnlinkSector, MakeSteps,
       SaveQueue, GrantQueue, BeginTask, groupRows

LEMMA SectorAndQueues ==
  ASSUME GroupTypeOK, NEW s \in Sectors
  PROVE  /\ ({s} \cup QueuesOf({s})) \cap Sectors = {s}
         /\ \A x \in {s} \cup QueuesOf({s}) : Exists(x) /\ Home(x) = s
<1>1. \A q \in QueuesOf({s}) : q \in queues /\ q \in SectorQueues /\ q \notin Sectors /\ SectorOf[q] = s
  BY GroupAssumption DEF QueuesOf, GroupTypeOK
<1>2. s \notin SectorQueues
  BY GroupAssumption
<1> QED BY <1>1, <1>2 DEF Exists, Home

LEMMA RequestFitsStep ==
  ASSUME GroupTypeOK, \A r \in GroupRequests : GroupRequestFits(r), NEW r \in GroupRequests,
         GroupStep(r) \/ \E task \in Tasks : BeginTask(r, task)
  PROVE  \A s \in GroupRequests : GroupRequestFits(s)'
<1> SUFFICES ASSUME NEW s \in GroupRequests PROVE GroupRequestFits(s)'
  OBVIOUS
<1>0. GroupRequestFits(s)
  OBVIOUS
<1>1. CASE s # r
  BY <1>0, <1>1, OtherRequests, QueuesGrow
     DEF SameDoing, GroupRequestFits, OnPeople, OnQueues, ForAgent, Removes, Exists, Home
<1>2. CASE s = r
  <2>0. /\ linked \subseteq Sectors /\ QueuesOf(places[r]) \subseteq queues
        /\ doing[r] \in Tasks \cup {Idle} /\ doing[r].kind \in {"authorize", "unauthorize", "add", "remove",
              "create", "bulk", "enable", "disable", "destroy", "idle"}
        /\ (OnPeople(doing[r]) => doing[r].role \in Roles)
    BY TaskFacts DEF GroupTypeOK, QueuesOf
  <2> USE <1>2, <2>0 DEF GroupTypeOK, Advances, GroupRequestFits, OnPeople, OnQueues, ForAgent, Removes
  <2>1. CASE ReadSectors(r)
    BY <2>1 DEF ReadSectors
  <2>2. CASE ReadQueues(r)
    <3>1. /\ groupAt[r] = "sectors" /\ groupAt'[r] = "commit" /\ doing' = doing /\ queues' = queues
          /\ places'[r] = IF Removes(doing[r]) THEN places[r] \cup QueuesOf(places[r])
                          ELSE QueuesOf(places[r])
      BY <2>2 DEF ReadQueues, groupRows
    <3>2. CASE Removes(doing[r])
      <4>1. PICK s0 \in Sectors : places[r] = {s0}
        BY <3>1, <3>2
      <4>2. places'[r] = {s0} \cup QueuesOf({s0})
        BY <3>1, <3>2, <4>1
      <4>4. places'[r] \cap Sectors = {s0}
        BY <4>2, SectorAndQueues
      <4>5. \A x \in places'[r] : Exists(x)' /\ Home(x)' \in places'[r]
        <5>1. \A x \in places'[r] : Exists(x) /\ Home(x) = s0
          BY <4>2, SectorAndQueues
        <5> QED BY <3>1, <4>2, <5>1 DEF Exists, Home
      <4>6. doing[r].kind = "remove" => doing[r].sector \in places'[r]
        BY <3>1, <4>1, <4>2
      <4> QED BY <3>1, <3>2, <4>4, <4>5, <4>6
    <3>3. CASE ~Removes(doing[r])
      BY <3>1, <3>3
    <3> QED BY <3>2, <3>3
  <2>3. CASE ReadManagers(r)
    BY <2>3 DEF ReadManagers
  <2>4. CASE ReadGroup(r)
    BY <2>4 DEF ReadGroup
  <2>5. CASE ReadForRemoval(r)
    <3>1. doing[r].kind = "remove" => doing[r].sector \in Sectors
      BY TaskFacts
    <3> QED BY <2>5, <3>1 DEF ReadForRemoval
  <2>6. CASE ReadAgents(r)
    BY <2>6 DEF ReadAgents
  <2>7. CASE RefuseSector(r) \/ RefuseRemoval(r) \/ DeleteGroup(r) \/ AuthorizeMember(r)
             \/ UnauthorizeMember(r) \/ EnableQueue(r) \/ DisableQueue(r) \/ LinkSector(r) \/ GrantQueue(r)
    <3>1. EndsRequest(r)
      BY <2>7 DEF RefuseSector, RefuseRemoval, DeleteGroup, AuthorizeMember, UnauthorizeMember,
                  EnableQueue, DisableQueue, LinkSector, GrantQueue
    <3> QED BY <3>1, RequestFitsEnded
  <2>8. CASE EnsureMembership(r)
    BY <2>8 DEF EnsureMembership
  <2>9. CASE UnlinkSector(r)
    <3>1. CASE EndsRequest(r)
      BY <3>1, RequestFitsEnded
    <3>2. CASE ~EndsRequest(r)
      BY <2>9, <3>2 DEF UnlinkSector, Removing
    <3> QED BY <3>1, <3>2
  <2>10. CASE SaveQueue(r)
    BY <2>10 DEF SaveQueue
  <2>11. ASSUME NEW task \in Tasks, BeginTask(r, task) PROVE GroupRequestFits(r)'
    BY <2>11 DEF BeginTask
  <2> QED BY <2>1, <2>2, <2>3, <2>4, <2>5, <2>6, <2>7, <2>8, <2>9, <2>10, <2>11 DEF GroupStep
<1> QED BY <1>1, <1>2

\* Only queues that exist are given to somebody.
OnlyExisting == \A q \in SectorQueues, m \in GroupMembers : <<q, m>> \in access => q \in queues

LEMMA OnlyExistingStep ==
  ASSUME GroupTypeOK, \A r \in GroupRequests : GroupRequestFits(r), OnlyExisting, NEW r \in GroupRequests,
         GroupStep(r) \/ \E task \in Tasks : BeginTask(r, task)
  PROVE  OnlyExisting'
<1> SUFFICES ASSUME NEW q \in SectorQueues, NEW m \in GroupMembers, <<q, m>> \in access', <<q, m>> \notin access
             PROVE  q \in queues'
  BY QueuesGrow DEF OnlyExisting
<1> USE DEF GroupTypeOK, Grants, Withdraws
<1>0. q \notin Sectors
  BY GroupAssumption
<1>1. CASE AuthorizeMember(r)
  <2>1. q \in places[r] /\ queues' = queues
    BY <1>1 DEF AuthorizeMember
  <2>2. doing[r].kind = "authorize" /\ groupAt[r] = "commit" /\ doing[r].role \in Roles
    BY <1>1, TaskFacts DEF AuthorizeMember, OnPeople
  <2> QED BY <1>0, <2>1, <2>2 DEF GroupRequestFits, OnPeople, ForAgent, Roles
<1>2. CASE EnableQueue(r)
  BY <1>2 DEF EnableQueue, GroupRequestFits, ForAgent, OnQueues
<1>3. CASE LinkSector(r)
  BY <1>0, <1>3, TaskFacts DEF LinkSector
<1>4. CASE GrantQueue(r)
  BY <1>4 DEF GrantQueue
<1> QED BY <1>1, <1>2, <1>3, <1>4, GroupCases
    DEF ReadSteps, ReadSectors, ReadQueues, RefuseSector, ReadManagers, ReadGroup, ReadForRemoval,
       RefuseRemoval, DeleteGroup, ReadAgents, MemberSteps, UnauthorizeMember, EnsureMembership,
       DisableQueue, SectorSteps, UnlinkSector, MakeSteps, SaveQueue, BeginTask, groupRows

-----------------------------------------------------------------------------
\* A request that writes over what another one has read tells of the pair.
LEMMA ConcernFacts ==
  ASSUME NEW task \in Tasks \cup {Idle}
  PROVE  /\ OnPeople(task) \/ OnQueues(task) => Concerns(task.kind) = "member"
         /\ task.kind = "add" \/ Removes(task) => Concerns(task.kind) = "sector"
         /\ task.kind \in {"create", "bulk"} => Concerns(task.kind) = "queue"
BY DEF Concerns, OnPeople, OnQueues, Removes

LEMMA MeetingDisturbs ==
  ASSUME GroupTypeOK, NEW r \in GroupRequests, NEW s \in GroupRequests, s # r,
         disturbed' = disturbed \cup Disturbs(r), groupAt[s] # "begun",
         NEW p \in PairsOf(doing[r]), p \in PairsOf(doing[s]),
         Concerns(doing[s].kind) # Concerns(doing[r].kind) \/ Concerns(doing[r].kind) = "member"
  PROVE  p \in disturbed'
BY DEF Disturbs

\* What a step changes about a place and a member is what its request is about.
LEMMA FactsStep ==
  ASSUME GroupTypeOK, NEW r \in GroupRequests, GroupRequestFits(r), GroupStep(r),
         NEW x \in Places, NEW m \in GroupMembers
  PROVE  /\ (Linked(x)' <=> Linked(x)) \/ (/\ <<x, m>> \in PairsOf(doing[r])
                                           /\ Concerns(doing[r].kind) = "sector"
                                           /\ disturbed' = disturbed \cup Disturbs(r))
         /\ (Belongs(x, m)' <=> Belongs(x, m)) \/ (/\ <<x, m>> \in PairsOf(doing[r])
                                                   /\ Concerns(doing[r].kind) = "member"
                                                   /\ disturbed' = disturbed \cup Disturbs(r))
         /\ (x \in queues' <=> x \in queues) \/ (/\ <<x, m>> \in PairsOf(doing[r])
                                                 /\ Concerns(doing[r].kind) = "queue"
                                                 /\ disturbed' = disturbed \cup Disturbs(r))
<1>0. doing[r] \in Tasks \cup {Idle}
  BY DEF GroupTypeOK
<1> USE <1>0
<1>1. CASE ReadSteps(r)
  <2>1. linked' = linked /\ queues' = queues /\ memberships' = memberships
    BY <1>1 DEF ReadSteps, ReadSectors, ReadQueues, RefuseSector, ReadManagers, ReadGroup, ReadForRemoval,
              RefuseRemoval, DeleteGroup, ReadAgents, groupRows
  <2> QED BY <2>1 DEF Linked, Belongs
<1>2. CASE MemberSteps(r)
  <2>1. linked' = linked /\ queues' = queues
    BY <1>2 DEF MemberSteps, AuthorizeMember, UnauthorizeMember, EnsureMembership, EnableQueue, DisableQueue
  <2>2. CASE AuthorizeMember(r) \/ UnauthorizeMember(r)
    <3>1. OnPeople(doing[r])
      BY <2>2 DEF AuthorizeMember, UnauthorizeMember, OnPeople
    <3>2. CASE memberships' = memberships
      BY <2>1, <3>2 DEF Linked, Belongs
    <3>3. CASE memberships' # memberships
      <4>1. disturbed' = disturbed \cup Disturbs(r)
        BY <2>2, <3>3 DEF AuthorizeMember, UnauthorizeMember, Grants, Withdraws
      <4>2. m # doing[r].who => (Belongs(x, m)' <=> Belongs(x, m))
        BY <2>2 DEF AuthorizeMember, UnauthorizeMember, Belongs
      <4>3. m = doing[r].who => <<x, m>> \in PairsOf(doing[r])
        BY <3>1, AboutFacts
      <4> QED BY <2>1, <3>1, <4>1, <4>2, <4>3, ConcernFacts DEF Linked
    <3> QED BY <3>2, <3>3
  <2>3. CASE EnsureMembership(r)
    <3>1. OnQueues(doing[r]) /\ disturbed' = disturbed \cup Disturbs(r)
      BY <2>3 DEF EnsureMembership, OnQueues
    <3>2. m # doing[r].who \/ x \in Sectors => (Belongs(x, m)' <=> Belongs(x, m))
      BY <2>3 DEF EnsureMembership, Belongs, RoleAt
    <3>3. m = doing[r].who /\ x \in SectorQueues => <<x, m>> \in PairsOf(doing[r])
      BY <3>1, AboutFacts
    <3> QED BY <2>1, <3>1, <3>2, <3>3, ConcernFacts, HomeFits DEF Linked
  <2>4. CASE EnableQueue(r) \/ DisableQueue(r)
    <3>1. memberships' = memberships
      BY <2>4 DEF EnableQueue, DisableQueue
    <3> QED BY <2>1, <3>1 DEF Linked, Belongs
  <2> QED BY <1>2, <2>2, <2>3, <2>4 DEF MemberSteps
<1>3. CASE LinkSector(r)
  <2>1. memberships' = memberships /\ queues' = queues /\ linked' = linked \cup {doing[r].sector}
        /\ doing[r].kind = "add"
    BY <1>3 DEF LinkSector
  <2>2. CASE Linked(x)' <=> Linked(x)
    BY <2>1, <2>2 DEF Belongs
  <2>3. CASE ~(Linked(x)' <=> Linked(x))
    <3>1. Home(x) = doing[r].sector /\ doing[r].sector \notin linked
      BY <2>1, <2>3 DEF Linked, Home
    <3>2. disturbed' = disturbed \cup Disturbs(r)
      BY <1>3, <3>1 DEF LinkSector, Grants
    <3> QED BY <2>1, <3>1, <3>2, AboutFacts, ConcernFacts DEF Belongs
  <2> QED BY <2>2, <2>3
<1>4. CASE UnlinkSector(r)
  <2>1. /\ memberships' = memberships /\ queues' = queues /\ linked' = linked \ places[r]
        /\ disturbed' = disturbed \cup Disturbs(r) /\ Removes(doing[r]) /\ groupAt[r] = "commit"
    BY <1>4 DEF UnlinkSector, Withdraws, Removing, Removes
  <2>2. CASE Home(x) \notin places[r]
    BY <2>1, <2>2 DEF Linked, Belongs, Home
  <2>3. CASE Home(x) \in places[r]
    <3>1. doing[r].kind = "remove" => Home(x) = doing[r].sector
      BY <2>1, <2>3, HomeFits, TaskFacts DEF GroupRequestFits, Removes
    <3>2. <<x, m>> \in PairsOf(doing[r])
      BY <2>1, <3>1, AboutFacts DEF Removes
    <3> QED BY <2>1, <3>2, ConcernFacts DEF Belongs
  <2> QED BY <2>2, <2>3
<1>5. CASE MakeSteps(r)
  <2>1. /\ memberships' = memberships /\ linked' = linked /\ queues' = queues \cup {doing[r].queue}
        /\ disturbed' = disturbed \cup Disturbs(r) /\ doing[r].kind \in {"create", "bulk"}
    BY <1>5 DEF MakeSteps, SaveQueue, GrantQueue, Grants
  <2>2. x = doing[r].queue => <<x, m>> \in PairsOf(doing[r])
    BY <2>1, AboutFacts
  <2> QED BY <2>1, <2>2, ConcernFacts DEF Linked, Belongs
<1> QED BY <1>1, <1>2, <1>3, <1>4, <1>5, GroupCases DEF SectorSteps

\* What another request has read of an undisturbed pair is still so.
LEMMA ReadByOthers ==
  ASSUME GroupTypeOK, NEW r \in GroupRequests, GroupRequestFits(r), GroupStep(r),
         NEW s \in GroupRequests, s # r, NEW x \in Places, NEW m \in GroupMembers,
         <<x, m>> \notin disturbed', <<x, m>> \in PairsOf(doing[s]), ReadFits(s, x, m)
  PROVE  ReadFits(s, x, m)'
<1>1. SameDoing(s)
  BY OtherRequests
<1>2. CASE groupAt[s] = "begun"
  BY <1>1, <1>2 DEF SameDoing, ReadFits, OnPeople, OnQueues, ForAgent, Removes
<1>3. CASE groupAt[s] # "begun"
  <2>0. doing[s] \in Tasks \cup {Idle}
    BY DEF GroupTypeOK
  <2>1. Concerns(doing[s].kind) # "sector" => (Linked(x)' <=> Linked(x))
    BY <1>3, FactsStep, MeetingDisturbs
  <2>2. Belongs(x, m)' <=> Belongs(x, m)
    BY <1>3, FactsStep, MeetingDisturbs
  <2>3. Concerns(doing[s].kind) # "queue" => (x \in queues' <=> x \in queues)
    BY <1>3, FactsStep, MeetingDisturbs
  <2>4. CASE OnPeople(doing[s]) \/ OnQueues(doing[s])
    <3>1. (Linked(x)' <=> Linked(x)) /\ (x \in queues' <=> x \in queues)
      BY <2>0, <2>1, <2>3, <2>4, ConcernFacts
    <3> QED BY <1>1, <2>2, <2>4, <3>1 DEF SameDoing, ReadFits, OnPeople, OnQueues, ForAgent, Removes
  <2>5. CASE doing[s].kind = "add" \/ Removes(doing[s])
    <3>1. x \in queues' <=> x \in queues
      BY <2>0, <2>3, <2>5, ConcernFacts
    <3> QED BY <1>1, <2>2, <2>5, <3>1 DEF SameDoing, ReadFits, OnPeople, OnQueues, ForAgent, Removes, Home,
                RoleAt
  <2>6. CASE doing[s].kind \in {"create", "bulk"}
    <3>1. Linked(x)' <=> Linked(x)
      BY <2>0, <2>1, <2>6, ConcernFacts
    <3> QED BY <1>1, <2>2, <2>6, <3>1 DEF SameDoing, ReadFits, OnPeople, OnQueues, ForAgent, Removes
  <2>7. CASE doing[s].kind = "idle"
    BY <1>1, <2>7 DEF SameDoing, ReadFits, OnPeople, OnQueues, ForAgent, Removes
  <2> QED BY <2>0, <2>4, <2>5, <2>6, <2>7, TaskFacts DEF OnPeople, OnQueues, Removes
<1> QED BY <1>2, <1>3

-----------------------------------------------------------------------------
Makes1(r, x) == doing[r].kind = "create" /\ doing[r].queue = x /\ groupAt[r] # "begun"

LEMMA BeingMadeStays ==
  ASSUME GroupTypeOK, NEW r \in GroupRequests, GroupRequestFits(r),
         GroupStep(r) \/ \E task \in Tasks : BeginTask(r, task),
         NEW x \in Places, BeingMade(x), ~(GrantQueue(r) /\ Makes1(r, x))
  PROVE  BeingMade(x)'
<1>1. PICK s \in GroupRequests : Makes1(s, x)
  BY DEF BeingMade, Makes1
<1>2. CASE s # r
  BY <1>1, <1>2, OtherRequests DEF SameDoing, Makes1, BeingMade
<1>3. CASE s = r
  <2>1. doing[r].kind = "create" /\ groupAt[r] \in {"people", "commit"}
    BY <1>1, <1>3 DEF GroupRequestFits, Makes1
  <2>2. ReadAgents(r)
    BY <1>1, <1>3, <2>1 DEF GroupStep, ReadSectors, ReadQueues, AuthorizeMember, UnauthorizeMember,
       EnsureMembership, EnableQueue, DisableQueue, RefuseSector, ReadManagers, LinkSector, ReadGroup,
       ReadForRemoval, UnlinkSector, RefuseRemoval, DeleteGroup, SaveQueue, BeginTask, Advances, Removing
  <2> QED BY <1>1, <1>3, <2>1, <2>2 DEF ReadAgents, Advances, BeingMade, Makes1, GroupTypeOK
<1> QED BY <1>2, <1>3

\* Pairs a request is not about are left alone.
LEMMA PairByOthers ==
  ASSUME GroupTypeOK, NEW r \in GroupRequests, GroupRequestFits(r), GroupStep(r),
         NEW x \in Places, NEW m \in GroupMembers, <<x, m>> \notin PairsOf(doing[r]), PairFits(x, m)
  PROVE  PairFits(x, m)'
<1>0. doing[r] \in Tasks \cup {Idle}
  BY DEF GroupTypeOK
<1>1. /\ Linked(x)' <=> Linked(x)
      /\ Belongs(x, m)' <=> Belongs(x, m)
      /\ x \in queues' <=> x \in queues
  BY FactsStep
<1>2. BeingMade(x) => BeingMade(x)'
  BY <1>0, AboutFacts, BeingMadeStays DEF Makes1
<1>3. ~OnPeople(doing[r]) \/ m # doing[r].who
  BY <1>0, AboutFacts
<1>4. ~OnQueues(doing[r]) \/ m # doing[r].who \/ x \notin SectorQueues
  BY <1>0, AboutFacts
<1>5. /\ doing[r].kind \in {"add", "remove"} => Home(x) # doing[r].sector
      /\ doing[r].kind \in {"create", "bulk"} => x # doing[r].queue
      /\ doing[r].kind # "destroy"
  BY <1>0, AboutFacts
<1> USE DEF Grants, Withdraws
<1>6. (<<x, m>> \in access' <=> <<x, m>> \in access) /\ (<<x, m>> \in exempt => <<x, m>> \in exempt')
  <2>1. CASE ReadSteps(r)
    BY <2>1 DEF ReadSteps, ReadSectors, ReadQueues, RefuseSector, ReadManagers, ReadGroup, ReadForRemoval,
              RefuseRemoval, DeleteGroup, ReadAgents, groupRows
  <2>2. CASE AuthorizeMember(r) \/ UnauthorizeMember(r)
    BY <1>3, <2>2 DEF AuthorizeMember, UnauthorizeMember, OnPeople
  <2>3. CASE EnsureMembership(r)
    BY <2>3 DEF EnsureMembership
  <2>4. CASE EnableQueue(r) \/ DisableQueue(r)
    <3>1. OnQueues(doing[r]) /\ doing[r].queue \in SectorQueues
      BY <1>0, <2>4, TaskFacts DEF EnableQueue, DisableQueue, OnQueues
    <3> QED BY <1>4, <2>4, <3>1 DEF EnableQueue, DisableQueue
  <2>5. CASE LinkSector(r)
    <3>1. doing[r].kind = "add" /\ doing[r].sector \in Sectors
      BY <1>0, <2>5, TaskFacts DEF LinkSector
    <3>2. x # doing[r].sector
      BY <1>5, <3>1 DEF Home
    <3> QED BY <2>5, <3>2 DEF LinkSector
  <2>6. CASE UnlinkSector(r)
    <3>1. doing[r].kind = "remove" /\ groupAt[r] = "commit" /\ Removes(doing[r])
      BY <1>5, <2>6 DEF UnlinkSector, Removing, Removes
    <3>2. Home(x) \notin places[r]
      BY <1>0, <1>5, <3>1, TaskFacts, HomeFits DEF GroupRequestFits
    <3>3. x \notin places[r]
      BY <3>1, <3>2 DEF GroupRequestFits
    <3> QED BY <2>6, <3>3 DEF UnlinkSector
  <2>7. CASE SaveQueue(r)
    BY <2>7 DEF SaveQueue
  <2>8. CASE GrantQueue(r)
    BY <1>5, <2>8 DEF GrantQueue
  <2> QED BY <2>1, <2>2, <2>3, <2>4, <2>5, <2>6, <2>7, <2>8, GroupCases
          DEF MemberSteps, SectorSteps, MakeSteps
<1> QED BY <1>1, <1>2, <1>6 DEF PairFits, Exists

-----------------------------------------------------------------------------
LEMMA IdleIsAboutNothing == ASSUME NEW x \in Places, NEW m \in GroupMembers PROVE <<x, m>> \notin PairsOf(Idle)
BY IdleIsNoTask, AboutFacts DEF OnPeople, OnQueues

\* The pairs of a request that reads.
LEMMA PairWhenRead ==
  ASSUME GroupTypeOK, NEW r \in GroupRequests, GroupRequestFits(r), GroupStep(r), ReadSteps(r),
         NEW x \in Places, NEW m \in GroupMembers, PairFits(x, m)
  PROVE  PairFits(x, m)'
<1>1. /\ linked' = linked /\ queues' = queues /\ memberships' = memberships
      /\ access' = access /\ exempt' = exempt
  BY DEF ReadSteps, ReadSectors, ReadQueues, RefuseSector, ReadManagers, ReadGroup, ReadForRemoval,
         RefuseRemoval, DeleteGroup, ReadAgents, groupRows
<1>2. BeingMade(x) => BeingMade(x)'
  <2>1. CASE GrantQueue(r)
    BY <2>1 DEF ReadSteps, GrantQueue, ReadSectors, ReadQueues, RefuseSector, ReadManagers, ReadGroup,
                ReadForRemoval, RefuseRemoval, DeleteGroup, ReadAgents, Advances, Removing
  <2> QED BY <2>1, BeingMadeStays
<1> QED BY <1>1, <1>2 DEF PairFits, Linked, Belongs, Exists, Home, RoleAt

LEMMA ReadWhenRead ==
  ASSUME GroupTypeOK, NEW r \in GroupRequests, GroupRequestFits(r), ReadSteps(r),
         NEW x \in Places, NEW m \in GroupMembers, <<x, m>> \in PairsOf(doing[r]), ReadFits(r, x, m)
  PROVE  <<x, m>> \in PairsOf(doing'[r]) => ReadFits(r, x, m)'
<1>0. doing[r] \in Tasks \cup {Idle}
  BY DEF GroupTypeOK
<1>a. /\ linked' = linked /\ queues' = queues /\ memberships' = memberships
  BY DEF ReadSteps, ReadSectors, ReadQueues, RefuseSector, ReadManagers, ReadGroup, ReadForRemoval,
         RefuseRemoval, DeleteGroup, ReadAgents, groupRows
<1>b. /\ Linked(x)' <=> Linked(x)
      /\ Belongs(x, m)' <=> Belongs(x, m)
      /\ x \in queues' <=> x \in queues
  BY <1>a DEF Linked, Belongs
<1>c. (x \in Sectors => Home(x) = x /\ RoleAt(x) = "manager" /\ x \notin SectorQueues)
      /\ (x \in SectorQueues => Home(x) = SectorOf[x] /\ RoleAt(x) = "agent" /\ x \notin Sectors)
      /\ (x \in SectorQueues => SectorOf[x] \in Sectors)
  BY GroupAssumption DEF Home, RoleAt
<1>1. CASE RefuseSector(r) \/ RefuseRemoval(r) \/ DeleteGroup(r)
  <2>1. doing'[r] = Idle
    BY <1>1 DEF RefuseSector, RefuseRemoval, DeleteGroup, EndsRequest, GroupTypeOK
  <2> QED BY <2>1, IdleIsAboutNothing
<1>2. CASE ReadSectors(r)
  <2>1. /\ doing' = doing /\ places'[r] = linked /\ groupAt'[r] \in {"commit", "sectors"}
        /\ (OnPeople(doing[r]) \/ OnQueues(doing[r]))
        /\ (groupAt'[r] = "commit" => OnPeople(doing[r]) /\ doing[r].role = "manager")
        /\ (OnQueues(doing[r]) => groupAt[r] = "people" /\ groupAt'[r] = "sectors")
    BY <1>2 DEF ReadSectors, Advances, GroupTypeOK, OnPeople, OnQueues
  <2>2. ~(groupAt'[r] = "commit" /\ ForAgent(doing[r]))
    BY <2>1 DEF ForAgent, OnQueues, OnPeople
  <2>3. OnQueues(doing[r]) /\ x \in SectorQueues => Belongs(x, m)
    BY <2>1 DEF ReadFits
  <2>4. x \in Sectors => (x \in linked <=> Linked(x)')
    BY <1>b, <1>c DEF Linked
  <2>5. x \in SectorQueues => (SectorOf[x] \in linked <=> Linked(x)')
    BY <1>b, <1>c DEF Linked
  <2>6. doing[r].kind \notin {"add", "remove", "destroy", "create", "bulk"}
    BY <2>1 DEF OnPeople, OnQueues
  <2> QED BY <1>b, <2>1, <2>2, <2>3, <2>4, <2>5, <2>6 DEF ReadFits, Removes
<1>3. CASE ReadQueues(r)
  <2>1. /\ doing' = doing /\ people' = people /\ groupAt[r] = "sectors" /\ groupAt'[r] = "commit"
        /\ places'[r] = IF Removes(doing[r]) THEN places[r] \cup QueuesOf(places[r])
                        ELSE QueuesOf(places[r])
        /\ places[r] \subseteq Sectors
    BY <1>3 DEF ReadQueues, Advances, GroupTypeOK, Removes, GroupRequestFits
  <2>2. x \in SectorQueues => (x \in QueuesOf(places[r]) <=> x \in queues /\ SectorOf[x] \in places[r])
    BY DEF QueuesOf
  <2>3. doing[r].kind \notin {"add", "create", "bulk"} /\ ~(OnPeople(doing[r]) /\ doing[r].role = "manager")
    BY <2>1 DEF GroupRequestFits
  <2>4. ForAgent(doing[r]) => ~Removes(doing[r])
    BY DEF ForAgent, Removes, OnQueues, OnPeople
  <2>5. ForAgent(doing[r]) /\ x \in SectorQueues => (x \in places'[r] <=> x \in queues' /\ Linked(x)')
    BY <1>b, <2>1, <2>2, <2>4 DEF ReadFits
  <2>6. Home(x) \in places'[r] => Home(x) \in places[r]
    BY <2>1, <1>c, GroupAssumption, HomeFits DEF QueuesOf, GroupTypeOK
  <2>7. Removes(doing[r]) /\ x \in SectorQueues /\ Home(x) \in places'[r] => (x \in places'[r] <=> x \in queues')
    BY <1>b, <1>c, <2>1, <2>2, <2>6
  <2>8. Removes(doing[r]) /\ Home(x) \in places'[r] => (<<m, RoleAt(x)>> \in people'[r] <=> Belongs(x, m)')
    BY <1>b, <2>1, <2>6 DEF ReadFits
  <2>9. OnQueues(doing[r]) /\ x \in SectorQueues => Belongs(x, m)'
    BY <1>b, <2>1 DEF ReadFits
  <2> QED BY <2>1, <2>3, <2>5, <2>7, <2>8, <2>9 DEF ReadFits, Home, RoleAt
<1>4. CASE ReadManagers(r)
  <2>1. doing' = doing /\ groupAt'[r] = "commit" /\ people'[r] = memberships /\ doing[r].kind = "add"
    BY <1>4 DEF ReadManagers, Advances, GroupTypeOK
  <2>2. x \in Sectors => (<<m, "manager">> \in memberships <=> Belongs(x, m)')
    BY <1>b, <1>c DEF Belongs
  <2> QED BY <2>1, <2>2 DEF ReadFits, OnPeople, OnQueues, ForAgent, Removes
<1>5. CASE ReadGroup(r)
  <2>1. doing' = doing /\ groupAt'[r] = "loop" /\ doing[r].kind = "destroy"
    BY <1>5 DEF ReadGroup, Advances, GroupTypeOK
  <2> QED BY <2>1 DEF ReadFits, OnPeople, OnQueues, ForAgent, Removes
<1>6. CASE ReadForRemoval(r)
  <2>1. doing' = doing /\ groupAt'[r] = "sectors" /\ people'[r] = memberships
        /\ groupAt[r] \in {"begun", "loop"} /\ (groupAt[r] = "begun" => doing[r].kind = "remove")
    BY <1>6 DEF ReadForRemoval, Advances, GroupTypeOK
  <2>2. Removes(doing[r])
    BY <1>0, <2>1, TaskFacts DEF GroupRequestFits, Removes, OnPeople, OnQueues, GroupTypeOK
  <2>3. <<m, RoleAt(x)>> \in memberships <=> Belongs(x, m)'
    BY <1>b DEF Belongs
  <2>4. ~OnPeople(doing[r]) /\ ~OnQueues(doing[r]) /\ ~ForAgent(doing[r])
        /\ doing[r].kind \notin {"add", "create", "bulk"}
    BY <2>2 DEF ForAgent, Removes, OnQueues, OnPeople
  <2> QED BY <2>1, <2>3, <2>4 DEF ReadFits, RoleAt, Home
<1>7. CASE ReadAgents(r)
  <2>1. /\ doing' = doing /\ groupAt'[r] = "commit" /\ doing[r].kind \in {"create", "bulk"}
        /\ people'[r] = IF SectorOf[doing[r].queue] \in linked THEN memberships ELSE {}
    BY <1>7 DEF ReadAgents, Advances, GroupTypeOK
  <2>2. x = doing[r].queue /\ x \in SectorQueues
    BY <1>0, <2>1, AboutFacts, TaskFacts DEF OnPeople, OnQueues
  <2>3. <<m, "agent">> \in people'[r] <=> Linked(x)' /\ Belongs(x, m)'
    BY <1>b, <1>c, <2>1, <2>2 DEF Linked, Belongs
  <2> QED BY <2>1, <2>3 DEF ReadFits, OnPeople, OnQueues, ForAgent, Removes
<1> QED BY <1>1, <1>2, <1>3, <1>4, <1>5, <1>6, <1>7 DEF ReadSteps

-----------------------------------------------------------------------------
\* The pairs of a request that changes the members.
LEMMA PairByMember ==
  ASSUME GroupTypeOK, NEW r \in GroupRequests, GroupRequestFits(r), OnlyExisting, GroupStep(r),
         MemberSteps(r), NEW x \in Places, NEW m \in GroupMembers, <<x, m>> \in PairsOf(doing[r]),
         PairFits(x, m), ReadFits(r, x, m)
  PROVE  /\ PairFits(x, m)'
         /\ <<x, m>> \in PairsOf(doing'[r]) => ReadFits(r, x, m)'
<1>0. doing[r] \in Tasks \cup {Idle}
  BY DEF GroupTypeOK
<1>a. linked' = linked /\ queues' = queues
  BY DEF MemberSteps, AuthorizeMember, UnauthorizeMember, EnsureMembership, EnableQueue, DisableQueue
<1>b. /\ Linked(x)' <=> Linked(x)
      /\ Exists(x)' <=> Exists(x)
  BY <1>a DEF Linked, Exists
<1>c. (x \in Sectors => Home(x) = x /\ RoleAt(x) = "manager" /\ x \notin SectorQueues)
      /\ (x \notin Sectors => x \in SectorQueues /\ Home(x) = SectorOf[x] /\ RoleAt(x) = "agent")
  BY GroupAssumption DEF Home, RoleAt, Places
<1>d. BeingMade(x) => BeingMade(x)'
  <2>1. ~GrantQueue(r)
    BY DEF MemberSteps, AuthorizeMember, UnauthorizeMember, EnsureMembership, EnableQueue, DisableQueue,
           GrantQueue, Advances
  <2> QED BY <2>1, BeingMadeStays
<1>e. ~EnsureMembership(r) => doing'[r] = Idle
  BY DEF MemberSteps, AuthorizeMember, UnauthorizeMember, EnableQueue, DisableQueue, EndsRequest, GroupTypeOK
<1>f. ~EnsureMembership(r) => ~(<<x, m>> \in PairsOf(doing'[r]))
  BY <1>e, IdleIsAboutNothing
<1>1. CASE AuthorizeMember(r) \/ UnauthorizeMember(r)
  <2>1. OnPeople(doing[r]) /\ groupAt[r] = "commit" /\ m = doing[r].who /\ doing[r].role \in Roles
    BY <1>0, <1>1, AboutFacts, TaskFacts DEF AuthorizeMember, UnauthorizeMember, OnPeople, OnQueues
  <2>2. RoleAt(x) = doing[r].role => (x \in places[r] <=> Exists(x) /\ Linked(x))
    <3>1. CASE x \in Sectors
      BY <1>c, <2>1, <3>1 DEF ReadFits, Exists
    <3>2. CASE x \notin Sectors
      <4>1. RoleAt(x) = "agent" /\ x \in SectorQueues
        BY <1>c, <3>2
      <4> QED BY <2>1, <4>1 DEF ReadFits, Exists, ForAgent
    <3> QED BY <3>1, <3>2
  <2>3. RoleAt(x) # doing[r].role => x \notin places[r]
    <3>1. CASE x \in Sectors
      <4>1. RoleAt(x) # doing[r].role => doing[r].role = "agent"
        BY <1>c, <2>1, <3>1 DEF Roles
      <4>2. RoleAt(x) # doing[r].role => places[r] \subseteq queues
        BY <2>1, <4>1 DEF GroupRequestFits, ForAgent
      <4> QED BY <1>c, <3>1, <4>2 DEF GroupTypeOK
    <3>2. CASE x \notin Sectors
      BY <1>c, <2>1, <3>2 DEF GroupRequestFits, Roles
    <3> QED BY <3>1, <3>2
  <2>4. CASE AuthorizeMember(r) /\ <<doing[r].who, doing[r].role>> \in memberships
    <3>1. memberships' = memberships /\ access' = access /\ exempt' = exempt
      BY <2>4 DEF AuthorizeMember
    <3>2. Belongs(x, m)' <=> Belongs(x, m)
      BY <3>1 DEF Belongs
    <3> QED BY <1>b, <1>d, <1>f, <2>4, <3>1, <3>2 DEF PairFits, EnsureMembership, Advances, AuthorizeMember
  <2>5. CASE AuthorizeMember(r) /\ <<doing[r].who, doing[r].role>> \notin memberships
    <3>1. /\ memberships' = memberships \cup {<<doing[r].who, doing[r].role>>}
          /\ access' = access \cup (places[r] \X {m}) /\ exempt' = exempt \ (places[r] \X {m})
          /\ ~EnsureMembership(r)
      BY <2>1, <2>5 DEF AuthorizeMember, Grants, EnsureMembership, Advances
    <3>2. CASE RoleAt(x) = doing[r].role
      <4>1. Belongs(x, m)'
        BY <2>1, <3>1, <3>2 DEF Belongs
      <4>2. <<x, m>> \in access' <=> <<x, m>> \in access \/ x \in places[r]
        BY <3>1
      <4> QED BY <1>b, <1>f, <2>2, <3>1, <3>2, <4>1, <4>2 DEF PairFits
    <3>3. CASE RoleAt(x) # doing[r].role
      <4>1. Belongs(x, m)' <=> Belongs(x, m)
        BY <3>1, <3>3 DEF Belongs
      <4>2. (<<x, m>> \in access' <=> <<x, m>> \in access) /\ (<<x, m>> \in exempt' <=> <<x, m>> \in exempt)
        BY <2>3, <3>1, <3>3
      <4> QED BY <1>b, <1>d, <1>f, <3>1, <4>1, <4>2 DEF PairFits
    <3> QED BY <3>2, <3>3
  <2>6. CASE UnauthorizeMember(r)
    <3>1. /\ memberships' = memberships \ {<<doing[r].who, doing[r].role>>}
          /\ access' = access \ (places[r] \X {m}) /\ exempt' = exempt
          /\ ~EnsureMembership(r)
      BY <2>1, <2>6 DEF UnauthorizeMember, Withdraws, EnsureMembership, Advances
    <3>2. CASE RoleAt(x) = doing[r].role
      <4>1. ~Belongs(x, m)'
        BY <2>1, <3>1, <3>2 DEF Belongs
      <4>2. <<x, m>> \in access => x \in places[r]
        BY <2>2, <3>2 DEF PairFits, OnlyExisting, Exists
      <4>3. <<x, m>> \notin access'
        BY <3>1, <4>2
      <4> QED BY <1>f, <3>1, <4>1, <4>3 DEF PairFits
    <3>3. CASE RoleAt(x) # doing[r].role
      <4>1. Belongs(x, m)' <=> Belongs(x, m)
        BY <3>1, <3>3 DEF Belongs
      <4>2. (<<x, m>> \in access' <=> <<x, m>> \in access) /\ (<<x, m>> \in exempt' <=> <<x, m>> \in exempt)
        BY <2>3, <3>1, <3>3
      <4> QED BY <1>b, <1>d, <1>f, <3>1, <4>1, <4>2 DEF PairFits
    <3> QED BY <3>2, <3>3
  <2> QED BY <1>1, <2>4, <2>5, <2>6
<1>2. CASE EnsureMembership(r)
  <2>1. /\ OnQueues(doing[r]) /\ m = doing[r].who /\ x \in SectorQueues
    BY <1>0, <1>2, AboutFacts DEF EnsureMembership, OnPeople, OnQueues
  <2>2. /\ memberships' = memberships \cup {<<m, "agent">>} /\ access' = access
        /\ exempt' = IF <<m, "agent">> \in memberships THEN exempt ELSE exempt \cup (queues \X {m})
        /\ doing' = doing /\ groupAt'[r] = "people"
    BY <1>2, <2>1 DEF EnsureMembership, Advances, GroupTypeOK
  <2>3. Belongs(x, m)' /\ RoleAt(x) = "agent" /\ x \notin Sectors
    BY <2>1, <2>2, GroupAssumption DEF Belongs, RoleAt
  <2>4. ReadFits(r, x, m)'
    BY <2>1, <2>2, <2>3 DEF ReadFits, OnPeople, OnQueues, ForAgent, Removes
  <2>5. PairFits(x, m)'
    <3>1. CASE Belongs(x, m)
      <4>1. exempt' = exempt
        BY <2>2, <2>3, <3>1 DEF Belongs
      <4> QED BY <1>b, <1>d, <2>2, <2>3, <3>1, <4>1 DEF PairFits
    <3>2. CASE ~Belongs(x, m)
      <4>1. Exists(x) => <<x, m>> \in exempt'
        BY <2>1, <2>2, <2>3, <3>2 DEF Belongs, Exists
      <4>2. <<x, m>> \notin access'
        BY <2>2, <3>2 DEF PairFits
      <4> QED BY <1>b, <4>1, <4>2 DEF PairFits
    <3> QED BY <3>1, <3>2
  <2> QED BY <2>4, <2>5
<1>3. CASE EnableQueue(r) \/ DisableQueue(r)
  <2>1. /\ OnQueues(doing[r]) /\ m = doing[r].who /\ x \in SectorQueues /\ groupAt[r] = "commit"
    BY <1>0, <1>3, AboutFacts DEF EnableQueue, DisableQueue, OnPeople, OnQueues
  <2>2. memberships' = memberships /\ ~EnsureMembership(r)
    BY <1>3 DEF EnableQueue, DisableQueue, EnsureMembership, Advances
  <2>3. Belongs(x, m)' <=> Belongs(x, m)
    BY <2>2 DEF Belongs
  <2>4. (x \in places[r] <=> x \in queues /\ Linked(x)) /\ Belongs(x, m)
    BY <2>1 DEF ReadFits, ForAgent
  <2>5. CASE EnableQueue(r)
    <3>1. /\ access' = access \cup (({doing[r].queue} \cap places[r]) \X {m})
          /\ exempt' = exempt \ (({doing[r].queue} \cap places[r]) \X {m})
      BY <2>1, <2>5 DEF EnableQueue, Grants
    <3>2. <<x, m>> \in access' <=> <<x, m>> \in access \/ (x = doing[r].queue /\ x \in places[r])
      BY <3>1
    <3>3. <<x, m>> \in exempt' <=> <<x, m>> \in exempt /\ ~(x = doing[r].queue /\ x \in places[r])
      BY <3>1
    <3> QED BY <1>b, <1>d, <1>f, <2>2, <2>3, <2>4, <3>2, <3>3 DEF PairFits
  <2>6. CASE DisableQueue(r)
    <3>1. /\ access' = access \ (({doing[r].queue} \cap places[r]) \X {m})
          /\ exempt' = exempt \cup (({doing[r].queue} \cap places[r]) \X {m})
      BY <2>1, <2>6 DEF DisableQueue, Withdraws
    <3>2. <<x, m>> \in access' <=> <<x, m>> \in access /\ ~(x = doing[r].queue /\ x \in places[r])
      BY <3>1
    <3>3. <<x, m>> \in exempt' <=> <<x, m>> \in exempt \/ (x = doing[r].queue /\ x \in places[r])
      BY <3>1
    <3> QED BY <1>b, <1>d, <1>f, <2>2, <2>3, <2>4, <3>2, <3>3 DEF PairFits
  <2> QED BY <1>3, <2>5, <2>6
<1> QED BY <1>1, <1>2, <1>3 DEF MemberSteps

\* The pairs of a request that changes the sectors.
LEMMA PairBySector ==
  ASSUME GroupTypeOK, NEW r \in GroupRequests, GroupRequestFits(r), GroupStep(r),
         SectorSteps(r), NEW x \in Places, NEW m \in GroupMembers, <<x, m>> \in PairsOf(doing[r]),
         OnlyExisting, PairFits(x, m), ReadFits(r, x, m)
  PROVE  /\ PairFits(x, m)'
         /\ <<x, m>> \in PairsOf(doing'[r]) => ReadFits(r, x, m)'
<1>0. doing[r] \in Tasks \cup {Idle}
  BY DEF GroupTypeOK
<1>a. memberships' = memberships /\ queues' = queues
  BY DEF SectorSteps, LinkSector, UnlinkSector
<1>b. /\ Belongs(x, m)' <=> Belongs(x, m)
      /\ Exists(x)' <=> Exists(x)
  BY <1>a DEF Belongs, Exists
<1>c. (x \in Sectors => Home(x) = x /\ RoleAt(x) = "manager" /\ x \notin SectorQueues)
      /\ (x \notin Sectors => x \in SectorQueues /\ Home(x) = SectorOf[x] /\ RoleAt(x) = "agent")
  BY GroupAssumption DEF Home, RoleAt, Places
<1>d. BeingMade(x) => BeingMade(x)'
  <2>1. ~GrantQueue(r)
    BY DEF SectorSteps, LinkSector, UnlinkSector, Removing, GrantQueue
  <2> QED BY <2>1, BeingMadeStays
<1>1. CASE LinkSector(r)
  <2>1. /\ doing[r].kind = "add" /\ groupAt[r] = "commit" /\ linked' = linked \cup {doing[r].sector}
        /\ doing'[r] = Idle /\ Home(x) = doing[r].sector /\ doing[r].sector \in Sectors
    BY <1>0, <1>1, AboutFacts, TaskFacts DEF LinkSector, EndsRequest, GroupTypeOK, OnPeople, OnQueues
  <2>2. ~(<<x, m>> \in PairsOf(doing'[r]))
    BY <2>1, IdleIsAboutNothing
  <2>3. CASE doing[r].sector \in linked
    <3>1. access' = access /\ exempt' = exempt
      BY <1>1, <2>3 DEF LinkSector
    <3>2. Linked(x)' <=> Linked(x)
      BY <2>1, <2>3 DEF Linked, Home
    <3> QED BY <1>b, <1>d, <2>2, <3>1, <3>2 DEF PairFits
  <2>4. CASE doing[r].sector \notin linked
    <3>1. /\ access' = access \cup ({doing[r].sector} \X With(r, "manager"))
          /\ exempt' = exempt \cup (QueuesOf({doing[r].sector}) \X GroupMembers)
      BY <1>1, <2>4 DEF LinkSector, Grants
    <3>2. ~Linked(x) /\ Linked(x)'
      BY <2>1, <2>4 DEF Linked, Home
    <3>3. CASE x \in Sectors
      <4>1. x = doing[r].sector
        BY <1>c, <2>1, <3>3
      <4>2. <<x, m>> \in access' <=> <<x, m>> \in access \/ <<m, "manager">> \in people[r]
        BY <3>1, <4>1 DEF With
      <4>3. <<m, "manager">> \in people[r] <=> Belongs(x, m)
        BY <2>1, <3>3 DEF ReadFits
      <4> QED BY <1>b, <2>2, <3>2, <4>2, <4>3 DEF PairFits
    <3>4. CASE x \notin Sectors
      <4>1. x \in queues => <<x, m>> \in exempt'
        BY <1>c, <2>1, <3>1, <3>4 DEF QueuesOf
      <4>2. <<x, m>> \in access' <=> <<x, m>> \in access
        BY <2>1, <3>1, <3>4
      <4>3. Exists(x) => x \in queues
        BY <1>c, <3>4 DEF Exists
      <4> QED BY <1>b, <2>2, <3>2, <4>1, <4>2, <4>3 DEF PairFits
    <3> QED BY <3>3, <3>4
  <2> QED BY <2>3, <2>4
<1>2. CASE UnlinkSector(r)
  <2>1. /\ Removes(doing[r]) /\ groupAt[r] = "commit" /\ linked' = linked \ places[r]
        /\ access' = access \ (((places[r] \cap Sectors) \X With(r, "manager"))
                               \cup ((places[r] \cap SectorQueues) \X With(r, "agent")))
        /\ exempt' = exempt
    BY <1>2 DEF UnlinkSector, Removing, Removes, Withdraws
  <2>2. <<x, m>> \in access' <=> <<x, m>> \in access /\ ~(x \in places[r] /\ <<m, RoleAt(x)>> \in people[r])
    <3>1. CASE x \in Sectors
      BY <1>c, <2>1, <3>1 DEF With
    <3>2. CASE x \notin Sectors
      BY <1>c, <2>1, <3>2 DEF With
    <3> QED BY <3>1, <3>2
  <2>3. PairFits(x, m)'
    <3>1. CASE Home(x) \notin places[r]
      <4>1. x \notin places[r]
        BY <2>1, <3>1 DEF GroupRequestFits
      <4>2. Linked(x)' <=> Linked(x)
        BY <2>1, <3>1 DEF Linked, Home
      <4> QED BY <1>b, <1>d, <2>1, <2>2, <4>1, <4>2 DEF PairFits
    <3>2. CASE Home(x) \in places[r]
      <4>1. ~Linked(x)'
        BY <2>1, <3>2 DEF Linked, Home
      <4>2. <<m, RoleAt(x)>> \in people[r] <=> Belongs(x, m)
        BY <2>1, <3>2 DEF ReadFits
      <4>3. <<x, m>> \in access => x \in places[r]
        BY <1>c, <2>1, <3>2 DEF ReadFits, OnlyExisting
      <4>4. <<x, m>> \notin access'
        BY <2>2, <4>2, <4>3 DEF PairFits
      <4> QED BY <4>1, <4>4 DEF PairFits
    <3> QED BY <3>1, <3>2
  <2>4. <<x, m>> \in PairsOf(doing'[r]) => ReadFits(r, x, m)'
    <3>1. CASE doing'[r] = Idle
      BY <3>1, IdleIsAboutNothing
    <3>2. CASE doing'[r] # Idle
      <4>1. doing' = doing /\ groupAt'[r] = "loop"
        BY <1>2, <3>2 DEF UnlinkSector, EndsRequest, GroupTypeOK
      <4> QED BY <2>1, <4>1 DEF ReadFits, OnPeople, OnQueues, ForAgent, Removes
    <3> QED BY <3>1, <3>2
  <2> QED BY <2>3, <2>4
<1> QED BY <1>1, <1>2 DEF SectorSteps

\* The pairs of a request that makes a queue.
LEMMA PairByQueue ==
  ASSUME GroupTypeOK, NEW r \in GroupRequests, GroupRequestFits(r), GroupStep(r),
         MakeSteps(r), NEW x \in Places, NEW m \in GroupMembers, <<x, m>> \in PairsOf(doing[r]),
         PairFits(x, m), ReadFits(r, x, m)
  PROVE  /\ PairFits(x, m)'
         /\ <<x, m>> \in PairsOf(doing'[r]) => ReadFits(r, x, m)'
<1>0. doing[r] \in Tasks \cup {Idle}
  BY DEF GroupTypeOK
<1>a. /\ memberships' = memberships /\ linked' = linked /\ doing[r].kind \in {"create", "bulk"}
      /\ queues' = queues \cup {doing[r].queue}
  BY DEF MakeSteps, SaveQueue, GrantQueue
<1>b. /\ Belongs(x, m)' <=> Belongs(x, m)
      /\ Linked(x)' <=> Linked(x)
  BY <1>a DEF Belongs, Linked
<1>c. x = doing[r].queue /\ x \in SectorQueues /\ x \notin Sectors
  BY <1>0, <1>a, AboutFacts, TaskFacts, GroupAssumption DEF OnPeople, OnQueues
<1>1. CASE SaveQueue(r)
  <2>1. access' = access /\ exempt' = exempt /\ doing' = doing /\ groupAt'[r] = "people"
        /\ doing[r].kind = "create"
    BY <1>1 DEF SaveQueue, Advances, GroupTypeOK
  <2>2. BeingMade(x)'
    BY <1>c, <2>1 DEF BeingMade
  <2> QED BY <1>b, <2>1, <2>2 DEF PairFits, ReadFits, OnPeople, OnQueues, ForAgent, Removes
<1>2. CASE GrantQueue(r)
  <2>1. /\ access' = access \cup ({x} \X With(r, "agent")) /\ exempt' = exempt /\ groupAt[r] = "commit"
        /\ doing'[r] = Idle
    BY <1>2, <1>c DEF GrantQueue, Grants, EndsRequest, GroupTypeOK
  <2>2. <<m, "agent">> \in people[r] <=> Linked(x) /\ Belongs(x, m)
    BY <1>a, <2>1 DEF ReadFits
  <2>3. <<x, m>> \in access' <=> <<x, m>> \in access \/ <<m, "agent">> \in people[r]
    BY <2>1 DEF With
  <2>4. ~(<<x, m>> \in PairsOf(doing'[r]))
    BY <2>1, IdleIsAboutNothing
  <2> QED BY <1>b, <2>2, <2>3, <2>4 DEF PairFits
<1> QED BY <1>1, <1>2 DEF MakeSteps

-----------------------------------------------------------------------------
\* A request begins, with nothing read.
LEMMA BeginsApart ==
  ASSUME GroupTypeOK, \A s \in GroupRequests : GroupRequestFits(s), NEW r \in GroupRequests,
         NEW task \in Tasks, BeginTask(r, task),
         NEW x \in Places, NEW m \in GroupMembers, PairFits(x, m),
         \A s \in GroupRequests : <<x, m>> \in PairsOf(doing[s]) => ReadFits(s, x, m)
  PROVE  /\ PairFits(x, m)'
         /\ \A s \in GroupRequests : <<x, m>> \in PairsOf(doing'[s]) => ReadFits(s, x, m)'
<1>1. /\ linked' = linked /\ queues' = queues /\ memberships' = memberships
      /\ access' = access /\ exempt' = exempt
      /\ doing' = [doing EXCEPT ![r] = task] /\ groupAt'[r] = "begun"
  BY DEF BeginTask, groupRows, Advances, GroupTypeOK
<1>2. BeingMade(x) => BeingMade(x)'
  <2>1. ~GrantQueue(r)
    BY DEF BeginTask, Advances, GrantQueue
  <2> QED BY <2>1, BeingMadeStays
<1>3. PairFits(x, m)'
  BY <1>1, <1>2 DEF PairFits, Linked, Belongs, Exists, Home, RoleAt
<1>4. ASSUME NEW s \in GroupRequests, <<x, m>> \in PairsOf(doing'[s]) PROVE ReadFits(s, x, m)'
  <2>1. CASE s = r
    BY <1>1, <2>1 DEF ReadFits
  <2>2. CASE s # r
    <3>1. SameDoing(s)
      BY <2>2, OtherRequests
    <3>2. ReadFits(s, x, m)
      BY <1>4, <3>1 DEF SameDoing
    <3> QED BY <1>1, <3>1, <3>2 DEF SameDoing, ReadFits, Linked, Belongs, Home, RoleAt
  <2> QED BY <2>1, <2>2
<1> QED BY <1>3, <1>4

LEMMA DisturbedGrows ==
  ASSUME NEW r \in GroupRequests, GroupStep(r) \/ \E task \in Tasks : BeginTask(r, task)
  PROVE  disturbed \subseteq disturbed'
BY GroupCases DEF ReadSteps, ReadSectors, ReadQueues, RefuseSector, ReadManagers, ReadGroup, ReadForRemoval,
       RefuseRemoval, DeleteGroup, ReadAgents, MemberSteps, AuthorizeMember, UnauthorizeMember,
       EnsureMembership, EnableQueue, DisableQueue, SectorSteps, LinkSector, UnlinkSector, MakeSteps,
       SaveQueue, GrantQueue, BeginTask, Grants, Withdraws

LEMMA OnOrEnds ==
  ASSUME GroupTypeOK, NEW r \in GroupRequests, GroupStep(r)
  PROVE  doing'[r] \in {doing[r], Idle}
BY GroupCases DEF ReadSteps, ReadSectors, ReadQueues, RefuseSector, ReadManagers, ReadGroup, ReadForRemoval,
       RefuseRemoval, DeleteGroup, ReadAgents, MemberSteps, AuthorizeMember, UnauthorizeMember,
       EnsureMembership, EnableQueue, DisableQueue, SectorSteps, LinkSector, UnlinkSector, MakeSteps,
       SaveQueue, GrantQueue, Advances, EndsRequest, GroupTypeOK

LEMMA GroupPairStep ==
  ASSUME GroupTypeOK, GroupInv, NEW r \in GroupRequests, GroupStep(r),
         NEW x \in Places, NEW m \in GroupMembers, <<x, m>> \notin disturbed'
  PROVE  /\ PairFits(x, m)'
         /\ \A s \in GroupRequests : <<x, m>> \in PairsOf(doing'[s]) => ReadFits(s, x, m)'
<1>1. <<x, m>> \notin disturbed
  BY DisturbedGrows
<1>2. /\ PairFits(x, m)
      /\ \A s \in GroupRequests : <<x, m>> \in PairsOf(doing[s]) => ReadFits(s, x, m)
      /\ GroupRequestFits(r) /\ OnlyExisting
  BY <1>1 DEF GroupInv, OnlyExisting
<1>3. CASE <<x, m>> \in PairsOf(doing[r])
  <2>1. PairFits(x, m)' /\ (<<x, m>> \in PairsOf(doing'[r]) => ReadFits(r, x, m)')
    <3>1. ReadFits(r, x, m)
      BY <1>2, <1>3
    <3>2. CASE ReadSteps(r)
      BY <1>2, <1>3, <3>1, <3>2, PairWhenRead, ReadWhenRead
    <3>3. CASE MemberSteps(r)
      BY <1>2, <1>3, <3>1, <3>3, PairByMember
    <3>4. CASE SectorSteps(r)
      BY <1>2, <1>3, <3>1, <3>4, PairBySector
    <3>5. CASE MakeSteps(r)
      BY <1>2, <1>3, <3>1, <3>5, PairByQueue
    <3> QED BY <3>2, <3>3, <3>4, <3>5, GroupCases
  <2>2. ASSUME NEW s \in GroupRequests, s # r, <<x, m>> \in PairsOf(doing'[s]) PROVE ReadFits(s, x, m)'
    <3>1. <<x, m>> \in PairsOf(doing[s])
      BY <2>2, OtherRequests DEF SameDoing
    <3> QED BY <1>2, <2>2, <3>1, ReadByOthers
  <2> QED BY <2>1, <2>2
<1>4. CASE <<x, m>> \notin PairsOf(doing[r])
  <2>1. PairFits(x, m)'
    BY <1>2, <1>4, PairByOthers
  <2>2. ASSUME NEW s \in GroupRequests, <<x, m>> \in PairsOf(doing'[s]) PROVE ReadFits(s, x, m)'
    <3>1. s # r
      BY <1>4, <2>2, OnOrEnds, IdleIsAboutNothing
    <3>2. <<x, m>> \in PairsOf(doing[s])
      BY <2>2, <3>1, OtherRequests DEF SameDoing
    <3> QED BY <1>2, <3>1, <3>2, ReadByOthers
  <2> QED BY <2>1, <2>2
<1> QED BY <1>3, <1>4

LEMMA GroupInvStep ==
  ASSUME GroupTypeOK, GroupInv, [GroupNext]_groupVars
  PROVE  GroupTypeOK' /\ GroupInv'
<1>1. CASE UNCHANGED groupVars
  <2>1. GroupTypeOK'
    BY <1>1 DEF GroupTypeOK, groupVars, groupRows, requestState
  <2>2. GroupInv'
    BY <1>1 DEF GroupInv, groupVars, groupRows, requestState, GroupRequestFits, PairFits, ReadFits, BeingMade, Linked,
                Belongs, Exists
  <2> QED BY <2>1, <2>2
<1>2. ASSUME NEW r \in GroupRequests, GroupStep(r) \/ \E task \in Tasks : BeginTask(r, task)
      PROVE  GroupTypeOK' /\ GroupInv'
  <2>0. (\A s \in GroupRequests : GroupRequestFits(s)) /\ OnlyExisting
    BY DEF GroupInv, OnlyExisting
  <2>1. GroupTypeOK'
    BY <1>2, GroupTypeStep
  <2>2. \A s \in GroupRequests : GroupRequestFits(s)'
    BY <1>2, <2>0, RequestFitsStep
  <2>3. OnlyExisting'
    BY <1>2, <2>0, OnlyExistingStep
  <2>4. ASSUME NEW x \in Places, NEW m \in GroupMembers, <<x, m>> \notin disturbed'
        PROVE  /\ PairFits(x, m)'
               /\ \A s \in GroupRequests : <<x, m>> \in PairsOf(doing'[s]) => ReadFits(s, x, m)'
    <3>1. CASE GroupStep(r)
      BY <2>4, <3>1, GroupPairStep
    <3>2. ASSUME NEW task \in Tasks, BeginTask(r, task)
          PROVE  /\ PairFits(x, m)'
                 /\ \A s \in GroupRequests : <<x, m>> \in PairsOf(doing'[s]) => ReadFits(s, x, m)'
      <4>1. <<x, m>> \notin disturbed
        BY <2>4, <3>2, DisturbedGrows
      <4>2. PairFits(x, m) /\ \A s \in GroupRequests : <<x, m>> \in PairsOf(doing[s]) => ReadFits(s, x, m)
        BY <4>1 DEF GroupInv
      <4> QED BY <2>0, <3>2, <4>2, BeginsApart
    <3> QED BY <1>2, <3>1, <3>2
  <2>5. GroupInv'
    BY <2>2, <2>3, <2>4 DEF GroupInv, OnlyExisting
  <2> QED BY <2>1, <2>5
<1> QED BY <1>1, <1>2 DEF GroupNext

LEMMA GroupStarts == GroupInit => GroupTypeOK /\ GroupInv
<1> SUFFICES ASSUME GroupInit PROVE GroupTypeOK /\ GroupInv
  OBVIOUS
<1>0. begun \in 0..MaxGroupRequests
  BY GroupAssumption DEF GroupInit
<1>1. GroupTypeOK
  BY <1>0, GroupAssumption DEF GroupInit, GroupTypeOK
<1>2. \A r \in GroupRequests : GroupRequestFits(r)
  BY IdleIsNoTask DEF GroupInit, GroupRequestFits, OnPeople, OnQueues, ForAgent, Removes
<1>3. \A x \in Places, m \in GroupMembers, r \in GroupRequests : <<x, m>> \notin PairsOf(doing[r])
  BY IdleIsAboutNothing DEF GroupInit
<1>4. \A x \in Places, m \in GroupMembers : PairFits(x, m)
  BY DEF GroupInit, PairFits, Belongs
<1> QED BY <1>1, <1>2, <1>3, <1>4 DEF GroupInit, GroupInv

LEMMA GroupInvHolds == GroupTypeOK /\ GroupInv => GroupsHold
<1> SUFFICES ASSUME GroupTypeOK, GroupInv PROVE GroupsHold
  OBVIOUS
<1>1. ASSUME NEW x \in Places, NEW m \in GroupMembers, Settled(<<x, m>>) PROVE PairFits(x, m) /\ ~BeingMade(x)
  <2>1. ~BeingMade(x)
    <3> SUFFICES ASSUME NEW r \in GroupRequests, doing[r].kind = "create", doing[r].queue = x PROVE FALSE
      BY DEF BeingMade
    <3>1. <<x, m>> \in PairsOf(doing[r])
      BY AboutFacts DEF GroupTypeOK
    <3> QED BY <1>1, <3>1 DEF Settled
  <2> QED BY <1>1, <2>1 DEF GroupInv, Settled
<1>2. ASSUME NEW q \in QueuesOf(linked), NEW m \in GroupMembers, <<m, "agent">> \in memberships, Settled(<<q, m>>)
      PROVE  <<q, m>> \in access \cup exempt
  <2>1. q \in queues /\ q \in SectorQueues /\ q \in Places /\ q \notin Sectors /\ SectorOf[q] \in linked
    BY GroupAssumption DEF QueuesOf, GroupTypeOK, Places
  <2>2. PairFits(q, m) /\ ~BeingMade(q)
    BY <1>1, <1>2, <2>1
  <2> QED BY <1>2, <2>1, <2>2 DEF PairFits, Linked, Belongs, Exists, Home, RoleAt
<1>3. ASSUME NEW s \in linked, NEW m \in GroupMembers, <<m, "manager">> \in memberships, Settled(<<s, m>>)
      PROVE  <<s, m>> \in access
  <2>1. s \in Sectors /\ s \in Places /\ s \notin SectorQueues
    BY GroupAssumption DEF GroupTypeOK, Places
  <2>2. PairFits(s, m) /\ ~BeingMade(s)
    BY <1>1, <1>3, <2>1
  <2>3. <<s, m>> \notin exempt
    BY <2>1 DEF GroupTypeOK
  <2> QED BY <1>3, <2>1, <2>2, <2>3 DEF PairFits, Linked, Belongs, Exists, Home, RoleAt
<1>4. ASSUME NEW pair \in access, Settled(pair)
      PROVE  IF pair[1] \in Sectors
             THEN pair[1] \in linked /\ <<pair[2], "manager">> \in memberships
             ELSE SectorOf[pair[1]] \in linked /\ <<pair[2], "agent">> \in memberships
  <2>1. PICK x \in Places, m \in GroupMembers : pair = <<x, m>>
    BY DEF GroupTypeOK
  <2>2. PairFits(x, m)
    BY <1>1, <1>4, <2>1
  <2> QED BY <1>4, <2>1, <2>2 DEF PairFits, Linked, Belongs, Home, RoleAt
<1> QED BY <1>2, <1>3, <1>4 DEF GroupsHold, MembersReach, OnlyMembersReach

(***************************************************************************)
(* The rows of a group, and what its requests read, are of their types.    *)
(***************************************************************************)
THEOREM GroupsType == GroupSpec => []GroupTypeOK
<1>1. GroupInit => GroupTypeOK /\ GroupInv
  BY GroupStarts
<1>2. GroupTypeOK /\ GroupInv /\ [GroupNext]_groupVars => (GroupTypeOK /\ GroupInv)'
  BY GroupInvStep
<1> QED BY <1>1, <1>2, PTL DEF GroupSpec

(***************************************************************************)
(* Access follows the group, whatever came first: whoever belongs to it    *)
(* has its sectors or queues, but those he was not given by what was asked, *)
(* and nobody keeps what he was given as a member                          *)
(* (chats/apps/sectors/usecases).                                          *)
(***************************************************************************)
THEOREM GroupsFollow == GroupSpec => []GroupsHold
<1>1. GroupInit => GroupTypeOK /\ GroupInv
  BY GroupStarts
<1>2. GroupTypeOK /\ GroupInv /\ [GroupNext]_groupVars => (GroupTypeOK /\ GroupInv)'
  BY GroupInvStep
<1>3. GroupTypeOK /\ GroupInv => GroupsHold
  BY GroupInvHolds
<1> QED BY <1>1, <1>2, <1>3, PTL DEF GroupSpec

-----------------------------------------------------------------------------
(* MCAgents.  The components share no variable: a step of the run is a     *)
(* step of one of them and a stutter of the others.                        *)

agentsVars == <<component, agentsState>>

LEMMA StepsAreSteps ==
  [AgentsNext]_agentsVars =>
      /\ [Next]_vars /\ [WaitsNext]_waitVars
      /\ [SetupNext]_setupVars /\ [TimesNext]_timesVars
      /\ [ViewsNext]_viewVars /\ [FeedbacksNext]_feedbackVars /\ [GroupNext]_groupVars
      /\ [MessagesNext]_messageVars /\ [StatusNext]_statusVars /\ UNCHANGED component
<1>1. CASE AgentsNext
  BY <1>1 DEF AgentsNext, agentsState
<1>2. CASE UNCHANGED agentsVars
  BY <1>2 DEF agentsVars, agentsState
<1>3. QED
  BY <1>1, <1>2

LEMMA RunIsComponents ==
  AgentsSpec => /\ Spec /\ WaitsSpec /\ SetupSpec
                /\ TimesSpec /\ ViewsSpec /\ FeedbacksSpec
                /\ GroupSpec /\ MessagesSpec /\ StatusSpec
<1>1. AgentsInit => /\ Init /\ WaitsInit /\ SetupInit
                    /\ TimesInit /\ ViewsInit /\ FeedbacksInit
                    /\ GroupInit /\ MessagesInit /\ StatusInit
  BY DEF AgentsInit
<1>2. QED
  BY <1>1, StepsAreSteps, PTL
     DEF AgentsSpec, agentsVars, Spec, WaitsSpec, SetupSpec, TimesSpec, ViewsSpec,
         FeedbacksSpec, GroupSpec, MessagesSpec, StatusSpec

(***************************************************************************)
(* The state of everything that concerns agents keeps its types.           *)
(***************************************************************************)
THEOREM AgentsTypeCorrect == AgentsSpec => []AgentsTypeOK
<1>1. SetupInv => SetupTypeOK
  BY DEF SetupInv
<1>2. TimesInv => TimesTypeOK
  BY DEF TimesInv
<1>3. QED
  BY <1>1, <1>2, RunIsComponents, StatusTypeCorrect, WaitsTypeCorrect,
     SetupTypeCorrect, TimesAreKept, ViewsTypeCorrect, FeedbacksTypeCorrect, GroupsType,
     MessagesType, StatusesType, PTL DEF AgentsTypeOK

(***************************************************************************)
(* In the run that puts agents together, breaks are replaced through their *)
(* own close_status, and what is shown of rooms fits with what may be done *)
(* with them.                                                              *)
(***************************************************************************)
THEOREM AgentsKeepPromises == AgentsSpec => BreakHolds /\ []ViewsHold
  BY RunIsComponents, BreaksHold, ShownMayAct, PTL

-----------------------------------------------------------------------------
(* ProjectSetup, continued.  A project that exists has one setup that goes *)
(* on or went through; each message has done what is behind its stage.     *)

\* e has begun to write.
Beyond(e) == Underway(e) /\ at[e] \notin {"start", "admitted"}

\* What each stage says of the message and of the sector it is at.
StageFits(e) ==
    /\ Subject(e) = "feature" => at[e] \in {"start", "sectors", "queue", "ticketer", "end"}
    /\ Subject(e) = "update" => at[e] \in {"start", "end"}
    /\ at[e] \in {"start", "admitted", "created", "granted", "end"} => todo[e] = {}
    /\ at[e] \notin {"sector", "queue", "ticketer"} => current[e] = {}
    /\ Subject(e) = "project" /\ at[e] \in {"queue", "ticketer"} => current[e] \subseteq managed
    /\ at[e] = "ticketer" => current[e] \subseteq ready
    /\ current[e] \cap todo[e] = {}

StagesFit == \A e \in EventMessages : StageFits(e)

\* Only one message can have created the project.
OneCreator ==
    /\ \A e \in EventMessages : Beyond(e) => project
    /\ \A e, o \in About("project") : Beyond(e) /\ Beyond(o) => e = o
    /\ ~project => built = {}

SectorDone(s) ==
    \/ s \in managed \cap ready /\ ticketers[s] > 0
    \/ s \in FeatureSectors \cap built

\* The creator's message has done what is behind its stage.
Progresses(e) ==
    /\ at[e] # "created" => owner # "none"
    /\ at[e] \notin {"created", "granted"} =>
           others /\ \A s \in TemplateSectors : s \in todo[e] \cup current[e] \/ SectorDone(s)
    /\ at[e] \in {"created", "granted"} => built \subseteq FeatureSectors
    /\ todo[e] \cap built \subseteq FeatureSectors

SetupDone == owner # "none" /\ others /\ \A s \in TemplateSectors : SectorDone(s)

SetupGoesOn ==
    (project /\ cutShort \cap About("project") = {}) =>
        SetupDone \/ \E e \in About("project") : Beyond(e) /\ Progresses(e)

\* A feature's message has made what it has not to do any more.
FeaturesGoOn ==
    \A e \in About("feature") : Beyond(e) \/ place[e] = "acked" =>
        /\ todo[e] \cup current[e] \subseteq FeatureSectors
        /\ \A s \in FeatureSectors \ (todo[e] \cup current[e]) : s \in ready /\ ticketers[s] > 0

UpdatesStay ==
    \A e \in About("update") : place[e] = "acked" \/ at[e] = "end" => option \/ overwritten

\* The features that asked for the ticketer of s.
FeaturesAsked(s) ==
    {e \in About("feature") : /\ Beyond(e) \/ place[e] = "acked"
                              /\ s \notin todo[e] \cup current[e]}
CreatorAsked(s) == s \in managed /\ \A e \in About("project") : s \notin current[e]

TicketersAreCounted ==
    cutShort = {} => \A s \in SetupSectors :
        ticketers[s] <= (IF CreatorAsked(s) THEN 1 ELSE 0)
            + (IF s \in FeatureSectors THEN Cardinality(FeaturesAsked(s)) ELSE 0)

SetupStays == SetupInv /\ StagesFit /\ OneCreator

\* Of all messages but e nothing changes.
OthersStay(e) ==
    \A o \in EventMessages \ {e} :
        /\ place'[o] = place[o] /\ at'[o] = at[o] /\ todo'[o] = todo[o]
        /\ current'[o] = current[o]

\* A message moves between the services and the queues, or is taken.
Shuffled ==
    /\ UNCHANGED <<at, todo, current, projectRows, sectorRows, cutShort, overwritten>>
    /\ \A o \in EventMessages : /\ Beyond(o)' <=> Beyond(o)
                                /\ place'[o] = "acked" <=> place[o] = "acked"

\* e is given up, killed, or acknowledged at its end.
EventEnds(e) ==
    /\ OthersStay(e)
    /\ at'[e] = "start" /\ todo'[e] = {} /\ current'[e] = {} /\ place'[e] # "taken"
    /\ UNCHANGED <<projectRows, sectorRows, overwritten>>
    /\ Underway(e) /\ (place'[e] = "acked" => at[e] = "end")
    /\ place'[e] # "acked" /\ Beyond(e) => e \in cutShort'
    /\ cutShort \subseteq cutShort' /\ cutShort' \subseteq cutShort \cup {e}

LEMMA ShufflesAre ==
  ASSUME SetupInv, NEW e \in EventMessages,
         ExpireEvent(e) \/ ReceiveEvent(e) \/ DropDead(e)
  PROVE  Shuffled
<1>1. UNCHANGED <<at, todo, current, projectRows, sectorRows, cutShort, overwritten>>
  BY DEF ExpireEvent, ReceiveEvent, DropDead, setupHistory
<1>2. \A o \in EventMessages : place'[o] # place[o] =>
          /\ o = e /\ place[o] \notin {"taken", "acked"} /\ place'[o] # "acked"
  BY DEF ExpireEvent, ReceiveEvent, DropDead, SetupInv, SetupTypeOK
<1>3. \A o \in EventMessages : place[o] # "taken" => at[o] = "start"
  BY DEF SetupInv, SetupTypeOK
<1>4. QED
  BY <1>1, <1>2, <1>3 DEF Shuffled, Beyond, Underway

LEMMA SettlingsAre ==
  ASSUME SetupInv, NEW e \in EventMessages,
         AckEvent(e) \/ KillConsumer(e) \/ RefuseProject(e) \/ RefuseOthers(e) \/ CreatorCollides(e)
  PROVE  EventEnds(e)
<1>1. ASSUME NEW p \in {"queued", "acked", "dead"}, Settle(e, p)
      PROVE  /\ OthersStay(e) /\ at'[e] = "start" /\ todo'[e] = {} /\ current'[e] = {}
             /\ place'[e] = p
  BY <1>1 DEF Settle, OthersStay, SetupInv, SetupTypeOK
<1>2. CASE AckEvent(e)
  BY <1>1, <1>2 DEF AckEvent, EventEnds, setupHistory
<1>3. CASE KillConsumer(e)
  BY <1>1, <1>3 DEF KillConsumer, EventEnds, Beyond
<1>4. CASE RefuseProject(e) \/ RefuseOthers(e)
  BY <1>1, <1>4 DEF RefuseProject, RefuseOthers, Reject, EventEnds, Beyond, setupHistory
<1>5. CASE CreatorCollides(e)
  BY <1>1, <1>5 DEF CreatorCollides, Reject, EventEnds, Underway
<1>6. QED
  BY <1>2, <1>3, <1>4, <1>5

\* A step of e's own: it stays underway, and what it does shows in its stage.
LEMMA GoesOn ==
  ASSUME SetupInv, NEW e \in EventMessages, NEW from, NEW to, Go(e, from, to)
  PROVE  /\ Underway(e) /\ Underway(e)' /\ at[e] = from /\ at'[e] = to /\ place' = place
         /\ \A o \in EventMessages \ {e} : at'[o] = at[o]
  BY DEF Go, Underway, SetupInv, SetupTypeOK

LEMMA StagesStillFit ==
  ASSUME SetupStays, [SetupNext]_setupVars PROVE StagesFit'
<1>0. /\ \A e \in EventMessages : StageFits(e)
      /\ \A e \in EventMessages : Subject(e) \in {"project", "feature", "update"}
      /\ todo \in [EventMessages -> SUBSET SetupSectors]
      /\ current \in [EventMessages -> SUBSET SetupSectors]
      /\ SetupInv
  BY SetupAssumption
     DEF SetupStays, StagesFit, Subject, SetupAssumption, SetupInv, SetupTypeOK
<1>1. ASSUME NEW e \in EventMessages, OthersStay(e), StageFits(e)',
             managed \subseteq managed', ready \subseteq ready'
      PROVE  StagesFit'
  <2>1. ASSUME NEW o \in EventMessages \ {e} PROVE StageFits(o)'
    BY <1>0, <1>1, <2>1 DEF OthersStay, StageFits, Subject
  <2>2. QED
    BY <1>1, <2>1 DEF StagesFit
<1>2. CASE UNCHANGED <<at, todo, current, managed, ready>>
  BY <1>0, <1>2 DEF StagesFit, StageFits, Subject
<1>3. ASSUME NEW e \in EventMessages, EventEnds(e) PROVE StagesFit'
  BY <1>1, <1>3 DEF EventEnds, StageFits, sectorRows, Subject
<1>4. ASSUME NEW e \in EventMessages,
             \/ AdmitProject(e) \/ CreateProject(e) \/ GrantCreator(e) \/ GrantOthers(e)
             \/ BeginFeature(e) \/ UpdateConfig(e)
      PROVE  StagesFit'
  BY <1>0, <1>1, <1>4, GoesOn
     DEF AdmitProject, CreateProject, GrantCreator, GrantOthers, BeginFeature, UpdateConfig,
         OthersStay, StageFits, Subject, sectorRows
<1>5. ASSUME NEW e \in EventMessages, SaveProject(e) \/ EndFeature(e) PROVE StagesFit'
  BY <1>0, <1>1, <1>5, GoesOn
     DEF SaveProject, EndFeature, OthersStay, StageFits, Subject, sectorRows
<1>6. ASSUME NEW e \in EventMessages, NEW s \in SetupSectors, BeginSector(e, s)
      PROVE  StagesFit'
  BY <1>0, <1>1, <1>6, GoesOn DEF BeginSector, OthersStay, StageFits, Subject
<1>7. ASSUME NEW e \in EventMessages, NEW s \in SetupSectors, SkipSector(e, s)
      PROVE  StagesFit'
  BY <1>0, <1>1, <1>7 DEF SkipSector, OthersStay, StageFits, Subject, sectorRows
<1>8. ASSUME NEW e \in EventMessages, GrantManager(e) \/ AddQueue(e) \/ RequestTicketer(e)
      PROVE  StagesFit'
  BY <1>0, <1>1, <1>8, GoesOn
     DEF GrantManager, AddQueue, RequestTicketer, OthersStay, StageFits, Subject
<1>9. QED
  <2>1. CASE SetupNext
    BY <1>0, <1>2, <1>3, <1>4, <1>5, <1>6, <1>7, <1>8, <2>1, ShufflesAre, SettlingsAre
       DEF SetupNext, Consume, Shuffled, OrderPermission, eventVars, sectorRows
  <2>2. QED
    BY <1>2, <2>1 DEF setupVars, eventVars, sectorRows

LEMMA CreatorStaysAlone ==
  ASSUME SetupStays, [SetupNext]_setupVars PROVE OneCreator'
<1>0. /\ \A e \in EventMessages : StageFits(e)
      /\ \A e \in EventMessages : Subject(e) \in {"project", "feature", "update"}
      /\ SetupInv /\ OneCreator
      /\ \A e : e \in About("project") => e \in EventMessages /\ Subject(e) = "project"
  BY SetupAssumption
     DEF SetupStays, StagesFit, Subject, SetupAssumption, About
<1>1. ASSUME NEW e \in EventMessages, \A o \in EventMessages \ {e} : Beyond(o)' <=> Beyond(o),
             Beyond(e)' => Beyond(e) \/ (Subject(e) # "project" /\ project),
             project' = project, ~project => built' = built
      PROVE  OneCreator'
  BY <1>0, <1>1 DEF OneCreator, About, Subject
<1>2. ASSUME NEW e \in EventMessages, EventEnds(e) PROVE OneCreator'
  BY <1>1, <1>2 DEF EventEnds, OthersStay, Beyond, Underway, projectRows, sectorRows
<1>3. ASSUME NEW e \in EventMessages, CreateProject(e) PROVE OneCreator'
  <2>1. \A o \in EventMessages : ~Beyond(o)
    BY <1>0, <1>3 DEF CreateProject, OneCreator
  <2>2. project' /\ \A o \in EventMessages : Beyond(o)' => o = e
    BY <1>0, <1>3, <2>1, GoesOn DEF CreateProject, Beyond, Underway
  <2>3. QED
    BY <2>2 DEF OneCreator, About
<1>4. ASSUME NEW e \in EventMessages,
             \/ AdmitProject(e) \/ GrantCreator(e) \/ GrantOthers(e)
             \/ SaveProject(e) \/ EndFeature(e)
             \/ GrantManager(e) \/ AddQueue(e) \/ RequestTicketer(e)
      PROVE  OneCreator'
  <2>1. project' = project /\ built' = built
    BY <1>4 DEF AdmitProject, GrantCreator, GrantOthers, SaveProject, EndFeature, GrantManager,
                AddQueue, RequestTicketer, projectRows, sectorRows
  <2>2. \A o \in EventMessages \ {e} : Beyond(o)' <=> Beyond(o)
    BY <1>0, <1>4, GoesOn
       DEF AdmitProject, GrantCreator, GrantOthers, SaveProject, EndFeature, GrantManager,
           AddQueue, RequestTicketer, Beyond, Underway
  <2>3. Beyond(e)' => Beyond(e)
    BY <1>0, <1>4, GoesOn
       DEF AdmitProject, GrantCreator, GrantOthers, SaveProject, EndFeature, GrantManager,
           AddQueue, RequestTicketer, Beyond
  <2>4. QED
    BY <1>1, <1>4, <2>1, <2>2, <2>3
<1>5. ASSUME NEW e \in EventMessages, BeginFeature(e) \/ UpdateConfig(e) PROVE OneCreator'
  BY <1>0, <1>1, <1>5, GoesOn
     DEF BeginFeature, UpdateConfig, Beyond, Underway, projectRows, sectorRows
<1>6. ASSUME NEW e \in EventMessages, NEW s \in SetupSectors, BeginSector(e, s) \/ SkipSector(e, s)
      PROVE  OneCreator'
  <2>1. Beyond(e) /\ project
    BY <1>0, <1>6, GoesOn DEF BeginSector, SkipSector, Beyond, OneCreator
  <2>2. \A o \in EventMessages \ {e} : Beyond(o)' <=> Beyond(o)
    BY <1>0, <1>6, GoesOn DEF BeginSector, SkipSector, Beyond, Underway
  <2>3. QED
    BY <1>1, <1>6, <2>1, <2>2 DEF BeginSector, SkipSector, projectRows
<1>7. CASE Shuffled \/ UNCHANGED <<eventVars, project, sectorRows>>
  BY <1>0, <1>7 DEF Shuffled, OneCreator, About, Beyond, Underway, projectRows, sectorRows,
                    eventVars
<1>8. QED
  <2>1. CASE SetupNext
    BY <1>0, <1>2, <1>3, <1>4, <1>5, <1>6, <1>7, <2>1, ShufflesAre, SettlingsAre
       DEF SetupNext, Consume, OrderPermission
  <2>2. QED
    BY <1>7, <2>1 DEF setupVars, projectRows

\* Rows are never taken away.
RowsGrow ==
    /\ built \subseteq built' /\ managed \subseteq managed' /\ ready \subseteq ready'
    /\ \A s \in SetupSectors : ticketers[s] <= ticketers'[s]
    /\ project => project'
    /\ others => others'
    /\ owner # "none" => owner' # "none"
    /\ cutShort \subseteq cutShort'

LEMMA RowsOnlyGrow ==
  ASSUME SetupInv, [SetupNext]_setupVars PROVE RowsGrow
<1> DEFINE Same == UNCHANGED <<projectRows, sectorRows>>
<1>0. /\ \A s \in SetupSectors : ticketers[s] \in Nat
      /\ ticketers \in [SetupSectors -> Nat]
  BY DEF SetupInv, SetupTypeOK
<1>1. ASSUME Same, cutShort \subseteq cutShort' PROVE RowsGrow
  BY <1>0, <1>1 DEF RowsGrow, projectRows, sectorRows
<1>2. ASSUME NEW e \in EventMessages, EventEnds(e) PROVE RowsGrow
  BY <1>1, <1>2 DEF EventEnds
<1>3. ASSUME NEW e \in EventMessages,
             \/ AdmitProject(e) \/ BeginFeature(e) \/ EndFeature(e)
             \/ \E s \in SetupSectors : SkipSector(e, s)
      PROVE  RowsGrow
  BY <1>1, <1>3 DEF AdmitProject, BeginFeature, EndFeature, SkipSector, setupHistory
<1>4. ASSUME NEW e \in EventMessages,
             \/ CreateProject(e) \/ GrantCreator(e) \/ GrantOthers(e) \/ UpdateConfig(e)
             \/ SaveProject(e)
      PROVE  RowsGrow
  BY <1>0, <1>4
     DEF CreateProject, GrantCreator, GrantOthers, UpdateConfig, SaveProject, RowsGrow, sectorRows,
         setupHistory
<1>5. ASSUME NEW role \in {"agent", "admin"}, OrderPermission(role) PROVE RowsGrow
  BY <1>0, <1>5 DEF OrderPermission, RowsGrow, sectorRows, setupHistory
<1>6. ASSUME NEW e \in EventMessages,
             \/ GrantManager(e) \/ AddQueue(e) \/ RequestTicketer(e)
             \/ \E s \in SetupSectors : BeginSector(e, s)
      PROVE  RowsGrow
  BY <1>0, <1>6
     DEF GrantManager, AddQueue, RequestTicketer, BeginSector, RowsGrow, projectRows, setupHistory
<1>7. CASE Shuffled
  BY <1>1, <1>7 DEF Shuffled
<1>8. QED
  <2>1. CASE SetupNext
    BY <1>2, <1>3, <1>4, <1>5, <1>6, <1>7, <2>1, ShufflesAre, SettlingsAre DEF SetupNext, Consume
  <2>2. QED
    BY <1>1, <2>1 DEF setupVars, setupHistory

\* What is done stays done.
LEMMA DoneStays ==
  ASSUME SetupInv, SetupInv', RowsGrow, NEW s \in SetupSectors
  PROVE  /\ SectorDone(s) => SectorDone(s)'
         /\ s \in ready /\ ticketers[s] > 0 => s \in ready' /\ ticketers'[s] > 0
<1>1. ticketers[s] \in Nat /\ ticketers'[s] \in Nat /\ ticketers[s] <= ticketers'[s]
  BY DEF SetupInv, SetupTypeOK, RowsGrow
<1>2. QED
  BY <1>1 DEF RowsGrow, SectorDone

\* A message's own steps are no other's.
LEMMA OthersAreLeft ==
  ASSUME SetupInv, NEW e \in EventMessages,
         \/ AdmitProject(e) \/ CreateProject(e) \/ GrantCreator(e) \/ GrantOthers(e)
         \/ GrantManager(e) \/ AddQueue(e) \/ RequestTicketer(e) \/ SaveProject(e)
         \/ BeginFeature(e) \/ EndFeature(e) \/ UpdateConfig(e)
         \/ \E s \in SetupSectors : BeginSector(e, s) \/ SkipSector(e, s)
  PROVE  OthersStay(e)
<1> USE DEF OthersStay, SetupInv, SetupTypeOK
<1>1. CASE AdmitProject(e) \/ CreateProject(e) \/ GrantCreator(e) \/ GrantOthers(e)
  BY <1>1, GoesOn DEF AdmitProject, CreateProject, GrantCreator, GrantOthers
<1>2. CASE GrantManager(e) \/ AddQueue(e) \/ RequestTicketer(e) \/ SaveProject(e)
  BY <1>2, GoesOn DEF GrantManager, AddQueue, RequestTicketer, SaveProject
<1>3. CASE BeginFeature(e) \/ EndFeature(e) \/ UpdateConfig(e)
  BY <1>3, GoesOn DEF BeginFeature, EndFeature, UpdateConfig
<1>4. CASE \E s \in SetupSectors : BeginSector(e, s) \/ SkipSector(e, s)
  BY <1>4, GoesOn DEF BeginSector, SkipSector
<1>5. QED
  BY <1>1, <1>2, <1>3, <1>4

LEMMA SetupStillGoesOn ==
  ASSUME SetupStays, SetupStays', FeaturesGoOn, SetupGoesOn, [SetupNext]_setupVars
  PROVE  SetupGoesOn'
<1>0. /\ SetupInv /\ SetupInv' /\ RowsGrow
      /\ \A e \in EventMessages : StageFits(e)
      /\ \A e : e \in About("project") => e \in EventMessages /\ Subject(e) = "project"
      /\ TemplateSectors \subseteq SetupSectors /\ FeatureSectors \subseteq SetupSectors
  BY RowsOnlyGrow DEF SetupStays, StagesFit, About, SetupSectors
<1> SUFFICES ASSUME project', cutShort' \cap About("project") = {}
             PROVE  SetupDone' \/ \E e \in About("project") : Beyond(e)' /\ Progresses(e)'
  BY DEF SetupGoesOn, About, Subject
<1>1. cutShort \cap About("project") = {}
  BY <1>0 DEF RowsGrow
<1>2. CASE ~project
  <2>1. PICK e \in EventMessages : CreateProject(e)
    <3>1. \E e \in EventMessages : CreateProject(e)
      BY <1>0, <1>2, ShufflesAre, SettlingsAre
         DEF SetupNext, Consume, Shuffled, EventEnds, projectRows, setupVars, OrderPermission,
             AdmitProject, GrantCreator, GrantOthers, BeginSector, SkipSector, GrantManager,
             AddQueue, RequestTicketer, SaveProject, BeginFeature, EndFeature, UpdateConfig
    <3>2. QED
      BY <3>1
  <2>2. /\ Subject(e) = "project" /\ at[e] = "admitted" /\ at'[e] = "created" /\ Underway(e)'
        /\ todo'[e] = {} /\ built = {} /\ built' = {}
    BY <1>0, <1>2, <2>1, SetupAssumption, GoesOn
       DEF CreateProject, StageFits, SetupStays, OneCreator, sectorRows, Subject, SetupAssumption
  <2>3. Beyond(e)' /\ Progresses(e)' /\ e \in About("project")
    BY <2>2 DEF Beyond, Underway, Progresses, About
  <2>4. QED
    BY <2>3
<1>3. CASE project /\ SetupDone
  <2>1. \A s \in TemplateSectors : SectorDone(s)'
    BY <1>0, <1>3, DoneStays DEF SetupDone
  <2>2. QED
    BY <1>0, <1>3, <2>1 DEF SetupDone, RowsGrow
<1>4. ASSUME project, NEW c \in About("project"), Beyond(c), Progresses(c)
      PROVE  SetupDone' \/ \E e \in About("project") : Beyond(e)' /\ Progresses(e)'
  <2> DEFINE Goal == SetupDone' \/ (Beyond(c)' /\ Progresses(c)')
  <2>0. /\ c \in EventMessages /\ Subject(c) = "project" /\ StageFits(c)
        /\ \A o \in About("project") : Beyond(o) => o = c
        /\ todo[c] \subseteq SetupSectors /\ current[c] \subseteq SetupSectors
    BY <1>0, <1>4 DEF SetupStays, OneCreator, SetupInv, SetupTypeOK
  <2>1. ASSUME place'[c] = place[c], at'[c] = at[c], todo'[c] = todo[c], current'[c] = current[c],
               built' \subseteq built \cup FeatureSectors
        PROVE  Beyond(c)' /\ Progresses(c)'
    <3>1. \A s \in TemplateSectors : SectorDone(s) => SectorDone(s)'
      BY <1>0, DoneStays
    <3>2. QED
      BY <1>0, <1>4, <2>1, <3>1 DEF Beyond, Underway, Progresses, RowsGrow
  <2>2. ASSUME UNCHANGED <<eventVars, sectorRows>> \/ Shuffled PROVE Goal
    <3>1. CASE UNCHANGED <<eventVars, sectorRows>>
      BY <1>4, <2>1, <3>1 DEF eventVars, sectorRows
    <3>2. CASE Shuffled
      <4>1. Beyond(c)' /\ at' = at /\ todo' = todo /\ current' = current
        BY <1>4, <2>0, <3>2 DEF Shuffled
      <4>2. Progresses(c)'
        BY <1>4, <3>2, <4>1 DEF Shuffled, Progresses, SectorDone, projectRows, sectorRows
      <4>3. QED
        BY <1>4, <4>1, <4>2
    <3>3. QED
      BY <2>2, <3>1, <3>2
  <2>3. ASSUME NEW e \in EventMessages, EventEnds(e) PROVE Goal
    <3>1. CASE e # c
      BY <2>0, <2>1, <2>3, <3>1 DEF EventEnds, OthersStay, sectorRows
    <3>2. CASE e = c
      <4>1. at[c] = "end" /\ todo[c] = {} /\ current[c] = {}
        BY <1>1, <1>4, <2>0, <2>3, <3>2 DEF EventEnds, StageFits
      <4>2. SetupDone
        BY <1>4, <4>1 DEF Progresses, SetupDone
      <4>3. SetupDone'
        BY <2>3, <4>2 DEF EventEnds, SetupDone, SectorDone, projectRows, sectorRows
      <4>4. QED
        BY <4>3
    <3>3. QED
      BY <3>1, <3>2
  <2>4. ASSUME NEW e \in EventMessages, e # c, OthersStay(e), built' \subseteq built \cup FeatureSectors
        PROVE  Goal
    BY <2>0, <2>1, <2>4 DEF OthersStay
  <2>5. ASSUME NEW e \in EventMessages,
               \/ AdmitProject(e) \/ CreateProject(e)
               \/ BeginFeature(e) \/ EndFeature(e) \/ UpdateConfig(e)
        PROVE  Goal
    <3>1. e # c
      BY <1>4, <2>0, <2>5, GoesOn
         DEF AdmitProject, CreateProject, BeginFeature, EndFeature, UpdateConfig, Beyond
    <3>2. built' = built
      BY <2>5 DEF AdmitProject, CreateProject, BeginFeature, EndFeature, UpdateConfig, sectorRows
    <3>3. QED
      BY <1>0, <2>4, <2>5, <3>1, <3>2, OthersAreLeft
  <2>6. ASSUME NEW e \in EventMessages, Subject(e) # "project",
               \/ GrantManager(e) \/ AddQueue(e) \/ RequestTicketer(e)
               \/ \E s \in SetupSectors : BeginSector(e, s) \/ SkipSector(e, s)
        PROVE  Goal
    <3>1. Subject(e) = "feature"
      BY <1>0, <2>6, SetupAssumption, GoesOn
         DEF StageFits, GrantManager, AddQueue, RequestTicketer, BeginSector, SkipSector,
             Subject, SetupAssumption
    <3>2. built' \subseteq built \cup FeatureSectors
      <4>1. CASE GrantManager(e) \/ AddQueue(e) \/ RequestTicketer(e)
        BY <4>1 DEF GrantManager, AddQueue, RequestTicketer
      <4>2. CASE \E s \in SetupSectors : BeginSector(e, s) \/ SkipSector(e, s)
        <5>1. PICK s \in SetupSectors : BeginSector(e, s)
          BY <3>1, <4>2 DEF SkipSector
        <5>2. Beyond(e) /\ s \in todo[e]
          BY <1>0, <5>1, GoesOn DEF BeginSector, Beyond
        <5>3. s \in FeatureSectors
          BY <3>1, <5>2 DEF FeaturesGoOn, About
        <5>4. QED
          BY <5>1, <5>3 DEF BeginSector
      <4>3. QED
        BY <2>6, <4>1, <4>2
    <3>3. QED
      BY <1>0, <2>0, <2>4, <2>6, <3>2, OthersAreLeft
  <2>7. ASSUME NEW e \in EventMessages, Subject(e) = "project", e # c,
               \/ GrantCreator(e) \/ GrantOthers(e) \/ SaveProject(e)
               \/ GrantManager(e) \/ AddQueue(e) \/ RequestTicketer(e)
               \/ \E s \in SetupSectors : BeginSector(e, s) \/ SkipSector(e, s)
        PROVE  FALSE
    <3>1. Beyond(e)
      BY <2>7
         DEF GrantCreator, GrantOthers, SaveProject, GrantManager, AddQueue, RequestTicketer,
             BeginSector, SkipSector, Go, Beyond
    <3>2. QED
      BY <2>0, <2>7, <3>1 DEF About
  <2>8. ASSUME GrantCreator(c) \/ GrantOthers(c) PROVE Goal
    <3>1. Beyond(c)'
      <4>1. Underway(c)' /\ at'[c] \in {"granted", "sectors"}
        BY <1>0, <2>0, <2>8, GoesOn DEF GrantCreator, GrantOthers
      <4>2. QED
        BY <4>1 DEF Beyond
    <3>2. CASE GrantCreator(c)
      BY <1>0, <1>4, <2>0, <3>1, <3>2, GoesOn
         DEF GrantCreator, Progresses, StageFits, sectorRows, SectorDone
    <3>3. CASE GrantOthers(c)
      <4>1. todo'[c] = TemplateSectors /\ others' /\ owner' = owner /\ built' = built
        BY <2>0, <3>3 DEF GrantOthers, sectorRows, SetupInv, SetupTypeOK, SetupStays
      <4>2. at[c] = "granted" /\ at'[c] = "sectors"
        BY <2>0, <1>0, <3>3, GoesOn DEF GrantOthers
      <4>3. Progresses(c)'
        BY <1>4, <4>1, <4>2 DEF Progresses
      <4>4. QED
        BY <3>1, <4>3
    <3>4. QED
      BY <2>8, <3>2, <3>3
  <2>9. ASSUME NEW s \in SetupSectors, BeginSector(c, s) \/ SkipSector(c, s) PROVE Goal
    <3>1. /\ at[c] = "sectors" /\ Beyond(c)' /\ at'[c] \in {"sectors", "sector"}
          /\ s \in todo[c] /\ todo'[c] = todo[c] \ {s}
          /\ UNCHANGED projectRows
      BY <1>0, <2>0, <2>9, GoesOn
         DEF BeginSector, SkipSector, Beyond, Underway, SetupInv, SetupTypeOK
    <3>2. /\ s \in current'[c] \/ SectorDone(s)
          /\ built' \subseteq built \cup {s} /\ current[c] = {}
      <4>1. CASE BeginSector(c, s)
        BY <1>0, <2>0, <3>1, <4>1 DEF BeginSector, StageFits, SetupInv, SetupTypeOK
      <4>2. CASE SkipSector(c, s)
        BY <1>4, <2>0, <3>1, <4>2 DEF SkipSector, StageFits, Progresses, SectorDone, sectorRows
      <4>3. QED
        BY <2>9, <4>1, <4>2
    <3>3. \A t \in TemplateSectors : SectorDone(t) => SectorDone(t)'
      BY <1>0, DoneStays
    <3>4. \A t \in TemplateSectors : t \in todo'[c] \cup current'[c] \/ SectorDone(t)'
      BY <1>0, <1>4, <3>1, <3>2, <3>3 DEF Progresses
    <3>5. QED
      BY <1>4, <3>1, <3>2, <3>4 DEF Progresses, projectRows
  <2>10. ASSUME GrantManager(c) \/ AddQueue(c) \/ RequestTicketer(c) PROVE Goal
    <3>1. /\ at[c] \in {"sector", "queue", "ticketer"} /\ Beyond(c)'
          /\ at'[c] \in {"queue", "ticketer", "sectors"}
          /\ todo' = todo /\ built' = built /\ UNCHANGED projectRows
      BY <1>0, <2>0, <2>10, GoesOn
         DEF GrantManager, AddQueue, RequestTicketer, Beyond, Underway
    <3>2. \A t \in TemplateSectors : SectorDone(t) => SectorDone(t)'
      BY <1>0, DoneStays
    <3>3. \A t \in current[c] : t \in current'[c] \/ SectorDone(t)'
      <4>1. CASE GrantManager(c) \/ AddQueue(c)
        BY <4>1 DEF GrantManager, AddQueue
      <4>2. CASE RequestTicketer(c)
        <5>1. current[c] \subseteq managed /\ current[c] \subseteq ready
          BY <2>0, <4>2, GoesOn, <1>0 DEF RequestTicketer, StageFits
        <5>2. \A t \in current[c] : ticketers'[t] = ticketers[t] + 1 /\ ticketers[t] \in Nat
          BY <1>0, <2>0, <4>2 DEF RequestTicketer, SetupInv, SetupTypeOK
        <5>3. QED
          BY <4>2, <5>1, <5>2 DEF RequestTicketer, SectorDone
      <4>3. QED
        BY <2>10, <4>1, <4>2
    <3>4. QED
      BY <1>4, <3>1, <3>2, <3>3 DEF Progresses, projectRows
  <2>11. ASSUME SaveProject(c) PROVE Goal
    <3>1. /\ at[c] = "sectors" /\ at'[c] = "end" /\ Beyond(c)'
          /\ UNCHANGED <<todo, current, owner, others, sectorRows>>
      BY <1>0, <2>0, <2>11, GoesOn DEF SaveProject, Beyond
    <3>2. QED
      BY <1>4, <3>1 DEF Progresses, SectorDone, sectorRows
  <2>12. ASSUME NEW e \in EventMessages, e # c, GrantCreator(e) \/ GrantOthers(e) \/ SaveProject(e)
         PROVE  FALSE
    <3>1. Subject(e) = "project" \/ at[e] \in {"created", "granted"}
      BY <1>0, <2>12, GoesOn DEF GrantCreator, GrantOthers, SaveProject
    <3>2. StageFits(e) /\ Subject(e) \in {"project", "feature", "update"}
      BY <1>0, SetupAssumption DEF Subject, SetupAssumption
    <3>3. Subject(e) = "project"
      BY <3>1, <3>2 DEF StageFits
    <3>4. QED
      BY <2>7, <2>12, <3>3
  <2>13. Goal
    <3>1. ASSUME NEW role \in {"agent", "admin"}, OrderPermission(role) PROVE Goal
      <4>1. /\ UNCHANGED <<eventVars, sectorRows, others>> /\ owner' # "none"
        BY <3>1 DEF OrderPermission
      <4>2. QED
        BY <1>4, <4>1 DEF eventVars, sectorRows, Beyond, Underway, Progresses, SectorDone
    <3>2. ASSUME NEW e \in EventMessages,
                 \/ GrantManager(e) \/ AddQueue(e) \/ RequestTicketer(e)
                 \/ \E s \in SetupSectors : BeginSector(e, s) \/ SkipSector(e, s)
          PROVE  Goal
      <4>1. CASE e = c
        BY <2>9, <2>10, <3>2, <4>1
      <4>2. CASE e # c /\ Subject(e) = "project"
        BY <2>7, <3>2, <4>2
      <4>3. CASE Subject(e) # "project"
        BY <2>6, <3>2, <4>3
      <4>4. QED
        BY <4>1, <4>2, <4>3
    <3>3. ASSUME NEW e \in EventMessages, GrantCreator(e) \/ GrantOthers(e) \/ SaveProject(e)
          PROVE  Goal
      BY <2>8, <2>11, <2>12, <3>3
    <3>4. ASSUME NEW e \in EventMessages,
                 ExpireEvent(e) \/ ReceiveEvent(e) \/ DropDead(e)
          PROVE  Goal
      BY <1>0, <2>2, <3>4, ShufflesAre
    <3>5. ASSUME NEW e \in EventMessages,
                 \/ AckEvent(e) \/ KillConsumer(e) \/ RefuseProject(e) \/ RefuseOthers(e)
                 \/ CreatorCollides(e)
          PROVE  Goal
      BY <1>0, <2>3, <3>5, SettlingsAre
    <3>6. CASE UNCHANGED setupVars
      BY <2>2, <3>6 DEF setupVars
    <3>7. QED
      BY <2>5, <3>1, <3>2, <3>3, <3>4, <3>5, <3>6 DEF SetupNext, Consume
  <2>14. QED
    BY <2>13
<1>5. QED
  BY <1>1, <1>2, <1>3, <1>4 DEF SetupGoesOn

LEMMA FeaturesStillGoOn ==
  ASSUME SetupStays, SetupStays', FeaturesGoOn, [SetupNext]_setupVars PROVE FeaturesGoOn'
<1>0. /\ SetupInv /\ SetupInv' /\ RowsGrow
      /\ \A e \in EventMessages : StageFits(e)
      /\ \A e : e \in About("feature") <=> e \in EventMessages /\ Subject(e) = "feature"
      /\ FeatureSectors \subseteq SetupSectors
      /\ todo \in [EventMessages -> SUBSET SetupSectors]
      /\ current \in [EventMessages -> SUBSET SetupSectors]
  BY RowsOnlyGrow DEF SetupStays, StagesFit, About, SetupSectors, SetupInv, SetupTypeOK
<1>1. \A s \in FeatureSectors : s \in ready /\ ticketers[s] > 0 => s \in ready' /\ ticketers'[s] > 0
  BY <1>0, DoneStays
<1> DEFINE Fine(e) ==
      Beyond(e) \/ place[e] = "acked" =>
        /\ todo[e] \cup current[e] \subseteq FeatureSectors
        /\ \A s \in FeatureSectors \ (todo[e] \cup current[e]) : s \in ready /\ ticketers[s] > 0
<1>2. \A e \in About("feature") : Fine(e)
  BY DEF FeaturesGoOn
<1>3. ASSUME NEW e \in EventMessages, OthersStay(e), Subject(e) = "feature" => Fine(e)'
      PROVE  FeaturesGoOn'
  <2>1. ASSUME NEW o \in About("feature"), o # e PROVE Fine(o)'
    BY <1>0, <1>1, <1>2, <1>3, <2>1 DEF OthersStay, Beyond, Underway
  <2>2. QED
    BY <1>0, <1>3, <2>1 DEF FeaturesGoOn, About, Subject
<1>4. ASSUME NEW e \in EventMessages, EventEnds(e) PROVE FeaturesGoOn'
  <2>1. ASSUME Subject(e) = "feature", place'[e] = "acked" PROVE Fine(e)'
    <3>1. Beyond(e) /\ todo[e] = {} /\ current[e] = {}
      BY <1>0, <1>4, <2>1 DEF EventEnds, Beyond, StageFits
    <3>2. \A s \in FeatureSectors : s \in ready /\ ticketers[s] > 0
      BY <1>0, <1>2, <2>1, <3>1
    <3>3. QED
      BY <1>1, <1>4, <3>2 DEF EventEnds
  <2>2. ~Beyond(e)'
    BY <1>4 DEF EventEnds, Beyond, Underway
  <2>3. QED
    BY <1>3, <1>4, <2>1, <2>2 DEF EventEnds
<1>5. ASSUME Shuffled PROVE FeaturesGoOn'
  <2>1. \A e \in About("feature") : Fine(e)'
    BY <1>0, <1>2, <1>5 DEF Shuffled, sectorRows
  <2>2. QED
    BY <2>1 DEF FeaturesGoOn, About, Subject
<1>6. ASSUME UNCHANGED eventVars PROVE FeaturesGoOn'
  <2>1. \A e \in About("feature") : Fine(e)'
    BY <1>0, <1>1, <1>2, <1>6 DEF eventVars, Beyond, Underway
  <2>2. QED
    BY <2>1 DEF FeaturesGoOn, About, Subject
<1>7. ASSUME NEW e \in EventMessages,
             \/ AdmitProject(e) \/ CreateProject(e) \/ GrantCreator(e) \/ GrantOthers(e)
             \/ SaveProject(e) \/ UpdateConfig(e) \/ GrantManager(e)
      PROVE  FeaturesGoOn'
  <2>1. \/ Subject(e) \in {"project", "update"}
        \/ at[e] \in {"admitted", "created", "granted", "sector"}
    BY <1>0, <1>7, GoesOn
       DEF AdmitProject, CreateProject, GrantCreator, GrantOthers, SaveProject, UpdateConfig,
           GrantManager
  <2>2. Subject(e) # "feature"
    BY <1>0, <2>1 DEF StageFits
  <2>3. QED
    BY <1>0, <1>3, <1>7, <2>2, OthersAreLeft
<1>8. ASSUME NEW e \in EventMessages, BeginFeature(e) PROVE FeaturesGoOn'
  <2>1. todo'[e] = FeatureSectors /\ current'[e] = {}
    BY <1>0, <1>8, GoesOn DEF BeginFeature, StageFits
  <2>2. QED
    BY <1>0, <1>3, <1>8, <2>1, OthersAreLeft
<1>9. ASSUME NEW e \in EventMessages, NEW s \in SetupSectors, BeginSector(e, s) \/ SkipSector(e, s)
      PROVE  FeaturesGoOn'
  <2>1. ASSUME Subject(e) = "feature" PROVE Fine(e)'
    <3>1. BeginSector(e, s) /\ at[e] = "sectors" /\ Beyond(e)
      BY <1>0, <1>9, <2>1, GoesOn DEF BeginSector, SkipSector, Beyond
    <3>2. todo'[e] = todo[e] \ {s} /\ current'[e] = {s} /\ s \in todo[e]
      BY <1>0, <3>1 DEF BeginSector
    <3>3. /\ todo[e] \subseteq FeatureSectors /\ current[e] = {}
          /\ \A t \in FeatureSectors \ todo[e] : t \in ready /\ ticketers[t] > 0
      BY <1>0, <1>2, <2>1, <3>1 DEF StageFits
    <3>4. QED
      BY <1>1, <3>2, <3>3
  <2>2. QED
    BY <1>0, <1>3, <1>9, <2>1, OthersAreLeft
<1>10. ASSUME NEW e \in EventMessages, AddQueue(e) \/ RequestTicketer(e) \/ EndFeature(e)
       PROVE  FeaturesGoOn'
  <2>1. ASSUME Subject(e) = "feature" PROVE Fine(e)'
    <3>1. Beyond(e) /\ Fine(e) /\ todo' = todo
      BY <1>0, <1>2, <1>10, <2>1, GoesOn DEF AddQueue, RequestTicketer, EndFeature, Beyond
    <3>2. CASE AddQueue(e) \/ EndFeature(e)
      <4>1. current' = current
        BY <3>2 DEF AddQueue, EndFeature
      <4>2. QED
        BY <1>1, <3>1, <4>1
    <3>3. CASE RequestTicketer(e)
      <4>1. /\ at[e] = "ticketer" /\ current[e] \subseteq ready /\ ready' = ready
            /\ current'[e] = {} /\ current[e] \subseteq SetupSectors
        BY <1>0, <3>3, GoesOn DEF RequestTicketer, StageFits
      <4>2. \A t \in current[e] : ticketers'[t] = ticketers[t] + 1 /\ ticketers[t] \in Nat
        BY <3>3, <4>1, <1>0 DEF RequestTicketer, SetupInv, SetupTypeOK
      <4>3. QED
        BY <1>1, <3>1, <4>1, <4>2
    <3>4. QED
      BY <1>10, <3>2, <3>3
  <2>2. QED
    BY <1>0, <1>3, <1>10, <2>1, OthersAreLeft
<1>11. QED
  <2>1. CASE SetupNext
    BY <1>0, <1>4, <1>5, <1>6, <1>7, <1>8, <1>9, <1>10, <2>1, ShufflesAre, SettlingsAre
       DEF SetupNext, Consume, OrderPermission
  <2>2. QED
    BY <1>6, <2>1 DEF setupVars

LEMMA UpdatesStillStay ==
  ASSUME SetupStays, UpdatesStay, [SetupNext]_setupVars PROVE UpdatesStay'
<1>0. /\ SetupInv /\ \A e \in EventMessages : StageFits(e)
      /\ \A e : e \in About("update") <=> e \in EventMessages /\ Subject(e) = "update"
  BY DEF SetupStays, StagesFit, About
<1>1. ASSUME option \/ overwritten => option' \/ overwritten',
             \A e \in About("update") : place'[e] = "acked" \/ at'[e] = "end" =>
                 \/ place[e] = "acked" \/ at[e] = "end"
                 \/ option' \/ overwritten'
      PROVE  UpdatesStay'
  BY <1>1 DEF UpdatesStay, About, Subject
<1>2. ASSUME NEW e \in EventMessages, EventEnds(e) PROVE UpdatesStay'
  BY <1>0, <1>1, <1>2 DEF EventEnds, OthersStay, projectRows
<1>3. ASSUME Shuffled PROVE UpdatesStay'
  BY <1>0, <1>1, <1>3 DEF Shuffled, projectRows
<1>4. ASSUME UNCHANGED <<eventVars, option, overwritten>> PROVE UpdatesStay'
  BY <1>1, <1>4 DEF eventVars
<1>5. ASSUME NEW e \in EventMessages, OthersStay(e), place'[e] = place[e],
             option \/ overwritten => option' \/ overwritten',
             Subject(e) # "update" \/ at'[e] # "end" \/ option' \/ overwritten'
      PROVE  UpdatesStay'
  BY <1>0, <1>1, <1>5 DEF OthersStay
<1>6. ASSUME NEW e \in EventMessages, SaveProject(e) \/ EndFeature(e) PROVE UpdatesStay'
  <2>1. Subject(e) # "update" /\ (option \/ overwritten => option' \/ overwritten')
    <3>1. CASE SaveProject(e)
      <4>1. overwritten' = (overwritten \/ option) /\ Subject(e) = "project"
        BY <3>1 DEF SaveProject
      <4>2. QED
        BY <4>1
    <3>2. CASE EndFeature(e)
      BY <3>2 DEF EndFeature, projectRows, setupHistory
    <3>3. QED
      BY <1>6, <3>1, <3>2
  <2>2. QED
    BY <1>0, <1>5, <1>6, <2>1, OthersAreLeft, GoesOn DEF SaveProject, EndFeature
<1>7. ASSUME NEW e \in EventMessages, UpdateConfig(e) PROVE UpdatesStay'
  BY <1>0, <1>5, <1>7, OthersAreLeft, GoesOn DEF UpdateConfig
<1>8. ASSUME NEW e \in EventMessages,
             \/ AdmitProject(e) \/ CreateProject(e) \/ GrantCreator(e) \/ GrantOthers(e)
             \/ GrantManager(e) \/ AddQueue(e) \/ RequestTicketer(e) \/ BeginFeature(e)
             \/ \E s \in SetupSectors : BeginSector(e, s) \/ SkipSector(e, s)
      PROVE  UpdatesStay'
  <2>1. /\ place' = place /\ option' = option /\ overwritten' = overwritten
        /\ at'[e] # "end"
    <3>1. CASE AdmitProject(e) \/ CreateProject(e) \/ GrantCreator(e) \/ GrantOthers(e)
      BY <1>0, <3>1, GoesOn
         DEF AdmitProject, CreateProject, GrantCreator, GrantOthers, projectRows, setupHistory
    <3>2. CASE GrantManager(e) \/ AddQueue(e) \/ RequestTicketer(e) \/ BeginFeature(e)
      BY <1>0, <3>2, GoesOn
         DEF GrantManager, AddQueue, RequestTicketer, BeginFeature, projectRows, setupHistory
    <3>3. CASE \E s \in SetupSectors : BeginSector(e, s) \/ SkipSector(e, s)
      BY <1>0, <3>3, GoesOn DEF BeginSector, SkipSector, projectRows, setupHistory
    <3>4. QED
      BY <1>8, <3>1, <3>2, <3>3
  <2>2. QED
    BY <1>0, <1>5, <1>8, <2>1, OthersAreLeft
<1>9. QED
  <2>1. CASE SetupNext
    BY <1>0, <1>2, <1>3, <1>4, <1>6, <1>7, <1>8, <2>1, ShufflesAre, SettlingsAre
       DEF SetupNext, Consume, OrderPermission, setupHistory
  <2>2. QED
    BY <1>4, <2>1 DEF setupVars, projectRows, setupHistory

\* Once more may have been asked of a sector, or asked for.
LEMMA TicketersAreStillCounted ==
  ASSUME SetupStays, SetupStays', FeaturesGoOn, TicketersAreCounted, [SetupNext]_setupVars
  PROVE  TicketersAreCounted'
<1>0. /\ SetupInv /\ SetupInv' /\ RowsGrow
      /\ \A e \in EventMessages : StageFits(e)
      /\ \A e : e \in About("feature") <=> e \in EventMessages /\ Subject(e) = "feature"
      /\ \A e : e \in About("project") <=> e \in EventMessages /\ Subject(e) = "project"
      /\ ticketers \in [SetupSectors -> Nat] /\ managed \subseteq built
      /\ current \in [EventMessages -> SUBSET SetupSectors]
      /\ todo \in [EventMessages -> SUBSET SetupSectors]
  BY RowsOnlyGrow DEF SetupStays, StagesFit, About, SetupInv, SetupTypeOK
<1>1. /\ IsFiniteSet(About("feature"))
      /\ \A s : FeaturesAsked(s) \subseteq About("feature") /\ IsFiniteSet(FeaturesAsked(s))
      /\ \A s : FeaturesAsked(s)' \subseteq About("feature") /\ IsFiniteSet(FeaturesAsked(s)')
      /\ \A s : Cardinality(FeaturesAsked(s)) \in Nat /\ Cardinality(FeaturesAsked(s)') \in Nat
  <2>1. About("feature") \subseteq EventMessages
    BY DEF About
  <2>2. IsFiniteSet(About("feature"))
    BY <2>1, SetupAssumption, FS_Subset DEF SetupAssumption
  <2>3. /\ \A s : FeaturesAsked(s) \subseteq About("feature")
        /\ \A s : FeaturesAsked(s)' \subseteq About("feature")
    BY DEF FeaturesAsked, About, Subject
  <2>4. \A s : IsFiniteSet(FeaturesAsked(s)) /\ IsFiniteSet(FeaturesAsked(s)')
    BY <2>2, <2>3, FS_Subset
  <2>5. QED
    BY <2>2, <2>3, <2>4, FS_CardinalityType
<1> SUFFICES ASSUME cutShort' = {}, NEW s \in SetupSectors
             PROVE  ticketers'[s] <= (IF CreatorAsked(s)' THEN 1 ELSE 0)
                        + (IF s \in FeatureSectors THEN Cardinality(FeaturesAsked(s)') ELSE 0)
  BY DEF TicketersAreCounted, SetupSectors
<1>2. ticketers[s] <= (IF CreatorAsked(s) THEN 1 ELSE 0)
          + (IF s \in FeatureSectors THEN Cardinality(FeaturesAsked(s)) ELSE 0)
  BY <1>0 DEF TicketersAreCounted, RowsGrow
<1> DEFINE before == FeaturesAsked(s)
           after == FeaturesAsked(s)'
           Goal == ticketers'[s] <= (IF CreatorAsked(s)' THEN 1 ELSE 0)
                       + (IF s \in FeatureSectors THEN Cardinality(after) ELSE 0)
<1>3. ASSUME before \subseteq after, CreatorAsked(s) => CreatorAsked(s)', ticketers'[s] = ticketers[s]
      PROVE  Goal
  <2>1. Cardinality(before) <= Cardinality(after)
    BY <1>1, <1>3, FS_Subset
  <2>2. QED
    BY <1>0, <1>1, <1>2, <1>3, <2>1
<1>4. ASSUME NEW e \in EventMessages, OthersStay(e),
             e \in before => e \in after,
             Subject(e) = "project" => s \notin current'[e] \/ s \in current[e] \/ s \notin managed,
             ticketers'[s] = ticketers[s]
      PROVE  Goal
  <2>1. before \subseteq after
    BY <1>4 DEF FeaturesAsked, OthersStay, Beyond, Underway, About, Subject
  <2>2. CreatorAsked(s) => CreatorAsked(s)'
    BY <1>0, <1>4 DEF CreatorAsked, RowsGrow, OthersStay, About, Subject
  <2>3. QED
    BY <1>3, <1>4, <2>1, <2>2
<1>5. ASSUME Shuffled \/ UNCHANGED <<eventVars, sectorRows>> PROVE Goal
  <2>1. before \subseteq after
    BY <1>5 DEF Shuffled, eventVars, FeaturesAsked, Beyond, Underway, About, Subject
  <2>2. (CreatorAsked(s) => CreatorAsked(s)') /\ ticketers'[s] = ticketers[s]
    BY <1>5 DEF Shuffled, eventVars, sectorRows, CreatorAsked, About, Subject
  <2>3. QED
    BY <1>3, <2>1, <2>2
<1>6. ASSUME NEW e \in EventMessages, EventEnds(e) PROVE Goal
  <2>1. e \in before => e \in after
    <3>1. ASSUME e \in before PROVE place'[e] = "acked"
      BY <1>6, <3>1 DEF EventEnds, FeaturesAsked, Underway
    <3>2. QED
      BY <1>6, <3>1 DEF EventEnds, FeaturesAsked, About, Subject
  <2>2. QED
    BY <1>4, <1>6, <2>1 DEF EventEnds, sectorRows
<1>7. ASSUME NEW e \in EventMessages,
             \/ AdmitProject(e) \/ CreateProject(e) \/ GrantCreator(e) \/ GrantOthers(e)
             \/ SaveProject(e) \/ UpdateConfig(e) \/ GrantManager(e)
             \/ AddQueue(e) \/ EndFeature(e)
      PROVE  Goal
  <2>1. /\ current' = current /\ ticketers' = ticketers
        /\ Subject(e) = "feature" => todo' = todo
    <3>1. GrantOthers(e) => Subject(e) # "feature"
      BY <1>0, GoesOn DEF GrantOthers, StageFits
    <3>2. QED
      BY <1>7, <3>1
         DEF AdmitProject, CreateProject, GrantCreator, GrantOthers, SaveProject, UpdateConfig,
             GrantManager, AddQueue, EndFeature, sectorRows
  <2>2. \/ Underway(e) /\ Underway(e)' /\ at'[e] \notin {"start", "admitted"}
        \/ AdmitProject(e)
    BY <1>0, <1>7, GoesOn
       DEF AdmitProject, CreateProject, GrantCreator, GrantOthers, SaveProject, UpdateConfig,
           GrantManager, AddQueue, EndFeature
  <2>3. e \in before => e \in after
    BY <2>1, <2>2 DEF FeaturesAsked, Beyond, About, Subject, AdmitProject
  <2>4. QED
    BY <1>0, <1>4, <1>7, <2>1, <2>3, OthersAreLeft
<1>8. ASSUME NEW e \in EventMessages, BeginFeature(e) PROVE Goal
  <2>1. e \notin before /\ Subject(e) = "feature" /\ ticketers' = ticketers
    BY <1>0, <1>8, GoesOn DEF BeginFeature, FeaturesAsked, Beyond, Underway, sectorRows
  <2>2. QED
    BY <1>0, <1>4, <1>8, <2>1, OthersAreLeft
<1>9. ASSUME NEW e \in EventMessages, NEW x \in SetupSectors, BeginSector(e, x) PROVE Goal
  <2>1. /\ Beyond(e) /\ Beyond(e)' /\ at[e] = "sectors" /\ ticketers' = ticketers /\ x \in todo[e]
        /\ todo'[e] = todo[e] \ {x} /\ current'[e] = {x}
        /\ Subject(e) = "project" => x \notin managed
    <3>1. /\ Underway(e) /\ Underway(e)' /\ at[e] = "sectors" /\ at'[e] \in {"sector", "queue"}
      BY <1>0, <1>9, GoesOn DEF BeginSector
    <3>2. QED
      BY <1>0, <1>9, <3>1 DEF BeginSector, Beyond
  <2>2. e \in before => e \in after
    BY <2>1 DEF FeaturesAsked, About, Subject
  <2>3. QED
    BY <1>0, <1>4, <1>9, <2>1, <2>2, OthersAreLeft
<1>10. ASSUME NEW e \in EventMessages, NEW x \in SetupSectors, SkipSector(e, x) PROVE Goal
  <2>1. e \notin before /\ current' = current /\ ticketers' = ticketers
    BY <1>10 DEF SkipSector, FeaturesAsked, About, sectorRows
  <2>2. QED
    BY <1>0, <1>4, <1>10, <2>1, OthersAreLeft
<1>11. ASSUME NEW e \in EventMessages, RequestTicketer(e) PROVE Goal
  <2>0. /\ Beyond(e) /\ Underway(e)' /\ at[e] = "ticketer" /\ at'[e] = "sectors"
        /\ OthersStay(e) /\ todo' = todo /\ current'[e] = {} /\ managed' = managed
        /\ ticketers'[s] = ticketers[s] + (IF s \in current[e] THEN 1 ELSE 0)
        /\ ticketers[s] \in Nat /\ StageFits(e)
    BY <1>0, <1>11, GoesOn, OthersAreLeft DEF RequestTicketer, Beyond
  <2>1. Beyond(e)'
    BY <2>0 DEF Beyond
  <2>2. e \in before => e \in after
    BY <2>0, <2>1 DEF FeaturesAsked, About, Subject
  <2>3. CASE s \notin current[e]
    BY <1>4, <1>11, <2>0, <2>2, <2>3
  <2>4. CASE s \in current[e] /\ Subject(e) = "project"
    <3>1. ~CreatorAsked(s) /\ s \in managed
      BY <1>0, <2>0, <2>4 DEF CreatorAsked, About, StageFits
    <3>2. ASSUME NEW o \in About("project"), o # e PROVE current[o] = {}
      <4>1. ~Beyond(o)
        BY <1>0, <2>0, <2>4, <3>2 DEF SetupStays, OneCreator
      <4>2. o \in EventMessages /\ StageFits(o)
        BY <1>0, <3>2
      <4>3. CASE place[o] # "taken"
        BY <1>0, <4>2, <4>3 DEF SetupInv, SetupTypeOK
      <4>4. CASE at[o] \in {"start", "admitted"}
        BY <4>2, <4>4 DEF StageFits
      <4>5. QED
        BY <4>1, <4>3, <4>4 DEF Beyond, Underway
    <3>3. CreatorAsked(s)'
      BY <1>0, <2>0, <3>1, <3>2 DEF CreatorAsked, OthersStay, About, Subject
    <3>4. before \subseteq after
      BY <2>0, <2>2 DEF FeaturesAsked, OthersStay, Beyond, Underway, About, Subject
    <3>5. Cardinality(before) <= Cardinality(after)
      BY <1>1, <3>4, FS_Subset
    <3>6. QED
      BY <1>1, <1>2, <2>0, <2>4, <3>1, <3>3, <3>5
  <2>5. CASE s \in current[e] /\ Subject(e) # "project"
    <3>1. Subject(e) = "feature"
      BY <1>0, <1>11, <2>0, <2>5, SetupAssumption DEF StageFits, Subject, SetupAssumption
    <3>2. s \in FeatureSectors /\ e \notin before /\ e \in after
      <4>1. e \in About("feature")
        BY <1>0, <1>11, <3>1
      <4>2. s \in FeatureSectors
        BY <2>0, <2>5, <4>1 DEF FeaturesGoOn
      <4>3. e \notin before
        BY <2>5 DEF FeaturesAsked
      <4>4. s \notin todo'[e] \cup current'[e]
        BY <2>0, <2>5 DEF StageFits
      <4>5. e \in after
        BY <2>1, <3>1, <4>1, <4>4 DEF FeaturesAsked, About, Subject
      <4>6. QED
        BY <4>2, <4>3, <4>5
    <3>3. before \cup {e} \subseteq after
      BY <2>0, <3>2 DEF FeaturesAsked, OthersStay, Beyond, Underway, About, Subject
    <3>4. Cardinality(before \cup {e}) = Cardinality(before) + 1 /\ IsFiniteSet(before \cup {e})
      BY <1>1, <3>2, FS_AddElement
    <3>5. Cardinality(before) + 1 <= Cardinality(after)
      BY <1>1, <3>3, <3>4, FS_Subset
    <3>6. CreatorAsked(s) => CreatorAsked(s)'
      BY <1>0, <2>0, <2>5 DEF CreatorAsked, OthersStay, About, Subject
    <3>7. QED
      BY <1>1, <1>2, <2>0, <2>5, <3>2, <3>5, <3>6
  <2>6. QED
    BY <2>3, <2>4, <2>5
<1>12. Goal
  <2>1. CASE SetupNext
    BY <1>0, <1>5, <1>6, <1>7, <1>8, <1>9, <1>10, <1>11, <2>1, ShufflesAre, SettlingsAre
       DEF SetupNext, Consume, OrderPermission
  <2>2. QED
    BY <1>5, <2>1 DEF setupVars
<1>13. QED
  BY <1>12

(***************************************************************************)
(* For any messages, consumers and sectors: no project is left half set up *)
(* unless its consumer was killed or refused, features have their sectors, *)
(* the ticketers were not asked for twice, and updates are kept.           *)
(***************************************************************************)
THEOREM SetupsAreWhole == SetupSpec => []SetupHolds
<1> DEFINE Inv == /\ SetupStays /\ SetupGoesOn /\ FeaturesGoOn /\ UpdatesStay
                  /\ TicketersAreCounted
<1>1. SetupInit => StagesFit /\ OneCreator /\ SetupGoesOn /\ FeaturesGoOn /\ UpdatesStay
  BY DEF SetupInit, StagesFit, StageFits, OneCreator, SetupGoesOn, FeaturesGoOn, UpdatesStay,
         About, Beyond, Underway
<1>2. SetupInit => TicketersAreCounted
  <2> SUFFICES ASSUME SetupInit, NEW s \in SetupSectors
               PROVE  ticketers[s] <= (IF CreatorAsked(s) THEN 1 ELSE 0)
                         + (IF s \in FeatureSectors THEN Cardinality(FeaturesAsked(s)) ELSE 0)
    BY DEF TicketersAreCounted
  <2>1. ticketers[s] = 0 /\ FeaturesAsked(s) = {}
    BY DEF SetupInit, FeaturesAsked, About, Beyond, Underway
  <2>2. QED
    BY <2>1, FS_EmptySet
<1>3. SetupInv /\ SetupInv' /\ Inv /\ [SetupNext]_setupVars => Inv'
  BY StagesStillFit, CreatorStaysAlone, SetupStillGoesOn, FeaturesStillGoOn, UpdatesStillStay,
     TicketersAreStillCounted DEF SetupStays
<1>4. Inv => SetupHolds
  <2> SUFFICES ASSUME Inv PROVE SetupHolds
    OBVIOUS
  <2>1. SetUpIsWhole
    BY DEF SetUpIsWhole, SetupGoesOn, AllSettled, Beyond, About, SetupDone, SectorDone
  <2>2. FeatureIsWhole
    BY DEF FeatureIsWhole, FeaturesGoOn, About, SetupStays, SetupInv, SetupTypeOK
  <2>3. TicketersAreAskedOnce
    <3> SUFFICES ASSUME cutShort = {}, NEW s \in SetupSectors
                 PROVE  ticketers[s] <= (IF s \in managed THEN 1 ELSE 0)
                           + (IF s \in FeatureSectors THEN Cardinality(About("feature")) ELSE 0)
      BY DEF TicketersAreAskedOnce
    <3>1. About("feature") \subseteq EventMessages /\ FeaturesAsked(s) \subseteq About("feature")
      BY DEF About, FeaturesAsked
    <3>2. IsFiniteSet(About("feature")) /\ IsFiniteSet(FeaturesAsked(s))
      BY <3>1, SetupAssumption, FS_Subset DEF SetupAssumption
    <3>3. /\ Cardinality(FeaturesAsked(s)) <= Cardinality(About("feature"))
          /\ Cardinality(FeaturesAsked(s)) \in Nat /\ Cardinality(About("feature")) \in Nat
      BY <3>1, <3>2, FS_Subset, FS_CardinalityType
    <3>4. ticketers[s] \in Nat
      BY DEF SetupStays, SetupInv, SetupTypeOK
    <3>5. ticketers[s] <= (IF CreatorAsked(s) THEN 1 ELSE 0)
              + (IF s \in FeatureSectors THEN Cardinality(FeaturesAsked(s)) ELSE 0)
      BY DEF TicketersAreCounted
    <3>6. QED
      BY <3>3, <3>4, <3>5 DEF CreatorAsked
  <2>4. UpdateIsKept
    BY DEF UpdateIsKept, UpdatesStay, About
  <2>5. QED
    BY <2>1, <2>2, <2>3, <2>4 DEF SetupHolds
<1>5. SetupInv /\ StagesFit /\ OneCreator /\ SetupGoesOn /\ FeaturesGoOn /\ UpdatesStay
      /\ TicketersAreCounted => Inv
  BY DEF SetupStays
<1>6. QED
  BY <1>1, <1>2, <1>3, <1>4, <1>5, SetupTypeCorrect, PTL DEF SetupSpec

-----------------------------------------------------------------------------
(* RoomWaits, continued.  What a stay in the queue still has to be counted *)
(* is owed by one handover, and by close_metrics once more at the end; of  *)
(* two that read the metrics at once, the one that writes first pays.      *)

PendingIn(s) ==
    {p \in Handovers : /\ step[p] \in {"saved", "counting"} /\ kind[p] \notin Transfers
                       /\ CountsStay(p) /\ read[p].since = s}
Owed(s) == IF PendingIn(s) = {} THEN 0 ELSE 1
OwedAtEnd(s) ==
    IF handed.queued /\ s = handed.since /\ \E p \in Handovers : closing[p] \in {"sent", "counting"}
    THEN 1 ELSE 0

Debt(s) ==
    IF s \in readTwice THEN (IF Owed(s) = 1 /\ OwedAtEnd(s) = 1 THEN 1 ELSE 0)
    ELSE Owed(s) + OwedAtEnd(s)

\* A stay that goes on has not been counted, one that the closure ended is counted twice.
Due(s) ==
    IF s > lastStay THEN 0
    ELSE IF s = handed.since /\ handed.queued
    THEN (IF handed.open THEN 0 ELSE IF s \in readTwice THEN 1 ELSE 2) ELSE 1

\* Whoever is counting the stay that the closure ended, while somebody else is to count it
\* too or read the metrics at once, has read that it was not counted yet.
CopyIsNew(p, s) ==
    ~handed.open /\ handed.queued /\ s = handed.since =>
        /\ step[p] = "counting" /\ kind[p] = "close"
                /\ (closing[p] \in {"sent", "counting"} \/ s \in readTwice)
            => metricCopy[p].counted[s] = 0
        /\ closing[p] = "counting" /\ (p \in PendingIn(s) \/ s \in readTwice)
            => closingCopy[p].counted[s] = 0

StayIsDue(s) ==
    /\ \A p, o \in PendingIn(s) : p = o
    /\ s \in readTwice => \A p \in PendingIn(s) : kind[p] = "close"
    /\ metric.counted[s] + Debt(s) = Due(s)
    /\ \A p \in Handovers : CopyIsNew(p, s)
StaysAreDue == \A s \in Stays \ blurred : StayIsDue(s)

\* What each step says of the room and of the room that was read.
HandoverFits(p) ==
    /\ read[p].since <= lastStay
    /\ step[p] = "held" /\ kind[p] \in Takings => read[p].queued
    /\ step[p] = "held" /\ kind[p] = "expire" => ~read[p].queued
    /\ step[p] = "saved" => kind[p] \in Takings \cup {"close"}
    /\ step[p] = "counting" => kind[p] \in Takings \cup Transfers \cup {"close"}
    /\ step[p] \in {"saved", "counting"} /\ kind[p] = "close" =>
           ~handed.open /\ read[p].since = handed.since /\ closing[p] # "none"
    /\ closing[p] # "none" => ~handed.open
    /\ closing[p] # "none" /\ kind[p] # "close" => step[p] = "over"
    /\ closing[p] # "none" => step[p] \in {"saved", "counting", "over"}
    /\ readTwice # {} => closing[p] # "sent" /\ ~(step[p] = "saved" /\ kind[p] = "close")
HandoversFit ==
    /\ \A p \in Handovers : HandoverFits(p)
    /\ \A p, o \in Handovers : closing[p] # "none" /\ closing[o] # "none" => p = o
    /\ handed.since \in blurred \/ handed.since = lastStay
    /\ readTwice \subseteq ClosingStay

\* One task at most has found no automatic message, and then there is none.
GreetsOnce ==
    ~greetedTwice =>
        /\ greetings <= 1
        /\ greetings = 1 => \A p \in Handovers : greeting[p] # "checked"
        /\ \A p, o \in Handovers : greeting[p] = "checked" /\ greeting[o] = "checked" => p = o

\* A message of an agent has its time stored or its task to come.
TimeIsComing ==
    ~blurredTime =>
        /\ metric.first # "zero"
        /\ \A m \in Replies : reply[m] # "new" => timing[m] = "sent" \/ metric.first = "time"

\* What each kind of handover makes of the room.
LEMMA HandoverIs ==
  ASSUME NEW k \in Kinds, NEW i \in HandedRooms
  PROVE  LET new == AfterHandover(k, i) IN
         /\ k \in {"requeue", "return"} /\ i.queued => new = i
         /\ k \in {"requeue", "return"} /\ ~i.queued =>
                new.queued /\ new.since = lastStay + 1 /\ new.open = i.open
         /\ k \in {"close", "expire"} =>
                ~new.open /\ new.queued = i.queued /\ new.since = i.since
         /\ k \in Takings \cup {"transfer", "reassign"} =>
                ~new.queued /\ new.since = i.since /\ new.open = i.open
<1> DEFINE new == AfterHandover(k, i)
<1>1. CASE k \in {"requeue", "return"} /\ i.queued
  BY <1>1 DEF AfterHandover, Takings
<1>2. CASE k \in {"requeue", "return"} /\ ~i.queued
  <2>1. new = [i EXCEPT !.queued = TRUE, !.since = lastStay + 1]
    BY <1>2 DEF AfterHandover
  <2>2. QED
    BY <1>2, <2>1 DEF HandedRooms, Takings
<1>3. CASE k \in {"close", "expire"}
  <2>1. new = [i EXCEPT !.open = FALSE]
    BY <1>3 DEF AfterHandover
  <2>2. QED
    BY <1>3, <2>1 DEF HandedRooms, Takings
<1>4. CASE k \notin {"requeue", "return", "close", "expire"}
  <2>1. new = [i EXCEPT !.queued = FALSE, !.assigned = TRUE]
    BY <1>4 DEF AfterHandover
  <2>2. QED
    BY <1>4, <2>1 DEF HandedRooms
<1>5. QED
  BY <1>1, <1>2, <1>3, <1>4

\* What the handovers other than p have read and do stays as it is.
OthersWait(p) ==
    \A o \in Handovers \ {p} :
        /\ step'[o] = step[o] /\ kind'[o] = kind[o] /\ read'[o] = read[o]
        /\ closing'[o] = closing[o]
        /\ metricCopy'[o] = metricCopy[o] /\ closingCopy'[o] = closingCopy[o]

\* p writes the room, which nobody else may have written since p read it.
WritesRoom(p) ==
    LET new == AfterHandover(kind[p], read[p]) IN
    /\ handed.open
    /\ handed' = new /\ new.since \in Stays
    /\ lastStay' = IF new.since > lastStay THEN new.since ELSE lastStay
    /\ blurred \subseteq blurred' /\ readTwice' = readTwice
    /\ handed = read[p] \/ {handed.since, read[p].since, new.since} \subseteq blurred'

LEMMA SavesMove ==
  ASSUME WaitsTypeOK, NEW p \in Handovers, SaveRoom(p) \/ CommitMove(p), readTwice' = readTwice
  PROVE  WritesRoom(p)
<1>1. kind[p] \in Kinds /\ read[p] \in HandedRooms
  BY DEF WaitsTypeOK
<1>2. AfterHandover(kind[p], read[p]).since <= MaxStays
  BY DEF SaveRoom, CommitMove
<1>3. AfterHandover(kind[p], read[p]).since \in Stays
  BY <1>1, <1>2, HandoverGivesRoom DEF HandedRooms
<1>4. CASE SaveRoom(p)
  BY <1>3, <1>4 DEF SaveRoom, WritesRoom
<1>5. CASE CommitMove(p)
  BY <1>3, <1>5 DEF CommitMove, WritesRoom
<1>6. QED
  BY <1>4, <1>5

\* Other handovers owe what they owed, while the room is open or stays as it is.
LEMMA OthersOweAsMuch ==
  ASSUME HandoversFit, NEW p \in Handovers, OthersWait(p), handed' = handed \/ handed.open,
         NEW s, NEW o \in Handovers \ {p}
  PROVE  o \in PendingIn(s)' <=> o \in PendingIn(s)
<1>1. HandoverFits(o)
  BY DEF HandoversFit
<1>2. CountsStay(o) <=> \/ kind[o] \in Takings
                        \/ kind[o] \in {"transfer", "reassign"} /\ read[o].queued
                        \/ kind[o] = "close" /\ handed.queued
  BY DEF CountsStay
<1>3. CountsStay(o)' <=> \/ kind[o] \in Takings
                         \/ kind[o] \in {"transfer", "reassign"} /\ read[o].queued
                         \/ kind[o] = "close" /\ handed'.queued
  BY DEF CountsStay, OthersWait
<1>4. step[o] \in {"saved", "counting"} /\ kind[o] = "close" => handed' = handed
  BY <1>1 DEF HandoverFits
<1>5. QED
  BY <1>2, <1>3, <1>4 DEF PendingIn, OthersWait, Transfers

\* So do the metrics that they have read.
LEMMA OthersCopiesAreNew ==
  ASSUME HandoversFit, NEW p \in Handovers, OthersWait(p), handed' = handed \/ handed.open,
         readTwice' = readTwice \/ closing[p] # "none",
         NEW s, NEW o \in Handovers \ {p}, CopyIsNew(o, s)
  PROVE  CopyIsNew(o, s)'
<1>1. HandoverFits(o)
  BY DEF HandoversFit
<1>2. CASE handed.open
  <2>1. closing[o] = "none" /\ ~(step[o] = "counting" /\ kind[o] = "close")
    BY <1>1, <1>2 DEF HandoverFits
  <2>2. QED
    BY <2>1 DEF CopyIsNew, OthersWait
<1>3. CASE closing[o] = "none"
  <2>1. ~(step[o] = "counting" /\ kind[o] = "close")
    BY <1>1, <1>3 DEF HandoverFits
  <2>2. QED
    BY <1>3, <2>1 DEF CopyIsNew, OthersWait
<1>4. CASE handed' = handed /\ closing[o] # "none"
  <2>1. readTwice' = readTwice
    BY <1>4 DEF HandoversFit
  <2>2. o \in PendingIn(s)' <=> o \in PendingIn(s)
    BY OthersOweAsMuch
  <2>3. QED
    BY <1>4, <2>1, <2>2 DEF CopyIsNew, OthersWait
<1>5. QED
  BY <1>2, <1>3, <1>4

\* Where p moves the room, a stay ends or begins as its kind says.
LEMMA DueMoves ==
  ASSUME WaitsTypeOK, HandoversFit, NEW p \in Handovers, WritesRoom(p), NEW s \in Stays \ blurred'
  PROVE  /\ s = read[p].since \/ s = handed.since => handed = read[p]
         /\ OwedAtEnd(s) = 0
         /\ readTwice = {} /\ readTwice' = {}
         /\ IF s = handed.since /\ handed.queued /\ kind[p] \notin {"requeue", "return"}
            THEN /\ Due(s) = 0
                 /\ Due(s)' = IF kind[p] \in {"close", "expire"} THEN 2 ELSE 1
            ELSE Due(s)' = Due(s)
<1> DEFINE new == AfterHandover(kind[p], read[p])
<1>1. /\ kind[p] \in Kinds /\ read[p] \in HandedRooms /\ handed \in HandedRooms
      /\ handed.since <= lastStay /\ HandoverFits(p) /\ read[p].since <= lastStay
      /\ s \in Nat /\ lastStay \in Nat /\ handed.since \in Nat /\ read[p].since \in Nat
  BY WaitsAssumption
     DEF WaitsTypeOK, HandoversFit, HandoverFits, Stays, HandedRooms, WaitsAssumption
<1>2. s = read[p].since \/ s = handed.since \/ s = new.since => handed = read[p]
  BY DEF WritesRoom
<1>3. OwedAtEnd(s) = 0 /\ readTwice = {} /\ readTwice' = {}
  BY DEF OwedAtEnd, HandoversFit, HandoverFits, WritesRoom, ClosingStay
<1>4. /\ handed' = new /\ handed.open /\ new.since \in Nat
      /\ lastStay' = IF new.since > lastStay THEN new.since ELSE lastStay
  BY WaitsAssumption DEF WritesRoom, Stays, WaitsAssumption
<1>5. CASE kind[p] \in {"requeue", "return"} /\ read[p].queued
  <2>1. new = read[p]
    BY <1>1, <1>5, HandoverIs
  <2>2. QED
    BY <1>1, <1>2, <1>3, <1>4, <1>5, <2>1 DEF Due
<1>6. CASE kind[p] \in {"requeue", "return"} /\ ~read[p].queued
  <2>1. new.queued /\ new.since = lastStay + 1 /\ new.open = read[p].open
    BY <1>1, <1>6, HandoverIs
  <2>2. QED
    BY <1>1, <1>2, <1>3, <1>4, <1>6, <2>1 DEF Due
<1>7. CASE kind[p] \in {"close", "expire"}
  <2>1. ~new.open /\ new.queued = read[p].queued /\ new.since = read[p].since
    BY <1>1, <1>7, HandoverIs
  <2>2. QED
    BY <1>1, <1>2, <1>3, <1>4, <1>7, <2>1 DEF Due
<1>8. CASE kind[p] \in Takings \cup {"transfer", "reassign"}
  <2>1. ~new.queued /\ new.since = read[p].since /\ new.open = read[p].open
    BY <1>1, <1>8, HandoverIs
  <2>2. kind[p] \notin {"requeue", "return", "close", "expire"}
    BY <1>8 DEF Takings
  <2>3. QED
    BY <1>1, <1>2, <1>3, <1>4, <2>1, <2>2 DEF Due
<1>9. QED
  BY <1>1, <1>5, <1>6, <1>7, <1>8 DEF Kinds, Transfers

\* No handover takes on or pays what it owes for s: the stay is due as it was.
LEMMA StaysDue ==
  ASSUME NEW s \in Stays, StayIsDue(s), PendingIn(s)' = PendingIn(s), OwedAtEnd(s)' = OwedAtEnd(s),
         Due(s)' = Due(s), metric'.counted[s] = metric.counted[s],
         s \in readTwice' <=> s \in readTwice,
         \A p \in PendingIn(s) : kind'[p] = kind[p],
         \A p \in Handovers : CopyIsNew(p, s)'
  PROVE  StayIsDue(s)'
<1>1. Debt(s)' = Debt(s)
  BY DEF Debt, Owed
<1>2. QED
  BY <1>1 DEF StayIsDue

\* p alone owes for s and pays; of what two are to pay together, the first to write pays.
LEMMA Pays ==
  ASSUME WaitsTypeOK, NEW s \in Stays, StayIsDue(s), NEW p \in PendingIn(s), p \notin PendingIn(s)',
         \A o \in Handovers \ {p} : o \in PendingIn(s)' <=> o \in PendingIn(s),
         OwedAtEnd(s)' = OwedAtEnd(s), Due(s)' = Due(s), readTwice' = readTwice,
         metric'.counted[s] = IF s \in readTwice THEN Due(s) ELSE metric.counted[s] + 1,
         \A o \in Handovers : CopyIsNew(o, s)'
  PROVE  StayIsDue(s)'
<1>1. PendingIn(s) = {p}
  BY DEF StayIsDue
<1>2. PendingIn(s)' = {}
  BY <1>1 DEF PendingIn
<1>3. /\ Owed(s) = 1 /\ Owed(s)' = 0 /\ metric.counted[s] \in Nat /\ OwedAtEnd(s) \in {0, 1}
      /\ Due(s) \in Nat
  BY <1>1, <1>2 DEF Owed, WaitsTypeOK, Metrics, OwedAtEnd, Due
<1>4. CASE s \in readTwice
  <2>1. Debt(s)' = 0
    BY <1>3, <1>4 DEF Debt
  <2>2. QED
    BY <1>2, <1>3, <1>4, <2>1 DEF StayIsDue
<1>5. CASE s \notin readTwice
  <2>1. Debt(s) = 1 + OwedAtEnd(s) /\ Debt(s)' = OwedAtEnd(s)
    BY <1>3, <1>5 DEF Debt
  <2>2. QED
    BY <1>2, <1>3, <1>5, <2>1 DEF StayIsDue
<1>6. QED
  BY <1>4, <1>5

\* What overlaps with nobody's save of the metrics adds to the row there is.
LEMMA AddsToRow ==
  ASSUME WaitsTypeOK, NEW s \in Stays, NEW from \in Metrics, NEW t \in Stays,
         s \notin Overwritten(from)
  PROVE  /\ AddStay(from, t).counted[s] = metric.counted[s] + (IF s = t THEN 1 ELSE 0)
         /\ from.counted[s] = metric.counted[s]
         /\ AddStay(from, t).first = from.first
<1>1. from.counted[s] = metric.counted[s]
  BY DEF Overwritten
<1>2. AddStay(from, t) = [from EXCEPT !.counted = [from.counted EXCEPT ![t] = @ + 1]]
  BY DEF AddStay, Metrics
<1>3. from.counted \in [Stays -> Nat] /\ metric.counted[s] \in Nat
  BY DEF Metrics, WaitsTypeOK
<1>4. AddStay(from, t).counted = [from.counted EXCEPT ![t] = @ + 1]
  BY <1>2 DEF Metrics
<1>5. AddStay(from, t).first = from.first
  BY <1>2 DEF Metrics
<1>6. QED
  BY <1>1, <1>3, <1>4, <1>5

\* A handover that saves the room before it counts the stay takes it on.
LEMMA SavingsOwe ==
  ASSUME WaitsTypeOK, HandoversFit, StaysAreDue, NEW p \in Handovers,
         SaveTaking(p) \/ SaveClosed(p), NEW s \in Stays \ blurred'
  PROVE  StayIsDue(s)'
<1>1. /\ SaveRoom(p) /\ WritesRoom(p) /\ step[p] = "held" /\ step'[p] = "saved"
      /\ OthersWait(p) /\ kind' = kind /\ read' = read /\ metric' = metric /\ handed.open
      /\ kind[p] \in Kinds /\ read[p] \in HandedRooms /\ handed.open
      /\ kind[p] \in Takings \/ kind[p] = "close"
      /\ kind[p] = "close" => closing'[p] = "sent"
      /\ kind[p] # "close" => closing' = closing
      /\ kind[p] \in Takings => read[p].queued
  <2>1. SaveRoom(p) /\ WritesRoom(p) /\ handed.open
    BY SavesMove DEF SaveTaking, SaveClosed, SaveRoom
  <2>a. metricCopy' = metricCopy /\ closingCopy' = closingCopy
    BY DEF SaveTaking, SaveClosed
  <2>2. kind[p] \in Kinds /\ read[p] \in HandedRooms
    BY DEF WaitsTypeOK
  <2>3. /\ step[p] = "held" /\ step' = [step EXCEPT ![p] = "saved"]
        /\ kind' = kind /\ read' = read /\ metric' = metric
        /\ kind[p] \in Takings \/ kind[p] = "close"
    BY DEF SaveTaking, SaveClosed, Proceed
  <2>4. IF kind[p] = "close" THEN closing' = [closing EXCEPT ![p] = "sent"] ELSE closing' = closing
    BY DEF SaveTaking, SaveClosed, Takings
  <2>5. step'[p] = "saved" /\ OthersWait(p) /\ (kind[p] = "close" => closing'[p] = "sent")
    BY <2>3, <2>4, <2>a DEF OthersWait, WaitsTypeOK
  <2>6. kind[p] \in Takings => read[p].queued
    BY <2>3 DEF HandoversFit, HandoverFits
  <2>7. QED
    BY <2>1, <2>2, <2>3, <2>4, <2>5, <2>6
<1>2. StayIsDue(s) /\ metric.counted[s] \in Nat
  BY <1>1 DEF StaysAreDue, WritesRoom, WaitsTypeOK, Metrics
<1>3. /\ s = read[p].since \/ s = handed.since => handed = read[p]
      /\ OwedAtEnd(s) = 0
      /\ readTwice = {} /\ readTwice' = {}
      /\ IF s = handed.since /\ handed.queued
         THEN Due(s) = 0 /\ Due(s)' = IF kind[p] = "close" THEN 2 ELSE 1
         ELSE Due(s)' = Due(s)
  BY <1>1, DueMoves DEF Takings
<1>a. ASSUME NEW o \in Handovers PROVE CopyIsNew(o, s)'
  <2>1. CASE o = p
    <3>1. closing[p] = "none"
      BY <1>1 DEF HandoversFit, HandoverFits, WaitsTypeOK
    <3>2. closing'[p] # "counting"
      BY <1>1, <3>1
    <3>3. QED
      BY <1>1, <2>1, <3>2 DEF CopyIsNew
  <2>2. CASE o # p
    BY <1>1, <1>2, <1>3, <2>2, OthersCopiesAreNew DEF StayIsDue
  <2>3. QED
    BY <2>1, <2>2
<1>4. \A o \in Handovers \ {p} : o \in PendingIn(s)' <=> o \in PendingIn(s)
  BY <1>1, OthersOweAsMuch
<1>5. p \notin PendingIn(s)
  BY <1>1 DEF PendingIn
<1>6. handed'.since = read[p].since /\ (handed'.queued <=> kind[p] = "close" /\ read[p].queued)
  <2>1. handed' = AfterHandover(kind[p], read[p])
    BY <1>1 DEF WritesRoom
  <2>2. CASE kind[p] = "close"
    BY <1>1, <2>1, <2>2, HandoverIs
  <2>3. CASE kind[p] \in Takings
    BY <1>1, <2>1, <2>3, HandoverIs DEF Takings
  <2>4. QED
    BY <1>1, <2>2, <2>3
<1>7. p \in PendingIn(s)' <=> s = read[p].since /\ read[p].queued
  <2>1. p \in PendingIn(s)' <=> CountsStay(p)' /\ s = read[p].since
    BY <1>1 DEF PendingIn, Takings, Transfers
  <2>2. CountsStay(p)' <=> kind[p] \in Takings \/ (kind[p] = "close" /\ handed'.queued)
    BY <1>1 DEF CountsStay, Takings
  <2>3. QED
    BY <1>1, <1>6, <2>1, <2>2 DEF Takings
<1>8. CASE s = read[p].since /\ read[p].queued
  <2>1. handed = read[p] /\ Due(s) = 0 /\ Due(s)' = IF kind[p] = "close" THEN 2 ELSE 1
    BY <1>3, <1>8
  <2>2. PendingIn(s) = {} /\ metric.counted[s] = 0
    BY <1>2, <1>3, <2>1 DEF StayIsDue, Debt, Owed
  <2>3. PendingIn(s)' = {p}
    BY <1>4, <1>7, <1>8, <2>2 DEF PendingIn
  <2>4. OwedAtEnd(s)' = IF kind[p] = "close" THEN 1 ELSE 0
    BY <1>1, <1>6, <1>8 DEF OwedAtEnd
  <2>5. Owed(s)' = 1
    BY <2>3 DEF Owed
  <2>6. metric'.counted[s] + Debt(s)' = Due(s)'
    BY <1>1, <1>3, <2>1, <2>2, <2>4, <2>5 DEF Debt
  <2>7. QED
    BY <1>3, <1>a, <2>3, <2>6 DEF StayIsDue
<1>9. CASE ~(s = read[p].since /\ read[p].queued)
  <2>1. Due(s)' = Due(s)
    BY <1>3, <1>9
  <2>2. PendingIn(s)' = PendingIn(s)
    BY <1>4, <1>5, <1>7, <1>9 DEF PendingIn
  <2>3. OwedAtEnd(s)' = 0
    BY <1>6, <1>9 DEF OwedAtEnd
  <2>4. QED
    BY <1>1, <1>2, <1>3, <1>a, <2>1, <2>2, <2>3, StaysDue
<1>10. QED
  BY <1>8, <1>9

\* A room that is given back to its queue, or expires, has had its stay counted.
LEMMA GivingBackOwesNothing ==
  ASSUME WaitsTypeOK, HandoversFit, StaysAreDue, NEW p \in Handovers, SaveOnly(p),
         NEW s \in Stays \ blurred'
  PROVE  StayIsDue(s)'
<1>1. /\ SaveRoom(p) /\ WritesRoom(p) /\ step[p] = "held" /\ step'[p] = "over"
      /\ OthersWait(p) /\ metric' = metric /\ handed.open
      /\ kind[p] \in Kinds /\ read[p] \in HandedRooms
      /\ kind[p] \in {"requeue", "expire"}
      /\ kind[p] = "requeue" => closing' = closing
      /\ kind[p] = "expire" => ~read[p].queued
  BY SavesMove
     DEF SaveOnly, Proceed, Forget, OthersWait, WaitsTypeOK, SaveRoom, HandoversFit, HandoverFits,
         chatVars
<1>2. StayIsDue(s)
  BY <1>1 DEF StaysAreDue, WritesRoom
<1>3. OwedAtEnd(s) = 0 /\ Due(s)' = Due(s) /\ readTwice = {} /\ readTwice' = {}
  <2>1. /\ s = read[p].since \/ s = handed.since => handed = read[p]
        /\ OwedAtEnd(s) = 0
        /\ readTwice = {} /\ readTwice' = {}
        /\ IF s = handed.since /\ handed.queued /\ kind[p] \notin {"requeue", "return"}
           THEN Due(s) = 0 /\ Due(s)' = IF kind[p] \in {"close", "expire"} THEN 2 ELSE 1
           ELSE Due(s)' = Due(s)
    BY <1>1, DueMoves
  <2>2. QED
    BY <1>1, <2>1
<1>4. PendingIn(s)' = PendingIn(s)
  <2>1. p \notin PendingIn(s) /\ p \notin PendingIn(s)'
    BY <1>1 DEF PendingIn
  <2>2. QED
    BY <1>1, <2>1, OthersOweAsMuch DEF PendingIn
<1>5. OwedAtEnd(s)' = 0
  <2>1. \A o \in Handovers : closing[o] = "none"
    BY <1>1 DEF HandoversFit, HandoverFits, WaitsTypeOK
  <2>2. CASE kind[p] = "requeue"
    BY <1>1, <2>1, <2>2 DEF OwedAtEnd
  <2>3. CASE kind[p] = "expire"
    BY <1>1, <2>3, HandoverIs DEF OwedAtEnd, WritesRoom, HandedRooms
  <2>4. QED
    BY <1>1, <2>2, <2>3
<1>6. ASSUME NEW o \in Handovers PROVE CopyIsNew(o, s)'
  <2>1. CASE o = p
    <3>1. closing[p] = "none"
      BY <1>1 DEF HandoversFit, HandoverFits, WaitsTypeOK
    <3>2. closing' = closing \/ closing' = [closing EXCEPT ![p] = "sent"]
      BY DEF SaveOnly
    <3>3. closing'[p] # "counting"
      BY <3>1, <3>2 DEF WaitsTypeOK
    <3>4. QED
      BY <1>1, <2>1, <3>3 DEF CopyIsNew
  <2>2. CASE o # p
    BY <1>1, <1>2, <1>3, <2>2, OthersCopiesAreNew DEF StayIsDue
  <2>3. QED
    BY <2>1, <2>2
<1>7. \A o \in PendingIn(s) : kind'[o] = kind[o]
  BY <1>1 DEF PendingIn, OthersWait
<1>8. QED
  BY <1>1, <1>2, <1>3, <1>4, <1>5, <1>6, <1>7, StaysDue

\* A transfer commits the room and the stay that it counts together.
LEMMA MovesCountTheirStay ==
  ASSUME WaitsTypeOK, HandoversFit, StaysAreDue, NEW p \in Handovers, CommitMove(p),
         NEW s \in Stays \ blurred'
  PROVE  StayIsDue(s)'
<1>1. /\ WritesRoom(p) /\ step[p] = "counting" /\ kind[p] \in Transfers
      /\ OthersWait(p) /\ closing' = closing /\ handed.open
      /\ read[p] \in HandedRooms /\ read[p].since \in Stays /\ metricCopy[p] \in Metrics
  <2>1. WritesRoom(p) /\ handed.open
    BY SavesMove DEF CommitMove
  <2>2. QED
    BY <2>1 DEF CommitMove, Proceed, Forget, OthersWait, WaitsTypeOK, HandedRooms
<1>2. step'[p] = "over" /\ p \notin PendingIn(s) /\ p \notin PendingIn(s)'
  BY <1>1 DEF CommitMove, Proceed, WaitsTypeOK, PendingIn
<1>3. StayIsDue(s) /\ metric.counted[s] \in Nat
  BY <1>1 DEF StaysAreDue, WritesRoom, WaitsTypeOK, Metrics
<1>4. PendingIn(s)' = PendingIn(s)
  BY <1>1, <1>2, OthersOweAsMuch DEF PendingIn
<1>5. /\ s = read[p].since \/ s = handed.since => handed = read[p]
      /\ OwedAtEnd(s) = 0
      /\ readTwice = {} /\ readTwice' = {}
      /\ IF s = handed.since /\ handed.queued /\ kind[p] \notin {"requeue", "return"}
         THEN Due(s) = 0 /\ Due(s)' = IF kind[p] \in {"close", "expire"} THEN 2 ELSE 1
         ELSE Due(s)' = Due(s)
  BY <1>1, DueMoves
<1>a. ASSUME NEW o \in Handovers PROVE CopyIsNew(o, s)'
  <2>1. CASE o = p
    <3>1. closing'[p] = "none"
      BY <1>1 DEF HandoversFit, HandoverFits, WaitsTypeOK
    <3>2. QED
      BY <1>2, <2>1, <3>1 DEF CopyIsNew
  <2>2. CASE o # p
    BY <1>1, <1>3, <1>5, <2>2, OthersCopiesAreNew DEF StayIsDue
  <2>3. QED
    BY <2>1, <2>2
<1>b. \A o \in PendingIn(s) : kind'[o] = kind[o]
  BY <1>1, <1>2 DEF PendingIn, OthersWait
<1>6. OwedAtEnd(s)' = 0
  BY <1>1 DEF OwedAtEnd, HandoversFit, HandoverFits, WaitsTypeOK
<1>7. /\ kind[p] = "transfer" /\ ~read[p].queued => metric' = metric
      /\ ~(kind[p] = "transfer" /\ ~read[p].queued) =>
             /\ metric' = Counted(p, read[p].since)
             /\ metric' = metric \/ s \notin Overwritten(metricCopy[p])
  BY DEF CommitMove, SaveMetric
<1>8. CountsStay(p) <=> kind[p] \in {"transfer", "reassign"} /\ read[p].queued
  BY <1>1 DEF CountsStay, Transfers, Takings
<1>9. CASE CountsStay(p) /\ s = read[p].since
  <2>1. /\ handed = read[p] /\ Due(s) = 0 /\ Due(s)' = 1
    BY <1>1, <1>5, <1>8, <1>9
  <2>2. metric.counted[s] = 0 /\ Owed(s) = 0
    BY <1>3, <1>5, <2>1 DEF StayIsDue, Debt, Owed
  <2>3. metric' = AddStay(metricCopy[p], s)
    BY <1>7, <1>8, <1>9 DEF Counted
  <2>4. metric' # metric
    <3>1. AddStay(metricCopy[p], s).counted[s] = metricCopy[p].counted[s] + 1
      BY <1>1, <1>9 DEF AddStay, Metrics
    <3>2. metricCopy[p].counted[s] \in Nat
      BY <1>1 DEF Metrics
    <3>3. QED
      BY <2>2, <2>3, <3>1, <3>2
  <2>5. metric'.counted[s] = 1
    BY <1>1, <1>7, <1>8, <1>9, <2>2, <2>3, <2>4, AddsToRow
  <2>6. Owed(s)' = 0
    BY <1>4, <2>2 DEF Owed
  <2>7. metric'.counted[s] + Debt(s)' = Due(s)'
    BY <1>5, <1>6, <2>1, <2>5, <2>6 DEF Debt
  <2>8. QED
    BY <1>3, <1>4, <1>5, <1>a, <2>7 DEF StayIsDue
<1>10. CASE ~(CountsStay(p) /\ s = read[p].since)
  <2>1. Due(s)' = Due(s)
    BY <1>1, <1>5, <1>8, <1>10 DEF Transfers
  <2>2. metric'.counted[s] = metric.counted[s]
    <3>1. CASE metric' = metric
      BY <3>1
    <3>2. CASE metric' # metric
      <4>1. metric' = Counted(p, read[p].since) /\ s \notin Overwritten(metricCopy[p])
        BY <1>7, <3>2
      <4>2. AddStay(metricCopy[p], read[p].since).counted[s] = metric.counted[s]
                + (IF s = read[p].since THEN 1 ELSE 0)
        BY <1>1, <4>1, AddsToRow
      <4>3. metricCopy[p].counted[s] = metric.counted[s]
        BY <1>1, <4>1, AddsToRow
      <4>4. QED
        BY <1>3, <1>10, <4>1, <4>2, <4>3 DEF Counted
    <3>3. QED
      BY <3>1, <3>2
  <2>3. QED
    BY <1>3, <1>4, <1>5, <1>6, <1>a, <1>b, <2>1, <2>2, StaysDue
<1>11. QED
  BY <1>9, <1>10

\* The handovers that saved the room count the stay they owe.
LEMMA CountingPays ==
  ASSUME WaitsTypeOK, HandoversFit, StaysAreDue, NEW p \in Handovers, WriteMetric(p),
         NEW s \in Stays \ blurred'
  PROVE  StayIsDue(s)'
<1>1. /\ step[p] = "counting" /\ kind[p] \notin Transfers /\ handed' = handed
      /\ lastStay' = lastStay /\ OthersWait(p) /\ closing' = closing
      /\ closingCopy' = closingCopy /\ readTwice' = readTwice
      /\ read[p].since \in Stays /\ metricCopy[p] \in Metrics
      /\ metric' = Counted(p, read[p].since)
      /\ s \notin Overwritten(metricCopy[p]) \/ (kind[p] = "close" /\ s \in readTwice)
  BY DEF WriteMetric, Proceed, SaveMetric, Forget, OthersWait, WaitsTypeOK, HandedRooms, taskVars
<1>2. step'[p] = "over" /\ p \notin PendingIn(s)' /\ s \notin blurred
  BY DEF WriteMetric, Proceed, WaitsTypeOK, PendingIn
<1>3. StayIsDue(s) /\ metric.counted[s] \in Nat
  BY <1>2 DEF StaysAreDue, WaitsTypeOK, Metrics
<1>4. \A o \in Handovers \ {p} : o \in PendingIn(s)' <=> o \in PendingIn(s)
  BY <1>1, OthersOweAsMuch
<1>5. Due(s)' = Due(s) /\ OwedAtEnd(s)' = OwedAtEnd(s)
  BY <1>1 DEF Due, OwedAtEnd
<1>6. p \in PendingIn(s) <=> CountsStay(p) /\ s = read[p].since
  BY <1>1 DEF PendingIn
<1>7. ASSUME s \notin Overwritten(metricCopy[p])
      PROVE  metric'.counted[s] = metric.counted[s] + (IF p \in PendingIn(s) THEN 1 ELSE 0)
  <2>1. AddStay(metricCopy[p], read[p].since).counted[s] = metric.counted[s]
            + (IF s = read[p].since THEN 1 ELSE 0)
    BY <1>1, <1>7, AddsToRow
  <2>2. metricCopy[p].counted[s] = metric.counted[s]
    BY <1>1, <1>7, AddsToRow
  <2>3. QED
    BY <1>1, <1>3, <1>6, <2>1, <2>2 DEF Counted
\* The closure that read the metrics together with its task.
<1>8. ASSUME s \in readTwice
      PROVE  /\ p \in PendingIn(s) <=> kind[p] = "close"
             /\ kind[p] = "close" => metric'.counted[s] = Due(s)
  <2>1. ~handed.open /\ handed.queued /\ s = handed.since
    BY <1>8 DEF HandoversFit, ClosingStay
  <2>2. kind[p] = "close" => p \in PendingIn(s)
    BY <1>1, <1>6, <2>1 DEF HandoversFit, HandoverFits, CountsStay
  <2>3. p \in PendingIn(s) => kind[p] = "close"
    BY <1>3, <1>8 DEF StayIsDue
  <2>4. ASSUME kind[p] = "close" PROVE metric'.counted[s] = Due(s)
    <3>1. metricCopy[p].counted[s] = 0
      BY <1>1, <1>3, <1>8, <2>1, <2>4 DEF StayIsDue, CopyIsNew
    <3>2. metric' = AddStay(metricCopy[p], s)
      BY <1>1, <1>6, <2>2, <2>4 DEF Counted
    <3>3. metric'.counted[s] = 1
      BY <1>1, <3>1, <3>2 DEF AddStay, Metrics
    <3>4. s <= lastStay
      BY <2>1 DEF WaitsTypeOK
    <3>5. Due(s) = 1
      BY <1>8, <2>1, <3>4, WaitsAssumption DEF Due, WaitsTypeOK, Stays, WaitsAssumption
    <3>6. QED
      BY <3>3, <3>5
  <2>5. QED
    BY <2>2, <2>3, <2>4
<1>a. ASSUME NEW o \in Handovers PROVE CopyIsNew(o, s)'
  <2>1. CASE o = p
    BY <1>1, <1>2, <1>3, <2>1 DEF CopyIsNew, StayIsDue
  <2>2. CASE o # p
    BY <1>1, <1>3, <2>2, OthersCopiesAreNew DEF StayIsDue
  <2>3. QED
    BY <2>1, <2>2
<1>9. CASE p \in PendingIn(s)
  <2>1. metric'.counted[s] = IF s \in readTwice THEN Due(s) ELSE metric.counted[s] + 1
    BY <1>1, <1>7, <1>8, <1>9
  <2>2. QED
    BY <1>1, <1>2, <1>3, <1>4, <1>5, <1>9, <1>a, <2>1, Pays
<1>10. CASE p \notin PendingIn(s)
  <2>1. PendingIn(s)' = PendingIn(s)
    BY <1>2, <1>4, <1>10 DEF PendingIn
  <2>2. metric'.counted[s] = metric.counted[s]
    BY <1>1, <1>3, <1>7, <1>8, <1>10
  <2>3. \A o \in PendingIn(s) : kind'[o] = kind[o]
    BY <1>1, <1>10 DEF PendingIn, OthersWait
  <2>4. QED
    BY <1>1, <1>3, <1>5, <1>a, <2>1, <2>2, <2>3, StaysDue
<1>11. QED
  BY <1>9, <1>10

\* close_metrics counts the stay that the closure ended once more.
LEMMA ClosingPays ==
  ASSUME WaitsTypeOK, HandoversFit, StaysAreDue, NEW p \in Handovers, WriteClosing(p),
         NEW s \in Stays \ blurred'
  PROVE  StayIsDue(s)'
<1>1. /\ closing[p] = "counting" /\ closing'[p] = "over" /\ handed' = handed
      /\ lastStay' = lastStay /\ OthersWait(p) /\ step' = step /\ kind' = kind /\ read' = read
      /\ metricCopy' = metricCopy /\ readTwice' = readTwice
      /\ handed.since \in Stays /\ closingCopy[p] \in Metrics /\ s \notin blurred
      /\ metric' = IF handed.queued THEN AddStay(closingCopy[p], handed.since) ELSE closingCopy[p]
      /\ s \notin Overwritten(closingCopy[p]) \/ s \in readTwice
  BY DEF WriteClosing, SaveMetric, OthersWait, WaitsTypeOK, HandedRooms
<1>2. StayIsDue(s) /\ metric.counted[s] \in Nat
  BY <1>1 DEF StaysAreDue, WaitsTypeOK, Metrics
<1>3. PendingIn(s)' = PendingIn(s)
  BY <1>1 DEF PendingIn, CountsStay
<1>4. Due(s)' = Due(s)
  BY <1>1 DEF Due
<1>5. \A o \in Handovers \ {p} : closing[o] = "none" /\ closing'[o] = "none"
  BY <1>1 DEF HandoversFit, OthersWait, WaitsTypeOK
<1>6. /\ OwedAtEnd(s) = IF handed.queued /\ s = handed.since THEN 1 ELSE 0
      /\ OwedAtEnd(s)' = 0
  BY <1>1, <1>5 DEF OwedAtEnd
<1>7. Owed(s)' = Owed(s) /\ Owed(s) \in {0, 1}
  BY <1>3 DEF Owed
<1>8. ASSUME s \notin readTwice
      PROVE  metric'.counted[s] + Debt(s)' = metric.counted[s] + Debt(s)
  <2>1. AddStay(closingCopy[p], handed.since).counted[s] = metric.counted[s]
            + (IF s = handed.since THEN 1 ELSE 0)
    BY <1>1, <1>8, AddsToRow
  <2>2. closingCopy[p].counted[s] = metric.counted[s]
    BY <1>1, <1>8, AddsToRow
  <2>3. metric'.counted[s] = metric.counted[s]
            + (IF handed.queued /\ s = handed.since THEN 1 ELSE 0)
    BY <1>1, <1>2, <2>1, <2>2
  <2>4. QED
    BY <1>1, <1>2, <1>6, <1>7, <1>8, <2>3 DEF Debt
<1>9. ASSUME s \in readTwice
      PROVE  metric'.counted[s] + Debt(s)' = Due(s)'
  <2>1. ~handed.open /\ handed.queued /\ s = handed.since /\ s <= lastStay
    BY <1>9 DEF HandoversFit, ClosingStay, WaitsTypeOK
  <2>2. closingCopy[p].counted[s] = 0
    BY <1>1, <1>2, <1>9, <2>1 DEF StayIsDue, CopyIsNew
  <2>3. metric'.counted[s] = 1
    BY <1>1, <2>1, <2>2 DEF AddStay, Metrics
  <2>4. Due(s) = 1
    BY <1>9, <2>1, WaitsAssumption DEF Due, WaitsTypeOK, Stays, WaitsAssumption
  <2>5. Debt(s)' = 0
    BY <1>1, <1>6, <1>9 DEF Debt
  <2>6. QED
    BY <1>4, <2>3, <2>4, <2>5
<1>10. ASSUME NEW o \in Handovers PROVE CopyIsNew(o, s)'
  <2>1. CASE o = p
    BY <1>1, <1>2, <2>1 DEF CopyIsNew, StayIsDue
  <2>2. CASE o # p
    BY <1>1, <1>2, <2>2, OthersCopiesAreNew DEF StayIsDue
  <2>3. QED
    BY <2>1, <2>2
<1>11. metric'.counted[s] + Debt(s)' = Due(s)'
  BY <1>2, <1>4, <1>8, <1>9 DEF StayIsDue
<1>12. QED
  BY <1>1, <1>2, <1>3, <1>10, <1>11 DEF StayIsDue

\* Steps that neither write the room nor add to its metrics.
LEMMA QuietStepsOweAsMuch ==
  ASSUME WaitsTypeOK, HandoversFit, StaysAreDue, NEW p \in Handovers, OthersWait(p),
         handed' = handed, lastStay' = lastStay, metric'.counted = metric.counted,
         blurred \subseteq blurred',
         readTwice' = readTwice,
         \A s \in Stays \ blurred' :
             /\ p \in PendingIn(s)' <=> p \in PendingIn(s)
             /\ p \in PendingIn(s) => kind'[p] = kind[p]
             /\ OwedAtEnd(s)' = OwedAtEnd(s)
             /\ CopyIsNew(p, s)'
  PROVE  StaysAreDue'
<1> SUFFICES ASSUME NEW s \in Stays \ blurred' PROVE StayIsDue(s)'
  BY DEF StaysAreDue
<1>1. StayIsDue(s)
  BY DEF StaysAreDue
<1>2. PendingIn(s)' = PendingIn(s)
  BY OthersOweAsMuch DEF PendingIn
<1>3. Due(s)' = Due(s)
  BY DEF Due
<1>4. \A o \in PendingIn(s) : kind'[o] = kind[o]
  BY DEF PendingIn, OthersWait
<1>5. \A o \in Handovers : CopyIsNew(o, s)'
  BY <1>1, OthersCopiesAreNew DEF StayIsDue
<1>6. QED
  BY <1>1, <1>2, <1>3, <1>4, <1>5, StaysDue

\* While the closure and its task both owe for the stay it ended, nobody has counted it.
LEMMA NotCountedYet ==
  ASSUME WaitsTypeOK, HandoversFit, StaysAreDue, readTwice = {}, NEW p \in Handovers,
         step[p] \in {"saved", "counting"}, kind[p] = "close", closing[p] \in {"sent", "counting"},
         NEW s \in Stays \ blurred, s \in ClosingStay
  PROVE  /\ p \in PendingIn(s) /\ Owed(s) = 1 /\ OwedAtEnd(s) = 1
         /\ metric.counted[s] = 0 /\ s <= lastStay
<1>1. /\ ~handed.open /\ handed.queued /\ s = handed.since /\ s <= lastStay
      /\ metric.counted[s] \in Nat /\ s \in Nat /\ lastStay \in Nat
  BY WaitsAssumption DEF ClosingStay, WaitsTypeOK, Metrics, Stays, WaitsAssumption
<1>2. p \in PendingIn(s) /\ OwedAtEnd(s) = 1
  BY <1>1 DEF PendingIn, CountsStay, OwedAtEnd, HandoversFit, HandoverFits, Transfers
<1>3. Owed(s) = 1 /\ Due(s) = 2
  BY <1>1, <1>2 DEF Owed, Due
<1>4. metric.counted[s] + Debt(s) = Due(s) /\ Debt(s) = 2
  BY <1>2, <1>3 DEF StaysAreDue, StayIsDue, Debt
<1>5. QED
  BY <1>1, <1>2, <1>3, <1>4

\* The closure or its task reads the metrics while the other is still to write them.
LEMMA ReadersOweAsMuch ==
  ASSUME WaitsTypeOK, HandoversFit, StaysAreDue, readTwice = {}, NEW p \in Handovers, OthersWait(p),
         step[p] \in {"saved", "counting"}, kind[p] = "close", closing[p] \in {"sent", "counting"},
         handed' = handed, lastStay' = lastStay, metric' = metric, blurred' = blurred,
         kind' = kind, read' = read,
         step'[p] \in {"saved", "counting"}, closing'[p] \in {"sent", "counting"},
         metricCopy'[p] = metric \/ (metricCopy'[p] = metricCopy[p] /\ step'[p] = step[p]),
         closingCopy'[p] = metric \/ (closingCopy'[p] = closingCopy[p] /\ closing'[p] = closing[p]),
         readTwice' = IF step'[p] = "counting" /\ closing'[p] = "counting" THEN ClosingStay ELSE {}
  PROVE  StaysAreDue'
<1> SUFFICES ASSUME NEW s \in Stays \ blurred PROVE StayIsDue(s)'
  BY DEF StaysAreDue
<1>1. StayIsDue(s)
  BY DEF StaysAreDue
<1>2. PendingIn(s)' = PendingIn(s)
  <2>1. p \in PendingIn(s)' <=> p \in PendingIn(s)
    BY DEF PendingIn, CountsStay
  <2>2. QED
    BY <2>1, OthersOweAsMuch DEF PendingIn
<1>3. OwedAtEnd(s)' = OwedAtEnd(s) /\ Owed(s)' = Owed(s)
  BY <1>2 DEF OwedAtEnd, Owed, OthersWait
<1>4. \A o \in Handovers \ {p} : CopyIsNew(o, s)'
  BY <1>1, OthersCopiesAreNew DEF StayIsDue
<1>5. CASE s \notin ClosingStay
  <2>1. s \notin readTwice'
    BY <1>5
  <2>2. Debt(s)' = Debt(s) /\ Due(s)' = Due(s)
    BY <1>3, <2>1 DEF Debt, Due
  <2>3. CopyIsNew(p, s)'
    BY <1>5 DEF CopyIsNew, ClosingStay
  <2>4. QED
    BY <1>1, <1>2, <1>4, <2>1, <2>2, <2>3 DEF StayIsDue
<1>6. CASE s \in ClosingStay
  <2>1. /\ p \in PendingIn(s) /\ Owed(s) = 1 /\ OwedAtEnd(s) = 1
        /\ metric.counted[s] = 0 /\ s <= lastStay
    BY <1>6, NotCountedYet
  <2>2. ~handed.open /\ handed.queued /\ s = handed.since
    BY <1>6 DEF ClosingStay
  <2>3. CopyIsNew(p, s)'
    <3>1. step'[p] = "counting" => metricCopy'[p].counted[s] = 0
      BY <1>1, <2>1, <2>2 DEF StayIsDue, CopyIsNew
    <3>2. closing'[p] = "counting" => closingCopy'[p].counted[s] = 0
      BY <1>1, <2>1, <2>2 DEF StayIsDue, CopyIsNew
    <3>3. QED
      BY <3>1, <3>2 DEF CopyIsNew
  <2>4. Debt(s)' = Due(s)'
    <3>1. ~(s > lastStay)
      BY <2>1, WaitsAssumption DEF WaitsTypeOK, Stays, WaitsAssumption
    <3>2. s \in readTwice' => Debt(s)' = 1 /\ Due(s)' = 1
      BY <1>3, <2>1, <2>2, <3>1 DEF Debt, Due
    <3>3. s \notin readTwice' => Debt(s)' = 2 /\ Due(s)' = 2
      BY <1>3, <2>1, <2>2, <3>1 DEF Debt, Due
    <3>4. QED
      BY <3>2, <3>3
  <2>5. metric'.counted[s] + Debt(s)' = Due(s)'
    <3>1. Debt(s)' \in Nat
      BY <1>3, <2>1 DEF Debt
    <3>2. QED
      BY <2>1, <2>4, <3>1
  <2>6. \A o \in PendingIn(s)' : kind'[o] = "close"
    BY <1>1, <1>2, <2>1 DEF StayIsDue
  <2>7. QED
    BY <1>1, <1>2, <1>4, <2>3, <2>5, <2>6 DEF StayIsDue
<1>7. QED
  BY <1>5, <1>6

LEMMA StaysStillDue ==
  ASSUME WaitsTypeOK, HandoversFit, StaysAreDue, [WaitsNext]_waitVars
  PROVE  StaysAreDue'
<1>1. ASSUME NEW p \in Handovers, NEW k \in Kinds, Begin(p, k) PROVE StaysAreDue'
  <2>1. /\ step[p] = "new" /\ step'[p] = "held" /\ OthersWait(p) /\ handed' = handed
        /\ lastStay' = lastStay /\ metric' = metric /\ blurred' = blurred /\ closing' = closing
        /\ readTwice' = readTwice
    BY <1>1
       DEF Begin, Proceed, OthersWait, WaitsTypeOK, roomVars, taskVars, chatVars, waitHistory
  <2>2. closing[p] = "none"
    BY <2>1 DEF HandoversFit, HandoverFits
  <2>3. \A s \in Stays : CopyIsNew(p, s)'
    BY <2>1, <2>2 DEF CopyIsNew
  <2>4. \A s \in Stays : OwedAtEnd(s)' = OwedAtEnd(s)
    BY <2>1 DEF OwedAtEnd
  <2>5. QED
    BY <1>1, <2>1, <2>3, <2>4, QuietStepsOweAsMuch DEF PendingIn
<1>2. ASSUME NEW p \in Handovers, RefuseHandover(p) \/ RefuseMove(p) PROVE StaysAreDue'
  <2>1. /\ step[p] = "held" \/ kind[p] \in Transfers
        /\ step'[p] = "over" /\ OthersWait(p) /\ handed' = handed
        /\ lastStay' = lastStay /\ metric' = metric /\ blurred' = blurred /\ closing' = closing
        /\ readTwice' = readTwice /\ closingCopy' = closingCopy
    BY <1>2
       DEF RefuseHandover, RefuseMove, Proceed, Forget, OthersWait, WaitsTypeOK, roomVars,
           taskVars, chatVars, waitHistory
  <2>2. closing[p] = "none"
    BY <1>2, <2>1
       DEF HandoversFit, HandoverFits, RefuseHandover, RefuseMove, Proceed, Transfers
  <2>3. \A s \in Stays : CopyIsNew(p, s)'
    BY <2>1, <2>2 DEF CopyIsNew
  <2>4. \A s \in Stays : OwedAtEnd(s)' = OwedAtEnd(s)
    BY <2>1 DEF OwedAtEnd
  <2>5. QED
    BY <1>2, <2>1, <2>3, <2>4, QuietStepsOweAsMuch DEF PendingIn
<1>3. ASSUME NEW p \in Handovers, ReadMetric(p) PROVE StaysAreDue'
  <2>1. /\ step'[p] = "counting"
        /\ IF kind[p] \in Transfers THEN step[p] = "held" ELSE step[p] = "saved"
        /\ OthersWait(p) /\ handed' = handed /\ kind' = kind /\ read' = read
        /\ lastStay' = lastStay /\ metric' = metric /\ blurred' = blurred /\ closing' = closing
        /\ metricCopy'[p] = metric /\ closingCopy' = closingCopy
        /\ readTwice' = readTwice \cup (IF closing[p] = "counting" THEN ClosingStay ELSE {})
    BY <1>3
       DEF ReadMetric, Proceed, OthersWait, WaitsTypeOK, roomVars, taskVars, chatVars, waitHistory
  <2>2. HandoverFits(p) /\ closing[p] \in {"none", "sent", "counting", "over"}
    BY DEF HandoversFit, WaitsTypeOK
  <2>3. CASE kind[p] = "close" /\ closing[p] \in {"sent", "counting"}
    <3>1. step[p] = "saved" /\ readTwice = {}
      BY <2>1, <2>2, <2>3 DEF HandoverFits, Transfers
    <3>2. QED
      BY <2>1, <2>3, <3>1, ReadersOweAsMuch
  <2>4. CASE ~(kind[p] = "close" /\ closing[p] \in {"sent", "counting"})
    <3>1. closing[p] \in {"none", "over"}
      BY <2>1, <2>2, <2>4 DEF HandoverFits
    <3>2. kind[p] = "close" => readTwice = {}
      BY <2>1, <2>2 DEF HandoverFits, Transfers
    <3>3. \A s \in Stays : CopyIsNew(p, s)'
      BY <2>1, <3>1, <3>2 DEF CopyIsNew
    <3>4. \A s : p \in PendingIn(s)' <=> p \in PendingIn(s)
      BY <2>1 DEF PendingIn, CountsStay
    <3>5. \A s \in Stays : OwedAtEnd(s)' = OwedAtEnd(s)
      BY <2>1 DEF OwedAtEnd
    <3>6. QED
      BY <1>3, <2>1, <3>1, <3>3, <3>4, <3>5, QuietStepsOweAsMuch
  <2>5. QED
    BY <2>3, <2>4
<1>4. ASSUME NEW p \in Handovers, CutHandover(p) PROVE StaysAreDue'
  <2>1. /\ step'[p] = "over" /\ OthersWait(p) /\ handed' = handed
        /\ lastStay' = lastStay /\ metric' = metric /\ readTwice' = readTwice
        /\ blurred \subseteq blurred' /\ (step[p] = "held" \/ read[p].since \in blurred')
        /\ closingCopy' = closingCopy /\ step[p] \in {"held", "saved", "counting"}
        /\ closing'[p] = closing[p]
           \/ (kind[p] = "close" /\ step[p] = "saved" /\ closing'[p] = "none")
    BY <1>4
       DEF CutHandover, Forget, OthersWait, WaitsTypeOK, roomVars, chatVars, waitHistory
  <2>2. HandoverFits(p)
    BY DEF HandoversFit
  <2>3. ASSUME NEW s \in Stays \ blurred'
        PROVE  /\ ~(p \in PendingIn(s)') /\ p \notin PendingIn(s)
               /\ OwedAtEnd(s)' = OwedAtEnd(s) /\ CopyIsNew(p, s)'
    <3>1. ~(p \in PendingIn(s)') /\ p \notin PendingIn(s)
      BY <2>1 DEF PendingIn
    <3>2. CASE handed.queued /\ s = handed.since
      <4>1. closing[p] = "none" /\ closing'[p] = "none"
        BY <2>1, <2>2, <3>2 DEF HandoverFits
      <4>2. closing' = closing
        BY <1>4, <4>1 DEF WaitsTypeOK, CutHandover
      <4>3. QED
        BY <2>1, <3>1, <4>1, <4>2 DEF OwedAtEnd, CopyIsNew
    <3>3. CASE ~(handed.queued /\ s = handed.since)
      BY <2>1, <3>1, <3>3 DEF OwedAtEnd, CopyIsNew
    <3>4. QED
      BY <3>2, <3>3
  <2>4. QED
    BY <1>4, <2>1, <2>3, QuietStepsOweAsMuch
<1>5. ASSUME NEW p \in Handovers, ReadClosing(p) PROVE StaysAreDue'
  <2>1. /\ OthersWait(p) /\ handed' = handed /\ step' = step /\ kind' = kind /\ read' = read
        /\ lastStay' = lastStay /\ metric' = metric /\ blurred' = blurred
        /\ closing[p] = "sent" /\ closing'[p] = "counting"
        /\ metricCopy' = metricCopy /\ closingCopy'[p] = metric
        /\ readTwice' = readTwice \cup (IF step[p] = "counting" THEN ClosingStay ELSE {})
    BY <1>5 DEF ReadClosing, OthersWait, WaitsTypeOK, roomVars, chatVars, waitHistory
  <2>2. readTwice = {} /\ step[p] \in {"saved", "counting", "over"}
    BY <2>1 DEF HandoversFit, HandoverFits
  <2>3. CASE step[p] = "over"
    <3>1. \A s \in Stays : CopyIsNew(p, s)'
      BY <2>1, <2>2, <2>3 DEF CopyIsNew, PendingIn
    <3>2. \A s \in Stays : OwedAtEnd(s)' = OwedAtEnd(s)
      BY <2>1 DEF OwedAtEnd, OthersWait
    <3>3. QED
      BY <1>5, <2>1, <2>2, <2>3, <3>1, <3>2, QuietStepsOweAsMuch DEF PendingIn
  <2>4. CASE step[p] \in {"saved", "counting"}
    <3>1. kind[p] = "close"
      BY <2>1, <2>4 DEF HandoversFit, HandoverFits
    <3>2. QED
      BY <2>1, <2>2, <2>4, <3>1, ReadersOweAsMuch
  <2>5. QED
    BY <2>2, <2>3, <2>4
<1>6. ASSUME UNCHANGED <<handed, lastStay, step, kind, read, metricCopy, closing, closingCopy,
                         blurred, readTwice>>,
             metric'.counted = metric.counted
      PROVE  StaysAreDue'
  BY <1>6
     DEF StaysAreDue, StayIsDue, Debt, Owed, OwedAtEnd, Due, PendingIn, CountsStay, CopyIsNew
<1>7. ASSUME NEW p \in Handovers, CheckGreeting(p) \/ Greet(p) PROVE StaysAreDue'
  BY <1>6, <1>7 DEF CheckGreeting, Greet, roomVars, waitHistory
<1>8. ASSUME NEW m \in Replies, InsertReply(m) \/ CommitReply(m) PROVE StaysAreDue'
  BY <1>6, <1>8 DEF InsertReply, CommitReply, roomVars, waitHistory
<1>9. ASSUME NEW m \in Replies, StoreFirstResponse(m) PROVE StaysAreDue'
  <2>1. metric'.counted = metric.counted
    BY <1>9 DEF StoreFirstResponse, WaitsTypeOK, Metrics
  <2>2. QED
    BY <1>6, <1>9, <2>1 DEF StoreFirstResponse
<1>10. CASE WaitsNext
  <2>1. ASSUME NEW p \in Handovers, SaveTaking(p) \/ SaveClosed(p) PROVE StaysAreDue'
    BY <2>1, SavingsOwe DEF StaysAreDue
  <2>2. ASSUME NEW p \in Handovers, SaveOnly(p) PROVE StaysAreDue'
    BY <2>2, GivingBackOwesNothing DEF StaysAreDue
  <2>3. ASSUME NEW p \in Handovers, CommitMove(p) PROVE StaysAreDue'
    BY <2>3, MovesCountTheirStay DEF StaysAreDue
  <2>4. ASSUME NEW p \in Handovers, WriteMetric(p) PROVE StaysAreDue'
    BY <2>4, CountingPays DEF StaysAreDue
  <2>5. ASSUME NEW p \in Handovers, WriteClosing(p) PROVE StaysAreDue'
    BY <2>5, ClosingPays DEF StaysAreDue
  <2>6. QED
    BY <1>1, <1>2, <1>3, <1>4, <1>5, <1>7, <1>8, <1>9, <1>10, <2>1, <2>2, <2>3, <2>4, <2>5
       DEF WaitsNext
<1>11. QED
  BY <1>6, <1>10 DEF waitVars, roomVars, taskVars, waitHistory

\* The steps of a handover fit with the room.
LEMMA HandoversStillFit ==
  ASSUME WaitsTypeOK, WaitsTypeOK', HandoversFit, [WaitsNext]_waitVars
  PROVE  HandoversFit'
<1>0. /\ \A o \in Handovers : HandoverFits(o)
      /\ \A o, q \in Handovers : closing[o] # "none" /\ closing[q] # "none" => o = q
      /\ handed.since \in blurred \/ handed.since = lastStay
      /\ handed.since \in Stays /\ handed.since <= lastStay /\ lastStay \in Stays
      /\ Stays \subseteq Nat /\ NewRoom.since = 1 /\ \A t \in Stays : 1 <= t
      /\ handed \in HandedRooms /\ read \in [Handovers -> HandedRooms]
      /\ \A o \in Handovers : read[o].since \in Stays
      /\ readTwice \subseteq ClosingStay
  BY WaitsAssumption DEF HandoversFit, WaitsTypeOK, HandedRooms, Stays, NewRoom, WaitsAssumption
<1>1. ASSUME NEW p \in Handovers, OthersWait(p), HandoverFits(p)', handed' = handed,
             lastStay' = lastStay, blurred \subseteq blurred',
             closing'[p] # "none" => closing[p] # "none",
             readTwice' = readTwice \/ (closing[p] # "none" /\ readTwice' \subseteq ClosingStay)
      PROVE  HandoversFit'
  <2>1. ASSUME NEW o \in Handovers \ {p} PROVE HandoverFits(o)'
    <3>1. HandoverFits(o)
      BY <1>0
    <3>2. CASE readTwice' = readTwice
      BY <1>1, <2>1, <3>1, <3>2 DEF HandoverFits, OthersWait
    <3>3. CASE closing[p] # "none"
      <4>1. closing[o] = "none" /\ ~(step[o] = "saved" /\ kind[o] = "close")
        BY <1>0, <2>1, <3>1, <3>3 DEF HandoverFits
      <4>2. QED
        BY <1>1, <2>1, <3>1, <4>1 DEF HandoverFits, OthersWait
    <3>4. QED
      BY <1>1, <3>2, <3>3
  <2>2. \A o, q \in Handovers : closing'[o] # "none" /\ closing'[q] # "none" => o = q
    BY <1>0, <1>1 DEF OthersWait
  <2>3. readTwice' \subseteq ClosingStay'
    BY <1>0, <1>1 DEF ClosingStay
  <2>4. QED
    BY <1>0, <1>1, <2>1, <2>2, <2>3 DEF HandoversFit
<1>2. ASSUME NEW p \in Handovers, WritesRoom(p), OthersWait(p), HandoverFits(p)' PROVE HandoversFit'
  <2>1. /\ \A o \in Handovers : closing[o] = "none"
        /\ \A o \in Handovers : ~(step[o] \in {"saved", "counting"} /\ kind[o] = "close")
        /\ readTwice' = {}
    BY <1>0, <1>2 DEF HandoverFits, WritesRoom, WaitsTypeOK, ClosingStay
  <2>2. lastStay <= lastStay' /\ lastStay' \in Nat
    BY <1>0, <1>2 DEF WritesRoom
  <2>3. ASSUME NEW o \in Handovers \ {p} PROVE HandoverFits(o)'
    <3>1. read'[o].since <= lastStay'
      <4>1. read[o].since <= lastStay /\ read[o].since \in Nat /\ lastStay \in Nat
        BY <1>0 DEF HandoverFits
      <4>2. QED
        BY <1>2, <2>2, <2>3, <4>1 DEF OthersWait
    <3>2. QED
      BY <1>0, <1>2, <2>1, <2>3, <3>1 DEF HandoverFits, OthersWait
  <2>4. \A o, q \in Handovers : closing'[o] # "none" /\ closing'[q] # "none" => o = q
    BY <1>2, <2>1 DEF OthersWait
  <2>5. handed'.since \in blurred' \/ handed'.since = lastStay'
    <3>1. CASE handed # read[p]
      BY <1>2, <3>1 DEF WritesRoom
    <3>2. CASE handed = read[p]
      <4>1. kind[p] \in Kinds /\ handed' = AfterHandover(kind[p], handed)
        BY <1>2, <3>2 DEF WritesRoom, WaitsTypeOK
      <4>2. handed'.since = handed.since \/ handed'.since = lastStay + 1
        BY <1>0, <4>1, HandoverIs DEF Kinds, Transfers
      <4>3. QED
        BY <1>0, <1>2, <3>2, <4>2 DEF WritesRoom
    <3>3. QED
      BY <3>1, <3>2
  <2>6. QED
    BY <2>1, <2>3, <1>2, <2>4, <2>5 DEF HandoversFit
<1>3. CASE UNCHANGED <<handed, lastStay, step, kind, read, closing, blurred, readTwice>>
  BY <1>0, <1>3 DEF HandoversFit, HandoverFits, ClosingStay
<1>4. ASSUME NEW p \in Handovers, NEW k \in Kinds, Begin(p, k) PROVE HandoversFit'
  <2>1. /\ step'[p] = "held" /\ kind'[p] = k /\ read'[p] = handed /\ OthersWait(p)
        /\ handed' = handed /\ lastStay' = lastStay /\ closing' = closing /\ blurred' = blurred
        /\ k \in Takings => handed.queued
        /\ k = "expire" => ~handed.queued
        /\ readTwice' = readTwice
    BY <1>4
       DEF Begin, Proceed, OthersWait, WaitsTypeOK, roomVars, taskVars, chatVars, waitHistory
  <2>2. HandoverFits(p) /\ closing[p] = "none"
    BY <1>0, <1>4 DEF HandoverFits, Begin, Proceed
  <2>3. HandoverFits(p)'
    BY <1>0, <2>1, <2>2 DEF HandoverFits
  <2>4. QED
    BY <1>1, <1>4, <2>1, <2>3
<1>5. ASSUME NEW p \in Handovers, step'[p] = "over", read'[p] = NewRoom, OthersWait(p),
             handed' = handed, lastStay' = lastStay, blurred \subseteq blurred',
             closing'[p] \in {closing[p], "none"}, readTwice' = readTwice
      PROVE  HandoversFit'
  <2>1. HandoverFits(p)'
    BY <1>0, <1>5 DEF HandoverFits
  <2>2. QED
    BY <1>1, <1>5, <2>1
<1>6. ASSUME NEW p \in Handovers, RefuseHandover(p) \/ RefuseMove(p) \/ WriteMetric(p)
      PROVE  HandoversFit'
  BY <1>5, <1>6
     DEF RefuseHandover, RefuseMove, WriteMetric, Proceed, Forget, OthersWait, WaitsTypeOK,
         roomVars, taskVars, chatVars, waitHistory
<1>7. ASSUME NEW p \in Handovers, CutHandover(p) PROVE HandoversFit'
  BY <1>5, <1>7
     DEF CutHandover, Forget, OthersWait, WaitsTypeOK, roomVars, chatVars, waitHistory
<1>8. ASSUME NEW p \in Handovers, WriteClosing(p) PROVE HandoversFit'
  <2>1. /\ closing[p] = "counting" /\ closing'[p] = "over" /\ handed' = handed /\ OthersWait(p)
        /\ step' = step /\ kind' = kind /\ read' = read /\ readTwice' = readTwice
        /\ lastStay' = lastStay /\ blurred \subseteq blurred'
    BY <1>8 DEF WriteClosing, OthersWait, WaitsTypeOK
  <2>2. HandoverFits(p)'
    BY <1>0, <2>1 DEF HandoverFits
  <2>3. QED
    BY <1>1, <1>8, <2>1, <2>2
<1>9. ASSUME NEW p \in Handovers, ReadClosing(p) PROVE HandoversFit'
  <2>1. /\ step' = step /\ read' = read /\ kind' = kind /\ OthersWait(p)
        /\ handed' = handed /\ lastStay' = lastStay /\ blurred' = blurred /\ closing[p] = "sent"
        /\ closing'[p] = "counting"
        /\ readTwice' = readTwice \cup (IF step[p] = "counting" THEN ClosingStay ELSE {})
    BY <1>9 DEF ReadClosing, OthersWait, WaitsTypeOK, roomVars, waitHistory
  <2>2. HandoverFits(p) /\ readTwice = {}
    BY <1>0, <2>1 DEF HandoverFits
  <2>3. HandoverFits(p)'
    BY <2>1, <2>2 DEF HandoverFits
  <2>4. QED
    BY <1>1, <1>9, <2>1, <2>2, <2>3
<1>10. ASSUME NEW p \in Handovers, ReadMetric(p) PROVE HandoversFit'
  <2>1. /\ (step[p] = "held" /\ kind[p] \in Transfers) \/ step[p] = "saved"
        /\ step'[p] = "counting" /\ read' = read /\ kind' = kind /\ OthersWait(p)
        /\ handed' = handed /\ lastStay' = lastStay /\ blurred' = blurred /\ closing' = closing
        /\ readTwice' = readTwice \cup (IF closing[p] = "counting" THEN ClosingStay ELSE {})
    BY <1>10
       DEF ReadMetric, Proceed, OthersWait, WaitsTypeOK, roomVars, taskVars, chatVars, waitHistory
  <2>2. HandoverFits(p)
    BY <1>0
  <2>3. closing[p] = "counting" => step[p] = "saved" /\ kind[p] = "close"
    BY <2>1, <2>2 DEF HandoverFits
  <2>4. HandoverFits(p)'
    BY <2>1, <2>2, <2>3 DEF HandoverFits, Transfers
  <2>5. QED
    BY <1>0, <1>1, <1>10, <2>1, <2>4
<1>11. ASSUME NEW p \in Handovers, SaveTaking(p) \/ SaveClosed(p) PROVE HandoversFit'
  <2>1. /\ WritesRoom(p) /\ step'[p] = "saved" /\ kind' = kind /\ read' = read
        /\ kind[p] \in Takings \cup {"close"} /\ OthersWait(p)
    <3>1. WritesRoom(p) /\ kind' = kind /\ read' = read /\ kind[p] \in Takings \cup {"close"}
          /\ metricCopy' = metricCopy /\ closingCopy' = closingCopy
      BY <1>11, SavesMove DEF SaveTaking, SaveClosed, chatVars
    <3>2. step' = [step EXCEPT ![p] = "saved"]
      BY <1>11 DEF SaveTaking, SaveClosed, Proceed
    <3>3. closing' = closing \/ closing' = [closing EXCEPT ![p] = "sent"]
      BY <1>11 DEF SaveTaking, SaveClosed
    <3>4. QED
      BY <3>1, <3>2, <3>3 DEF OthersWait, WaitsTypeOK
  <2>2. kind[p] = "close" => ~handed'.open
    BY <1>0, <2>1, HandoverIs DEF WritesRoom, Kinds
  <2>3. closing[p] = "none"
    BY <1>0, <2>1 DEF HandoverFits, WritesRoom
  <2>4. kind[p] # "close" => closing'[p] = "none"
    BY <1>11, <2>3 DEF SaveTaking, SaveClosed
  <2>5. kind[p] = "close" => closing'[p] = "sent" /\ read'[p].since = handed'.since
    <3>1. ASSUME kind[p] = "close" PROVE closing'[p] = "sent"
      BY <1>11, <3>1 DEF SaveTaking, SaveClosed, WaitsTypeOK, Takings
    <3>2. ASSUME kind[p] = "close" PROVE read'[p].since = handed'.since
      BY <1>0, <2>1, <3>2, HandoverIs DEF WritesRoom, Kinds
    <3>3. QED
      BY <3>1, <3>2
  <2>6. read'[p].since <= lastStay' /\ readTwice' = {}
    <3>1. readTwice' = {}
      BY <1>0, <2>1 DEF WritesRoom, ClosingStay
    <3>2. read[p].since <= lastStay /\ read[p].since \in Nat /\ lastStay \in Nat
      BY <1>0 DEF HandoverFits
    <3>3. lastStay <= lastStay' /\ lastStay' \in Nat
      <4>1. \E n \in Stays : lastStay' = IF n > lastStay THEN n ELSE lastStay
        BY <2>1 DEF WritesRoom
      <4>2. Stays \subseteq Nat /\ lastStay \in Nat
        BY <1>0
      <4>3. QED
        BY <4>1, <4>2
    <3>4. QED
      BY <2>1, <3>1, <3>2, <3>3
  <2>7. HandoverFits(p)'
    BY <2>1, <2>2, <2>4, <2>5, <2>6 DEF HandoverFits, Takings
  <2>8. QED
    BY <1>2, <1>11, <2>1, <2>7
<1>12. ASSUME NEW p \in Handovers, SaveOnly(p) \/ CommitMove(p) PROVE HandoversFit'
  <2>1. /\ WritesRoom(p) /\ step' = [step EXCEPT ![p] = "over"] /\ read'[p] = NewRoom
        /\ \A o \in Handovers \ {p} : kind'[o] = kind[o] /\ read'[o] = read[o]
        /\ \A o \in Handovers \ {p} : metricCopy'[o] = metricCopy[o]
        /\ closingCopy' = closingCopy
        /\ closing' = closing \/ closing' = [closing EXCEPT ![p] = "sent"]
    BY <1>12, SavesMove DEF SaveOnly, CommitMove, Proceed, Forget, WaitsTypeOK
  <2>2. OthersWait(p) /\ step'[p] = "over"
    BY <2>1 DEF OthersWait, WaitsTypeOK
  <2>3. closing'[p] # "none" => ~handed'.open
    <3>1. closing[p] = "none"
      BY <1>0, <2>1 DEF HandoverFits, WritesRoom
    <3>2. closing'[p] # "none" => kind[p] = "expire"
      BY <1>12, <3>1 DEF SaveOnly, CommitMove
    <3>3. QED
      BY <1>0, <2>1, <3>2, HandoverIs DEF WritesRoom, Kinds
  <2>4. read'[p].since <= lastStay' /\ readTwice' = {}
    BY <1>0, <2>1 DEF WritesRoom, ClosingStay
  <2>5. HandoverFits(p)'
    BY <2>2, <2>3, <2>4 DEF HandoverFits
  <2>6. QED
    BY <1>2, <1>12, <2>1, <2>2, <2>5
<1>13. ASSUME NEW p \in Handovers, CheckGreeting(p) \/ Greet(p) PROVE HandoversFit'
  BY <1>3, <1>13 DEF CheckGreeting, Greet, roomVars, waitHistory
<1>14. ASSUME NEW m \in Replies, InsertReply(m) \/ CommitReply(m) \/ StoreFirstResponse(m)
       PROVE  HandoversFit'
  BY <1>3, <1>14 DEF InsertReply, CommitReply, StoreFirstResponse, roomVars, waitHistory
<1>15. QED
  <2>1. CASE WaitsNext
    BY <1>4, <1>6, <1>7, <1>8, <1>9, <1>10, <1>11, <1>12, <1>13, <1>14, <2>1 DEF WaitsNext
  <2>2. QED
    BY <1>3, <2>1 DEF waitVars, roomVars, taskVars, chatVars, waitHistory

\* A greeting is sent by a task that found none, and no other task did.
LEMMA StillGreetsOnce ==
  ASSUME WaitsTypeOK, GreetsOnce, [WaitsNext]_waitVars PROVE GreetsOnce'
<1>0. greetings \in Nat /\ greetedTwice \in BOOLEAN
  BY DEF WaitsTypeOK
<1>1. ASSUME greetings' = greetings, greetedTwice => greetedTwice',
             \A p \in Handovers : greeting'[p] = "checked" => greeting[p] = "checked"
      PROVE  GreetsOnce'
  BY <1>1 DEF GreetsOnce
<1>2. ASSUME NEW p \in Handovers, SaveTaking(p) \/ CommitMove(p) PROVE GreetsOnce'
  <2>1. greeting' = greeting \/ greeting' = [greeting EXCEPT ![p] = "sent"]
    BY <1>2 DEF SaveTaking, CommitMove, SendGreeting
  <2>2. QED
    BY <1>1, <1>2, <2>1 DEF SaveTaking, CommitMove, WaitsTypeOK
<1>3. ASSUME NEW p \in Handovers, CheckGreeting(p) PROVE GreetsOnce'
  <2>1. \A o \in Handovers \ {p} : greeting'[o] = greeting[o]
    BY <1>3 DEF CheckGreeting, WaitsTypeOK
  <2>2. greeting'[p] = "checked" => greetings = 0
    BY <1>0, <1>3 DEF CheckGreeting, WaitsTypeOK
  <2>3. /\ ~greetedTwice' => ~greetedTwice /\ \A o \in Handovers : greeting[o] # "checked"
        /\ greetings' = greetings
    BY <1>3 DEF CheckGreeting
  <2>4. QED
    BY <2>1, <2>2, <2>3 DEF GreetsOnce
<1>4. ASSUME NEW p \in Handovers, Greet(p) PROVE GreetsOnce'
  <2>1. /\ greeting[p] = "checked" /\ greetings' = greetings + 1
        /\ greetedTwice' = greetedTwice
        /\ greeting'[p] = "over" /\ \A o \in Handovers \ {p} : greeting'[o] = greeting[o]
    BY <1>4 DEF Greet, WaitsTypeOK, waitHistory
  <2>2. CASE ~greetedTwice
    <3>1. greetings = 0 /\ \A o \in Handovers \ {p} : greeting[o] # "checked"
      BY <1>0, <1>4, <2>1, <2>2 DEF GreetsOnce
    <3>2. QED
      BY <2>1, <3>1 DEF GreetsOnce
  <2>3. QED
    BY <2>1, <2>2 DEF GreetsOnce
<1>5. CASE WaitsNext
  <2>1. ASSUME greetings' = greetings, greetedTwice' = greetedTwice, greeting' = greeting
        PROVE  GreetsOnce'
    BY <1>1, <2>1
  <2>2. ASSUME NEW p \in Handovers,
               \/ \E k \in Kinds : Begin(p, k)
               \/ SaveOnly(p) \/ SaveClosed(p) \/ RefuseHandover(p) \/ ReadMetric(p)
               \/ WriteMetric(p) \/ RefuseMove(p) \/ CutHandover(p) \/ ReadClosing(p)
               \/ WriteClosing(p)
        PROVE  GreetsOnce'
    BY <2>1, <2>2
       DEF Begin, SaveOnly, SaveClosed, RefuseHandover, ReadMetric, WriteMetric, RefuseMove,
           CutHandover, ReadClosing, WriteClosing, taskVars, chatVars, waitHistory
  <2>3. ASSUME NEW m \in Replies, InsertReply(m) \/ CommitReply(m) \/ StoreFirstResponse(m)
        PROVE  GreetsOnce'
    BY <2>1, <2>3 DEF InsertReply, CommitReply, StoreFirstResponse, waitHistory
  <2>4. QED
    BY <1>2, <1>3, <1>4, <1>5, <2>2, <2>3 DEF WaitsNext
<1>6. QED
  BY <1>1, <1>5 DEF waitVars, taskVars, chatVars, waitHistory

\* What a handover has read of the metrics is what it writes of the first response.
LEMMA TimeStillComes ==
  ASSUME WaitsTypeOK, TimeIsComing, [WaitsNext]_waitVars PROVE TimeIsComing'
<1>0. metric.first \in {"null", "zero", "time"} /\ blurredTime \in BOOLEAN
  BY DEF WaitsTypeOK, Metrics
<1>1. ASSUME reply' = reply, timing' = timing, blurredTime => blurredTime',
             ~blurredTime' => metric'.first = metric.first
      PROVE  TimeIsComing'
  BY <1>1 DEF TimeIsComing
<1>2. ASSUME NEW c \in Metrics, NEW t \in Stays, SaveMetric(c, c) \/ SaveMetric(AddStay(c, t), c),
             reply' = reply, timing' = timing
      PROVE  TimeIsComing'
  <2>1. AddStay(c, t).first = c.first
    BY DEF AddStay, Metrics
  <2>2. metric'.first = c.first /\ blurredTime' = (blurredTime \/ metric.first # c.first)
    BY <1>2, <2>1 DEF SaveMetric
  <2>3. QED
    BY <1>1, <1>2, <2>2
<1>3. ASSUME NEW p \in Handovers, WriteMetric(p) PROVE TimeIsComing'
  <2>1. read[p].since \in Stays /\ metricCopy[p] \in Metrics
    BY DEF WaitsTypeOK, HandedRooms
  <2>2. QED
    BY <1>2, <1>3, <2>1 DEF WriteMetric, Counted, taskVars, chatVars
<1>4. ASSUME NEW p \in Handovers, CommitMove(p) PROVE TimeIsComing'
  <2>1. read[p].since \in Stays /\ metricCopy[p] \in Metrics
    BY DEF WaitsTypeOK, HandedRooms
  <2>2. reply' = reply /\ timing' = timing
    BY <1>4 DEF CommitMove
  <2>3. CASE SaveMetric(Counted(p, read[p].since), metricCopy[p])
    BY <1>2, <1>4, <2>1, <2>2, <2>3 DEF Counted
  <2>4. CASE metric' = metric /\ blurredTime' = blurredTime
    BY <1>1, <2>2, <2>4
  <2>5. QED
    BY <1>4, <2>3, <2>4 DEF CommitMove
<1>5. ASSUME NEW p \in Handovers, WriteClosing(p) PROVE TimeIsComing'
  <2>1. handed.since \in Stays /\ closingCopy[p] \in Metrics
    BY DEF WaitsTypeOK, HandedRooms
  <2>2. QED
    BY <1>2, <1>5, <2>1 DEF WriteClosing, chatVars
<1>6. ASSUME NEW m \in Replies, InsertReply(m) PROVE TimeIsComing'
  <2>1. /\ metric' = metric /\ blurredTime' = blurredTime
        /\ IF metric.first = "null" THEN timing'[m] = "sent" ELSE timing' = timing
        /\ \A o \in Replies \ {m} : reply'[o] = reply[o] /\ timing'[o] = timing[o]
    BY <1>6 DEF InsertReply, WaitsTypeOK, roomVars, waitHistory
  <2>2. QED
    BY <1>0, <2>1 DEF TimeIsComing
<1>7. ASSUME NEW m \in Replies, CommitReply(m) PROVE TimeIsComing'
  <2>1. /\ metric' = metric /\ blurredTime' = blurredTime /\ timing' = timing
        /\ reply[m] # "new" /\ \A o \in Replies \ {m} : reply'[o] = reply[o]
    BY <1>7 DEF CommitReply, WaitsTypeOK, roomVars, waitHistory
  <2>2. QED
    BY <2>1 DEF TimeIsComing
<1>8. ASSUME NEW m \in Replies, StoreFirstResponse(m) PROVE TimeIsComing'
  <2>1. reply' = reply /\ timing'[m] = "over" /\ \A o \in Replies \ {m} : timing'[o] = timing[o]
    BY <1>8 DEF StoreFirstResponse, WaitsTypeOK
  <2>2. CASE metric.first = "null"
    <3>1. /\ metric' = [metric EXCEPT !.first = IF Answered THEN "time" ELSE "zero"]
          /\ blurredTime' = (blurredTime \/ ~Answered)
      BY <1>8, <2>2 DEF StoreFirstResponse
    <3>2. ~blurredTime' => metric'.first = "time"
      BY <3>1 DEF WaitsTypeOK, Metrics
    <3>3. QED
      BY <3>2 DEF TimeIsComing
  <2>3. CASE metric.first # "null"
    <3>1. metric' = metric /\ blurredTime' = blurredTime
      BY <1>8, <2>3 DEF StoreFirstResponse
    <3>2. QED
      BY <1>0, <2>1, <2>3, <3>1 DEF TimeIsComing
  <2>4. QED
    BY <2>2, <2>3
<1>9. CASE WaitsNext
  <2>1. ASSUME reply' = reply, timing' = timing, metric' = metric, blurredTime' = blurredTime
        PROVE  TimeIsComing'
    BY <1>1, <2>1
  <2>2. ASSUME NEW p \in Handovers,
               \/ \E k \in Kinds : Begin(p, k)
               \/ SaveTaking(p) \/ SaveOnly(p) \/ SaveClosed(p) \/ RefuseHandover(p)
               \/ ReadMetric(p) \/ RefuseMove(p) \/ CutHandover(p) \/ ReadClosing(p)
               \/ CheckGreeting(p) \/ Greet(p)
        PROVE  TimeIsComing'
    BY <2>1, <2>2
       DEF Begin, SaveTaking, SaveOnly, SaveClosed, RefuseHandover, ReadMetric, RefuseMove,
           CutHandover, ReadClosing, CheckGreeting, Greet, roomVars, taskVars, chatVars,
           waitHistory
  <2>3. QED
    BY <1>3, <1>4, <1>5, <1>6, <1>7, <1>8, <1>9, <2>2 DEF WaitsNext
<1>10. QED
  BY <1>1, <1>9 DEF waitVars, roomVars, taskVars, chatVars, waitHistory

(***************************************************************************)
(* For any number of handovers, stays and answers: every stay in the queue *)
(* is counted once, or twice if the closure ended it and close_metrics did *)
(* not read the metrics at once with close_room, the first answer is timed *)
(* and the contact is greeted once, unless handovers overlapped or were    *)
(* cut.                                                                    *)
(***************************************************************************)
THEOREM WaitsAreMeasured == WaitsSpec => []WaitsHold
<1> DEFINE Inv == HandoversFit /\ StaysAreDue /\ GreetsOnce /\ TimeIsComing
<1>1. WaitsInit => Inv
  <2> SUFFICES ASSUME WaitsInit PROVE Inv
    OBVIOUS
  <2>1. HandoversFit
    BY DEF WaitsInit, HandoversFit, HandoverFits, NewRoom, ClosingStay
  <2>2. ASSUME NEW s \in Stays PROVE StayIsDue(s)
    <3>1. PendingIn(s) = {} /\ OwedAtEnd(s) = 0
      BY DEF WaitsInit, PendingIn, OwedAtEnd
    <3>2. metric.counted[s] = 0
      BY DEF WaitsInit, NoMetrics
    <3>3. Due(s) = 0
      BY WaitsAssumption DEF WaitsInit, Due, NewRoom, Stays, WaitsAssumption
    <3>4. Debt(s) = 0 /\ s \notin readTwice
      BY <3>1 DEF WaitsInit, Debt, Owed
    <3>5. \A p \in Handovers : CopyIsNew(p, s)
      BY DEF WaitsInit, CopyIsNew, NewRoom
    <3>6. QED
      BY <3>1, <3>2, <3>3, <3>4, <3>5 DEF StayIsDue
  <2>3. GreetsOnce /\ TimeIsComing
    BY DEF WaitsInit, GreetsOnce, TimeIsComing, NoMetrics
  <2>4. QED
    BY <2>1, <2>2, <2>3 DEF StaysAreDue
<1>2. WaitsTypeOK /\ WaitsTypeOK' /\ Inv /\ [WaitsNext]_waitVars => Inv'
  BY HandoversStillFit, StaysStillDue, StillGreetsOnce, TimeStillComes
<1>3. WaitsTypeOK /\ Inv => WaitsHold
  <2> SUFFICES ASSUME WaitsTypeOK, Inv PROVE WaitsHold
    OBVIOUS
  <2>1. StaysAreCounted
    <3> SUFFICES ASSUME HandoversDone, NEW s \in {t \in 1..lastStay : Ended(t)} \ blurred
                 PROVE  metric.counted[s] = IF s \in ClosingStay \ readTwice THEN 2 ELSE 1
      BY DEF StaysAreCounted
    <3>1. s \in Stays /\ s <= lastStay /\ Ended(s) /\ s \in Nat /\ lastStay \in Nat
      BY WaitsAssumption DEF WaitsTypeOK, Stays, WaitsAssumption
    <3>2. StayIsDue(s) /\ metric.counted[s] \in Nat
      BY <3>1 DEF StaysAreDue, WaitsTypeOK, Metrics
    <3>3. PendingIn(s) = {} /\ OwedAtEnd(s) = 0
      BY DEF HandoversDone, PendingIn, OwedAtEnd
    <3>4. metric.counted[s] = Due(s)
      BY <3>2, <3>3 DEF StayIsDue, Debt, Owed, Due
    <3>5. /\ handed.queued /\ s = handed.since => ~handed.open
          /\ readTwice \subseteq ClosingStay
      BY <3>1 DEF Ended, HandoversFit
    <3>6. QED
      BY <3>1, <3>4, <3>5 DEF Due, ClosingStay
  <2>2. ResponseIsTimed
    BY DEF ResponseIsTimed, TimeIsComing, Answered
  <2>3. GreetedOnce
    BY DEF GreetedOnce, GreetsOnce
  <2>4. QED
    BY <2>1, <2>2, <2>3 DEF WaitsHold
<1>4. QED
  BY <1>1, <1>2, <1>3, WaitsTypeCorrect, PTL DEF WaitsSpec

(***************************************************************************)
(* What an agent's time is told from: the rows of a type, with the active  *)
(* one, add up to the time the agent was in service or on a break, a day's *)
(* log is in order, and the label goes with the total the agent is counted *)
(* in.                                                                     *)
(***************************************************************************)
THEOREM TimesAreTold == TimesSpec => []TimesHold
<1>1. TimesInv => TimesHold
  <2> SUFFICES ASSUME TimesInv PROVE TimesHold
    OBVIOUS
  <2>1. /\ agentIs \in {"ONLINE", "OFFLINE"} /\ custom \in CustomType
        /\ spent["In-Service"] \in Nat /\ clock \in Nat
    BY TimesAssumption DEF TimesInv, TimesTypeOK, TimesAssumption, CustomType
  <2>2. TimesAddUp
    <3>1. InServiceTime <= ToldOf("In-Service")
      BY <2>1 DEF InServiceTime, ToldOf, CustomType
    <3>2. QED
      BY <3>1 DEF TimesInv, TimeSums, ToldOf, TimesAddUp
  <2>3. ASSUME NEW first \in 0..Today, ~(agentIs = "ONLINE" /\ custom.type = "BREAK"),
               custom.type # "BREAK" \/ custom.since >= first * DayLength
        PROVE  Bucket = IF Label(first) = "custom" THEN "custom_breaks" ELSE Label(first)
    <3> DEFINE inDays == custom.since >= first * DayLength
    <3>1. CASE agentIs = "ONLINE"
      <4>1. Bucket = "online" /\ Label(first) = "online"
        BY <2>3, <3>1 DEF Bucket, Label
      <4>2. QED
        BY <4>1
    <3>2. CASE agentIs # "ONLINE" /\ custom.type = "BREAK"
      <4>1. inDays
        BY <2>3, <3>2
      <4>2. Label(first) = "custom"
        BY <3>2, <4>1 DEF Label
      <4>3. Bucket = "custom_breaks"
        BY <2>1, <3>2 DEF Bucket
      <4>4. QED
        BY <4>2, <4>3
    <3>3. CASE agentIs # "ONLINE" /\ custom.type # "BREAK"
      <4>1. Label(first) = "offline"
        BY <3>3 DEF Label
      <4>2. Bucket = "offline"
        BY <3>3 DEF Bucket
      <4>3. QED
        BY <4>1, <4>2
    <3>4. QED
      BY <3>1, <3>2, <3>3
  <2>4. QED
    BY <2>2, <2>3 DEF TimesInv, TimesHold, StatusIsTold
<1>2. QED
  BY <1>1, TimesAreKept, PTL

(***************************************************************************)
(* In the run that puts agents together: the metrics of rooms measure what *)
(* happened, no project is left half set up by what was not cut short, no  *)
(* time in service or on a break is lost, no user is asked what they think *)
(* more than is due, a member of a group has what the group has, and a     *)
(* message is sent once and keeps its statuses.                            *)
(***************************************************************************)
THEOREM MeasuresAndSetups == AgentsSpec => []AgentsHold
  BY RunIsComponents, WaitsAreMeasured, SetupsAreWhole, TimesAreTold, FeedbacksKept,
     GroupsFollow, MessagesAreOne, StatusesAreShown, PTL DEF AgentsHold
=============================================================================
