--------------------------- MODULE BackgroundProofs ---------------------------
(***************************************************************************)
(* Theorems about the background tasks: the archiving of rooms (Archive),  *)
(* the survey's flow (SurveyFlow), the sweeps over metric goals            *)
(* (MetricGoals), bulk sends (BulkSend) and reports (Reports), for any     *)
(* workers, rooms, messages and bounds on the faults; and so about the run *)
(* of MCBackground.                                                        *)
(***************************************************************************)
EXTENDS MCBackground, FiniteSetTheorems, WellFoundedInduction, TLAPS

-----------------------------------------------------------------------------
(***************************************************************************)
(* Archive: type correctness.                                              *)
(***************************************************************************)
\* The steps of a worker that has claimed a room.
Pipeline(w) ==
    \/ ProcessMessages(w) \/ ReadPage(w) \/ ReadAll(w) \/ SaveFile(w)
    \/ MarkUploaded(w) \/ Refresh(w) \/ CheckUploaded(w)
    \/ DeleteBatch(w) \/ DeletedAll(w)

\* The steps that let go of the room.
Leave(w) == FinishRoom(w) \/ RefuseDeletion(w) \/ FailRoom(w) \/ KillArchiver(w)

\* What happens to a room while no worker takes a step.
RoomStep(r) == PickRoom(r) \/ LoseTask(r) \/ Redeliver(r) \/ HalfDayPasses(r) \/ DayPasses(r)

LEMMA ArchiveCases ==
  ASSUME [ArchiveNext]_archiveVars
  PROVE  \/ \E r \in ArchivedRooms : RoomStep(r)
         \/ \E w \in Workers :
               \/ \E r \in ArchivedRooms : LeaveRoom(w, r) \/ ClaimRoom(w, r)
               \/ Pipeline(w) \/ Leave(w)
         \/ UNCHANGED archiveVars
  BY DEF ArchiveNext, ArchiveStep, TakeRoom, Pipeline, Leave, RoomStep

LEMMA RoomStepType ==
  ASSUME ArchiveTypeOK, NEW r \in ArchivedRooms, RoomStep(r)
  PROVE  ArchiveTypeOK'
<1>1. UNCHANGED <<messages, archived, hasFile, emptied, workerVars, doubled>>
  BY DEF RoomStep, PickRoom, LoseTask, Redeliver, HalfDayPasses, DayPasses, rowOfRoom, workerVars
<1>2. archiveStatus' \in [ArchivedRooms -> ArchiveStatuses]
  BY DEF ArchiveTypeOK, RoomStep, PickRoom, LoseTask, Redeliver, HalfDayPasses, DayPasses,
         rowOfRoom, ArchiveStatuses
<1>3. /\ startedLately' \in [ArchivedRooms -> BOOLEAN]
      /\ pickedLately' \in [ArchivedRooms -> BOOLEAN]
  BY DEF ArchiveTypeOK, RoomStep, PickRoom, LoseTask, Redeliver, HalfDayPasses, DayPasses, rowOfRoom
<1>4. \/ archiveTasks' = archiveTasks
      \/ archiveTasks' = [archiveTasks EXCEPT ![r] = @ + 1]
      \/ archiveTasks[r] > 0 /\ archiveTasks' = [archiveTasks EXCEPT ![r] = @ - 1]
  BY DEF RoomStep, PickRoom, LoseTask, Redeliver, HalfDayPasses, DayPasses
<1>5. archiveTasks' \in [ArchivedRooms -> Nat]
  BY <1>4 DEF ArchiveTypeOK
<1>6. archiveFaults' \in 0..MaxArchiveFaults /\ redeliveries' \in 0..MaxRedeliveries
  BY ArchiveAssumption
  DEF ArchiveTypeOK, RoomStep, PickRoom, LoseTask, Redeliver, HalfDayPasses, DayPasses, Fault, boundVars
<1> QED BY <1>1, <1>2, <1>3, <1>5, <1>6 DEF ArchiveTypeOK, workerVars

LEMMA TakeRoomType ==
  ASSUME ArchiveTypeOK, NEW w \in Workers, NEW r \in ArchivedRooms,
         LeaveRoom(w, r) \/ ClaimRoom(w, r)
  PROVE  ArchiveTypeOK'
<1>1. CASE LeaveRoom(w, r)
  BY <1>1 DEF ArchiveTypeOK, LeaveRoom, ReceiveTask, rowOfRoom, workerVars, boundVars
<1>2. CASE ClaimRoom(w, r)
  BY <1>2, ArchiveAssumption
  DEF ArchiveTypeOK, ClaimRoom, ReceiveTask, Moved, Stages, boundVars
<1> QED BY <1>1, <1>2

LEMMA PipelineType ==
  ASSUME ArchiveTypeOK, NEW w \in Workers, Pipeline(w)
  PROVE  ArchiveTypeOK'
<1>1. working[w] # "idle" /\ atRoom[w] \in ArchivedRooms
  BY DEF ArchiveTypeOK, Pipeline, ProcessMessages, ReadPage, ReadAll, SaveFile, MarkUploaded,
         Refresh, CheckUploaded, DeleteBatch, DeletedAll
<1>2. /\ \E s \in Stages \ {"idle"} : working' = [working EXCEPT ![w] = s]
      /\ atRoom' = atRoom /\ doubled' = doubled
      /\ UNCHANGED <<pickedLately, archiveTasks, boundVars>>
  BY <1>1 DEF ArchiveTypeOK, Pipeline, ProcessMessages, ReadPage, ReadAll, SaveFile, MarkUploaded,
         Refresh, CheckUploaded, DeleteBatch, DeletedAll, Enter, Moved, Stages, workerVars
<1>3. archiveStatus' \in [ArchivedRooms -> ArchiveStatuses]
  BY <1>1 DEF ArchiveTypeOK, Pipeline, ProcessMessages, ReadPage, ReadAll, SaveFile, MarkUploaded,
         Refresh, CheckUploaded, DeleteBatch, DeletedAll, SetArchive, rowOfRoom, ArchiveStatuses
<1>4. /\ hasFile' \in [ArchivedRooms -> BOOLEAN]
      /\ emptied' \in [ArchivedRooms -> BOOLEAN]
      /\ startedLately' \in [ArchivedRooms -> BOOLEAN]
  BY <1>1 DEF ArchiveTypeOK, Pipeline, ProcessMessages, ReadPage, ReadAll, SaveFile, MarkUploaded,
         Refresh, CheckUploaded, DeleteBatch, DeletedAll, rowOfRoom
<1>5. /\ messages' \in [ArchivedRooms -> SUBSET AllMessages]
      /\ archived' \in [ArchivedRooms -> SUBSET AllMessages]
  BY <1>1 DEF ArchiveTypeOK, Pipeline, ProcessMessages, ReadPage, ReadAll, SaveFile, MarkUploaded,
         Refresh, CheckUploaded, DeleteBatch, DeletedAll, rowOfRoom
<1>6. pages' \in [Workers -> SUBSET AllMessages]
  BY <1>1 DEF ArchiveTypeOK, Pipeline, ProcessMessages, ReadPage, ReadAll, SaveFile, MarkUploaded,
         Refresh, CheckUploaded, DeleteBatch, DeletedAll, Unread, workerVars
<1> QED BY <1>1, <1>2, <1>3, <1>4, <1>5, <1>6, ArchiveAssumption DEF ArchiveTypeOK, boundVars

LEMMA LeaveType ==
  ASSUME ArchiveTypeOK, NEW w \in Workers, Leave(w)
  PROVE  ArchiveTypeOK'
<1>1. atRoom[w] \in ArchivedRooms
  BY DEF ArchiveTypeOK, Leave, FinishRoom, RefuseDeletion, FailRoom, KillArchiver
<1> QED BY <1>1, ArchiveAssumption
  DEF ArchiveTypeOK, Leave, FinishRoom, RefuseDeletion, FailRoom, KillArchiver, SetArchive, Rest,
      Fault, Moved, Stages, ArchiveStatuses, rowOfRoom, boundVars

(***************************************************************************)
(* The rows, the workers and the broker stay within the values the code    *)
(* gives them; a worker that is not idle has a room.                       *)
(***************************************************************************)
THEOREM ArchiveType == ArchiveSpec => []ArchiveTypeOK
<1>1. ArchiveInit => ArchiveTypeOK
  BY ArchiveAssumption DEF ArchiveInit, ArchiveTypeOK, ArchiveStatuses, Stages
<1>2. ArchiveTypeOK /\ [ArchiveNext]_archiveVars => ArchiveTypeOK'
  <2> SUFFICES ASSUME ArchiveTypeOK, [ArchiveNext]_archiveVars PROVE ArchiveTypeOK'
    OBVIOUS
  <2>1. CASE UNCHANGED archiveVars
    BY <2>1 DEF ArchiveTypeOK, archiveVars, rowOfRoom, workerVars, boundVars
  <2> QED BY <2>1, ArchiveCases, RoomStepType, TakeRoomType, PipelineType, LeaveType
<1> QED BY <1>1, <1>2, PTL DEF ArchiveSpec
-----------------------------------------------------------------------------
(***************************************************************************)
(* The claim.                                                              *)
(***************************************************************************)
\* A room that is being archived was started less than twelve hours ago.
StartedIsRecent == \A w \in Workers : atRoom[w] # Nothing => startedLately[atRoom[w]]

\* Two workers never archive one room, except those of doubled.
ClaimedAlone ==
    \A v, w \in Workers :
        v # w /\ atRoom[v] = atRoom[w] /\ atRoom[v] # Nothing => atRoom[v] \in doubled

LEMMA ClaimStep ==
  ASSUME ArchiveTypeOK, StartedIsRecent, ClaimedAlone, [ArchiveNext]_archiveVars
  PROVE  StartedIsRecent' /\ ClaimedAlone'
<1>1. CASE UNCHANGED archiveVars
  BY <1>1 DEF StartedIsRecent, ClaimedAlone, archiveVars, rowOfRoom, workerVars
<1>2. ASSUME NEW r \in ArchivedRooms, RoomStep(r)
      PROVE  StartedIsRecent' /\ ClaimedAlone'
  <2>1. UNCHANGED <<atRoom, doubled>>
    BY <1>2 DEF RoomStep, PickRoom, LoseTask, Redeliver, HalfDayPasses, DayPasses, workerVars
  <2>2. \/ startedLately' = startedLately
        \/ /\ \A w \in Workers : atRoom[w] # r
           /\ startedLately' = [startedLately EXCEPT ![r] = FALSE]
    BY <1>2 DEF RoomStep, PickRoom, LoseTask, Redeliver, HalfDayPasses, DayPasses, rowOfRoom
  <2> QED BY <2>1, <2>2 DEF ArchiveTypeOK, StartedIsRecent, ClaimedAlone
<1>3. ASSUME NEW w \in Workers, NEW r \in ArchivedRooms, LeaveRoom(w, r)
      PROVE  StartedIsRecent' /\ ClaimedAlone'
  BY <1>3 DEF LeaveRoom, StartedIsRecent, ClaimedAlone, rowOfRoom, workerVars
<1>4. ASSUME NEW w \in Workers, NEW r \in ArchivedRooms, ClaimRoom(w, r)
      PROVE  StartedIsRecent' /\ ClaimedAlone'
  <2>1. /\ startedLately' = [startedLately EXCEPT ![r] = TRUE]
        /\ atRoom' = [atRoom EXCEPT ![w] = r]
        /\ doubled' = IF \E v \in Workers : atRoom[v] = r THEN doubled \cup {r} ELSE doubled
    BY <1>4 DEF ClaimRoom
  <2>2. StartedIsRecent'
    BY <2>1 DEF ArchiveTypeOK, StartedIsRecent
  <2>3. ClaimedAlone'
    BY <2>1, ArchiveAssumption DEF ArchiveTypeOK, ClaimedAlone
  <2> QED BY <2>2, <2>3
<1>5. ASSUME NEW w \in Workers, Pipeline(w)
      PROVE  StartedIsRecent' /\ ClaimedAlone'
  <2>1. /\ UNCHANGED <<atRoom, doubled>>
        /\ \/ startedLately' = startedLately
           \/ startedLately' = [startedLately EXCEPT ![atRoom[w]] = TRUE]
    BY <1>5 DEF Pipeline, ProcessMessages, ReadPage, ReadAll, SaveFile, MarkUploaded,
           Refresh, CheckUploaded, DeleteBatch, DeletedAll, Enter, rowOfRoom, workerVars
  <2> QED BY <2>1 DEF ArchiveTypeOK, StartedIsRecent, ClaimedAlone
<1>6. ASSUME NEW w \in Workers, Leave(w)
      PROVE  StartedIsRecent' /\ ClaimedAlone'
  <2>1. /\ UNCHANGED <<startedLately, doubled>>
        /\ atRoom' = [atRoom EXCEPT ![w] = Nothing]
    BY <1>6 DEF Leave, FinishRoom, RefuseDeletion, FailRoom, KillArchiver, Rest, rowOfRoom
  <2> QED BY <2>1 DEF ArchiveTypeOK, StartedIsRecent, ClaimedAlone
<1> QED BY <1>1, <1>2, <1>3, <1>4, <1>5, <1>6, ArchiveCases

(***************************************************************************)
(* A worker that holds a room keeps others away from it, unless the row    *)
(* was FAILED when they claimed it (_is_actively_processed).               *)
(***************************************************************************)
THEOREM SoftLock == ArchiveSpec => SoftLockHolds
<1>1. ArchiveInit => StartedIsRecent /\ ClaimedAlone
  BY DEF ArchiveInit, StartedIsRecent, ClaimedAlone
<1>2. ArchiveTypeOK /\ StartedIsRecent /\ ClaimedAlone /\ [ArchiveNext]_archiveVars
      => (StartedIsRecent /\ ClaimedAlone)'
  BY ClaimStep
<1>3. ASSUME ArchiveTypeOK, StartedIsRecent, ArchiveNext,
             NEW w \in Workers, NEW r \in ArchivedRooms,
             atRoom'[w] = r, atRoom[w] # r, NEW v \in Workers, atRoom[v] = r
      PROVE  archiveStatus[r] = "FAILED"
  <2>1. startedLately[r]
    BY <1>3, ArchiveAssumption DEF StartedIsRecent
  <2>2. ClaimRoom(w, r)
    <3>1. CASE \E s \in ArchivedRooms : RoomStep(s)
      BY <1>3, <3>1 DEF RoomStep, PickRoom, LoseTask, Redeliver, HalfDayPasses, DayPasses, workerVars
    <3>2. CASE \E u \in Workers, s \in ArchivedRooms : LeaveRoom(u, s)
      BY <1>3, <3>2 DEF LeaveRoom, workerVars
    <3>3. CASE \E u \in Workers, s \in ArchivedRooms : ClaimRoom(u, s)
      <4>1. PICK u \in Workers, s \in ArchivedRooms : ClaimRoom(u, s)
        BY <3>3
      <4>2. atRoom' = [atRoom EXCEPT ![u] = s]
        BY <4>1 DEF ClaimRoom
      <4> QED BY <1>3, <4>1, <4>2 DEF ArchiveTypeOK
    <3>4. CASE \E u \in Workers : Pipeline(u)
      BY <1>3, <3>4 DEF Pipeline, ProcessMessages, ReadPage, ReadAll, SaveFile, MarkUploaded,
             Refresh, CheckUploaded, DeleteBatch, DeletedAll, Enter, workerVars
    <3>5. CASE \E u \in Workers : Leave(u)
      <4>1. PICK u \in Workers : atRoom' = [atRoom EXCEPT ![u] = Nothing]
        BY <3>5 DEF Leave, FinishRoom, RefuseDeletion, FailRoom, KillArchiver, Rest
      <4> QED BY <1>3, <4>1, ArchiveAssumption DEF ArchiveTypeOK
    <3> QED BY <1>3, <3>1, <3>2, <3>3, <3>4, <3>5, ArchiveCases DEF archiveVars, workerVars
  <2> QED BY <2>1, <2>2 DEF ClaimRoom, ActivelyProcessed
<1>4. ArchiveTypeOK /\ StartedIsRecent /\ [ArchiveNext]_archiveVars
      => [\A w \in Workers, r \in ArchivedRooms :
            /\ atRoom'[w] = r /\ atRoom[w] # r
            /\ \E v \in Workers : atRoom[v] = r
            => archiveStatus[r] = "FAILED"]_archiveVars
  BY <1>3
<1> QED BY <1>1, <1>2, <1>4, ArchiveType, PTL DEF ArchiveSpec, SoftLockHolds
-----------------------------------------------------------------------------
(***************************************************************************)
(* No message is lost.  The file of a row holds every message from the     *)
(* moment the row names it, and messages are missing only from a room with *)
(* a file whose status keeps the next worker from uploading again.         *)
(***************************************************************************)
RoomIsWhole(r) ==
    /\ hasFile[r] => archived[r] = AllMessages
    /\ archiveStatus[r] \in {"MESSAGES_FILE_UPLOADED", "MESSAGES_DELETED_FROM_DB"} => hasFile[r]
    /\ messages[r] # AllMessages =>
          /\ hasFile[r]
          /\ archiveStatus[r] \in {"MESSAGES_FILE_UPLOADED", "MESSAGES_DELETED_FROM_DB",
                                   "FINISHED", "FAILED"}

\* Pages are read in order.
InOrder(read) == \A p \in read, m \in AllMessages : m < p => m \in read

WorkerIsSafe(w) ==
    /\ working[w] \in {"start", "read", "save", "mark"} => messages[atRoom[w]] = AllMessages
    /\ working[w] = "read" => InOrder(pages[w])
    /\ working[w] = "save" => pages[w] = AllMessages
    /\ working[w] \in {"mark", "refresh", "check", "delete", "finish"} => hasFile[atRoom[w]]
    /\ working[w] = "delete" => archiveStatus[atRoom[w]] = "MESSAGES_FILE_UPLOADED"

RoomsAreWhole ==
    /\ \A r \in ArchivedRooms \ doubled : RoomIsWhole(r)
    /\ \A w \in Workers : atRoom[w] \in ArchivedRooms \ doubled => WorkerIsSafe(w)
    /\ \A w \in Workers : working[w] \in {"idle", "start"} => pages[w] = {}

\* A worker touches the room it holds and nothing of the others.
LEMMA OnlyItsRoom ==
  ASSUME ArchiveTypeOK, ArchiveTypeOK', RoomsAreWhole, ClaimedAlone',
         NEW w \in Workers, NEW r \in ArchivedRooms,
         doubled \subseteq doubled',
         \A v \in Workers \ {w} :
            working'[v] = working[v] /\ atRoom'[v] = atRoom[v] /\ pages'[v] = pages[v],
         \A s \in ArchivedRooms \ {r} :
            /\ archiveStatus'[s] = archiveStatus[s] /\ messages'[s] = messages[s]
            /\ archived'[s] = archived[s] /\ hasFile'[s] = hasFile[s],
         r \notin doubled' => RoomIsWhole(r)',
         atRoom'[w] \in {r, Nothing},
         \A v \in Workers \ {w} : atRoom[v] = r => r \in doubled',
         atRoom'[w] = r /\ r \notin doubled' => WorkerIsSafe(w)',
         working'[w] \in {"idle", "start"} => pages'[w] = {}
  PROVE  RoomsAreWhole'
<1>1. ASSUME NEW s \in ArchivedRooms \ doubled' PROVE RoomIsWhole(s)'
  <2>1. CASE s = r
    BY <2>1, <1>1
  <2>2. CASE s # r
    BY <2>2, <1>1 DEF RoomsAreWhole, RoomIsWhole
  <2> QED BY <2>1, <2>2
<1>2. ASSUME NEW v \in Workers, atRoom'[v] \in ArchivedRooms \ doubled' PROVE WorkerIsSafe(v)'
  <2>1. CASE v = w
    BY <2>1, <1>2, ArchiveAssumption
  <2>2. CASE v # w
    <3>1. atRoom'[v] = atRoom[v] /\ atRoom[v] # r /\ atRoom[v] \in ArchivedRooms \ doubled
      BY <2>2, <1>2
    <3>2. WorkerIsSafe(v)
      BY <3>1 DEF RoomsAreWhole
    <3> QED BY <2>2, <3>1, <3>2 DEF WorkerIsSafe
  <2> QED BY <2>1, <2>2
<1>3. ASSUME NEW v \in Workers, working'[v] \in {"idle", "start"} PROVE pages'[v] = {}
  BY <1>3 DEF RoomsAreWhole
<1> QED BY <1>1, <1>2, <1>3 DEF RoomsAreWhole

LEMMA RoomStepWhole ==
  ASSUME ArchiveTypeOK, RoomsAreWhole, NEW r \in ArchivedRooms, RoomStep(r)
  PROVE  RoomsAreWhole'
<1>1. UNCHANGED <<messages, archived, hasFile, workerVars, doubled>>
  BY DEF RoomStep, PickRoom, LoseTask, Redeliver, HalfDayPasses, DayPasses, rowOfRoom, workerVars
<1>2. \/ archiveStatus' = archiveStatus
      \/ archiveStatus' = [archiveStatus EXCEPT ![r] = IF @ = "none" THEN "PENDING" ELSE @]
  BY DEF RoomStep, PickRoom, LoseTask, Redeliver, HalfDayPasses, DayPasses, rowOfRoom
<1> QED BY <1>1, <1>2 DEF ArchiveTypeOK, RoomsAreWhole, RoomIsWhole, WorkerIsSafe, workerVars

LEMMA ClaimWhole ==
  ASSUME ArchiveTypeOK, ArchiveTypeOK', RoomsAreWhole, ClaimedAlone',
         NEW w \in Workers, NEW r \in ArchivedRooms, ClaimRoom(w, r)
  PROVE  RoomsAreWhole'
<1>1. /\ working[w] = "idle"
      /\ working' = [working EXCEPT ![w] = IF NeedsUpload(r) THEN "start" ELSE "refresh"]
      /\ atRoom' = [atRoom EXCEPT ![w] = r]
      /\ doubled' = IF \E v \in Workers : atRoom[v] = r THEN doubled \cup {r} ELSE doubled
      /\ archiveStatus[r] # "FINISHED"
      /\ UNCHANGED <<archiveStatus, archived, hasFile, messages, pages>>
  BY DEF ClaimRoom, ReceiveTask, Moved
<1>2. pages[w] = {}
  BY <1>1 DEF RoomsAreWhole
<1>3. r \notin doubled' => RoomIsWhole(r) /\ RoomIsWhole(r)'
  BY <1>1 DEF RoomsAreWhole, RoomIsWhole
<1>4. r \notin doubled' => WorkerIsSafe(w)'
  <2>1. CASE NeedsUpload(r)
    BY <1>1, <1>3, <2>1 DEF ArchiveTypeOK, NeedsUpload, RoomIsWhole, WorkerIsSafe
  <2>2. CASE ~NeedsUpload(r)
    BY <1>1, <1>3, <2>2 DEF ArchiveTypeOK, NeedsUpload, RoomIsWhole, WorkerIsSafe
  <2> QED BY <2>1, <2>2
<1>5. \A v \in Workers : atRoom[v] = r => r \in doubled'
  BY <1>1
<1>6. /\ doubled \subseteq doubled'
      /\ atRoom'[w] = r
      /\ \A v \in Workers \ {w} :
            working'[v] = working[v] /\ atRoom'[v] = atRoom[v] /\ pages'[v] = pages[v]
  BY <1>1 DEF ArchiveTypeOK
<1> QED BY <1>1, <1>2, <1>3, <1>4, <1>5, <1>6, OnlyItsRoom
\* Nobody else holds the room of a worker, unless it is one of doubled.
LEMMA HeldAlone ==
  ASSUME ArchiveTypeOK, ClaimedAlone, NEW w \in Workers, working[w] # "idle"
  PROVE  \A v \in Workers \ {w} : atRoom[v] = atRoom[w] => atRoom[w] \in doubled
  BY DEF ArchiveTypeOK, ClaimedAlone

LEMMA PipelineWhole ==
  ASSUME ArchiveTypeOK, ArchiveTypeOK', RoomsAreWhole, ClaimedAlone, ClaimedAlone',
         NEW w \in Workers, Pipeline(w)
  PROVE  RoomsAreWhole'
<1> DEFINE r == atRoom[w]
<1>1. working[w] # "idle" /\ r \in ArchivedRooms
  BY DEF ArchiveTypeOK, Pipeline, ProcessMessages, ReadPage, ReadAll, SaveFile, MarkUploaded,
         Refresh, CheckUploaded, DeleteBatch, DeletedAll
<1>2. /\ \E s \in Stages \ {"idle", "start"} : working' = [working EXCEPT ![w] = s]
      /\ atRoom' = atRoom /\ doubled' = doubled
      /\ \E read : pages' = [pages EXCEPT ![w] = read]
  BY <1>1 DEF ArchiveTypeOK, Pipeline, ProcessMessages, ReadPage, ReadAll, SaveFile, MarkUploaded,
         Refresh, CheckUploaded, DeleteBatch, DeletedAll, Enter, Moved, Stages, workerVars
<1>3. \A s \in ArchivedRooms \ {r} :
         /\ archiveStatus'[s] = archiveStatus[s] /\ messages'[s] = messages[s]
         /\ archived'[s] = archived[s] /\ hasFile'[s] = hasFile[s]
  BY <1>1 DEF ArchiveTypeOK, Pipeline, ProcessMessages, ReadPage, ReadAll, SaveFile, MarkUploaded,
         Refresh, CheckUploaded, DeleteBatch, DeletedAll, SetArchive, rowOfRoom
<1>4. ASSUME r \notin doubled PROVE RoomIsWhole(r)' /\ WorkerIsSafe(w)'
  <2>1. RoomIsWhole(r) /\ WorkerIsSafe(w)
    BY <1>1, <1>4 DEF RoomsAreWhole
  <2> USE DEF Enter, Moved, SetArchive, rowOfRoom, workerVars
  <2>2. CASE ProcessMessages(w)
    BY <1>1, <2>1, <2>2 DEF ArchiveTypeOK, RoomsAreWhole, ProcessMessages, RoomIsWhole, WorkerIsSafe, InOrder
  <2>3. CASE ReadPage(w)
    <3>1. PICK m \in Unread(w) :
             /\ \A n \in Unread(w) : m <= n
             /\ pages' = [pages EXCEPT ![w] = @ \cup {m}]
      BY <2>3 DEF ReadPage
    <3>2. messages[r] = AllMessages /\ InOrder(pages[w])
      BY <2>1, <2>3 DEF ReadPage, WorkerIsSafe
    <3>3. InOrder(pages[w] \cup {m})
      <4>1. \A n \in AllMessages : n < m => n \notin Unread(w)
        BY <3>1, ArchiveAssumption DEF Unread, AllMessages, ArchiveTypeOK
      <4>2. pages[w] \subseteq AllMessages /\ m \in AllMessages
        BY <3>1, <3>2 DEF ArchiveTypeOK, Unread
      <4>3. ASSUME NEW n \in AllMessages, n < m PROVE n \in pages[w]
        <5>1. PICK p \in pages[w] : ~(n > p)
          BY <4>1, <4>3, <3>2 DEF Unread
        <5> QED BY <5>1, <4>2, <3>2, ArchiveAssumption DEF InOrder, AllMessages
      <4> QED BY <4>2, <4>3, <3>2 DEF InOrder
    <3> QED BY <1>1, <2>1, <2>3, <3>1, <3>3 DEF ArchiveTypeOK, ReadPage, RoomIsWhole, WorkerIsSafe
  <2>4. CASE ReadAll(w)
    <3>1. pages[w] = AllMessages
      <4>1. /\ \A m \in AllMessages : \E p \in pages[w] : ~(m > p)
            /\ InOrder(pages[w]) /\ pages[w] \subseteq AllMessages
        BY <2>1, <2>4 DEF ReadAll, Unread, WorkerIsSafe, ArchiveTypeOK
      <4>2. ASSUME NEW m \in AllMessages PROVE m \in pages[w]
        <5>1. PICK p \in pages[w] : ~(m > p)
          BY <4>1
        <5>2. m = p \/ m < p
          BY <4>1, <5>1, ArchiveAssumption DEF AllMessages
        <5> QED BY <4>1, <5>1, <5>2 DEF InOrder
      <4> QED BY <4>1, <4>2
    <3> QED BY <1>1, <2>1, <2>4, <3>1 DEF ArchiveTypeOK, ReadAll, RoomIsWhole, WorkerIsSafe
  <2>5. CASE SaveFile(w)
    BY <1>1, <2>1, <2>5 DEF ArchiveTypeOK, SaveFile, RoomIsWhole, WorkerIsSafe
  <2>6. CASE MarkUploaded(w)
    BY <1>1, <2>1, <2>6 DEF ArchiveTypeOK, MarkUploaded, RoomIsWhole, WorkerIsSafe
  <2>7. CASE Refresh(w)
    BY <1>1, <2>1, <2>7 DEF ArchiveTypeOK, Refresh, RoomIsWhole, WorkerIsSafe
  <2>8. CASE CheckUploaded(w)
    BY <1>1, <2>1, <2>8 DEF ArchiveTypeOK, CheckUploaded, RoomIsWhole, WorkerIsSafe
  <2>9. CASE DeleteBatch(w)
    BY <1>1, <2>1, <2>9 DEF ArchiveTypeOK, DeleteBatch, RoomIsWhole, WorkerIsSafe
  <2>10. CASE DeletedAll(w)
    BY <1>1, <2>1, <2>10 DEF ArchiveTypeOK, DeletedAll, RoomIsWhole, WorkerIsSafe
  <2> QED BY <2>2, <2>3, <2>4, <2>5, <2>6, <2>7, <2>8, <2>9, <2>10 DEF Pipeline
<1>5. \A v \in Workers \ {w} : atRoom[v] = r => r \in doubled'
  BY <1>1, <1>2, HeldAlone
<1>6. /\ \A v \in Workers \ {w} :
            working'[v] = working[v] /\ atRoom'[v] = atRoom[v] /\ pages'[v] = pages[v]
      /\ working'[w] \notin {"idle", "start"}
  BY <1>2 DEF ArchiveTypeOK
<1> QED BY <1>1, <1>2, <1>3, <1>4, <1>5, <1>6, OnlyItsRoom

LEMMA LeaveWhole ==
  ASSUME ArchiveTypeOK, ArchiveTypeOK', RoomsAreWhole, ClaimedAlone, ClaimedAlone',
         NEW w \in Workers, Leave(w)
  PROVE  RoomsAreWhole'
<1>1. PICK r \in ArchivedRooms : working[w] # "idle" /\ atRoom[w] = r
  BY DEF ArchiveTypeOK, Leave, FinishRoom, RefuseDeletion, FailRoom, KillArchiver
<1>2. /\ working' = [working EXCEPT ![w] = "idle"]
      /\ atRoom' = [atRoom EXCEPT ![w] = Nothing]
      /\ pages' = [pages EXCEPT ![w] = {}]
      /\ UNCHANGED <<doubled, messages, archived, hasFile>>
      /\ \/ archiveStatus' = archiveStatus
         \/ /\ working[w] = "finish"
            /\ archiveStatus' = [archiveStatus EXCEPT ![r] = "FINISHED"]
         \/ archiveStatus' = [archiveStatus EXCEPT ![r] = "FAILED"]
  BY <1>1
  DEF Leave, FinishRoom, RefuseDeletion, FailRoom, KillArchiver, SetArchive, Rest, Moved, rowOfRoom
<1>3. r \notin doubled' => RoomIsWhole(r)'
  <2>1. archiveStatus'[r] \in {archiveStatus[r], "FINISHED", "FAILED"}
    BY <1>1, <1>2 DEF ArchiveTypeOK
  <2>2. /\ working[w] = "finish" /\ r \notin doubled => hasFile[r]
        /\ r \notin doubled => RoomIsWhole(r)
    BY <1>1 DEF RoomsAreWhole, WorkerIsSafe
  <2> QED BY <1>2, <2>1, <2>2 DEF RoomIsWhole
<1>4. \A s \in ArchivedRooms \ {r} :
         /\ archiveStatus'[s] = archiveStatus[s] /\ messages'[s] = messages[s]
         /\ archived'[s] = archived[s] /\ hasFile'[s] = hasFile[s]
  BY <1>1, <1>2 DEF ArchiveTypeOK
<1>5. \A v \in Workers \ {w} : atRoom[v] = r => r \in doubled'
  BY <1>1, <1>2, HeldAlone
<1>6. /\ \A v \in Workers \ {w} :
            working'[v] = working[v] /\ atRoom'[v] = atRoom[v] /\ pages'[v] = pages[v]
      /\ atRoom'[w] = Nothing /\ pages'[w] = {}
  BY <1>2 DEF ArchiveTypeOK
<1>7. doubled \subseteq doubled' /\ atRoom'[w] # r
  BY <1>1, <1>2, <1>6, ArchiveAssumption
<1> QED BY <1>1, <1>3, <1>4, <1>5, <1>6, <1>7, OnlyItsRoom

(***************************************************************************)
(* Archiving loses no message, whatever fails, is killed, lost or          *)
(* delivered twice, of a room that two workers have never archived at once *)
(* (delete_room_messages deletes only behind a complete file).             *)
(***************************************************************************)
THEOREM ArchiveIsWhole == ArchiveSpec => []ArchivedWhole
<1>1. ArchiveInit => RoomsAreWhole /\ ClaimedAlone /\ StartedIsRecent
  BY DEF ArchiveInit, RoomsAreWhole, RoomIsWhole, WorkerIsSafe, ClaimedAlone, StartedIsRecent
<1>2. ASSUME ArchiveTypeOK, ArchiveTypeOK', RoomsAreWhole, ClaimedAlone, StartedIsRecent,
             [ArchiveNext]_archiveVars
      PROVE  RoomsAreWhole' /\ ClaimedAlone' /\ StartedIsRecent'
  <2>1. ClaimedAlone' /\ StartedIsRecent'
    BY <1>2, ClaimStep
  <2>2. CASE UNCHANGED archiveVars
    BY <1>2, <2>1, <2>2 DEF RoomsAreWhole, RoomIsWhole, WorkerIsSafe, archiveVars, rowOfRoom, workerVars
  <2>3. CASE \E w \in Workers, r \in ArchivedRooms : LeaveRoom(w, r)
    BY <1>2, <2>1, <2>3 DEF RoomsAreWhole, RoomIsWhole, WorkerIsSafe, LeaveRoom, rowOfRoom, workerVars
  <2>4. RoomsAreWhole'
    BY <1>2, <2>1, <2>2, <2>3, ArchiveCases, RoomStepWhole, ClaimWhole, PipelineWhole, LeaveWhole
  <2> QED BY <2>1, <2>4
<1>3. RoomsAreWhole => ArchivedWhole
  BY DEF RoomsAreWhole, RoomIsWhole, ArchivedWhole, Complete
<1>4. ArchiveTypeOK /\ ArchiveTypeOK' /\ (RoomsAreWhole /\ ClaimedAlone /\ StartedIsRecent)
        /\ [ArchiveNext]_archiveVars
      => (RoomsAreWhole /\ ClaimedAlone /\ StartedIsRecent)'
  BY <1>2
<1> QED BY <1>1, <1>3, <1>4, ArchiveType, PTL DEF ArchiveSpec

-----------------------------------------------------------------------------
(***************************************************************************)
(* SurveyFlow.  Counters stay within each other, and what a worker or a    *)
(* reader has of the row was in it.                                        *)
(***************************************************************************)
FlowCounts ==
    /\ createTasks <= enables
    /\ flowVersion = 0 => flowId < MaxFlows
    /\ flowVersion # 0 => flowId # 0
    /\ \A w \in Workers : versionSeen[w] # 0 => configVersion # 0
    /\ reading # 0 => configFlow # 0

\* Workers that are about to save have one version, that of the flow.
ImportsAgree ==
    /\ \A v, w \in Workers : flowAt[v] \in Unsaved /\ flowAt[w] \in Unsaved => runs[v] = runs[w]
    /\ \A w \in Workers : flowAt[w] \in Unsaved /\ flowVersion # 0 => runs[w] = flowVersion
    /\ \A w \in Workers :
          flowAt[w] = "saving" /\ versionSeen[w] = runs[w] => configVersion = runs[w]

FlowInv ==
    /\ SurveyFlowTypeOK /\ FlowCounts
    /\ mixed \/ cut \/ ImportsAgree
    /\ FlowIsCurrent

\* The steps of the deployment, of requests and of readers.
FlowOutside ==
    \/ Deploy \/ DeleteFlow \/ SendCommand \/ ReadFlow \/ CacheFlow \/ ExpireFlow
    \/ \E v \in Versions : EnableSurveys(v) \/ ExpireUpdate(v)

LEMMA FlowBegins == ASSUME FlowInit PROVE FlowInv
<1>1. SurveyFlowTypeOK
  <2>1. /\ 1 \in Versions /\ 0 \in 0..MaxFlows /\ 0 \in 0..MaxEnables /\ 0 \in 0..MaxFlowFaults
        /\ 0 \in 0..0 /\ 0 \in 0..1 /\ 1 \in 1..1
    BY SurveyFlowAssumption DEF SurveyFlowAssumption, Versions
  <2>2. QED
    BY <2>1 DEF FlowInit, SurveyFlowTypeOK, Unsaved
<1>2. FlowCounts /\ ImportsAgree /\ FlowIsCurrent
  BY SurveyFlowAssumption
     DEF FlowInit, FlowCounts, ImportsAgree, FlowIsCurrent, RowMatchesFlow, CachedFlowIsCurrent,
         Unsaved, SurveyFlowAssumption
<1>3. QED
  BY <1>1, <1>2 DEF FlowInv

LEMMA OutsideKeepsFlow ==
  ASSUME FlowInv, FlowOutside PROVE FlowInv'
<1>0. /\ MaxVersion \in Nat \ {0} /\ MaxFlows \in Nat \ {0}
      /\ MaxEnables \in Nat /\ MaxFlowFaults \in Nat
  BY SurveyFlowAssumption DEF SurveyFlowAssumption
<1> USE DEF flowRows, flowTasks, flowCopies, flowHistory
<1>1. SurveyFlowTypeOK'
  <2> USE <1>0 DEF FlowInv, SurveyFlowTypeOK, FlowCounts, Versions, Unsaved
  <2>1. CASE Deploy
    BY <2>1 DEF Deploy
  <2>2. CASE DeleteFlow
    BY <2>2 DEF DeleteFlow
  <2>7. CASE SendCommand
    BY <2>7 DEF SendCommand
  <2>3. CASE ReadFlow
    BY <2>3 DEF ReadFlow
  <2>8. CASE CacheFlow
    BY <2>8 DEF CacheFlow
  <2>9. CASE ExpireFlow
    <3>1. 0 \in 0..flowId /\ cachedFlow' = 0 /\ refilled' = FALSE
      BY <2>9 DEF ExpireFlow
    <3>2. /\ release' = release /\ runs' = runs /\ flowVersion' = flowVersion /\ flowId' = flowId
          /\ configVersion' = configVersion /\ configFlow' = configFlow
          /\ createTasks' = createTasks /\ command' = command /\ updateTasks' = updateTasks
          /\ flowAt' = flowAt /\ flowSeen' = flowSeen /\ versionSeen' = versionSeen
          /\ reading' = reading /\ mixed' = mixed /\ cut' = cut
          /\ enables' = enables /\ flowFaults' = flowFaults
      BY <2>9 DEF ExpireFlow
    <3>3. QED
      BY <3>1, <3>2
  <2>4. ASSUME NEW v \in Versions, EnableSurveys(v) PROVE SurveyFlowTypeOK'
    BY <2>4 DEF EnableSurveys
  <2>5. ASSUME NEW v \in Versions, ExpireUpdate(v) PROVE SurveyFlowTypeOK'
    BY <2>5 DEF ExpireUpdate
  <2>10. QED
    BY <2>1, <2>2, <2>3, <2>4, <2>5, <2>7, <2>8, <2>9 DEF FlowOutside
<1>2. FlowCounts' /\ FlowIsCurrent'
  <2> USE <1>0 DEF FlowInv, SurveyFlowTypeOK, FlowCounts, FlowIsCurrent, RowMatchesFlow,
                   CachedFlowIsCurrent
  <2>1. CASE Deploy \/ DeleteFlow \/ SendCommand
    BY <2>1 DEF Deploy, DeleteFlow, SendCommand
  <2>2. CASE ReadFlow \/ CacheFlow \/ ExpireFlow
    BY <2>2 DEF ReadFlow, CacheFlow, ExpireFlow
  <2>3. CASE \E v \in Versions : EnableSurveys(v) \/ ExpireUpdate(v)
    BY <2>3 DEF EnableSurveys, ExpireUpdate
  <2>4. QED
    BY <2>1, <2>2, <2>3 DEF FlowOutside
<1>3. (mixed \/ cut \/ ImportsAgree)'
  BY DEF FlowInv, ImportsAgree, FlowOutside, Deploy, DeleteFlow, SendCommand, ReadFlow, CacheFlow,
         ExpireFlow, EnableSurveys, ExpireUpdate
<1>4. QED
  BY <1>1, <1>2, <1>3 DEF FlowInv

\* A worker takes a message, or ends its task: nobody becomes unsaved.
LEMMA WorkerKeepsFlow ==
  ASSUME FlowInv, NEW w \in Workers,
         \/ Upgrade(w) \/ RunCommand(w) \/ TakeCreate(w) \/ FailImport(w)
         \/ CollideOnConfig(w) \/ InvalidateFlow(w) \/ KillFlowTask(w)
         \/ \E v \in Versions : TakeUpdate(w, v) \/ RefuseUpdate(w, v)
  PROVE  FlowInv'
<1>0. /\ MaxVersion \in Nat \ {0} /\ MaxFlows \in Nat \ {0}
      /\ MaxEnables \in Nat /\ MaxFlowFaults \in Nat
  BY SurveyFlowAssumption DEF SurveyFlowAssumption
<1> USE DEF flowRows, flowTasks, flowCopies, flowHistory, EndFlowTask, Moved
<1>1. SurveyFlowTypeOK'
  <2> USE <1>0 DEF FlowInv, SurveyFlowTypeOK, FlowCounts, Versions, Unsaved
  <2>1. CASE Upgrade(w)
    BY <2>1 DEF Upgrade
  <2>2. CASE RunCommand(w)
    BY <2>2 DEF RunCommand
  <2>3. CASE TakeCreate(w)
    BY <2>3 DEF TakeCreate
  <2>9. ASSUME NEW v \in Versions, TakeUpdate(w, v) PROVE SurveyFlowTypeOK'
    BY <2>9 DEF TakeUpdate
  <2>10. ASSUME NEW v \in Versions, RefuseUpdate(w, v) PROVE SurveyFlowTypeOK'
    BY <2>10 DEF RefuseUpdate
  <2>4. CASE FailImport(w)
    BY <2>4 DEF FailImport
  <2>5. CASE CollideOnConfig(w)
    BY <2>5 DEF CollideOnConfig
  <2>6. CASE InvalidateFlow(w)
    BY <2>6 DEF InvalidateFlow
  <2>7. CASE KillFlowTask(w)
    BY <2>7 DEF KillFlowTask
  <2>11. QED
    BY <2>1, <2>2, <2>3, <2>4, <2>5, <2>6, <2>7, <2>9, <2>10
<1>2. FlowCounts'
  BY DEF FlowInv, FlowCounts, SurveyFlowTypeOK, Upgrade, RunCommand, TakeCreate, FailImport,
         CollideOnConfig, InvalidateFlow, KillFlowTask, TakeUpdate, RefuseUpdate
<1>3. /\ configVersion' = configVersion /\ flowVersion' = flowVersion /\ mixed' = mixed
      /\ configFlow' = configFlow
      /\ \A v \in Workers \ {w} :
            flowAt'[v] = flowAt[v] /\ runs'[v] = runs[v] /\ versionSeen'[v] = versionSeen[v]
      /\ flowAt'[w] \notin Unsaved
      /\ cut' \/ flowAt[w] \notin Unsaved
      /\ cut => cut'
  <2> USE DEF FlowInv, SurveyFlowTypeOK, Unsaved
  <2>1. CASE Upgrade(w) \/ RunCommand(w) \/ TakeCreate(w)
    BY <2>1 DEF Upgrade, RunCommand, TakeCreate
  <2>2. CASE FailImport(w) \/ CollideOnConfig(w)
    BY <2>2 DEF FailImport, CollideOnConfig
  <2>3. CASE InvalidateFlow(w) \/ KillFlowTask(w)
    BY <2>3 DEF InvalidateFlow, KillFlowTask
  <2>4. CASE \E v \in Versions : TakeUpdate(w, v) \/ RefuseUpdate(w, v)
    BY <2>4 DEF TakeUpdate, RefuseUpdate
  <2>5. QED
    BY <2>1, <2>2, <2>3, <2>4
<1>4. (mixed \/ cut \/ ImportsAgree)' /\ RowMatchesFlow'
  BY <1>3 DEF FlowInv, ImportsAgree, FlowIsCurrent, RowMatchesFlow, Unsaved
<1>5. CachedFlowIsCurrent'
  <2>1. CASE InvalidateFlow(w)
    BY <2>1 DEF InvalidateFlow, CachedFlowIsCurrent
  <2>2. CASE ~InvalidateFlow(w)
    <3>1. /\ cachedFlow' = cachedFlow /\ (refilled => refilled')
          /\ flowAt[w] = "invalidate" => refilled' \/ flowAt' = flowAt
      <4>1. CASE KillFlowTask(w)
        BY <4>1 DEF KillFlowTask
      <4>2. CASE Upgrade(w) \/ RunCommand(w) \/ TakeCreate(w)
        BY <4>2 DEF Upgrade, RunCommand, TakeCreate
      <4>3. CASE FailImport(w) \/ CollideOnConfig(w)
        BY <4>3 DEF FailImport, CollideOnConfig
      <4>4. CASE \E v \in Versions : TakeUpdate(w, v) \/ RefuseUpdate(w, v)
        BY <4>4 DEF TakeUpdate, RefuseUpdate
      <4>5. QED
        BY <2>2, <4>1, <4>2, <4>3, <4>4
    <3>2. QED
      BY <1>3, <3>1 DEF FlowInv, FlowIsCurrent, CachedFlowIsCurrent
  <2>3. QED
    BY <2>1, <2>2
<1>6. QED
  BY <1>1, <1>2, <1>4, <1>5 DEF FlowInv, FlowIsCurrent

LEMMA ImportKeepsFlow ==
  ASSUME FlowInv, NEW w \in Workers, ImportFlow(w) \/ ReadConfig(w) PROVE FlowInv'
<1>0. /\ MaxVersion \in Nat \ {0} /\ MaxFlows \in Nat \ {0}
      /\ MaxEnables \in Nat /\ MaxFlowFaults \in Nat
  BY SurveyFlowAssumption DEF SurveyFlowAssumption
<1> USE DEF flowRows, flowTasks, flowCopies, flowHistory, Moved
<1>1. CASE ImportFlow(w)
  <2>1. SurveyFlowTypeOK'
    BY <1>0, <1>1 DEF ImportFlow, FlowInv, SurveyFlowTypeOK, FlowCounts, Unsaved
  <2>2. FlowCounts'
    BY <1>0, <1>1 DEF ImportFlow, FlowInv, SurveyFlowTypeOK, FlowCounts
  <2>3. /\ flowVersion' = runs[w] /\ runs' = runs /\ cut' = cut /\ flowAt'[w] \in Unsaved
        /\ flowAt'[w] # "saving" /\ versionSeen' = versionSeen /\ configVersion' = configVersion
        /\ mixed' = (mixed \/ \E other \in Workers :
                                 flowAt[other] \in Unsaved /\ runs[other] # runs[w])
        /\ \A v \in Workers \ {w} : flowAt'[v] = flowAt[v]
    BY <1>1 DEF ImportFlow, FlowInv, SurveyFlowTypeOK, Unsaved
  <2>4. (mixed \/ cut \/ ImportsAgree)'
    BY <2>3 DEF FlowInv, ImportsAgree
  <2>5. FlowIsCurrent'
    BY <1>1, <2>3 DEF ImportFlow, FlowInv, FlowIsCurrent, RowMatchesFlow, CachedFlowIsCurrent
  <2>6. QED
    BY <2>1, <2>2, <2>4, <2>5 DEF FlowInv
<1>2. CASE ReadConfig(w)
  <2>1. SurveyFlowTypeOK' /\ FlowCounts'
    BY <1>0, <1>2 DEF ReadConfig, FlowInv, SurveyFlowTypeOK, FlowCounts, Unsaved
  <2>2. (mixed \/ cut \/ ImportsAgree)' /\ FlowIsCurrent'
    BY <1>2 DEF ReadConfig, FlowInv, SurveyFlowTypeOK, ImportsAgree, FlowIsCurrent, RowMatchesFlow,
                CachedFlowIsCurrent, Unsaved
  <2>3. QED
    BY <2>1, <2>2 DEF FlowInv
<1>3. QED
  BY <1>1, <1>2

\* The row gets the version of the workers that are about to save.
LEMMA SaveKeepsFlow ==
  ASSUME FlowInv, NEW w \in Workers, SaveConfig(w) PROVE FlowInv'
<1> USE DEF flowRows, flowTasks, flowCopies, flowHistory, Moved
<1>1. /\ runs[w] \in 1..release /\ flowSeen[w] # 0 /\ release \in Nat /\ configVersion \in 0..release
      /\ flowAt[w] \in {"updated", "saving"} /\ flowAt[w] \in Unsaved
  BY SurveyFlowAssumption
     DEF SaveConfig, FlowInv, SurveyFlowTypeOK, Unsaved, Versions, SurveyFlowAssumption
<1>2. /\ configVersion' \in {runs[w], configVersion} /\ configVersion' \in 0..release
      /\ configVersion' # 0
      /\ configVersion' = runs[w] \/ (flowAt[w] = "saving" /\ versionSeen[w] = runs[w])
      /\ configFlow' = flowSeen[w]
      /\ flowAt' = [flowAt EXCEPT ![w] = "invalidate"]
      /\ UNCHANGED <<release, runs, flowVersion, flowId, cachedFlow, flowTasks, flowCopies, flowHistory>>
  BY <1>1 DEF SaveConfig, FlowInv, FlowCounts
<1>3. SurveyFlowTypeOK' /\ FlowCounts'
  BY <1>1, <1>2 DEF FlowInv, SurveyFlowTypeOK, FlowCounts, Unsaved
<1>4. /\ flowAt'[w] = "invalidate" /\ \A v \in Workers \ {w} : flowAt'[v] = flowAt[v]
  BY <1>2 DEF FlowInv, SurveyFlowTypeOK
<1>5. mixed \/ cut \/ (ImportsAgree' /\ RowMatchesFlow')
  <2>1. SUFFICES ASSUME ~mixed, ~cut PROVE ImportsAgree' /\ RowMatchesFlow'
    OBVIOUS
  <2>2. ImportsAgree
    BY <2>1 DEF FlowInv
  <2>3. configVersion' = runs[w]
    BY <1>1, <1>2, <2>2 DEF ImportsAgree
  <2>4. ImportsAgree'
    BY <1>1, <1>2, <1>4, <2>2, <2>3 DEF ImportsAgree, Unsaved
  <2>5. flowVersion # 0 => flowVersion = runs[w]
    BY <1>1, <2>2 DEF ImportsAgree
  <2>6. RowMatchesFlow'
    BY <1>2, <2>3, <2>5 DEF RowMatchesFlow
  <2>7. QED
    BY <2>4, <2>6
<1>6. mixed' = mixed /\ cut' = cut
  BY <1>2
<1>7. CachedFlowIsCurrent'
  BY <1>4 DEF CachedFlowIsCurrent
<1>8. QED
  BY <1>3, <1>5, <1>6, <1>7 DEF FlowInv, FlowIsCurrent, RowMatchesFlow

LEMMA FlowGoesOn ==
  ASSUME FlowInv, [FlowNext]_flowVars PROVE FlowInv'
<1>1. CASE UNCHANGED flowVars
  BY <1>1 DEF flowVars, flowRows, flowTasks, flowCopies, flowHistory, FlowInv, SurveyFlowTypeOK,
              FlowCounts, ImportsAgree, FlowIsCurrent, RowMatchesFlow, CachedFlowIsCurrent
<1>2. QED
  BY <1>1, OutsideKeepsFlow, WorkerKeepsFlow, ImportKeepsFlow, SaveKeepsFlow
     DEF FlowNext, FlowOutside, FlowStep

(***************************************************************************)
(* The row of a project says which flow the flows service has, and closing *)
(* rooms start that flow, for any number of workers, versions and flows:   *)
(* unless versions mixed, a task was cut or a reader cached an old uuid    *)
(* (CSATFlowService, update_csat_flow_definition).                         *)
(***************************************************************************)
THEOREM SurveyFlowIsCurrent == FlowSpec => [](SurveyFlowTypeOK /\ FlowIsCurrent)
<1>1. FlowInit => FlowInv
  BY FlowBegins
<1>2. FlowInv /\ [FlowNext]_flowVars => FlowInv'
  BY FlowGoesOn
<1>3. FlowInv => SurveyFlowTypeOK /\ FlowIsCurrent
  BY DEF FlowInv
<1>4. QED
  BY <1>1, <1>2, <1>3, PTL DEF FlowSpec

-----------------------------------------------------------------------------
(***************************************************************************)
(* MetricGoals.  A sweep is where its level takes it, and a toast leaves   *)
(* its key until a sweep sees fewer rooms.                                 *)
(***************************************************************************)
Sweeping(w) == sweep[w] # "idle"

OneSweep == \A v, w \in Workers : Sweeping(v) /\ Sweeping(w) => v = w

SweepFits(w) ==
    /\ sweep[w] = "idle" => seen[w] = "none"
    /\ At(sweep, w, {"clear", "clear_alert", "resolve"}) => seen[w] = "none"

\* While no sweeps overlap and no key runs out.
ToastsFit ==
    /\ toasts < 2
    /\ \A w \in Workers : sweep[w] = "toast" => toasts = 0 /\ alertKey
    /\ toasts = 1 /\ level = "many" =>
           alertKey /\ \A w \in Workers : Sweeping(w) => seen[w] = "many"
    /\ toasts = 1 /\ (\E w \in Workers : seen[w] = "many") => alertKey

StateIsClaimed ==
    \A w \in Workers : At(sweep, w, {"tell", "alert", "toast", "drop"}) => stateKey

MetricInv ==
    /\ MetricTypeOK
    /\ \A w \in Workers : SweepFits(w)
    /\ overlapped \/ OneSweep
    /\ overlapped \/ expiries > 0 \/ ToastsFit
    /\ Undisturbed => StateIsClaimed
    /\ ToastsFollowClimbs

LEMMA MetricBegins == ASSUME MetricInit PROVE MetricInv
<1>1. 0 \in 0..MaxMetricFaults /\ 0 \in 0..MaxExpiries /\ 0 \in 0..2
  BY MetricAssumption DEF MetricAssumption
<1>2. MetricTypeOK
  BY <1>1 DEF MetricInit, MetricTypeOK, Levels, SweepStages, At
<1>3. (\A w \in Workers : SweepFits(w)) /\ OneSweep /\ ToastsFit /\ StateIsClaimed
  BY DEF MetricInit, SweepFits, Sweeping, OneSweep, ToastsFit, StateIsClaimed, At
<1>4. ToastsFollowClimbs
  BY DEF MetricInit, ToastsFollowClimbs, OneToastPerClimb, AlertNeedsViolation
<1>5. QED
  BY <1>2, <1>3, <1>4 DEF MetricInv

\* What a worker at one stage of its sweep leaves of the type.
LEMMA SweepType ==
  ASSUME MetricTypeOK, NEW w \in Workers, Detect(w) \/ SweepStep(w) \/ KillSweep(w)
  PROVE  MetricTypeOK'
<1>0. MaxMetricFaults \in Nat /\ MaxExpiries \in Nat
  BY MetricAssumption DEF MetricAssumption
<1> USE <1>0 DEF MetricTypeOK, Levels, SweepStages, At, Moved, Over, GoesTo, Send,
                 keyVars, countVars, sweepVars
<1>1. CASE Detect(w)
  BY <1>1 DEF Detect
<1>2. CASE ReadKeys(w)
  BY <1>2 DEF ReadKeys
<1>3. CASE ClaimState(w)
  BY <1>3 DEF ClaimState
<1>4. CASE TellViolating(w)
  <2>1. /\ told' \in {"ok", "violating"} /\ toasts' = toasts /\ metricFaults' \in 0..MaxMetricFaults
        /\ level' = level /\ stateKey' = stateKey /\ alertKey' = alertKey
        /\ overlapped' = overlapped /\ expiries' = expiries
    BY <1>4 DEF TellViolating
  <2>2. CASE seen[w] = "many"
    BY <1>4, <2>1, <2>2 DEF TellViolating
  <2>3. CASE seen[w] # "many" /\ wasAlerting[w]
    BY <1>4, <2>1, <2>3 DEF TellViolating
  <2>4. CASE seen[w] # "many" /\ ~wasAlerting[w]
    BY <1>4, <2>1, <2>4 DEF TellViolating
  <2>5. QED
    BY <2>2, <2>3, <2>4
<1>5. CASE ClaimAlert(w)
  BY <1>5 DEF ClaimAlert
<1>6. CASE Toast(w)
  BY <1>6 DEF Toast
<1>7. CASE DropAlert(w)
  BY <1>7 DEF DropAlert
<1>8. CASE ClearState(w) \/ ClearAlert(w)
  BY <1>8 DEF ClearState, ClearAlert
<1>9. CASE TellResolved(w)
  BY <1>9 DEF TellResolved
<1>10. CASE KillSweep(w)
  BY <1>10 DEF KillSweep
<1>11. QED
  BY <1>1, <1>2, <1>3, <1>4, <1>5, <1>6, <1>7, <1>8, <1>9, <1>10 DEF SweepStep

\* What disturbs a sweep is not forgotten.
LEMMA DisturbedForGood ==
  ASSUME MetricTypeOK, NEW w \in Workers, Detect(w) \/ SweepStep(w) \/ KillSweep(w)
  PROVE  /\ overlapped => overlapped'
         /\ expiries' = expiries
         /\ metricFaults' = 0 => metricFaults = 0
<1>0. MaxMetricFaults \in Nat
  BY MetricAssumption DEF MetricAssumption
<1> USE <1>0 DEF MetricTypeOK, countVars, Send
<1>1. CASE Detect(w)
  BY <1>1 DEF Detect
<1>2. CASE ReadKeys(w) \/ ClaimState(w) \/ ClaimAlert(w)
  BY <1>2 DEF ReadKeys, ClaimState, ClaimAlert
<1>3. CASE TellViolating(w)
  BY <1>3 DEF TellViolating
<1>4. CASE Toast(w) \/ TellResolved(w)
  BY <1>4 DEF Toast, TellResolved
<1>5. CASE DropAlert(w) \/ ClearState(w) \/ ClearAlert(w) \/ KillSweep(w)
  BY <1>5 DEF DropAlert, ClearState, ClearAlert, KillSweep
<1>6. QED
  BY <1>1, <1>2, <1>3, <1>4, <1>5 DEF SweepStep

LEMMA SweepKeepsKeys ==
  ASSUME MetricInv, NEW w \in Workers, Detect(w) \/ SweepStep(w) \/ KillSweep(w)
  PROVE  MetricInv'
<1>0. MaxMetricFaults \in Nat /\ MaxExpiries \in Nat
  BY MetricAssumption DEF MetricAssumption
<1>1. MetricTypeOK'
  BY SweepType DEF MetricInv
<1> USE <1>0 DEF MetricInv, MetricTypeOK, Levels, SweepStages, At, Moved, Over, GoesTo, Send,
                 keyVars, countVars, sweepVars
<1>2. \A v \in Workers : SweepFits(v)'
  <2> USE DEF SweepFits
  <2>1. CASE Detect(w) \/ ReadKeys(w) \/ ClaimState(w)
    BY <2>1 DEF Detect, ReadKeys, ClaimState
  <2>2. CASE TellViolating(w) \/ ClaimAlert(w) \/ Toast(w)
    BY <2>2 DEF TellViolating, ClaimAlert, Toast
  <2>3. CASE DropAlert(w) \/ ClearState(w) \/ ClearAlert(w) \/ TellResolved(w) \/ KillSweep(w)
    BY <2>3 DEF DropAlert, ClearState, ClearAlert, TellResolved, KillSweep
  <2>4. QED
    BY <2>1, <2>2, <2>3 DEF SweepStep
<1>3. (overlapped \/ OneSweep)'
  <2>1. CASE Detect(w)
    BY <2>1 DEF Detect, OneSweep, Sweeping
  <2>2. ASSUME SweepStep(w) \/ KillSweep(w)
        PROVE  overlapped' = overlapped /\ \A v \in Workers : Sweeping(v)' => Sweeping(v)
    <3> USE DEF Sweeping
    <3>1. CASE ReadKeys(w)
      BY <3>1 DEF ReadKeys
    <3>2. CASE ClaimState(w)
      BY <3>2 DEF ClaimState
    <3>3. CASE TellViolating(w)
      BY <3>3 DEF TellViolating
    <3>4. CASE ClaimAlert(w)
      BY <3>4 DEF ClaimAlert
    <3>5. CASE Toast(w)
      BY <3>5 DEF Toast
    <3>6. CASE DropAlert(w)
      BY <3>6 DEF DropAlert
    <3>7. CASE ClearState(w)
      BY <3>7 DEF ClearState
    <3>8. CASE ClearAlert(w)
      BY <3>8 DEF ClearAlert
    <3>9. CASE TellResolved(w)
      BY <3>9 DEF TellResolved
    <3>10. CASE KillSweep(w)
      BY <3>10 DEF KillSweep
    <3>11. QED
      BY <2>2, <3>1, <3>2, <3>3, <3>4, <3>5, <3>6, <3>7, <3>8, <3>9, <3>10 DEF SweepStep
  <2>3. QED
    BY <2>1, <2>2 DEF OneSweep
<1>4. ASSUME ~overlapped', expiries' = 0 PROVE ToastsFit'
  <2>1. ToastsFit /\ OneSweep /\ (\A v \in Workers : SweepFits(v)) /\ ~overlapped /\ expiries = 0
    BY <1>4, DisturbedForGood
  <2> USE <1>4, <2>1 DEF ToastsFit, OneSweep, Sweeping, SweepFits
  <2>2. CASE Detect(w)
    BY <2>2 DEF Detect
  <2>3. CASE ReadKeys(w)
    BY <2>3 DEF ReadKeys
  <2>4. CASE ClaimState(w)
    BY <2>4 DEF ClaimState
  <2>5. CASE TellViolating(w)
    <3>1. toasts' = toasts /\ alertKey' = alertKey /\ level' = level
      BY <2>5 DEF TellViolating
    <3>2. /\ sweep'[w] # "toast" /\ seen'[w] \in {seen[w], "none"}
          /\ Sweeping(w)' => seen'[w] = seen[w]
          /\ Sweeping(w)
      BY <2>5 DEF TellViolating
    <3>3. \A v \in Workers \ {w} : sweep'[v] = sweep[v] /\ seen'[v] = seen[v]
      BY <2>5 DEF TellViolating
    <3>4. QED
      BY <3>1, <3>2, <3>3
  <2>6. CASE ClaimAlert(w)
    BY <2>6 DEF ClaimAlert
  <2>7. CASE Toast(w)
    BY <2>7 DEF Toast
  <2>8. CASE DropAlert(w)
    BY <2>8 DEF DropAlert
  <2>9. CASE ClearState(w)
    BY <2>9 DEF ClearState
  <2>10. CASE ClearAlert(w)
    BY <2>10 DEF ClearAlert
  <2>11. CASE TellResolved(w)
    BY <2>11 DEF TellResolved
  <2>12. CASE KillSweep(w)
    BY <2>12 DEF KillSweep
  <2>13. QED
    BY <2>2, <2>3, <2>4, <2>5, <2>6, <2>7, <2>8, <2>9, <2>10, <2>11, <2>12 DEF SweepStep
<1>5. ASSUME Undisturbed' PROVE StateIsClaimed' /\ AlertNeedsViolation'
  <2>1. Undisturbed /\ OneSweep
    BY <1>5, DisturbedForGood DEF Undisturbed
  <2> USE <1>5, <2>1 DEF StateIsClaimed, AlertNeedsViolation, ToastsFollowClimbs, Undisturbed,
                         OneSweep, Sweeping
  <2>2. CASE Detect(w)
    BY <2>2 DEF Detect
  <2>3. CASE ReadKeys(w) \/ ClaimState(w)
    BY <2>3 DEF ReadKeys, ClaimState
  <2>4. CASE TellViolating(w)
    BY <2>4 DEF TellViolating
  <2>5. CASE ClaimAlert(w)
    BY <2>5 DEF ClaimAlert
  <2>6. CASE Toast(w)
    BY <2>6 DEF Toast
  <2>7. CASE DropAlert(w)
    BY <2>7 DEF DropAlert
  <2>8. CASE ClearState(w)
    BY <2>8 DEF ClearState
  <2>9. CASE ClearAlert(w)
    BY <2>9 DEF ClearAlert
  <2>10. CASE TellResolved(w)
    BY <2>10 DEF TellResolved
  <2>11. CASE KillSweep(w)
    BY <2>11 DEF KillSweep
  <2>12. QED
    BY <2>2, <2>3, <2>4, <2>5, <2>6, <2>7, <2>8, <2>9, <2>10, <2>11 DEF SweepStep
<1>6. expiries \in Nat /\ expiries' \in Nat
  BY <1>1
<1>7. overlapped' \/ expiries' > 0 \/ ToastsFit'
  BY <1>4, <1>6, <1>1
<1>8. OneToastPerClimb' /\ AlertNeedsViolation'
  BY <1>5, <1>7, <1>6 DEF OneToastPerClimb, ToastsFit, AlertNeedsViolation
<1>9. QED
  BY <1>1, <1>2, <1>3, <1>5, <1>7, <1>8 DEF ToastsFollowClimbs

LEMMA OutsideKeepsKeys ==
  ASSUME MetricInv, LevelChanges \/ KeysExpire \/ UNCHANGED metricVars
  PROVE  MetricInv'
<1>0. MaxMetricFaults \in Nat /\ MaxExpiries \in Nat
  BY MetricAssumption DEF MetricAssumption
<1> USE <1>0 DEF MetricInv, MetricTypeOK, Levels, SweepStages, At, SweepFits, OneSweep, Sweeping,
                 ToastsFit, StateIsClaimed, Undisturbed, ToastsFollowClimbs, OneToastPerClimb,
                 AlertNeedsViolation
<1>1. CASE LevelChanges
  BY <1>1 DEF LevelChanges, keyVars, sweepVars, countVars
<1>2. CASE KeysExpire
  <2>1. stateKey' \in {stateKey, FALSE} /\ alertKey' \in {alertKey, FALSE}
    BY <1>2 DEF KeysExpire
  <2>2. stateKey' \in BOOLEAN /\ alertKey' \in BOOLEAN
    BY <2>1
  <2>3. /\ expiries' = expiries + 1 /\ expiries' \in 0..MaxExpiries /\ expiries' > 0
    BY <1>2 DEF KeysExpire
  <2>4. \A v \in Workers : sweep[v] = "idle"
    BY <1>2 DEF KeysExpire
  <2>5. /\ level' = level /\ told' = told /\ toasts' = toasts /\ sweep' = sweep /\ seen' = seen
        /\ wasAlerting' = wasAlerting /\ overlapped' = overlapped /\ metricFaults' = metricFaults
    BY <1>2 DEF KeysExpire, sweepVars
  <2>6. MetricTypeOK'
    BY <2>5, <2>2, <2>3
  <2>7. QED
    BY <2>5, <2>6, <2>3, <2>4
<1>3. CASE UNCHANGED metricVars
  BY <1>3 DEF metricVars
<1>4. QED
  BY <1>1, <1>2, <1>3

(***************************************************************************)
(* One climb of a metric goal fires at most one toast, and the key of a    *)
(* toast does not stay behind by itself, unless sweeps overlap, are killed *)
(* or the keys run out (process_violations).                               *)
(***************************************************************************)
THEOREM ToastsAreKept == MetricSpec => [](MetricTypeOK /\ ToastsFollowClimbs)
<1>1. MetricInv /\ [MetricNext]_metricVars => MetricInv'
  BY SweepKeepsKeys, OutsideKeepsKeys DEF MetricNext
<1>2. MetricInv => MetricTypeOK /\ ToastsFollowClimbs
  BY DEF MetricInv
<1>3. QED
  BY <1>1, <1>2, MetricBegins, PTL DEF MetricSpec

-----------------------------------------------------------------------------
(***************************************************************************)
(* BulkSend.  The rooms of a bulk send are picked once, each has one row   *)
(* unless a task was delivered twice, and one update runs at a time.       *)
(***************************************************************************)
BulkCounts ==
    /\ \A w \in Workers : left[w] \subseteq targets
    /\ sendTasks \cup covered \subseteq targets
    /\ roomsQty \in {0, Cardinality(targets)}
    /\ shown <= rows
    /\ \A w \in Workers : counted[w] <= rows

\* Before the rooms are picked there is nothing, and one worker picks them.
BulkStarts ==
    /\ processTasks = 1 \/ bulkStatus = "none" =>
           /\ targets = {} /\ roomsQty = 0
           /\ \A w \in Workers : left[w] = {} /\ ~At(place, w, {"picked", "dispatch"})
    /\ bulkStatus = "none" => processTasks = 0
    /\ \A v, w \in Workers :
          At(place, v, {"picked", "dispatch"}) /\ At(place, w, {"picked", "dispatch"}) => v = w

EachSentOnce ==
    /\ rows = Cardinality(covered)
    /\ sendTasks \cap covered = {}
    /\ \A w \in Workers : left[w] \cap (sendTasks \cup covered) = {}

OneUpdate ==
    /\ \A w \in Workers : place[w] \in Updating => cooldown
    /\ \A v, w \in Workers : place[v] \in Updating /\ place[w] \in Updating => v = w
    /\ \A w \in Workers : place[w] = "notify" => shown <= counted[w]

BulkInv ==
    /\ BulkTypeOK /\ BulkCounts /\ BulkStarts
    /\ resends > 0 \/ EachSentOnce
    /\ slow \/ OneUpdate
    /\ FinishedIsComplete

LEMMA RoomsAreFinite ==
  ASSUME NEW S \in SUBSET SendRooms
  PROVE  IsFiniteSet(S) /\ Cardinality(S) \in Nat
  BY BulkAssumption, FS_Subset, FS_CardinalityType DEF BulkAssumption

LEMMA BulkBegins == ASSUME BulkInit PROVE BulkInv
<1>1. 0 \in 0..MaxBulkKills /\ 0 \in 0..MaxResends /\ 0 \in 0..1
  BY BulkAssumption DEF BulkAssumption
<1>2. BulkTypeOK
  BY <1>1 DEF BulkInit, BulkTypeOK, Spots
<1>3. BulkCounts /\ BulkStarts
  BY DEF BulkInit, BulkCounts, BulkStarts, At
<1>4. EachSentOnce
  BY FS_EmptySet DEF BulkInit, EachSentOnce
<1>5. OneUpdate /\ FinishedIsComplete
  BY DEF BulkInit, OneUpdate, FinishedIsComplete, Updating
<1>6. QED
  BY <1>2, <1>3, <1>4, <1>5 DEF BulkInv

\* The request, the periodic task and the keys.
LEMMA OutsideKeepsBulk ==
  ASSUME BulkInv,
         \/ StartBulkSend \/ DeferredIsDue \/ CooldownEnds \/ GrowOld \/ FinishStale
         \/ UNCHANGED bulkVars
  PROVE  BulkInv'
<1> USE DEF BulkInv, BulkTypeOK, BulkCounts, BulkStarts, EachSentOnce, OneUpdate,
            FinishedIsComplete, bulkRow, queues, localVars
<1>1. CASE StartBulkSend
  BY <1>1 DEF StartBulkSend
<1>2. CASE DeferredIsDue
  <2>1. progressPending' \in BOOLEAN /\ progressTasks' \in Nat
    <3>1. progressPending' = FALSE /\ progressTasks' = progressTasks + 1
      BY <1>2 DEF DeferredIsDue
    <3>2. progressPending' \in BOOLEAN
      BY <3>1
    <3>3. QED
      BY <3>1, <3>2
  <2>2. /\ bulkStatus' = bulkStatus /\ roomsQty' = roomsQty /\ targets' = targets
        /\ processTasks' = processTasks /\ sendTasks' = sendTasks /\ covered' = covered
        /\ rows' = rows /\ cooldown' = cooldown /\ place' = place /\ room' = room /\ left' = left
        /\ copyFinished' = copyFinished /\ counted' = counted /\ shown' = shown
        /\ slow' = slow /\ old' = old /\ kills' = kills /\ resends' = resends
    BY <1>2 DEF DeferredIsDue
  <2>3. BulkTypeOK'
    BY <2>1, <2>2
  <2>4. QED
    BY <2>2, <2>3
<1>3. CASE CooldownEnds
  BY <1>3 DEF CooldownEnds
<1>4. CASE GrowOld
  BY <1>4 DEF GrowOld
<1>5. CASE FinishStale
  BY <1>5 DEF FinishStale
<1>6. CASE UNCHANGED bulkVars
  BY <1>6 DEF bulkVars
<1>7. QED
  BY <1>1, <1>2, <1>3, <1>4, <1>5, <1>6

\* The task that picks the rooms and sends a task for each.
LEMMA DispatcherKeepsBulk ==
  ASSUME BulkInv, NEW w \in Workers,
         PickRooms(w) \/ MarkProcessing(w) \/ Dispatch(w) \/ Dispatched(w)
  PROVE  BulkInv'
<1>1. Cardinality(targets) \in Nat /\ Cardinality({}) = 0
  BY RoomsAreFinite, FS_EmptySet DEF BulkInv, BulkTypeOK
<1> USE <1>1 DEF BulkInv, BulkTypeOK, BulkCounts, BulkStarts, bulkRow, queues, localVars, At, Moved, Spots
<1>2. CASE PickRooms(w)
  <2>1. PICK chosen \in SUBSET SendRooms :
           targets' = chosen /\ left' = [left EXCEPT ![w] = chosen]
    BY <1>2 DEF PickRooms
  <2>2. /\ targets = {} /\ roomsQty = 0 /\ sendTasks = {} /\ covered = {}
        /\ \A v \in Workers : left[v] = {} /\ place[v] \notin {"picked", "dispatch"}
    BY <1>2 DEF PickRooms
  <2>3. /\ processTasks' = 0 /\ place' = [place EXCEPT ![w] = "picked"]
        /\ bulkStatus' = bulkStatus /\ roomsQty' = roomsQty /\ sendTasks' = sendTasks
        /\ progressTasks' = progressTasks /\ progressPending' = progressPending
        /\ covered' = covered /\ rows' = rows /\ cooldown' = cooldown /\ room' = room
        /\ copyFinished' = copyFinished /\ counted' = counted /\ shown' = shown
        /\ slow' = slow /\ old' = old /\ kills' = kills /\ resends' = resends
    BY <1>2 DEF PickRooms
  <2>4. bulkStatus # "none" /\ place[w] = "idle"
    BY <1>2 DEF PickRooms
  <2>5. BulkTypeOK'
    BY <2>1, <2>2, <2>3
  <2>6. BulkCounts' /\ BulkStarts'
    BY <2>1, <2>2, <2>3, <2>4
  <2>7. (resends > 0 \/ EachSentOnce)'
    BY <2>1, <2>2, <2>3 DEF EachSentOnce
  <2>8. (slow \/ OneUpdate)'
    BY <2>3, <2>4 DEF OneUpdate, Updating
  <2>9. FinishedIsComplete'
    BY <2>2, <2>3 DEF FinishedIsComplete
  <2>10. QED
    BY <2>5, <2>6, <2>7, <2>8, <2>9
<1>3. CASE MarkProcessing(w)
  BY <1>3 DEF MarkProcessing, EachSentOnce, OneUpdate, Updating, FinishedIsComplete
<1>4. CASE Dispatch(w)
  <2>1. PICK r \in left[w] :
           sendTasks' = sendTasks \cup {r} /\ left' = [left EXCEPT ![w] = @ \ {r}]
    BY <1>4 DEF Dispatch
  <2>2. /\ place[w] = "dispatch"
        /\ targets' = targets /\ processTasks' = processTasks /\ place' = place
        /\ bulkStatus' = bulkStatus /\ roomsQty' = roomsQty
        /\ progressTasks' = progressTasks /\ progressPending' = progressPending
        /\ covered' = covered /\ rows' = rows /\ cooldown' = cooldown /\ room' = room
        /\ copyFinished' = copyFinished /\ counted' = counted /\ shown' = shown
        /\ slow' = slow /\ old' = old /\ kills' = kills /\ resends' = resends
    BY <1>4 DEF Dispatch
  <2>3. \A v \in Workers \ {w} : left[v] = {} /\ left'[v] = {}
    BY <2>1, <2>2
  <2>4. BulkTypeOK' /\ BulkCounts' /\ BulkStarts'
    BY <2>1, <2>2, <2>3
  <2>5. (resends > 0 \/ EachSentOnce)'
    BY <2>1, <2>2, <2>3 DEF EachSentOnce
  <2>6. (slow \/ OneUpdate)' /\ FinishedIsComplete'
    BY <2>2 DEF OneUpdate, FinishedIsComplete
  <2>7. QED
    BY <2>4, <2>5, <2>6
<1>5. CASE Dispatched(w)
  BY <1>5 DEF Dispatched, EachSentOnce, OneUpdate, Updating, FinishedIsComplete
<1>6. QED
  BY <1>2, <1>3, <1>4, <1>5

\* The task of one room: its outcome is one more row.
LEMMA SenderKeepsBulk ==
  ASSUME BulkInv, NEW w \in Workers, NEW r \in SendRooms, SendToRoom(w, r)
  PROVE  BulkInv'
<1>0. MaxResends \in Nat
  BY BulkAssumption DEF BulkAssumption
<1>1. /\ place[w] = "idle" /\ r \in sendTasks
      /\ covered' = covered \cup {r} /\ rows' = rows + 1
      /\ room' = [room EXCEPT ![w] = r] /\ place' = [place EXCEPT ![w] = "sent"]
      /\ bulkStatus' = bulkStatus /\ roomsQty' = roomsQty /\ targets' = targets
      /\ processTasks' = processTasks /\ progressTasks' = progressTasks
      /\ progressPending' = progressPending /\ cooldown' = cooldown /\ left' = left
      /\ copyFinished' = copyFinished /\ counted' = counted /\ shown' = shown
      /\ slow' = slow /\ old' = old /\ kills' = kills
  BY DEF SendToRoom, bulkRow, Moved
<1>2. \/ sendTasks' = sendTasks \ {r} /\ resends' = resends
      \/ resends < MaxResends /\ resends' = resends + 1 /\ sendTasks' = sendTasks
  BY DEF SendToRoom
<1> USE DEF BulkInv
<1>3. BulkTypeOK'
  BY <1>0, <1>1, <1>2 DEF BulkTypeOK, Spots
<1>4. BulkCounts'
  BY <1>1, <1>2 DEF BulkTypeOK, BulkCounts
<1>5. BulkStarts'
  BY <1>1, <1>2 DEF BulkTypeOK, BulkStarts, BulkCounts, At
<1>6. (resends > 0 \/ EachSentOnce)'
  <2>1. CASE resends' = resends /\ resends = 0
    <3>1. sendTasks' = sendTasks \ {r} /\ r \notin covered /\ EachSentOnce
      BY <1>0, <1>1, <1>2, <2>1 DEF BulkTypeOK, EachSentOnce
    <3>2. Cardinality(covered \cup {r}) = Cardinality(covered) + 1
      BY <3>1, RoomsAreFinite, FS_AddElement DEF BulkTypeOK
    <3>3. QED
      BY <1>1, <3>1, <3>2 DEF EachSentOnce
  <2>2. CASE ~(resends' = resends /\ resends = 0)
    BY <1>0, <1>2, <2>2 DEF BulkTypeOK
  <2>3. QED
    BY <2>1, <2>2
<1>7. (slow \/ OneUpdate)'
  BY <1>1 DEF BulkTypeOK, OneUpdate, Updating
<1>8. FinishedIsComplete'
  <2>1. SUFFICES ASSUME bulkStatus = "FINISHED", ~old, resends' = 0
                 PROVE  roomsQty > 0 /\ covered \cup {r} = targets
    BY <1>1 DEF FinishedIsComplete
  <2>2. resends = 0 /\ covered = targets /\ roomsQty > 0
    BY <1>0, <1>2, <2>1 DEF BulkTypeOK, FinishedIsComplete
  <2>3. r \in covered
    BY <1>1, <2>2 DEF BulkCounts
  <2>4. QED
    BY <2>2, <2>3
<1>9. QED
  BY <1>3, <1>4, <1>5, <1>6, <1>7, <1>8

\* The task that tells the progress, and a worker that is killed.
LEMMA UpdaterKeepsBulk ==
  ASSUME BulkInv, NEW w \in Workers,
         \/ RequestProgress(w) \/ TakeProgress(w) \/ CoolDown(w) \/ DeferProgress(w) \/ ReadBulk(w)
         \/ NotifyProgress(w) \/ KillSender(w)
  PROVE  BulkInv'
<1>0. MaxBulkKills \in Nat
  BY BulkAssumption DEF BulkAssumption
<1> USE <1>0 DEF BulkInv, BulkTypeOK, BulkCounts, BulkStarts, bulkRow, queues, localVars, At, Moved, Spots,
                 EachSentOnce, OneUpdate, Updating, FinishedIsComplete
<1>1. CASE RequestProgress(w)
  BY <1>1 DEF RequestProgress
<1>2. CASE TakeProgress(w)
  BY <1>2 DEF TakeProgress
<1>3. CASE CoolDown(w)
  BY <1>3 DEF CoolDown
<1>4. CASE DeferProgress(w)
  BY <1>4 DEF DeferProgress
<1>5. CASE ReadBulk(w)
  BY <1>5 DEF ReadBulk
<1>6. CASE NotifyProgress(w)
  BY <1>6 DEF NotifyProgress
<1>7. CASE KillSender(w)
  BY <1>7 DEF KillSender
<1>8. QED
  BY <1>1, <1>2, <1>3, <1>4, <1>5, <1>6, <1>7

\* As many rows as rooms picked are the rooms picked.
LEMMA CounterKeepsBulk ==
  ASSUME BulkInv, NEW w \in Workers, CountRows(w)
  PROVE  BulkInv'
<1>1. /\ place[w] = "count"
      /\ counted' = [counted EXCEPT ![w] = rows]
      /\ bulkStatus' = IF AllProcessed(rows) /\ ~copyFinished[w] THEN "FINISHED" ELSE bulkStatus
      /\ place' = [place EXCEPT ![w] = "notify"]
      /\ roomsQty' = roomsQty /\ targets' = targets /\ processTasks' = processTasks
      /\ sendTasks' = sendTasks /\ progressTasks' = progressTasks
      /\ progressPending' = progressPending /\ covered' = covered /\ rows' = rows
      /\ cooldown' = cooldown /\ room' = room /\ left' = left /\ copyFinished' = copyFinished
      /\ shown' = shown /\ slow' = slow /\ old' = old /\ kills' = kills /\ resends' = resends
  BY DEF CountRows, queues, Moved
<1> USE DEF BulkInv
<1>2. AllProcessed(rows) => roomsQty > 0 /\ processTasks # 1 /\ bulkStatus # "none"
  BY DEF AllProcessed, BulkStarts, BulkTypeOK
<1>3. BulkTypeOK'
  BY <1>1 DEF BulkTypeOK, Spots
<1>4. BulkCounts'
  BY <1>1 DEF BulkTypeOK, BulkCounts
<1>5. BulkStarts'
  BY <1>1, <1>2 DEF BulkTypeOK, BulkStarts, At
<1>6. (resends > 0 \/ EachSentOnce)' /\ (slow \/ OneUpdate)'
  BY <1>1 DEF BulkTypeOK, BulkCounts, EachSentOnce, OneUpdate, Updating
<1>7. FinishedIsComplete'
  <2>1. ASSUME AllProcessed(rows), resends = 0 PROVE roomsQty > 0 /\ covered = targets
    <3>1. /\ covered \subseteq targets /\ IsFiniteSet(targets)
          /\ Cardinality(covered) \in Nat /\ Cardinality(targets) \in Nat
      BY RoomsAreFinite DEF BulkTypeOK, BulkCounts
    <3>2. roomsQty > 0 /\ Cardinality(covered) >= Cardinality(targets)
      BY <2>1, <3>1 DEF AllProcessed, EachSentOnce, BulkCounts, BulkTypeOK
    <3>3. covered # targets => Cardinality(covered) < Cardinality(targets)
      BY <3>1, FS_Subset
    <3>4. QED
      BY <3>1, <3>2, <3>3
  <2>2. QED
    BY <1>1, <2>1 DEF FinishedIsComplete
<1>8. QED
  BY <1>3, <1>4, <1>5, <1>6, <1>7

LEMMA BulkGoesOn == BulkInv /\ [BulkNext]_bulkVars => BulkInv'
<1>1. SUFFICES ASSUME BulkInv, BulkNext \/ UNCHANGED bulkVars PROVE BulkInv'
  OBVIOUS
<1>2. CASE StartBulkSend \/ DeferredIsDue \/ CooldownEnds \/ GrowOld \/ FinishStale \/ UNCHANGED bulkVars
  BY <1>1, <1>2, OutsideKeepsBulk
<1>3. ASSUME NEW w \in Workers, PickRooms(w) \/ TakeProgress(w) \/ BulkStep(w) \/ KillSender(w)
      PROVE  BulkInv'
  BY <1>1, <1>3, DispatcherKeepsBulk, UpdaterKeepsBulk, CounterKeepsBulk DEF BulkStep
<1>4. ASSUME NEW w \in Workers, NEW r \in SendRooms, SendToRoom(w, r) PROVE BulkInv'
  BY <1>1, <1>4, SenderKeepsBulk
<1>5. QED
  BY <1>1, <1>2, <1>3, <1>4 DEF BulkNext

(***************************************************************************)
(* A bulk send that progress closed has an outcome for every room picked,  *)
(* unless a task was delivered twice, and the progress a user sees does    *)
(* not go back, unless an update outlived the cooldown                     *)
(* (UpdateBulkMessageSendProgressUseCase).                                 *)
(***************************************************************************)
THEOREM ProgressIsTrue ==
  BulkSpec => [](BulkTypeOK /\ FinishedIsComplete) /\ ProgressOnlyGrows
<1>1. BulkInv => BulkTypeOK /\ FinishedIsComplete
  BY DEF BulkInv
<1>2. BulkInv /\ [BulkNext]_bulkVars => [shown' >= shown \/ slow]_bulkVars
  <2>1. SUFFICES ASSUME BulkInv, BulkNext, ~slow PROVE shown' >= shown
    OBVIOUS
  <2>2. ASSUME NEW w \in Workers, NotifyProgress(w) PROVE shown' >= shown
    BY <2>1, <2>2 DEF BulkInv, BulkTypeOK, OneUpdate, NotifyProgress
  <2>3. CASE \A w \in Workers : ~NotifyProgress(w)
    <3>1. shown' = shown
      BY <2>1, <2>3
      DEF BulkNext, BulkStep, StartBulkSend, DeferredIsDue, CooldownEnds, GrowOld, FinishStale,
          PickRooms, TakeProgress, KillSender, SendToRoom, MarkProcessing, Dispatch, Dispatched,
          RequestProgress, CoolDown, DeferProgress, ReadBulk, CountRows
    <3>2. QED
      BY <2>1, <3>1 DEF BulkInv, BulkTypeOK
  <2>4. QED
    BY <2>2, <2>3
<1>3. QED
  BY <1>1, <1>2, BulkBegins, BulkGoesOn, PTL DEF BulkSpec, ProgressOnlyGrows

-----------------------------------------------------------------------------
(***************************************************************************)
(* Reports: type correctness.  A report that is not finished has an        *)
(* attempt left, and so has the worker at it; no part is beyond the chunks *)
(* of its table unless its rows have moved.                                *)
(***************************************************************************)
LEMMA LeastNatural ==
  ASSUME NEW T \in SUBSET Nat, T # {}
  PROVE  Min(T) \in T
<1>1. PICK m \in T : \A n \in T : ~(<<n, m>> \in OpToRel(<, Nat))
  BY NatLessThanWellFounded, WFMin, Zenon
<1>2. ASSUME NEW n \in T PROVE m <= n
  <2>1. <<n, m>> \in {ss \in Nat \X Nat : ss[1] < ss[2]} <=> n < m
    OBVIOUS
  <2>2. ~(n < m)
    BY <1>1, <1>2, <2>1, Zenon DEF OpToRel
  <2>3. QED
    BY <2>2
<1>3. \E k \in T : \A n \in T : k <= n
  BY <1>2
<1>4. QED
  BY <1>3 DEF Min

\* A worker takes the oldest report it may take, which is one of them.
LEMMA TakesOneReport ==
  ASSUME ReportsTypeOK, NEW w \in Workers, TakeReport(w)
  PROVE  \/ \E r \in Reports :
                /\ Claim(w, r)
                /\ exportTasks' \subseteq exportTasks
                /\ \/ reportStatus[r] \in {"pending", "failed"}
                   \/ /\ reportStatus[r] = "in_progress"
                      /\ reportStale[r] /\ retryCount[r] < MaxRetryCount
         \/ \E r \in Exports : SkipExport(w, r)
<1>1. Reports \subseteq Nat /\ Exports \subseteq Reports
  BY ReportsAssumption DEF ReportsAssumption
<1>2. ASSUME NEW export \in BOOLEAN, SelectReport(w, export)
      PROVE  \E r \in Reports :
                /\ Claim(w, r)
                /\ exportTasks' \subseteq exportTasks
                /\ \/ reportStatus[r] \in {"pending", "failed"}
                   \/ /\ reportStatus[r] = "in_progress"
                      /\ reportStale[r] /\ retryCount[r] < MaxRetryCount
  <2>1. Eligible(export) \subseteq Reports /\ Eligible(export) # {}
    BY <1>1, <1>2 DEF SelectReport, Eligible, OfType
  <2>2. Min(Eligible(export)) \in Eligible(export)
    BY <1>1, <2>1, LeastNatural
  <2>3. Claim(w, Min(Eligible(export))) /\ exportTasks' = exportTasks
    BY <1>2 DEF SelectReport
  <2>4. QED
    BY <2>1, <2>2, <2>3 DEF Eligible
<1>3. ASSUME NEW r \in Exports, StartExport(w, r)
      PROVE  /\ r \in Reports /\ Claim(w, r)
             /\ exportTasks' \subseteq exportTasks
             /\ reportStatus[r] \in {"pending", "failed"}
  BY <1>1, <1>3 DEF StartExport
<1>4. QED
  BY <1>1, <1>2, <1>3 DEF TakeReport

PartsFit ==
    /\ parts \in [Reports -> SUBSET Parts]
    /\ \A r \in Reports :
          /\ IsFiniteSet(parts[r])
          /\ "moved" \notin blame[r] => \A p \in parts[r] : p[2] < ChunksOf[p[1]]
    /\ todo \in [Workers -> SUBSET Parts]

AttemptsLeft ==
    /\ \A r \in Reports : reportStatus[r] \notin Finished => retryCount[r] < MaxRetryCount
    /\ \A w \in Workers : report[w] # Nothing => attempt[w] < MaxRetryCount

ReportsFit == ReportsTypeOK /\ PartsFit /\ AttemptsLeft

LEMMA ReportsBegin == ASSUME ReportsInit PROVE ReportsFit
<1>1. /\ 0 \in 0..MaxReportFaults /\ 0 \in 0..MaxRetryCount /\ 0 < MaxRetryCount
      /\ 0 \in 0..MaxOutlived /\ 1 \in Tables
  BY ReportsAssumption DEF ReportsAssumption, Tables
<1>2. ReportsTypeOK
  BY <1>1 DEF ReportsInit, ReportsTypeOK, Statuses, Finished, Places
<1>3. PartsFit
  BY FS_EmptySet DEF ReportsInit, PartsFit
<1>4. AttemptsLeft
  BY <1>1 DEF ReportsInit, AttemptsLeft
<1>5. QED
  BY <1>2, <1>3, <1>4 DEF ReportsFit

\* A part of a step that every step of a worker at a report has.
LEMMA HasReport ==
  ASSUME ReportsTypeOK, NEW w \in Workers, doing[w] # "idle"
  PROVE  report[w] \in Reports
  BY DEF ReportsTypeOK

\* Requests, the passing of time, and the start of an attempt.
LEMMA RequestsFitReports ==
  ASSUME ReportsFit,
         \/ \E export \in BOOLEAN : AdmitReport(export) \/ CreateReport(export)
         \/ \E r \in Reports : GrowStale(r) \/ RowsMove(r)
         \/ UNCHANGED reportVars
  PROVE  ReportsFit'
<1>0. /\ Exports \subseteq Reports /\ MaxRetryCount \in Nat \ {0}
      /\ MaxReportFaults \in Nat /\ MaxOutlived \in Nat
  BY ReportsAssumption DEF ReportsAssumption
<1> USE <1>0 DEF ReportsFit, ReportsTypeOK, PartsFit, AttemptsLeft, rowVars, workVars, outcomeVars,
                 requestVars, Statuses, Finished
<1>1. ASSUME NEW export \in BOOLEAN, AdmitReport(export) PROVE ReportsFit'
  BY <1>1 DEF AdmitReport
<1>2. ASSUME NEW export \in BOOLEAN, CreateReport(export) PROVE ReportsFit'
  <2>1. PICK r \in OfType(export) :
           /\ admitted[export] > 0
           /\ reportStatus[r] = "none"
           /\ admitted' = [admitted EXCEPT ![export] = @ - 1]
           /\ reportStatus' = [reportStatus EXCEPT ![r] = "pending"]
           /\ exportTasks' = IF export THEN exportTasks \cup {r} ELSE exportTasks
    BY <1>2 DEF CreateReport
  <2>2. /\ retryCount' = retryCount /\ reportStale' = reportStale /\ parts' = parts
        /\ doing' = doing /\ report' = report /\ attempt' = attempt /\ table' = table
        /\ next' = next /\ todo' = todo /\ harmed' = harmed /\ sent' = sent /\ damaged' = damaged
        /\ resent' = resent /\ blame' = blame /\ reportFaults' = reportFaults /\ timesOutlived' = timesOutlived
    BY <1>2 DEF CreateReport
  <2>3. r \in Reports /\ (export => r \in Exports)
    BY DEF OfType
  <2>4. /\ admitted' \in [BOOLEAN -> Nat]
        /\ reportStatus' \in [Reports -> Statuses]
        /\ exportTasks' \subseteq Exports
    BY <2>1, <2>3
  <2>5. \A q \in Reports : reportStatus'[q] \notin Finished => reportStatus[q] \notin Finished
    BY <2>1, <2>3
  <2>6. QED
    BY <2>2, <2>4, <2>5
<1>3. ASSUME NEW r \in Reports, GrowStale(r) PROVE ReportsFit'
  BY <1>3 DEF GrowStale
<1>4. ASSUME NEW r \in Reports, RowsMove(r) PROVE ReportsFit'
  BY <1>4 DEF RowsMove, Blames
<1>5. CASE UNCHANGED reportVars
  BY <1>5 DEF reportVars
<1>6. QED
  BY <1>1, <1>2, <1>3, <1>4, <1>5

LEMMA TakersFitReports ==
  ASSUME ReportsFit, NEW w \in Workers, TakeReport(w)
  PROVE  ReportsFit'
<1>0. Exports \subseteq Reports /\ MaxRetryCount \in Nat \ {0} /\ Nothing \notin Reports
  BY ReportsAssumption DEF ReportsAssumption
<1> USE <1>0 DEF ReportsFit, ReportsTypeOK, PartsFit, AttemptsLeft, rowVars, workVars, outcomeVars,
                 requestVars, Statuses, Finished, Places
<1>1. ASSUME NEW r \in Reports, Claim(w, r), exportTasks' \subseteq exportTasks,
             \/ reportStatus[r] \in {"pending", "failed"}
             \/ reportStatus[r] = "in_progress" /\ retryCount[r] < MaxRetryCount
      PROVE  ReportsFit'
  <2>1. retryCount[r] < MaxRetryCount
    BY <1>1
  <2>2. /\ reportStatus' = [reportStatus EXCEPT ![r] = "in_progress"]
        /\ reportStale' = [reportStale EXCEPT ![r] = FALSE]
        /\ doing' = [doing EXCEPT ![w] = IF r \in Exports THEN "render" ELSE "list"]
        /\ report' = [report EXCEPT ![w] = r]
        /\ attempt' = [attempt EXCEPT ![w] = retryCount[r]]
        /\ blame' = [blame EXCEPT ![r] =
                        IF \E v \in Workers : report[v] = r THEN @ \cup {"outlived"} ELSE @]
    BY <1>1 DEF Claim, Moved
  <2>3. /\ blame' \in [Reports -> SUBSET Blames]
        /\ \A q \in Reports : "moved" \notin blame'[q] => "moved" \notin blame[q]
    BY <2>2 DEF Blames
  <2>4. /\ retryCount' = retryCount /\ parts' = parts /\ admitted' = admitted /\ table' = table
        /\ next' = next /\ todo' = todo /\ harmed' = harmed /\ sent' = sent /\ damaged' = damaged
        /\ resent' = resent /\ reportFaults' = reportFaults /\ timesOutlived' = timesOutlived
    BY <1>1 DEF Claim
  <2>5. /\ reportStatus' \in [Reports -> Statuses] /\ reportStale' \in [Reports -> BOOLEAN]
        /\ doing' \in [Workers -> Places] /\ report' \in [Workers -> Reports \cup {Nothing}]
        /\ attempt' \in [Workers -> 0..MaxRetryCount]
    BY <2>2
  <2>6. \A v \in Workers : doing'[v] = "idle" <=> report'[v] = Nothing
    BY <2>2
  <2>7. AttemptsLeft'
    BY <2>1, <2>2, <2>4
  <2>8. QED
    BY <1>1, <2>3, <2>4, <2>5, <2>6, <2>7
<1>2. ASSUME NEW r \in Exports, SkipExport(w, r) PROVE ReportsFit'
  BY <1>2 DEF SkipExport
<1>3. QED
  BY <1>1, <1>2, TakesOneReport

\* An attempt that writes: the parts of its report are finitely many.
LEMMA WritersFitReports ==
  ASSUME ReportsFit, NEW w \in Workers, ListParts(w) \/ WritePart(w) \/ TableWritten(w)
  PROVE  ReportsFit'
<1>0. ChunksOf \in [1..2 -> Nat]
  BY ReportsAssumption DEF ReportsAssumption
<1> USE <1>0 DEF ReportsFit, ReportsTypeOK, PartsFit, AttemptsLeft, rowVars, workVars, outcomeVars,
                 requestVars, Statuses, Finished, Places, Tables, Reaches, Moved
<1>1. CASE ListParts(w)
  <2>1. report[w] \in Reports
    BY <1>1, HasReport DEF ListParts
  <2>2. PartsOf(report[w], table[w]) \subseteq parts[report[w]]
    BY DEF PartsOf
  <2>3. Cardinality(PartsOf(report[w], table[w])) \in Nat
    BY <2>1, <2>2, FS_Subset, FS_CardinalityType
  <2>4. /\ next' = [next EXCEPT ![w] = Cardinality(PartsOf(report[w], table[w]))]
        /\ doing' = [doing EXCEPT ![w] = "write"] /\ doing[w] = "list"
    BY <1>1 DEF ListParts
  <2>5. /\ reportStatus' = reportStatus /\ retryCount' = retryCount /\ reportStale' = reportStale
        /\ parts' = parts /\ admitted' = admitted /\ exportTasks' = exportTasks
        /\ report' = report /\ attempt' = attempt /\ table' = table /\ todo' = todo /\ harmed' = harmed
        /\ sent' = sent /\ damaged' = damaged /\ resent' = resent /\ blame' = blame
        /\ reportFaults' = reportFaults /\ timesOutlived' = timesOutlived
    BY <1>1 DEF ListParts
  <2>6. QED
    BY <2>3, <2>4, <2>5
<1>2. CASE WritePart(w)
  <2> DEFINE r == report[w]
             copies == {p \in PartsOf(r, table[w]) : p[2] = next[w]}
             new == <<table[w], next[w], Cardinality(copies)>>
  <2>1. r \in Reports
    BY <1>2, HasReport DEF WritePart
  <2>2. copies \subseteq parts[r]
    BY DEF PartsOf
  <2>3. Cardinality(copies) \in Nat
    BY <2>1, <2>2, FS_Subset, FS_CardinalityType
  <2>4. /\ "moved" \notin blame[r] => next[w] < ChunksOf[table[w]]
        /\ parts' = [parts EXCEPT ![r] = @ \cup {new}]
        /\ next' = [next EXCEPT ![w] = @ + 1]
        /\ reportStale' = [reportStale EXCEPT ![r] = FALSE]
    BY <1>2 DEF WritePart, Moving
  <2>5. /\ reportStatus' = reportStatus /\ retryCount' = retryCount
        /\ admitted' = admitted /\ exportTasks' = exportTasks /\ doing' = doing
        /\ report' = report /\ attempt' = attempt /\ table' = table /\ todo' = todo /\ harmed' = harmed
        /\ sent' = sent /\ damaged' = damaged /\ resent' = resent /\ blame' = blame
        /\ reportFaults' = reportFaults /\ timesOutlived' = timesOutlived
    BY <1>2 DEF WritePart
  <2>6. new \in Parts /\ new[1] = table[w] /\ new[2] = next[w]
    BY <2>3 DEF Parts
  <2>7. IsFiniteSet(parts[r] \cup {new})
    BY <2>1, FS_AddElement
  <2> HIDE DEF r, new
  <2>8. PartsFit'
    BY <2>1, <2>4, <2>5, <2>6, <2>7
  <2>9. next' \in [Workers -> Nat] /\ reportStale' \in [Reports -> BOOLEAN]
    BY <2>1, <2>4
  <2>10. QED
    BY <2>5, <2>8, <2>9
<1>3. CASE TableWritten(w)
  BY <1>3 DEF TableWritten
<1>4. QED
  BY <1>1, <1>2, <1>3

\* An attempt that combines and removes.
LEMMA CleanersFitReports ==
  ASSUME ReportsFit, NEW w \in Workers, Combine(w) \/ RemovePart(w) \/ TableRemoved(w)
  PROVE  ReportsFit'
<1>0. MaxReportFaults \in Nat
  BY ReportsAssumption DEF ReportsAssumption
<1> USE <1>0 DEF ReportsFit, ReportsTypeOK, PartsFit, AttemptsLeft, rowVars, workVars, outcomeVars,
                 requestVars, Statuses, Finished, Places, Tables, Reaches, Moved, At
<1>1. CASE Combine(w)
  <2>1. report[w] \in Reports
    BY <1>1, HasReport DEF Combine
  <2>2. PartsOf(report[w], 1) \subseteq Parts
    BY <2>1 DEF PartsOf
  <2>3. /\ \E harm \in BOOLEAN : harmed' = [harmed EXCEPT ![w] = harm]
        /\ todo' = [todo EXCEPT ![w] = PartsOf(report[w], 1)]
        /\ table' = [table EXCEPT ![w] = 1]
        /\ doing' = [doing EXCEPT ![w] = "cleanup"] /\ doing[w] = "combine"
    BY <1>1 DEF Combine, Harms
  <2>4. /\ reportStatus' = reportStatus /\ retryCount' = retryCount /\ reportStale' = reportStale
        /\ parts' = parts /\ admitted' = admitted /\ exportTasks' = exportTasks
        /\ report' = report /\ attempt' = attempt /\ next' = next
        /\ sent' = sent /\ damaged' = damaged /\ resent' = resent /\ blame' = blame
        /\ reportFaults' = reportFaults /\ timesOutlived' = timesOutlived
    BY <1>1 DEF Combine
  <2>5. QED
    BY <2>1, <2>2, <2>3, <2>4
<1>2. CASE RemovePart(w)
  <2>1. report[w] \in Reports
    BY <1>2, HasReport DEF RemovePart
  <2>2. PICK p : /\ todo' = [todo EXCEPT ![w] = @ \ {p}]
                 /\ \/ /\ parts' = [parts EXCEPT ![report[w]] = @ \ {p}]
                       /\ reportFaults' = reportFaults
                    \/ /\ reportFaults < MaxReportFaults
                       /\ reportFaults' = reportFaults + 1
                       /\ parts' = parts
    BY <1>2 DEF RemovePart
  <2>3. /\ reportStatus' = reportStatus /\ retryCount' = retryCount /\ reportStale' = reportStale
        /\ admitted' = admitted /\ exportTasks' = exportTasks /\ doing' = doing
        /\ report' = report /\ attempt' = attempt /\ table' = table /\ next' = next /\ harmed' = harmed
        /\ sent' = sent /\ damaged' = damaged /\ resent' = resent /\ blame' = blame
        /\ timesOutlived' = timesOutlived
    BY <1>2 DEF RemovePart
  <2>4. \A r \in Reports : IsFiniteSet(parts[r] \ {p})
    BY FS_RemoveElement
  <2>5. PartsFit'
    BY <2>1, <2>2, <2>3, <2>4
  <2>6. reportFaults' \in 0..MaxReportFaults
    BY <2>2
  <2>7. QED
    BY <2>3, <2>5, <2>6
<1>3. CASE TableRemoved(w)
  <2>1. report[w] \in Reports
    BY <1>3, HasReport DEF TableRemoved
  <2>2. PartsOf(report[w], 2) \subseteq Parts
    BY <2>1 DEF PartsOf
  <2>3. /\ \/ /\ table' = [table EXCEPT ![w] = 2]
              /\ todo' = [todo EXCEPT ![w] = PartsOf(report[w], 2)]
              /\ doing' = doing
           \/ /\ doing' = [doing EXCEPT ![w] = IF doing[w] = "cleanup" THEN "deliver" ELSE "give_up"]
              /\ table' = table /\ todo' = todo
        /\ doing[w] # "idle"
        /\ report' = report /\ attempt' = attempt
    BY <1>3 DEF TableRemoved
  <2>4. /\ reportStatus' = reportStatus /\ retryCount' = retryCount /\ reportStale' = reportStale
        /\ parts' = parts /\ admitted' = admitted /\ exportTasks' = exportTasks
        /\ next' = next /\ harmed' = harmed
        /\ sent' = sent /\ damaged' = damaged /\ resent' = resent /\ blame' = blame
        /\ reportFaults' = reportFaults /\ timesOutlived' = timesOutlived
    BY <1>3 DEF TableRemoved
  <2>5. QED
    BY <2>2, <2>3, <2>4
<1>4. QED
  BY <1>1, <1>2, <1>3

\* An attempt at its end.
LEMMA EndersFitReports ==
  ASSUME ReportsFit, NEW w \in Workers,
         \/ RenderExport(w) \/ Deliver(w) \/ LoseMail(w) \/ FinishReport(w) \/ GiveUp(w)
         \/ FailReport(w) \/ KillReport(w)
  PROVE  ReportsFit'
<1>0. MaxRetryCount \in Nat \ {0} /\ MaxReportFaults \in Nat /\ Nothing \notin Reports
  BY ReportsAssumption DEF ReportsAssumption
<1>1. doing[w] # "idle"
  BY DEF RenderExport, Deliver, LoseMail, FinishReport, GiveUp, FailReport, KillReport, PartIsGone, At
<1>2. report[w] \in Reports /\ attempt[w] \in 0..(MaxRetryCount - 1)
  BY <1>0, <1>1, HasReport DEF ReportsFit, ReportsTypeOK, AttemptsLeft
<1> USE <1>0, <1>2 DEF ReportsFit, ReportsTypeOK, PartsFit, AttemptsLeft, rowVars, workVars,
        outcomeVars, requestVars, Statuses, Finished, Places, Tables, Reaches, Moved, At
<1>3. CASE RenderExport(w)
  BY <1>3 DEF RenderExport
<1>4. CASE Deliver(w)
  <2>1. /\ sent' = sent \cup {report[w]}
        /\ resent' \subseteq resent \cup {report[w]} /\ damaged' \subseteq damaged \cup {report[w]}
        /\ doing' = [doing EXCEPT ![w] = "finish"] /\ report' = report /\ attempt' = attempt
    BY <1>4 DEF Deliver
  <2>2. /\ reportStatus' = reportStatus /\ retryCount' = retryCount /\ reportStale' = reportStale
        /\ parts' = parts /\ admitted' = admitted /\ exportTasks' = exportTasks
        /\ table' = table /\ next' = next /\ todo' = todo /\ harmed' = harmed /\ blame' = blame
        /\ reportFaults' = reportFaults /\ timesOutlived' = timesOutlived
    BY <1>4 DEF Deliver
  <2>3. QED
    BY <1>1, <2>1, <2>2
<1>5. CASE LoseMail(w)
  BY <1>5 DEF LoseMail
<1>6. ASSUME Idle(w) PROVE /\ doing' \in [Workers -> Places]
                           /\ report' \in [Workers -> Reports \cup {Nothing}]
                           /\ \A v \in Workers : doing'[v] = "idle" <=> report'[v] = Nothing
                           /\ attempt' \in [Workers -> 0..MaxRetryCount]
                           /\ table' \in [Workers -> Tables]
                           /\ next' \in [Workers -> Nat]
                           /\ todo' \in [Workers -> SUBSET Parts]
                           /\ harmed' \in [Workers -> BOOLEAN]
                           /\ \A v \in Workers : report'[v] # Nothing => attempt'[v] < MaxRetryCount
  BY <1>6 DEF Idle
<1>7. CASE FinishReport(w)
  <2>1. Idle(w)
    BY <1>7 DEF FinishReport
  <2>2. /\ reportStatus' = [reportStatus EXCEPT ![report[w]] = "ready"]
        /\ retryCount' \in [Reports -> 0..MaxRetryCount]
        /\ \A r \in Reports \ {report[w]} : retryCount'[r] = retryCount[r]
        /\ reportStale' = [reportStale EXCEPT ![report[w]] = FALSE]
    BY <1>7 DEF FinishReport, Save
  <2>3. /\ parts' = parts /\ admitted' = admitted /\ exportTasks' = exportTasks
        /\ sent' = sent /\ damaged' = damaged /\ resent' = resent /\ blame' = blame
        /\ reportFaults' = reportFaults /\ timesOutlived' = timesOutlived
    BY <1>7 DEF FinishReport
  <2>4. QED
    BY <1>6, <2>1, <2>2, <2>3
<1>8. CASE GiveUp(w)
  <2>1. Idle(w)
    BY <1>8 DEF GiveUp
  <2>2. /\ reportStatus' = [reportStatus EXCEPT ![report[w]] =
                               IF attempt[w] + 1 >= MaxRetryCount THEN "permanently_failed" ELSE "failed"]
        /\ retryCount' = [retryCount EXCEPT ![report[w]] = attempt[w] + 1]
        /\ reportStale' = [reportStale EXCEPT ![report[w]] = FALSE]
    BY <1>8 DEF GiveUp, Save
  <2>3. /\ parts' = parts /\ admitted' = admitted /\ exportTasks' = exportTasks
        /\ sent' = sent /\ damaged' = damaged /\ resent' = resent /\ blame' = blame
        /\ reportFaults' = reportFaults /\ timesOutlived' = timesOutlived
    BY <1>8 DEF GiveUp
  <2>4. QED
    BY <1>6, <2>1, <2>2, <2>3
<1>9. ASSUME FailReport(w) \/ KillReport(w)
      PROVE  /\ blame' \in [Reports -> SUBSET Blames]
             /\ \A r \in Reports : "moved" \notin blame'[r] => "moved" \notin blame[r]
  BY <1>9 DEF FailReport, KillReport, Blame, Leftovers, Blames
<1>10. CASE FailReport(w)
  <2>1. /\ \/ /\ doing' = [doing EXCEPT ![w] = "discard"]
              /\ table' = [table EXCEPT ![w] = 1]
              /\ todo' = [todo EXCEPT ![w] = PartsOf(report[w], 1)]
           \/ doing' = [doing EXCEPT ![w] = "give_up"] /\ table' = table /\ todo' = todo
        /\ report' = report /\ attempt' = attempt
        /\ \/ reportFaults' = reportFaults
           \/ reportFaults' = reportFaults + 1 /\ reportFaults < MaxReportFaults
    BY <1>10 DEF FailReport
  <2>2. /\ reportStatus' = reportStatus /\ retryCount' = retryCount /\ reportStale' = reportStale
        /\ parts' = parts /\ admitted' = admitted /\ exportTasks' = exportTasks
        /\ next' = next /\ harmed' = harmed /\ sent' = sent /\ damaged' = damaged /\ resent' = resent
        /\ timesOutlived' = timesOutlived
    BY <1>10 DEF FailReport
  <2>3. PartsOf(report[w], 1) \subseteq Parts
    BY DEF PartsOf
  <2>4. QED
    BY <1>1, <1>9, <1>10, <2>1, <2>2, <2>3
<1>11. CASE KillReport(w)
  <2>1. Idle(w)
    BY <1>11 DEF KillReport
  <2>2. /\ reportStatus' = reportStatus /\ retryCount' = retryCount /\ reportStale' = reportStale
        /\ parts' = parts /\ admitted' = admitted /\ exportTasks' = exportTasks
        /\ sent' = sent /\ damaged' = damaged /\ resent' = resent /\ timesOutlived' = timesOutlived
        /\ reportFaults' = reportFaults + 1 /\ reportFaults < MaxReportFaults
    BY <1>11 DEF KillReport
  <2>3. QED
    BY <1>6, <1>9, <1>11, <2>1, <2>2
<1>12. QED
  BY <1>3, <1>4, <1>5, <1>7, <1>8, <1>10, <1>11

LEMMA ReportsFitOn == ReportsFit /\ [ReportsNext]_reportVars => ReportsFit'
  BY RequestsFitReports, TakersFitReports, WritersFitReports, CleanersFitReports, EndersFitReports
  DEF ReportsNext, ReportStep

(***************************************************************************)
(* Reports: unless a worker outlived the ten minutes one worker is at a    *)
(* report, which is then in progress.  What was sent is finished, or its   *)
(* worker is about to save that it is.                                     *)
(***************************************************************************)
Sole(r) ==
    /\ \A v, w \in Workers : report[v] = r /\ report[w] = r => v = w
    /\ \A w \in Workers : report[w] = r => reportStatus[r] = "in_progress"

SoleHolders == \A r \in Reports : "outlived" \notin blame[r] => Sole(r)

Saving(r) == \E w \in Workers : report[w] = r /\ doing[w] = "finish"

SentIsSaved ==
    \A r \in sent :
        \/ blame[r] \cap {"cut_after_sending", "outlived"} # {}
        \/ reportStatus[r] \in Finished
        \/ Saving(r)

ReportsHeld == ReportsFit /\ SoleHolders /\ SentIsSaved /\ DeliveredOnce

FinishedIsLeft ==
    \A r \in Reports : reportStatus[r] \in Finished /\ "outlived" \notin blame[r]
                           => reportStatus'[r] = reportStatus[r]

\* Steps of an attempt that only move it on.
Progress(w) ==
    \/ ListParts(w) \/ WritePart(w) \/ TableWritten(w) \/ Combine(w) \/ RemovePart(w)
    \/ TableRemoved(w) \/ RenderExport(w) \/ LoseMail(w)

LEMMA ProgressMoves ==
  ASSUME ReportsTypeOK, NEW w \in Workers, Progress(w)
  PROVE  /\ report' = report /\ reportStatus' = reportStatus /\ blame' = blame
         /\ retryCount' = retryCount /\ attempt' = attempt
         /\ sent' = sent /\ resent' = resent /\ damaged' = damaged
         /\ report[w] \in Reports /\ doing[w] \notin {"idle", "finish"}
         /\ \A v \in Workers \ {w} : doing'[v] = doing[v]
         /\ \A r \in Reports : reportStale'[r] => reportStale[r]
<1> USE HasReport DEF ReportsTypeOK, rowVars, outcomeVars, Reaches, Moved, At
<1>1. CASE ListParts(w) \/ TableWritten(w) \/ Combine(w)
  BY <1>1 DEF ListParts, TableWritten, Combine
<1>2. CASE WritePart(w)
  BY <1>2 DEF WritePart
<1>3. CASE RemovePart(w)
  BY <1>3 DEF RemovePart
<1>4. CASE TableRemoved(w)
  BY <1>4 DEF TableRemoved
<1>5. CASE RenderExport(w) \/ LoseMail(w)
  BY <1>5 DEF RenderExport, LoseMail
<1>6. QED
  BY <1>1, <1>2, <1>3, <1>4, <1>5 DEF Progress

LEMMA ProgressKeepsHolders ==
  ASSUME ReportsHeld, NEW w \in Workers, Progress(w)
  PROVE  SoleHolders' /\ SentIsSaved' /\ DeliveredOnce' /\ FinishedIsLeft
<1> USE ProgressMoves DEF ReportsHeld, ReportsFit
<1>1. SoleHolders'
  BY DEF SoleHolders, Sole
<1>2. SentIsSaved'
  BY DEF SentIsSaved, Saving, ReportsTypeOK
<1>3. DeliveredOnce' /\ FinishedIsLeft
  BY DEF DeliveredOnce, FinishedIsLeft
<1>4. QED
  BY <1>1, <1>2, <1>3

\* Nobody delivers what has been sent, unless something went wrong before.
LEMMA DeliverKeepsHolders ==
  ASSUME ReportsHeld, NEW w \in Workers, Deliver(w)
  PROVE  SoleHolders' /\ SentIsSaved' /\ DeliveredOnce' /\ FinishedIsLeft
<1> DEFINE r == report[w]
<1>1. /\ doing[w] = "deliver" /\ doing' = [doing EXCEPT ![w] = "finish"]
      /\ report' = report /\ reportStatus' = reportStatus /\ reportStale' = reportStale
      /\ blame' = blame /\ sent' = sent \cup {r}
      /\ resent' = IF r \in sent THEN resent \cup {r} ELSE resent
  BY DEF Deliver, Reaches, Moved, rowVars
<1>2. r \in Reports
  BY <1>1, HasReport DEF ReportsHeld, ReportsFit
<1>3. SoleHolders' /\ FinishedIsLeft
  BY <1>1 DEF ReportsHeld, SoleHolders, Sole, FinishedIsLeft
<1>4. SentIsSaved'
  BY <1>1 DEF ReportsHeld, ReportsFit, ReportsTypeOK, SentIsSaved, Saving
<1>5. r \in sent => blame[r] \cap {"cut_after_sending", "outlived"} # {}
  <2>1. SUFFICES ASSUME r \in sent, "outlived" \notin blame[r], "cut_after_sending" \notin blame[r]
                 PROVE  FALSE
    OBVIOUS
  <2>2. Sole(r)
    BY <1>2, <2>1 DEF ReportsHeld, SoleHolders
  <2>3. reportStatus[r] \notin Finished
    BY <2>2 DEF Sole, Finished
  <2>4. PICK v \in Workers : report[v] = r /\ doing[v] = "finish"
    BY <2>1, <2>3 DEF ReportsHeld, SentIsSaved, Saving
  <2>5. QED
    BY <1>1, <2>2, <2>4 DEF Sole
<1>6. DeliveredOnce'
  BY <1>1, <1>5 DEF ReportsHeld, DeliveredOnce
<1>7. QED
  BY <1>3, <1>4, <1>6

\* An attempt that fails after the delivery is to blame for what follows.
LEMMA FailKeepsHolders ==
  ASSUME ReportsHeld, NEW w \in Workers, FailReport(w)
  PROVE  SoleHolders' /\ SentIsSaved' /\ DeliveredOnce' /\ FinishedIsLeft
<1>1. /\ doing[w] # "idle" /\ \A v \in Workers \ {w} : doing'[v] = doing[v]
      /\ report' = report /\ reportStatus' = reportStatus /\ reportStale' = reportStale
      /\ sent' = sent /\ resent' = resent
  BY DEF FailReport, PartIsGone, Reaches, Moved, rowVars, outcomeVars, At, ReportsHeld, ReportsFit,
         ReportsTypeOK
<1>2. report[w] \in Reports
  BY <1>1, HasReport DEF ReportsHeld, ReportsFit
<1>3. /\ \A r \in Reports : blame[r] \subseteq blame'[r]
      /\ \A r \in Reports : "outlived" \in blame'[r] => "outlived" \in blame[r]
      /\ doing[w] = "finish" => "cut_after_sending" \in blame'[report[w]]
  BY <1>2 DEF FailReport, Blame, Leftovers, ReportsHeld, ReportsFit, ReportsTypeOK
<1>4. SoleHolders' /\ FinishedIsLeft
  BY <1>1, <1>3 DEF ReportsHeld, SoleHolders, Sole, FinishedIsLeft
<1>5. SentIsSaved'
  BY <1>1, <1>2, <1>3 DEF ReportsHeld, ReportsFit, ReportsTypeOK, SentIsSaved, Saving
<1>6. DeliveredOnce'
  BY <1>1, <1>3 DEF ReportsHeld, ReportsFit, ReportsTypeOK, DeliveredOnce
<1>7. QED
  BY <1>4, <1>5, <1>6

\* A worker leaves its report: it was the only one there.
LEMMA LeaveKeepsHolders ==
  ASSUME ReportsHeld, NEW w \in Workers, FinishReport(w) \/ GiveUp(w) \/ KillReport(w)
  PROVE  SoleHolders' /\ SentIsSaved' /\ DeliveredOnce' /\ FinishedIsLeft
<1> DEFINE r == report[w]
<1>0. Nothing \notin Reports
  BY ReportsAssumption DEF ReportsAssumption
<1>1. doing[w] # "idle" /\ r \in Reports
  BY HasReport DEF FinishReport, GiveUp, KillReport, ReportsHeld, ReportsFit
<1>2. /\ report' = [report EXCEPT ![w] = Nothing]
      /\ \A v \in Workers \ {w} : doing'[v] = doing[v]
      /\ sent' = sent /\ resent' = resent
  BY DEF FinishReport, GiveUp, KillReport, Idle, Moved, outcomeVars, ReportsHeld, ReportsFit, ReportsTypeOK
<1>3. /\ \A q \in Reports \ {r} : reportStatus'[q] = reportStatus[q]
      /\ \A q \in Reports : reportStale'[q] => reportStale[q]
      /\ \/ reportStatus'[r] = reportStatus[r] /\ KillReport(w)
         \/ reportStatus'[r] \in Finished /\ FinishReport(w)
         \/ GiveUp(w)
  BY <1>1 DEF FinishReport, GiveUp, KillReport, Save, rowVars, Finished, ReportsHeld, ReportsFit, ReportsTypeOK
<1>4. /\ \A q \in Reports : blame[q] \subseteq blame'[q]
      /\ \A q \in Reports : "outlived" \in blame'[q] => "outlived" \in blame[q]
      /\ doing[w] = "finish" =>
             FinishReport(w) \/ "cut_after_sending" \in blame'[r]
  BY <1>1 DEF FinishReport, GiveUp, KillReport, Blame, Leftovers, ReportsHeld, ReportsFit, ReportsTypeOK
<1> HIDE DEF r
<1>5. r = report[w]
  BY DEF r
<1>6. SoleHolders'
  <2>1. ASSUME NEW q \in Reports, "outlived" \notin blame'[q] PROVE Sole(q)'
    <3>1. Sole(q)
      BY <1>4, <2>1 DEF ReportsHeld, SoleHolders
    <3>2. q = r => \A v \in Workers : report'[v] # q
      BY <1>0, <1>1, <1>2, <1>5, <3>1 DEF Sole, ReportsHeld, ReportsFit, ReportsTypeOK
    <3>3. \A v \in Workers : report'[v] = q => report[v] = q
      BY <1>0, <1>2, <2>1 DEF ReportsHeld, ReportsFit, ReportsTypeOK
    <3>4. QED
      BY <1>3, <3>1, <3>2, <3>3 DEF Sole
  <2>2. QED
    BY <2>1 DEF SoleHolders
<1>7. SentIsSaved'
  <2>1. SUFFICES ASSUME NEW q \in sent, "outlived" \notin blame'[q], "cut_after_sending" \notin blame'[q]
                 PROVE  (reportStatus[q] \in Finished \/ Saving(q))'
    BY <1>2 DEF SentIsSaved
  <2>2. q \in Reports /\ "outlived" \notin blame[q] /\ "cut_after_sending" \notin blame[q]
    BY <1>4, <2>1 DEF ReportsHeld, ReportsFit, ReportsTypeOK
  <2>3. reportStatus[q] \in Finished \/ Saving(q)
    BY <2>1, <2>2 DEF ReportsHeld, SentIsSaved
  <2>4. Sole(q)
    BY <2>2 DEF ReportsHeld, SoleHolders
  <2>5. CASE q = r
    <3>1. \A v \in Workers : report[v] = r => v = w
      BY <1>5, <2>4, <2>5 DEF Sole
    <3>2. doing[w] = "finish"
      BY <1>5, <2>3, <2>4, <2>5, <3>1 DEF Sole, Saving, Finished
    <3>3. FinishReport(w)
      BY <1>4, <2>1, <2>5, <3>2
    <3>4. QED
      BY <1>1, <1>3, <1>5, <2>5, <3>2, <3>3 DEF GiveUp, KillReport, FinishReport, Save, Finished,
                                                ReportsHeld, ReportsFit, ReportsTypeOK
  <2>6. CASE q # r
    BY <1>2, <1>3, <1>5, <2>2, <2>3, <2>6 DEF Saving, ReportsHeld, ReportsFit, ReportsTypeOK
  <2>7. QED
    BY <2>5, <2>6
<1>8. DeliveredOnce'
  BY <1>2, <1>4 DEF ReportsHeld, ReportsFit, ReportsTypeOK, DeliveredOnce
<1>9. FinishedIsLeft
  BY <1>1, <1>3, <1>5 DEF ReportsHeld, SoleHolders, Sole, FinishedIsLeft, Finished
<1>10. QED
  BY <1>6, <1>7, <1>8, <1>9

\* Who takes a report in progress from a worker that is at it is to blame.
LEMMA TakeKeepsHolders ==
  ASSUME ReportsHeld, NEW w \in Workers, TakeReport(w)
  PROVE  SoleHolders' /\ SentIsSaved' /\ DeliveredOnce' /\ FinishedIsLeft
<1>0. Exports \subseteq Reports /\ Nothing \notin Reports
  BY ReportsAssumption DEF ReportsAssumption
<1> USE DEF ReportsHeld, ReportsFit
<1>1. ASSUME NEW r \in Reports, Claim(w, r),
             \/ reportStatus[r] \in {"pending", "failed"}
             \/ reportStatus[r] = "in_progress" /\ reportStale[r]
      PROVE  SoleHolders' /\ SentIsSaved' /\ DeliveredOnce' /\ FinishedIsLeft
  <2>1. /\ doing[w] = "idle"
        /\ \A v \in Workers \ {w} : doing'[v] = doing[v]
        /\ report' = [report EXCEPT ![w] = r]
        /\ reportStatus' = [reportStatus EXCEPT ![r] = "in_progress"]
        /\ reportStale' = [reportStale EXCEPT ![r] = FALSE]
        /\ blame' = [blame EXCEPT ![r] =
                        IF \E v \in Workers : report[v] = r THEN @ \cup {"outlived"} ELSE @]
        /\ sent' = sent /\ resent' = resent
    BY <1>1 DEF Claim, Moved, outcomeVars, ReportsTypeOK
  <2>2. report[w] = Nothing
    BY <2>1 DEF ReportsTypeOK
  <2>3. /\ \A q \in Reports \ {r} : blame'[q] = blame[q]
        /\ blame[r] \subseteq blame'[r]
        /\ "outlived" \notin blame'[r] =>
               (\A v \in Workers : report[v] # r) /\ "outlived" \notin blame[r]
        /\ (\A v \in Workers : report[v] # r) => blame'[r] = blame[r]
    BY <1>1, <2>1 DEF ReportsTypeOK
  <2>5. SoleHolders'
    <3>1. \A q \in Reports \ {r} : Sole(q) => Sole(q)'
      BY <2>1, <1>1 DEF Sole, ReportsTypeOK
    <3>2. (\A v \in Workers : report[v] # r) => Sole(r)'
      BY <1>1, <2>1 DEF Sole, ReportsTypeOK
    <3>3. QED
      BY <2>3, <3>1, <3>2 DEF SoleHolders
  <2>6. SentIsSaved'
    <3>1. SUFFICES ASSUME NEW q \in sent, "outlived" \notin blame'[q], "cut_after_sending" \notin blame'[q]
                   PROVE  (reportStatus[q] \in Finished \/ Saving(q))'
      BY <2>1 DEF SentIsSaved
    <3>2. /\ q \in Reports /\ "outlived" \notin blame[q] /\ "cut_after_sending" \notin blame[q]
          /\ q = r => \A v \in Workers : report[v] # r
      BY <2>3, <3>1 DEF ReportsTypeOK
    <3>3. reportStatus[q] \in Finished \/ Saving(q)
      BY <3>1, <3>2 DEF SentIsSaved
    <3>4. q # r
      BY <1>1, <3>2, <3>3 DEF Saving, Finished
    <3>5. QED
      BY <1>0, <2>1, <2>2, <3>2, <3>3, <3>4 DEF Saving, ReportsTypeOK
  <2>7. DeliveredOnce'
    BY <2>1, <2>3 DEF DeliveredOnce, ReportsTypeOK
  <2>8. FinishedIsLeft
    BY <1>1, <2>1 DEF FinishedIsLeft, Finished, ReportsTypeOK
  <2>9. QED
    BY <2>5, <2>6, <2>7, <2>8
<1>2. ASSUME NEW r \in Exports, SkipExport(w, r)
      PROVE  SoleHolders' /\ SentIsSaved' /\ DeliveredOnce' /\ FinishedIsLeft
  BY <1>2 DEF SkipExport, rowVars, workVars, outcomeVars, SoleHolders, Sole, SentIsSaved, Saving,
              DeliveredOnce, FinishedIsLeft
<1>3. QED
  BY <1>1, <1>2, TakesOneReport

LEMMA RequestsKeepHolders ==
  ASSUME ReportsHeld,
         \/ \E export \in BOOLEAN : AdmitReport(export) \/ CreateReport(export)
         \/ \E r \in Reports : GrowStale(r) \/ RowsMove(r)
         \/ UNCHANGED reportVars
  PROVE  SoleHolders' /\ SentIsSaved' /\ DeliveredOnce' /\ FinishedIsLeft
<1>0. Exports \subseteq Reports
  BY ReportsAssumption DEF ReportsAssumption
<1> USE <1>0 DEF ReportsHeld, ReportsFit, SoleHolders, Sole, SentIsSaved, Saving, DeliveredOnce,
             FinishedIsLeft, Finished, rowVars, workVars, outcomeVars, requestVars, ReportsTypeOK
<1>1. ASSUME NEW export \in BOOLEAN, AdmitReport(export)
      PROVE  SoleHolders' /\ SentIsSaved' /\ DeliveredOnce' /\ FinishedIsLeft
  BY <1>1 DEF AdmitReport
<1>2. ASSUME NEW export \in BOOLEAN, CreateReport(export)
      PROVE  SoleHolders' /\ SentIsSaved' /\ DeliveredOnce' /\ FinishedIsLeft
  <2>1. PICK r \in OfType(export) :
           reportStatus[r] = "none" /\ reportStatus' = [reportStatus EXCEPT ![r] = "pending"]
    BY <1>2 DEF CreateReport
  <2>2. /\ reportStale' = reportStale /\ doing' = doing /\ report' = report /\ sent' = sent
        /\ resent' = resent /\ blame' = blame
    BY <1>2 DEF CreateReport
  <2>3. r \in Reports
    BY DEF OfType
  <2>4. SoleHolders'
    BY <2>1, <2>2, <2>3
  <2>5. SentIsSaved' /\ DeliveredOnce' /\ FinishedIsLeft
    BY <2>1, <2>2, <2>3
  <2>6. QED
    BY <2>4, <2>5
<1>3. ASSUME NEW r \in Reports, GrowStale(r)
      PROVE  SoleHolders' /\ SentIsSaved' /\ DeliveredOnce' /\ FinishedIsLeft
  BY <1>3 DEF GrowStale
<1>4. ASSUME NEW r \in Reports, RowsMove(r)
      PROVE  SoleHolders' /\ SentIsSaved' /\ DeliveredOnce' /\ FinishedIsLeft
  BY <1>4 DEF RowsMove
<1>5. CASE UNCHANGED reportVars
  BY <1>5 DEF reportVars
<1>6. QED
  BY <1>1, <1>2, <1>3, <1>4, <1>5

LEMMA HoldersGoOn ==
  ReportsHeld /\ [ReportsNext]_reportVars => ReportsHeld' /\ FinishedIsLeft
<1>1. SUFFICES ASSUME ReportsHeld, ReportsNext \/ UNCHANGED reportVars
               PROVE  SoleHolders' /\ SentIsSaved' /\ DeliveredOnce' /\ FinishedIsLeft
  BY ReportsFitOn DEF ReportsHeld
<1>2. ASSUME NEW w \in Workers,
             TakeReport(w) \/ ReportStep(w) \/ LoseMail(w) \/ FailReport(w) \/ KillReport(w)
      PROVE  SoleHolders' /\ SentIsSaved' /\ DeliveredOnce' /\ FinishedIsLeft
  BY <1>1, <1>2, TakeKeepsHolders, ProgressKeepsHolders, DeliverKeepsHolders, FailKeepsHolders,
     LeaveKeepsHolders
  DEF ReportStep, Progress
<1>3. QED
  BY <1>1, <1>2, RequestsKeepHolders DEF ReportsNext

(***************************************************************************)
(* Reports: the parts of a dashboard report are the first chunks of each   *)
(* table, as many as its worker has counted or written, until an attempt   *)
(* ends while they are being removed, is taken over alive, or rows move.   *)
(***************************************************************************)
First(t, n) == {<<t, i, 0>> : i \in 0..(n - 1)}
Begun(r, t) == \E n \in 0..ChunksOf[t] : PartsOf(r, t) = First(t, n)
Full(r, t) == PartsOf(r, t) = First(t, ChunksOf[t])

WorkIsWhole(w, r) ==
    /\ At(doing, w, {"list", "write"}) => IF table[w] = 1 THEN Begun(r, 2) ELSE Full(r, 1)
    /\ doing[w] = "list" => Begun(r, table[w])
    /\ doing[w] = "write" =>
          next[w] <= ChunksOf[table[w]] /\ PartsOf(r, table[w]) = First(table[w], next[w])
    /\ doing[w] = "combine" => Full(r, 1) /\ Full(r, 2)
    /\ At(doing, w, {"cleanup", "deliver"}) => ~harmed[w]
    /\ doing[w] = "discard" => attempt[w] + 1 >= MaxRetryCount
    /\ doing[w] = "give_up" =>
          attempt[w] + 1 >= MaxRetryCount \/ (Begun(r, 1) /\ Begun(r, 2))
    /\ doing[w] # "render"

Resumable(r) ==
    reportStatus[r] \notin Finished /\ (\A w \in Workers : report[w] # r)
        => Begun(r, 1) /\ Begun(r, 2)

Spared(r) == blame[r] \cap {"holed", "outlived", "moved"} = {}

ReportIsWhole(r) ==
    Spared(r) =>
        /\ \A w \in Workers : report[w] = r => WorkIsWhole(w, r)
        /\ Resumable(r)

ReportsWhole ==
    /\ ReportsHeld
    /\ \A w \in Workers : doing[w] = "idle" => table[w] = 1
    /\ \A r \in Reports \ Exports : ReportIsWhole(r)
    /\ DeliveredWhole

LEMMA ChunksType ==
  /\ ChunksOf[1] \in Nat /\ ChunksOf[2] \in Nat /\ MaxRetryCount \in Nat \ {0}
  /\ Tables = {1, 2} /\ Exports \subseteq Reports /\ Nothing \notin Reports
  BY ReportsAssumption DEF ReportsAssumption, Tables

LEMMA FirstCount ==
  ASSUME NEW t \in Tables, NEW n \in Nat
  PROVE  Cardinality(First(t, n)) = n
<1> DEFINE f == [i \in 0..(n - 1) |-> <<t, i, 0>>]
<1>1. f \in Bijection(0..(n - 1), First(t, n))
  <2>1. f \in [0..(n - 1) -> First(t, n)]
    BY DEF First
  <2>2. \A i, j \in 0..(n - 1) : f[i] = f[j] => i = j
    OBVIOUS
  <2>3. \A p \in First(t, n) : \E i \in 0..(n - 1) : f[i] = p
    BY DEF First
  <2> HIDE DEF f
  <2>4. QED
    BY <2>1, <2>2, <2>3 DEF Bijection, Injection, Surjection, IsInjective
<1>2. IsFiniteSet(0..(n - 1)) /\ Cardinality(0..(n - 1)) = n
  BY FS_Interval
<1>3. QED
  BY <1>1, <1>2, FS_Bijection DEF ExistsBijection

LEMMA FirstGrows ==
  ASSUME NEW t \in Tables, NEW n \in Nat
  PROVE  First(t, n) \cup {<<t, n, 0>>} = First(t, n + 1)
<1>1. 0..((n + 1) - 1) = (0..(n - 1)) \cup {n}
  OBVIOUS
<1>2. QED
  BY <1>1 DEF First

\* The parts an attempt leaves are the first ones if no hole is put to its account.
LEMMA PrefixIsBegun ==
  ASSUME ReportsFit, NEW r \in Reports, NEW t \in Tables, IsPrefix(parts[r], t),
         "moved" \notin blame[r]
  PROVE  Begun(r, t)
<1> DEFINE n == Cardinality(PartsOf(r, t))
<1>1. PartsOf(r, t) = First(t, n)
  BY DEF IsPrefix, PartsOf, First
<1>2. n \in Nat
  BY FS_Subset, FS_CardinalityType DEF ReportsFit, PartsFit, PartsOf
<1> HIDE DEF n
<1>3. n <= ChunksOf[t]
  <2>1. CASE n = 0
    BY <2>1, ChunksType
  <2>2. CASE n # 0
    <3>1. <<t, n - 1, 0>> \in First(t, n)
      BY <1>2, <2>2 DEF First
    <3>2. <<t, n - 1, 0>> \in parts[r]
      BY <1>1, <3>1 DEF PartsOf
    <3>3. n - 1 < ChunksOf[t]
      BY <3>2 DEF ReportsFit, PartsFit
    <3>4. QED
      BY <1>2, <3>3, ChunksType
  <2>3. QED
    BY <2>1, <2>2
<1>4. QED
  BY <1>1, <1>2, <1>3, ChunksType DEF Begun

LEMMA FullIsWhole ==
  ASSUME ReportsFit, NEW r \in Reports, Full(r, 1), Full(r, 2)
  PROVE  Whole(parts[r])
<1> DEFINE all == {p \in Tables \X (0..ChunksOf[1] + ChunksOf[2]) \X {0} : p[2] < ChunksOf[p[1]]}
<1>1. ASSUME NEW p \in parts[r] PROVE p \in all
  <2>1. p \in Parts /\ p[1] \in Tables
    BY <1>1 DEF ReportsFit, PartsFit, Parts
  <2>2. p \in First(p[1], ChunksOf[p[1]])
    BY <1>1, <2>1, ChunksType DEF Full, PartsOf
  <2>3. PICK i \in 0..(ChunksOf[p[1]] - 1) : p = <<p[1], i, 0>>
    BY <2>2 DEF First
  <2>4. QED
    BY <2>1, <2>3, ChunksType
<1>2. ASSUME NEW p \in all PROVE p \in parts[r]
  <2>1. p[1] \in Tables /\ p[2] \in 0..(ChunksOf[p[1]] - 1) /\ p = <<p[1], p[2], 0>>
    BY <1>2, ChunksType
  <2>2. p \in First(p[1], ChunksOf[p[1]])
    BY <2>1 DEF First
  <2>3. QED
    BY <2>1, <2>2, ChunksType DEF Full, PartsOf
<1>3. QED
  BY <1>1, <1>2 DEF Whole

\* A step that concerns one worker and one report.
OnlyAt(w, r) ==
    /\ \A q \in Reports \ {r} :
          parts'[q] = parts[q] /\ blame'[q] = blame[q] /\ reportStatus'[q] = reportStatus[q]
    /\ \A v \in Workers \ {w} :
          /\ report'[v] = report[v] /\ doing'[v] = doing[v] /\ attempt'[v] = attempt[v]
          /\ table'[v] = table[v] /\ next'[v] = next[v] /\ harmed'[v] = harmed[v]

LEMMA WorkKeptWhole ==
  ASSUME NEW v \in Workers, NEW q \in Reports, WorkIsWhole(v, q), parts'[q] = parts[q],
         doing'[v] = doing[v], attempt'[v] = attempt[v], table'[v] = table[v],
         next'[v] = next[v], harmed'[v] = harmed[v]
  PROVE  WorkIsWhole(v, q)'
<1>1. \A t : PartsOf(q, t)' = PartsOf(q, t)
  BY DEF PartsOf
<1>2. /\ \A t : Begun(q, t) => Begun(q, t)'
      /\ \A t : Full(q, t) => Full(q, t)'
  BY <1>1 DEF Begun, Full, First
<1>4. /\ doing[v] = "list" => Begun(q, table[v])'
      /\ doing[v] = "write" => PartsOf(q, table[v])' = First(table[v], next[v])'
  BY <1>1, <1>2 DEF WorkIsWhole, First, Begun
<1>5. QED
  BY <1>1, <1>2, <1>4 DEF WorkIsWhole, At

\* It is enough to look at the report of the worker that takes the step.
LEMMA OnlyItsReport ==
  ASSUME ReportsWhole, NEW w \in Workers, NEW r \in Reports,
         Spared(r)' => report[w] = r \/ \A v \in Workers : report[v] # r,
         blame[r] \subseteq blame'[r], OnlyAt(w, r), report'[w] \in {r, Nothing},
         report[w] \in {r, Nothing},
         r \notin Exports /\ Spared(r)' =>
            IF report'[w] = r THEN WorkIsWhole(w, r)'
            ELSE (reportStatus[r] \notin Finished)' => Begun(r, 1)' /\ Begun(r, 2)'
  PROVE  \A q \in Reports \ Exports : ReportIsWhole(q)'
<1>0. Nothing \notin Reports
  BY ChunksType
<1>1. ASSUME NEW q \in Reports \ Exports, q # r PROVE ReportIsWhole(q)'
  <2>1. /\ parts'[q] = parts[q] /\ blame'[q] = blame[q] /\ reportStatus'[q] = reportStatus[q]
        /\ ReportIsWhole(q)
    BY <1>1 DEF OnlyAt, ReportsWhole
  <2>2. \A v \in Workers : report'[v] = q <=> report[v] = q /\ v # w
    BY <1>0, <1>1 DEF OnlyAt
  <2>3. ASSUME NEW v \in Workers, report'[v] = q, Spared(q) PROVE WorkIsWhole(v, q)'
    <3>1. report[v] = q /\ v # w /\ WorkIsWhole(v, q)
      BY <2>1, <2>2, <2>3 DEF ReportIsWhole
    <3>2. QED
      BY <1>1, <2>1, <3>1, WorkKeptWhole DEF OnlyAt
  <2>4. \A v \in Workers : report[v] = q => v # w
    BY <1>0, <1>1
  <2>5. \A t : Begun(q, t) => Begun(q, t)'
    BY <2>1 DEF Begun, PartsOf, First
  <2>6. Resumable(q) => Resumable(q)'
    BY <2>1, <2>2, <2>4, <2>5 DEF Resumable
  <2>7. Spared(q)' => Spared(q)
    BY <2>1 DEF Spared
  <2>8. QED
    BY <2>1, <2>3, <2>6, <2>7 DEF ReportIsWhole
<1>2. ASSUME r \notin Exports PROVE ReportIsWhole(r)'
  <2>1. Spared(r)' => \A v \in Workers \ {w} : report'[v] # r
    BY <1>2 DEF OnlyAt, Spared, ReportsWhole, ReportsHeld, SoleHolders, Sole
  <2>2. QED
    BY <1>0, <1>2, <2>1 DEF ReportIsWhole, Resumable
<1>3. QED
  BY <1>1, <1>2

\* What the worker at an untouched dashboard report knows of its parts.
LEMMA WorkKnown ==
  ASSUME ReportsWhole, NEW w \in Workers, report[w] \in Reports \ Exports,
         Spared(report[w])
  PROVE  WorkIsWhole(w, report[w])
  BY DEF ReportsWhole, ReportIsWhole

LEMMA WritingWhole ==
  ASSUME ReportsWhole, ReportsHeld', NEW w \in Workers, ListParts(w) \/ WritePart(w) \/ TableWritten(w)
  PROVE  \A q \in Reports \ Exports : ReportIsWhole(q)'
<1>0. report[w] \in Reports /\ table[w] \in Tables
  BY HasReport DEF ReportsWhole, ReportsHeld, ReportsFit, ReportsTypeOK, ListParts, WritePart, TableWritten
<1>1. PICK r \in Reports, t \in Tables : r = report[w] /\ t = table[w]
  BY <1>0
<1>2. r \in Reports /\ t \in Tables /\ doing[w] \in {"list", "write"} /\ next[w] \in Nat
  BY <1>0, <1>1 DEF ReportsWhole, ReportsHeld, ReportsFit, ReportsTypeOK, ListParts, WritePart, TableWritten
<1>3. /\ report' = report /\ blame' = blame /\ reportStatus' = reportStatus
      /\ attempt' = attempt /\ harmed' = harmed
      /\ \A v \in Workers \ {w} :
            doing'[v] = doing[v] /\ table'[v] = table[v] /\ next'[v] = next[v]
      /\ \A q \in Reports \ {r} : parts'[q] = parts[q]
  BY <1>2, <1>1 DEF ListParts, WritePart, TableWritten, Reaches, Moved, rowVars, ReportsWhole, ReportsHeld,
              ReportsFit, ReportsTypeOK, PartsFit
<1>4. OnlyAt(w, r)
  BY <1>3 DEF OnlyAt
<1>5. ASSUME r \notin Exports, Spared(r) PROVE WorkIsWhole(w, r)'
  <2>1. WorkIsWhole(w, r) /\ ~Moving(w)
    BY <1>2, <1>1, <1>5, WorkKnown DEF Spared, Moving
  <2>2. CASE ListParts(w)
    <3>1. /\ doing[w] = "list" /\ doing'[w] = "write" /\ table' = table /\ parts' = parts
          /\ next'[w] = Cardinality(PartsOf(r, t))
      BY <1>1, <2>2 DEF ListParts, Reaches, Moved, ReportsWhole, ReportsHeld, ReportsFit, ReportsTypeOK
    <3>2. PICK n \in 0..ChunksOf[t] : PartsOf(r, t) = First(t, n)
      BY <1>1, <2>1, <3>1 DEF WorkIsWhole, Begun
    <3>3. next'[w] = n /\ n <= ChunksOf[t]
      BY <1>2, <3>1, <3>2, FirstCount, ChunksType
    <3>4. IF t = 1 THEN Begun(r, 2)' ELSE Full(r, 1)'
      BY <1>1, <2>1, <3>1 DEF WorkIsWhole, At, Begun, Full, PartsOf, First
    <3>5. PartsOf(r, t)' = First(t, n)
      BY <3>1, <3>2 DEF PartsOf
    <3>6. QED
      BY <1>1, <3>1, <3>3, <3>4, <3>5 DEF WorkIsWhole, At
  <2>3. CASE WritePart(w)
    <3>1. /\ doing[w] = "write" /\ doing' = doing /\ table' = table
          /\ next[w] < ChunksOf[t] /\ next'[w] = next[w] + 1
          /\ PartsOf(r, t) = First(t, next[w])
      <4>1. next[w] < ChunksOf[t]
        BY <1>1, <1>2, <2>1, <2>3, ChunksType DEF WritePart
      <4>2. doing[w] = "write" /\ doing' = doing /\ table' = table /\ next'[w] = next[w] + 1
        BY <2>3 DEF WritePart, ReportsWhole, ReportsHeld, ReportsFit, ReportsTypeOK
      <4>3. QED
        BY <1>1, <2>1, <4>1, <4>2 DEF WorkIsWhole
    <3>2. {p \in PartsOf(r, t) : p[2] = next[w]} = {}
      BY <1>2, <3>1 DEF First
    <3>3. parts'[r] = parts[r] \cup {<<t, next[w], 0>>}
      BY <1>2, <1>1, <2>3, <3>2, FS_EmptySet DEF WritePart, ReportsWhole, ReportsHeld, ReportsFit, PartsFit
    <3>4. {p \in parts'[r] : p[1] = t} = First(t, next[w]) \cup {<<t, next[w], 0>>}
      BY <3>1, <3>3 DEF PartsOf
    <3>5. {p \in parts'[r] : p[1] = t} = First(t, next[w] + 1)
      BY <1>2, <3>4, FirstGrows
    <3>6. \A u \in Tables : u # t => {p \in parts'[r] : p[1] = u} = PartsOf(r, u)
      BY <3>3 DEF PartsOf
    <3>7. IF t = 1 THEN Begun(r, 2)' ELSE Full(r, 1)'
      BY <1>2, <1>1, <2>1, <3>1, <3>6, ChunksType DEF WorkIsWhole, At, Begun, Full, PartsOf, First
    <3>8. PartsOf(r, t)' = First(t, next[w] + 1)
      BY <3>5 DEF PartsOf
    <3>9. next[w] + 1 <= ChunksOf[t]
      BY <1>2, <3>1, ChunksType
    <3>10. QED
      BY <1>1, <3>1, <3>7, <3>8, <3>9 DEF WorkIsWhole, At, First
  <2>4. CASE TableWritten(w)
    <3>1. /\ doing[w] = "write" /\ next[w] >= ChunksOf[t] /\ table'[w] = 2 /\ parts' = parts
          /\ doing'[w] = IF t = 1 THEN "list" ELSE "combine"
      <4>1. doing[w] = "write" /\ next[w] >= ChunksOf[t]
        BY <1>1, <2>1, <2>4 DEF TableWritten
      <4>2. /\ table'[w] = 2 /\ parts' = parts
            /\ doing'[w] = IF t = 1 THEN "list" ELSE "combine"
        BY <1>1, <2>4 DEF TableWritten, Reaches, Moved, ReportsWhole, ReportsHeld, ReportsFit, ReportsTypeOK
      <4>3. QED
        BY <4>1, <4>2
    <3>2. Full(r, t)
      BY <1>2, <1>1, <2>1, <3>1, ChunksType DEF WorkIsWhole, Full
    <3>3. /\ t = 1 => Full(r, 1) /\ Begun(r, 2)
          /\ t = 2 => Full(r, 1) /\ Full(r, 2)
      BY <1>1, <2>1, <3>1, <3>2 DEF WorkIsWhole, At
    <3>4. /\ t = 1 => Full(r, 1)' /\ Begun(r, 2)'
          /\ t = 2 => Full(r, 1)' /\ Full(r, 2)'
      BY <3>1, <3>3, <1>1, <1>3 DEF Full, Begun, PartsOf, First
    <3>5. QED
      BY <1>2, <3>1, <3>4, ChunksType DEF WorkIsWhole, At
  <2>5. QED
    BY <2>2, <2>3, <2>4
<1>6. Spared(r)' => Spared(r)
  BY <1>3 DEF Spared
<1>7. QED
  BY <1>2, <1>3, <1>4, <1>1, <1>5, <1>6, OnlyItsReport

LEMMA RemovingWhole ==
  ASSUME ReportsWhole, NEW w \in Workers,
         \/ Combine(w) \/ RemovePart(w) \/ TableRemoved(w) \/ RenderExport(w) \/ Deliver(w) \/ LoseMail(w)
  PROVE  \A q \in Reports \ Exports : ReportIsWhole(q)'
<1> USE DEF ReportsWhole, ReportsHeld, ReportsFit, ReportsTypeOK, PartsFit
<1>0. report[w] \in Reports
  BY HasReport DEF Combine, RemovePart, TableRemoved, RenderExport, Deliver, LoseMail, At
<1>1. PICK r \in Reports : r = report[w]
  BY <1>0
<1>2. /\ report' = report /\ blame' = blame /\ reportStatus' = reportStatus /\ attempt' = attempt
      /\ \A v \in Workers \ {w} :
            doing'[v] = doing[v] /\ table'[v] = table[v] /\ next'[v] = next[v] /\ harmed'[v] = harmed[v]
      /\ \A q \in Reports \ {r} : parts'[q] = parts[q]
  BY <1>1
  DEF Combine, RemovePart, TableRemoved, RenderExport, Deliver, LoseMail, Reaches, Moved, rowVars
<1>3. OnlyAt(w, r)
  BY <1>2 DEF OnlyAt
<1>4. ASSUME r \notin Exports, Spared(r) PROVE WorkIsWhole(w, r)'
  <2>1. WorkIsWhole(w, r) /\ ~Moving(w)
    BY <1>1, <1>4, WorkKnown DEF Spared, Moving
  <2>2. CASE Combine(w)
    <3>1. Whole(parts[r])
      BY <1>1, <2>1, <2>2, FullIsWhole DEF Combine, WorkIsWhole
    <3>2. Harms(w) = {FALSE}
      BY <1>1, <2>1, <3>1 DEF Harms
    <3>3. doing'[w] = "cleanup" /\ harmed'[w] = FALSE
      BY <1>1, <2>2, <3>2 DEF Combine, Reaches, Moved
    <3>4. QED
      BY <3>3 DEF WorkIsWhole, At
  <2>3. CASE RemovePart(w)
    BY <2>1, <2>3, <1>2 DEF RemovePart, WorkIsWhole, At
  <2>4. CASE TableRemoved(w)
    BY <2>1, <2>4, <1>2 DEF TableRemoved, WorkIsWhole, At, Reaches, Moved
  <2>5. CASE RenderExport(w)
    BY <2>1, <2>5 DEF RenderExport, WorkIsWhole
  <2>6. CASE Deliver(w) \/ LoseMail(w)
    BY <2>6 DEF Deliver, LoseMail, WorkIsWhole, At, Reaches, Moved
  <2>7. QED
    BY <2>2, <2>3, <2>4, <2>5, <2>6
<1>5. Spared(r)' => Spared(r)
  BY <1>2 DEF Spared
<1>6. QED
  BY <1>1, <1>2, <1>3, <1>4, <1>5, OnlyItsReport

\* An attempt that ends on the way leaves the first parts, or is to blame.
LEMMA EndingWhole ==
  ASSUME ReportsWhole, NEW w \in Workers,
         FailReport(w) \/ KillReport(w) \/ FinishReport(w) \/ GiveUp(w)
  PROVE  \A q \in Reports \ Exports : ReportIsWhole(q)'
<1> USE ChunksType DEF ReportsWhole, ReportsHeld, ReportsFit, ReportsTypeOK, PartsFit
<1>0. report[w] \in Reports
  BY HasReport DEF FailReport, PartIsGone, KillReport, FinishReport, GiveUp, At
<1>1. PICK r \in Reports : r = report[w]
  BY <1>0
<1>2. /\ parts' = parts
      /\ \A v \in Workers \ {w} :
            /\ report'[v] = report[v] /\ doing'[v] = doing[v] /\ attempt'[v] = attempt[v]
            /\ table'[v] = table[v] /\ next'[v] = next[v] /\ harmed'[v] = harmed[v]
      /\ \A q \in Reports \ {r} : blame'[q] = blame[q] /\ reportStatus'[q] = reportStatus[q]
      /\ blame[r] \subseteq blame'[r]
      /\ report'[w] \in {r, Nothing}
      /\ FailReport(w) => report'[w] = r
  <2>1. CASE FailReport(w)
    BY <1>1, <2>1 DEF FailReport, Reaches, Moved, rowVars, Blame
  <2>2. CASE KillReport(w)
    <3>1. /\ parts' = parts
          /\ \A v \in Workers \ {w} :
                /\ report'[v] = report[v] /\ doing'[v] = doing[v] /\ attempt'[v] = attempt[v]
                /\ table'[v] = table[v] /\ next'[v] = next[v] /\ harmed'[v] = harmed[v]
          /\ \A q \in Reports \ {r} : blame'[q] = blame[q] /\ reportStatus'[q] = reportStatus[q]
          /\ blame[r] \subseteq blame'[r]
          /\ report'[w] = Nothing
      BY <1>1, <2>2 DEF KillReport, Idle, Moved, rowVars, Blame
    <3>2. ~FailReport(w)
      BY <1>1, <3>1 DEF FailReport, Reaches
    <3>3. QED
      BY <3>1, <3>2
  <2>3. CASE FinishReport(w) \/ GiveUp(w)
    BY <1>1, <2>3 DEF FinishReport, GiveUp, FailReport, PartIsGone, Idle, Moved, Save, At
  <2>4. QED
    BY <2>1, <2>2, <2>3
<1>3. OnlyAt(w, r)
  BY <1>2 DEF OnlyAt
<1>4. ASSUME NEW t \in Tables, Begun(r, t) PROVE Begun(r, t)'
  BY <1>2, <1>4 DEF Begun, PartsOf, First
<1>5. ASSUME FailReport(w) \/ KillReport(w), Spared(r)' PROVE Begun(r, 1) /\ Begun(r, 2)
  <2>1. "holed" \notin Leftovers(w) /\ "moved" \notin blame[r]
    BY <1>1, <1>2, <1>5 DEF FailReport, KillReport, Blame, Spared
  <2>2. IsPrefix(parts[r], 1) /\ IsPrefix(parts[r], 2)
    BY <1>1, <2>1 DEF Leftovers
  <2>3. QED
    BY <2>1, <2>2, PrefixIsBegun
<1>6. ASSUME r \notin Exports, Spared(r)'
      PROVE  IF report'[w] = r THEN WorkIsWhole(w, r)'
             ELSE (reportStatus[r] \notin Finished)' => Begun(r, 1)' /\ Begun(r, 2)'
  <2>1. CASE FailReport(w)
    <3>1. doing'[w] = IF attempt[w] + 1 >= MaxRetryCount THEN "discard" ELSE "give_up"
      BY <1>1, <1>6, <2>1 DEF FailReport, Reaches, Moved
    <3>2. attempt'[w] = attempt[w]
      BY <2>1 DEF FailReport, Reaches
    <3>3. Begun(r, 1)' /\ Begun(r, 2)'
      BY <1>4, <1>5, <1>6, <2>1
    <3>4. QED
      BY <1>2, <2>1, <3>1, <3>2, <3>3 DEF WorkIsWhole, At
  <2>2. CASE KillReport(w)
    <3>1. Begun(r, 1)' /\ Begun(r, 2)'
      BY <1>4, <1>5, <1>6, <2>2
    <3>2. report'[w] # r
      BY <2>2 DEF KillReport, Idle
    <3>3. QED
      BY <3>1, <3>2
  <2>3. CASE FinishReport(w)
    BY <1>1, <2>3 DEF FinishReport, Save, Idle, Finished
  <2>4. CASE GiveUp(w)
    <3>1. blame' = blame /\ doing[w] = "give_up" /\ Spared(r)
      BY <1>6, <2>4 DEF GiveUp, Spared
    <3>2. WorkIsWhole(w, r)
      BY <1>1, <1>6, <3>1, WorkKnown
    <3>3. report'[w] # r /\ (attempt[w] + 1 >= MaxRetryCount => reportStatus'[r] \in Finished)
      BY <1>1, <2>4 DEF GiveUp, Save, Idle, Finished
    <3>4. QED
      BY <1>4, <3>1, <3>2, <3>3 DEF WorkIsWhole
  <2>5. QED
    BY <2>1, <2>2, <2>3, <2>4
<1>7. QED
  BY <1>1, <1>2, <1>3, <1>6, OnlyItsReport

LEMMA RequestsWhole ==
  ASSUME ReportsWhole,
         \/ \E export \in BOOLEAN : AdmitReport(export) \/ CreateReport(export)
         \/ \E r \in Reports : GrowStale(r) \/ RowsMove(r)
         \/ \E w \in Workers, r \in Exports : SkipExport(w, r)
         \/ UNCHANGED reportVars
  PROVE  \A q \in Reports \ Exports : ReportIsWhole(q)'
<1>1. /\ parts' = parts /\ report' = report /\ doing' = doing /\ attempt' = attempt
      /\ table' = table /\ next' = next /\ harmed' = harmed
      /\ \A q \in Reports : blame[q] \subseteq blame'[q]
  BY DEF AdmitReport, CreateReport, GrowStale, RowsMove, SkipExport, rowVars, workVars, reportVars,
         ReportsWhole, ReportsHeld, ReportsFit, ReportsTypeOK
<1>2. \A q \in Reports : reportStatus'[q] = reportStatus[q] \/ reportStatus[q] = "none"
  <2>1. ASSUME NEW export \in BOOLEAN, CreateReport(export)
        PROVE  \A q \in Reports : reportStatus'[q] = reportStatus[q] \/ reportStatus[q] = "none"
    <3>1. PICK r : reportStatus[r] = "none" /\ reportStatus' = [reportStatus EXCEPT ![r] = "pending"]
      BY <2>1 DEF CreateReport
    <3>2. QED
      BY <3>1 DEF ReportsWhole, ReportsHeld, ReportsFit, ReportsTypeOK
  <2>2. QED
    BY <2>1 DEF AdmitReport, GrowStale, RowsMove, SkipExport, rowVars, reportVars
<1>3. ASSUME NEW q \in Reports \ Exports PROVE ReportIsWhole(q)'
  <2>1. \A v \in Workers : WorkIsWhole(v, q) => WorkIsWhole(v, q)'
    BY <1>1, <1>3, WorkKeptWhole
  <2>2. \A t : Begun(q, t) => Begun(q, t)'
    BY <1>1 DEF Begun, PartsOf, First
  <2>3. QED
    BY <1>1, <1>2, <1>3, <2>1, <2>2 DEF ReportsWhole, ReportIsWhole, Spared, Resumable, Finished
<1>4. QED
  BY <1>3

\* Whoever resumes a dashboard report finds nobody there, and counts the parts, or is
\* to blame.
LEMMA TakingWhole ==
  ASSUME ReportsWhole, NEW w \in Workers, TakeReport(w)
  PROVE  \A q \in Reports \ Exports : ReportIsWhole(q)'
<1> USE ChunksType DEF ReportsWhole, ReportsHeld, ReportsFit, ReportsTypeOK, PartsFit
<1>1. ASSUME NEW r \in Reports, Claim(w, r),
             \/ reportStatus[r] \in {"pending", "failed"}
             \/ reportStatus[r] = "in_progress" /\ reportStale[r]
      PROVE  \A q \in Reports \ Exports : ReportIsWhole(q)'
  <2>1. /\ doing[w] = "idle" /\ report[w] = Nothing /\ table[w] = 1
        /\ report' = [report EXCEPT ![w] = r]
        /\ doing'[w] = IF r \in Exports THEN "render" ELSE "list"
        /\ parts' = parts /\ table' = table /\ next' = next /\ harmed' = harmed
        /\ \A v \in Workers \ {w} : doing'[v] = doing[v] /\ attempt'[v] = attempt[v]
        /\ \A q \in Reports \ {r} : blame'[q] = blame[q] /\ reportStatus'[q] = reportStatus[q]
        /\ blame[r] \subseteq blame'[r]
    BY <1>1 DEF Claim, Moved
  <2>2. OnlyAt(w, r)
    BY <2>1 DEF OnlyAt
  <2>3. Spared(r)' => (\A v \in Workers : report[v] # r) /\ Spared(r)
    <3>1. (\E v \in Workers : report[v] = r) => "outlived" \in blame'[r]
      BY <1>1 DEF Claim
    <3>2. QED
      BY <2>1, <3>1 DEF Spared
  <2>4. ASSUME r \notin Exports, Spared(r)' PROVE WorkIsWhole(w, r)'
    <3>1. Begun(r, 1) /\ Begun(r, 2)
      BY <1>1, <2>3, <2>4 DEF ReportIsWhole, Resumable, Finished
    <3>2. Begun(r, 1)' /\ Begun(r, 2)'
      BY <2>1, <3>1 DEF Begun, PartsOf, First
    <3>3. QED
      BY <2>1, <2>4, <3>2 DEF WorkIsWhole, At
  <2>5. CASE r \notin Exports
    BY <2>1, <2>2, <2>3, <2>4, <2>5, OnlyItsReport
  <2>6. CASE r \in Exports
    <3>1. ASSUME NEW q \in Reports \ Exports PROVE ReportIsWhole(q)'
      <4>1. /\ \A v \in Workers : report'[v] = q <=> report[v] = q
            /\ \A v \in Workers : report[v] = q => v # w
        BY <2>1, <2>6, <3>1
      <4>2. /\ blame'[q] = blame[q] /\ reportStatus'[q] = reportStatus[q] /\ ReportIsWhole(q)
        BY <2>1, <2>6, <3>1
      <4>3. ASSUME NEW v \in Workers, report'[v] = q, Spared(q) PROVE WorkIsWhole(v, q)'
        <5>1. v # w /\ WorkIsWhole(v, q)
          BY <4>1, <4>2, <4>3 DEF ReportIsWhole
        <5>2. QED
          BY <2>1, <3>1, <5>1, WorkKeptWhole
      <4>4. \A t : Begun(q, t) => Begun(q, t)'
        BY <2>1 DEF Begun, PartsOf, First
      <4>5. Spared(q)' => Spared(q)
        BY <4>2 DEF Spared
      <4>6. QED
        BY <4>1, <4>2, <4>3, <4>4, <4>5 DEF ReportIsWhole, Resumable
    <3>2. QED
      BY <3>1
  <2>7. QED
    BY <2>5, <2>6
<1>2. ASSUME NEW r \in Exports, SkipExport(w, r)
      PROVE  \A q \in Reports \ Exports : ReportIsWhole(q)'
  BY <1>2, RequestsWhole
<1>3. QED
  BY <1>1, <1>2, TakesOneReport

LEMMA WholeGoesOn ==
  ASSUME ReportsWhole, [ReportsNext]_reportVars
  PROVE  ReportsWhole'
<1>1. ReportsHeld'
  BY HoldersGoOn DEF ReportsWhole
<1>2. \A q \in Reports \ Exports : ReportIsWhole(q)'
  BY <1>1, WritingWhole, RemovingWhole, EndingWhole, TakingWhole, RequestsWhole
  DEF ReportsNext, ReportStep
<1>3. \A w \in Workers : doing'[w] = "idle" => table'[w] = 1
  <2> USE DEF ReportsWhole, ReportsHeld, ReportsFit, ReportsTypeOK, rowVars, workVars
  <2>1. ASSUME NEW w \in Workers, Progress(w) \/ Deliver(w) \/ FailReport(w)
        PROVE  \A v \in Workers : doing'[v] = "idle" => table'[v] = 1
    <3>1. /\ \A v \in Workers \ {w} : doing'[v] = doing[v] /\ table'[v] = table[v]
          /\ doing'[w] # "idle"
      <4>1. CASE ListParts(w) \/ WritePart(w) \/ TableWritten(w)
        BY <4>1 DEF ListParts, WritePart, TableWritten, Reaches, Moved
      <4>2. CASE Combine(w) \/ RemovePart(w) \/ TableRemoved(w)
        BY <4>2 DEF Combine, RemovePart, TableRemoved, Reaches, Moved, At
      <4>3. CASE RenderExport(w) \/ LoseMail(w) \/ Deliver(w) \/ FailReport(w)
        BY <4>3 DEF RenderExport, LoseMail, Deliver, FailReport, Reaches, Moved
      <4>4. QED
        BY <2>1, <4>1, <4>2, <4>3 DEF Progress
    <3>2. QED
      BY <3>1
  <2>2. ASSUME NEW w \in Workers, FinishReport(w) \/ GiveUp(w) \/ KillReport(w)
        PROVE  \A v \in Workers : doing'[v] = "idle" => table'[v] = 1
    BY <2>2 DEF FinishReport, GiveUp, KillReport, Idle, Moved
  <2>3. ASSUME NEW w \in Workers, TakeReport(w)
        PROVE  \A v \in Workers : doing'[v] = "idle" => table'[v] = 1
    BY <2>3, TakesOneReport DEF Claim, SkipExport, Moved
  <2>4. CASE \/ \E export \in BOOLEAN : AdmitReport(export) \/ CreateReport(export)
             \/ \E r \in Reports : GrowStale(r) \/ RowsMove(r)
             \/ UNCHANGED reportVars
    BY <2>4 DEF AdmitReport, CreateReport, GrowStale, RowsMove, reportVars
  <2>5. QED
    BY <2>1, <2>2, <2>3, <2>4 DEF ReportsNext, ReportStep, Progress
<1>4. DeliveredWhole'
  <2>1. \A r \in Reports : blame[r] \subseteq blame'[r]
    BY DEF ReportsNext, ReportStep, TakeReport, AdmitReport, CreateReport, GrowStale, RowsMove, SelectReport,
           StartExport, SkipExport, Claim, ListParts, WritePart, TableWritten, Combine, RemovePart,
           TableRemoved, RenderExport, Deliver, LoseMail, FinishReport, GiveUp, FailReport, KillReport,
           Blame, reportVars, ReportsWhole, ReportsHeld, ReportsFit, ReportsTypeOK
  <2>2. ASSUME NEW w \in Workers, Deliver(w), damaged' # damaged
        PROVE  damaged' = damaged \cup {report[w]} /\ ~Spared(report[w])
    <3>1. /\ report[w] \notin Exports /\ harmed[w] /\ doing[w] = "deliver"
          /\ damaged' = damaged \cup {report[w]}
      BY <2>2 DEF Deliver
    <3>2. report[w] \in Reports
      BY <3>1, HasReport DEF ReportsWhole, ReportsHeld, ReportsFit
    <3>3. Spared(report[w]) => ~harmed[w]
      BY <3>1, <3>2, WorkKnown DEF WorkIsWhole, At
    <3>4. QED
      BY <3>1, <3>3
  <2>3. damaged' = damaged \/ \E w \in Workers : Deliver(w)
    BY DEF ReportsNext, ReportStep, TakeReport, AdmitReport, CreateReport, GrowStale, RowsMove, SelectReport,
           StartExport, SkipExport, Claim, ListParts, WritePart, TableWritten, Combine, RemovePart,
           TableRemoved, RenderExport, LoseMail, FinishReport, GiveUp, FailReport, KillReport,
           outcomeVars, reportVars
  <2>4. damaged \subseteq Reports
    BY DEF ReportsWhole, ReportsHeld, ReportsFit, ReportsTypeOK
  <2>5. \A r \in damaged' : ~Spared(r) /\ r \in Reports
    BY <2>2, <2>3, <2>4
    DEF ReportsWhole, DeliveredWhole, Spared, ReportsHeld, ReportsFit, ReportsTypeOK, Deliver
  <2>6. QED
    BY <2>1, <2>5 DEF DeliveredWhole, Spared
<1>5. QED
  BY <1>1, <1>2, <1>3, <1>4 DEF ReportsWhole

LEMMA ReportsBeginWhole == ASSUME ReportsInit PROVE ReportsWhole
<1>1. ReportsFit
  BY ReportsBegin
<1>2. SoleHolders /\ SentIsSaved /\ DeliveredOnce /\ DeliveredWhole
  BY ChunksType DEF ReportsInit, SoleHolders, Sole, SentIsSaved, DeliveredOnce, DeliveredWhole
<1>3. ASSUME NEW r \in Reports PROVE ReportIsWhole(r)
  <2>1. \A t : PartsOf(r, t) = {} /\ First(t, 0) = {}
    BY DEF ReportsInit, PartsOf, First
  <2>2. Begun(r, 1) /\ Begun(r, 2)
    BY <2>1, ChunksType DEF Begun
  <2>3. \A w \in Workers : report[w] # r
    BY ChunksType DEF ReportsInit
  <2>4. QED
    BY <2>2, <2>3 DEF ReportIsWhole, Resumable
<1>4. \A w \in Workers : table[w] = 1
  BY DEF ReportsInit
<1>5. QED
  BY <1>1, <1>2, <1>3, <1>4 DEF ReportsWhole, ReportsHeld

LEMMA ReportsType == ReportsSpec => []ReportsTypeOK
<1>1. ReportsFit => ReportsTypeOK
  BY DEF ReportsFit
<1>2. QED
  BY <1>1, ReportsBegin, ReportsFitOn, PTL DEF ReportsSpec

(***************************************************************************)
(* A dashboard report is delivered with every row once unless an attempt   *)
(* ended while it removed the parts or was taken over alive, or rows came  *)
(* or went meanwhile; no report is delivered twice unless an attempt ended *)
(* right after the delivery or was taken over alive; and what is finished  *)
(* stays (process_pending_reports, generate_room_export).                  *)
(***************************************************************************)
THEOREM ReportsAreKept == ReportsSpec => ReportsHold
<1>1. ReportsWhole /\ [ReportsNext]_reportVars => ReportsWhole'
  BY WholeGoesOn
<1>2. ReportsWhole => DeliveredWhole /\ DeliveredOnce
  BY DEF ReportsWhole, ReportsHeld
<1>3. ReportsWhole /\ [ReportsNext]_reportVars =>
         [\A r \in Reports :
             /\ reportStatus[r] \in Finished
             /\ "outlived" \notin blame[r]
             => reportStatus'[r] = reportStatus[r]]_reportVars
  BY HoldersGoOn DEF ReportsWhole, FinishedIsLeft
<1>4. QED
  BY <1>1, <1>2, <1>3, ReportsBeginWhole, PTL DEF ReportsSpec, ReportsHold, FinishedStays

-----------------------------------------------------------------------------
(***************************************************************************)
(* MCBackground: in the run of all background tasks every component starts *)
(* as its own specification and takes its own steps or none.               *)
(***************************************************************************)
LEMMA BackgroundIsComponents ==
  BackgroundSpec => ReportsSpec /\ ArchiveSpec /\ BulkSpec /\ MetricSpec /\ FlowSpec
<1>1. BackgroundInit => ReportsInit /\ ArchiveInit /\ BulkInit /\ MetricInit /\ FlowInit
  BY DEF BackgroundInit
<1>2. ASSUME [BackgroundNext]_<<component, reportVars, archiveVars, bulkVars, metricVars, flowVars>>
      PROVE  /\ [ReportsNext]_reportVars /\ [ArchiveNext]_archiveVars /\ [BulkNext]_bulkVars
             /\ [MetricNext]_metricVars /\ [FlowNext]_flowVars
  BY <1>2 DEF BackgroundNext
<1>3. QED
  BY <1>1, <1>2, PTL DEF BackgroundSpec, ReportsSpec, ArchiveSpec, BulkSpec, MetricSpec, FlowSpec

(***************************************************************************)
(* Type correctness of all background tasks, for any workers, reports,     *)
(* rooms, versions and bounds on the faults.                               *)
(***************************************************************************)
THEOREM BackgroundTypeCorrect == BackgroundSpec => []BackgroundTypeOK
BY BackgroundIsComponents, ReportsType, ArchiveType, ProgressIsTrue, ToastsAreKept,
   SurveyFlowIsCurrent, PTL
DEF BackgroundTypeOK

(***************************************************************************)
(* An alert follows a climb of its metric, and the row of the survey's     *)
(* flow follows the flow, in the run of all background tasks               *)
(* (process_violations, CSATFlowService).                                  *)
(***************************************************************************)
THEOREM OutcomesAreKept == BackgroundSpec => []OutcomesHold
BY BackgroundIsComponents, ToastsAreKept, SurveyFlowIsCurrent, PTL DEF OutcomesHold

(***************************************************************************)
(* Reports are delivered whole and once and what is finished stays; a bulk *)
(* send is not finished too early and its progress does not go back; a     *)
(* room under way in the archive is not started again, in the run of all   *)
(* background tasks.                                                       *)
(***************************************************************************)
THEOREM TakeoversAreSafe == BackgroundSpec => TakeoversHold
BY BackgroundIsComponents, ReportsAreKept, ProgressIsTrue, SoftLock, PTL
DEF TakeoversHold, ProgressHolds
=============================================================================
