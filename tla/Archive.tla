------------------------------- MODULE Archive -------------------------------
(***************************************************************************)
(* Archiving the messages of rooms closed for a year                       *)
(* (chats/apps/archive_chats): every night a task picks rooms and sends    *)
(* one task per room, which reads the messages page by page, uploads them  *)
(* as a file, deletes them from the database batch by batch and marks the  *)
(* row of RoomArchivedConversation.  A row is claimed under a short row    *)
(* lock; afterwards only its status and archive_process_started_at tell    *)
(* other workers to stay away.                                             *)
(***************************************************************************)
EXTENDS Celery, Integers

CONSTANTS
    ArchivedRooms,      \* rooms closed more than a year ago
    LastMessage,        \* the messages of each are 1..LastMessage, oldest first
    MaxArchiveFaults,   \* bound on exceptions, killed workers and lost tasks
    MaxRedeliveries     \* bound on the tasks the broker delivers again

ASSUME ArchiveAssumption ==
    /\ LastMessage \in Nat
    /\ MaxArchiveFaults \in Nat
    /\ MaxRedeliveries \in Nat
    /\ Nothing \notin ArchivedRooms

AllMessages == 1..LastMessage

VARIABLES
    archiveStatus,   \* status; "none" before the row exists
    messages,        \* the messages of each room in the database
    archived,        \* the messages in the file of the row
    hasFile,         \* does the row name a file?
    emptied,         \* messages_deleted_at is set
    startedLately,   \* archive_process_started_at is less than 12 hours ago
    pickedLately,    \* the job of the row started less than 24 hours ago
    archiveTasks,    \* tasks archive_room_messages of each room in the broker
    working,         \* where each worker is
    atRoom,          \* the room it archives
    pages,           \* the messages it has read
    doubled,         \* rooms two workers were archiving at once
    archiveFaults, redeliveries

rowOfRoom == <<archiveStatus, archived, hasFile, emptied, startedLately>>
workerVars == <<working, atRoom, pages>>
boundVars == <<archiveFaults, redeliveries>>
archiveVars == <<rowOfRoom, messages, pickedLately, archiveTasks, workerVars, doubled, boundVars>>

ArchiveStatuses == {"none", "PENDING", "PROCESSING_MESSAGES", "UPLOADING_MESSAGES_FILE",
    "MESSAGES_FILE_UPLOADED", "MESSAGES_DELETED_FROM_DB", "FINISHED", "FAILED"}
Stages == {"idle", "start", "read", "save", "mark", "refresh", "check", "delete", "finish"}

ArchiveTypeOK ==
    /\ archiveStatus \in [ArchivedRooms -> ArchiveStatuses]
    /\ messages \in [ArchivedRooms -> SUBSET AllMessages]
    /\ archived \in [ArchivedRooms -> SUBSET AllMessages]
    /\ hasFile \in [ArchivedRooms -> BOOLEAN]
    /\ emptied \in [ArchivedRooms -> BOOLEAN]
    /\ startedLately \in [ArchivedRooms -> BOOLEAN]
    /\ pickedLately \in [ArchivedRooms -> BOOLEAN]
    /\ archiveTasks \in [ArchivedRooms -> Nat]
    /\ working \in [Workers -> Stages]
    /\ atRoom \in [Workers -> ArchivedRooms \cup {Nothing}]
    /\ \A w \in Workers : working[w] = "idle" <=> atRoom[w] = Nothing
    /\ pages \in [Workers -> SUBSET AllMessages]
    /\ doubled \subseteq ArchivedRooms
    /\ archiveFaults \in 0..MaxArchiveFaults
    /\ redeliveries \in 0..MaxRedeliveries

ArchiveInit ==
    /\ archiveStatus = [r \in ArchivedRooms |-> "none"]
    /\ messages = [r \in ArchivedRooms |-> AllMessages]
    /\ archived = [r \in ArchivedRooms |-> {}]
    /\ hasFile = [r \in ArchivedRooms |-> FALSE]
    /\ emptied = [r \in ArchivedRooms |-> FALSE]
    /\ startedLately = [r \in ArchivedRooms |-> FALSE]
    /\ pickedLately = [r \in ArchivedRooms |-> FALSE]
    /\ archiveTasks = [r \in ArchivedRooms |-> 0]
    /\ working = [w \in Workers |-> "idle"]
    /\ atRoom = [w \in Workers |-> Nothing]
    /\ pages = [w \in Workers |-> {}]
    /\ doubled = {}
    /\ archiveFaults = 0
    /\ redeliveries = 0

-----------------------------------------------------------------------------
\* Mutant: rooms that have a row are not picked again.
PickNewRoom(r) ==
    /\ archiveStatus[r] = "none"
    /\ pickedLately' = [pickedLately EXCEPT ![r] = TRUE]
    /\ archiveStatus' = [archiveStatus EXCEPT ![r] = "PENDING"]
    /\ archiveTasks' = [archiveTasks EXCEPT ![r] = @ + 1]
    /\ UNCHANGED <<messages, archived, hasFile, emptied, startedLately, workerVars, doubled, boundVars>>

\* start_archive_rooms_messages, for one of the rooms it picks: a row that
\* exists is pointed at the new job, a missing one is created.
PickRoom(r) ==
    /\ archiveStatus[r] # "FINISHED"
    /\ ~pickedLately[r]
    /\ pickedLately' = [pickedLately EXCEPT ![r] = TRUE]
    /\ archiveStatus' = [archiveStatus EXCEPT ![r] = IF @ = "none" THEN "PENDING" ELSE @]
    /\ archiveTasks' = [archiveTasks EXCEPT ![r] = @ + 1]
    /\ UNCHANGED <<messages, archived, hasFile, emptied, startedLately, workerVars, doubled, boundVars>>

Fault ==
    /\ archiveFaults < MaxArchiveFaults
    /\ archiveFaults' = archiveFaults + 1
    /\ UNCHANGED redeliveries

\* The scheduler is killed before it sends the task, or the task expires.
LoseTask(r) ==
    /\ Fault
    /\ archiveTasks[r] > 0
    /\ archiveTasks' = [archiveTasks EXCEPT ![r] = @ - 1]
    /\ UNCHANGED <<rowOfRoom, messages, pickedLately, workerVars, doubled>>

\* Redis hands out again a task that stayed unacknowledged for too long.
Redeliver(r) ==
    /\ redeliveries < MaxRedeliveries
    /\ redeliveries' = redeliveries + 1
    /\ archiveTasks[r] > 0
    /\ archiveTasks' = [archiveTasks EXCEPT ![r] = @ + 1]
    /\ UNCHANGED <<rowOfRoom, messages, pickedLately, workerVars, doubled, archiveFaults>>

\* Mutant: a row being archived is not recognised.
NeverActive(r) == FALSE

\* _is_actively_processed
ActivelyProcessed(r) == archiveStatus[r] \notin {"FINISHED", "FAILED"} /\ startedLately[r]

ReceiveTask(w, r) ==
    /\ working[w] = "idle"
    /\ archiveTasks[r] > 0
    /\ archiveTasks' = [archiveTasks EXCEPT ![r] = @ - 1]

\* _claim_room_for_archive returns early, and with it the task.
LeaveRoom(w, r) ==
    /\ ReceiveTask(w, r)
    /\ archiveStatus[r] = "FINISHED" \/ ActivelyProcessed(r)
    /\ UNCHANGED <<rowOfRoom, messages, pickedLately, workerVars, doubled, boundVars>>

\* _needs_processing_and_upload, decided on the row as it was claimed.
NeedsUpload(r) ==
    /\ archiveStatus[r] \notin {"MESSAGES_FILE_UPLOADED", "MESSAGES_DELETED_FROM_DB"}
    /\ archiveStatus[r] = "FAILED" => ~hasFile[r]

ClaimRoom(w, r) ==
    /\ ReceiveTask(w, r)
    /\ archiveStatus[r] # "FINISHED" /\ ~ActivelyProcessed(r)
    /\ startedLately' = [startedLately EXCEPT ![r] = TRUE]
    /\ working' = Moved(working, w, IF NeedsUpload(r) THEN "start" ELSE "refresh")
    /\ atRoom' = [atRoom EXCEPT ![w] = r]
    /\ doubled' = IF \E v \in Workers : atRoom[v] = r THEN doubled \cup {r} ELSE doubled
    /\ UNCHANGED <<archiveStatus, archived, hasFile, emptied, messages, pickedLately, pages, boundVars>>

-----------------------------------------------------------------------------
Enter(w, stage) == working' = Moved(working, w, stage) /\ UNCHANGED <<atRoom, doubled>>

SetArchive(w, status) == archiveStatus' = [archiveStatus EXCEPT ![atRoom[w]] = status]

\* _needs_message_deletion, on the row just read again.
NeedsDeletion(r) ==
    /\ archiveStatus[r] # "MESSAGES_DELETED_FROM_DB"
    /\ archiveStatus[r] = "FAILED" => ~emptied[r]

ProcessMessages(w) ==
    /\ working[w] = "start"
    /\ SetArchive(w, "PROCESSING_MESSAGES")
    /\ startedLately' = [startedLately EXCEPT ![atRoom[w]] = TRUE]
    /\ Enter(w, "read")
    /\ UNCHANGED <<archived, hasFile, emptied, messages, pickedLately, archiveTasks, pages, boundVars>>

\* What lies behind the last message read, in the order of created_on.
Unread(w) == {m \in messages[atRoom[w]] : \A p \in pages[w] : m > p}

ReadPage(w) ==
    /\ working[w] = "read"
    /\ \E m \in Unread(w) :
          /\ \A n \in Unread(w) : m <= n
          /\ pages' = [pages EXCEPT ![w] = @ \cup {m}]
    /\ UNCHANGED <<rowOfRoom, messages, pickedLately, archiveTasks, working, atRoom, doubled, boundVars>>

\* Mutant: the upload starts after the first page.
ReadSome(w) ==
    /\ working[w] = "read"
    /\ SetArchive(w, "UPLOADING_MESSAGES_FILE")
    /\ Enter(w, "save")
    /\ UNCHANGED <<archived, hasFile, emptied, startedLately, messages, pickedLately, archiveTasks,
                   pages, boundVars>>

ReadAll(w) ==
    /\ working[w] = "read"
    /\ Unread(w) = {}
    /\ SetArchive(w, "UPLOADING_MESSAGES_FILE")
    /\ Enter(w, "save")
    /\ UNCHANGED <<archived, hasFile, emptied, startedLately, messages, pickedLately, archiveTasks,
                   pages, boundVars>>

\* file.save uploads under a name of its own and saves every field of the copy.
SaveFile(w) ==
    /\ working[w] = "save"
    /\ archived' = [archived EXCEPT ![atRoom[w]] = pages[w]]
    /\ hasFile' = [hasFile EXCEPT ![atRoom[w]] = TRUE]
    /\ emptied' = [emptied EXCEPT ![atRoom[w]] = FALSE]
    /\ SetArchive(w, "UPLOADING_MESSAGES_FILE")
    /\ pages' = [pages EXCEPT ![w] = {}]
    /\ Enter(w, "mark")
    /\ UNCHANGED <<startedLately, messages, pickedLately, archiveTasks, boundVars>>

MarkUploaded(w) ==
    /\ working[w] = "mark"
    /\ SetArchive(w, "MESSAGES_FILE_UPLOADED")
    /\ Enter(w, "refresh")
    /\ UNCHANGED <<archived, hasFile, emptied, startedLately, messages, pickedLately, archiveTasks,
                   pages, boundVars>>

Refresh(w) ==
    LET r == atRoom[w]
    IN  /\ working[w] = "refresh"
        /\ IF NeedsDeletion(r)
           THEN SetArchive(w, "MESSAGES_FILE_UPLOADED") /\ Enter(w, "check")
           ELSE Enter(w, "finish") /\ UNCHANGED archiveStatus
        /\ UNCHANGED <<archived, hasFile, emptied, startedLately, messages, pickedLately,
                       archiveTasks, pages, boundVars>>

\* delete_room_messages reads the row again, and wants the file uploaded.
CheckUploaded(w) ==
    /\ working[w] = "check"
    /\ archiveStatus[atRoom[w]] = "MESSAGES_FILE_UPLOADED"
    /\ Enter(w, "delete")
    /\ UNCHANGED <<rowOfRoom, messages, pickedLately, archiveTasks, pages, boundVars>>

\* A batch, in a transaction of its own.
DeleteBatch(w) ==
    /\ working[w] = "delete"
    /\ \E m \in messages[atRoom[w]] :
          messages' = [messages EXCEPT ![atRoom[w]] = @ \ {m}]
    /\ UNCHANGED <<rowOfRoom, pickedLately, archiveTasks, workerVars, doubled, boundVars>>

DeletedAll(w) ==
    /\ working[w] = "delete"
    /\ messages[atRoom[w]] = {}
    /\ SetArchive(w, "MESSAGES_DELETED_FROM_DB")
    /\ emptied' = [emptied EXCEPT ![atRoom[w]] = TRUE]
    /\ Enter(w, "finish")
    /\ UNCHANGED <<archived, hasFile, startedLately, messages, pickedLately, archiveTasks,
                   pages, boundVars>>

Rest(w) ==
    /\ working' = Moved(working, w, "idle")
    /\ atRoom' = [atRoom EXCEPT ![w] = Nothing]
    /\ pages' = [pages EXCEPT ![w] = {}]
    /\ UNCHANGED doubled

\* Mutant: the worker forgets to let go of the room.
FinishAndStay(w) ==
    /\ working[w] = "finish"
    /\ SetArchive(w, "FINISHED")
    /\ working' = Moved(working, w, "idle")
    /\ UNCHANGED <<archived, hasFile, emptied, startedLately, messages, pickedLately, archiveTasks,
                   atRoom, pages, doubled, boundVars>>

FinishRoom(w) ==
    /\ working[w] = "finish"
    /\ SetArchive(w, "FINISHED")
    /\ Rest(w)
    /\ UNCHANGED <<archived, hasFile, emptied, startedLately, messages, pickedLately, archiveTasks, boundVars>>

\* An exception anywhere in the pipeline is registered, and the row FAILED.
FailRoom(w) ==
    /\ Fault
    /\ working[w] # "idle"
    /\ SetArchive(w, "FAILED")
    /\ Rest(w)
    /\ UNCHANGED <<archived, hasFile, emptied, startedLately, messages, pickedLately, archiveTasks>>

\* Another worker has changed the row since this one set the status.
RefuseDeletion(w) ==
    /\ working[w] = "check"
    /\ archiveStatus[atRoom[w]] # "MESSAGES_FILE_UPLOADED"
    /\ SetArchive(w, "FAILED")
    /\ Rest(w)
    /\ UNCHANGED <<archived, hasFile, emptied, startedLately, messages, pickedLately, archiveTasks, boundVars>>

KillArchiver(w) ==
    /\ Fault
    /\ working[w] # "idle"
    /\ Rest(w)
    /\ UNCHANGED <<rowOfRoom, messages, pickedLately, archiveTasks>>

\* A worker is killed after half an hour, so nobody is at work twelve hours on.
HalfDayPasses(r) ==
    /\ startedLately[r]
    /\ \A w \in Workers : atRoom[w] # r
    /\ startedLately' = [startedLately EXCEPT ![r] = FALSE]
    /\ UNCHANGED <<archiveStatus, archived, hasFile, emptied, messages, pickedLately, archiveTasks,
                   workerVars, doubled, boundVars>>

\* Tasks expire in the morning: what they started is over within the day.
DayPasses(r) ==
    /\ pickedLately[r]
    /\ archiveTasks[r] = 0
    /\ ~startedLately[r]
    /\ pickedLately' = [pickedLately EXCEPT ![r] = FALSE]
    /\ UNCHANGED <<rowOfRoom, messages, archiveTasks, workerVars, doubled, boundVars>>

ArchiveStep(w) ==
    \/ ProcessMessages(w) \/ ReadPage(w) \/ ReadAll(w) \/ SaveFile(w)
    \/ MarkUploaded(w) \/ Refresh(w) \/ CheckUploaded(w) \/ RefuseDeletion(w)
    \/ DeleteBatch(w) \/ DeletedAll(w) \/ FinishRoom(w)

TakeRoom(w, r) == LeaveRoom(w, r) \/ ClaimRoom(w, r)

ArchiveNext ==
    \/ \E r \in ArchivedRooms :
          \/ PickRoom(r) \/ LoseTask(r) \/ Redeliver(r)
          \/ HalfDayPasses(r) \/ DayPasses(r)
    \/ \E w \in Workers :
          \/ \E r \in ArchivedRooms : TakeRoom(w, r)
          \/ ArchiveStep(w) \/ FailRoom(w) \/ KillArchiver(w)

ArchiveSpec == ArchiveInit /\ [][ArchiveNext]_archiveVars

(***************************************************************************)
(* The scheduler runs every night, the broker delivers, workers go on and  *)
(* time passes.                                                            *)
(***************************************************************************)
ArchiveFairness ==
    /\ \A r \in ArchivedRooms :
          /\ WF_archiveVars(archiveStatus[r] # "none" /\ PickRoom(r))
          /\ WF_archiveVars(\E w \in Workers : TakeRoom(w, r))
          /\ WF_archiveVars(HalfDayPasses(r))
          /\ WF_archiveVars(DayPasses(r))
    /\ \A w \in Workers : WF_archiveVars(ArchiveStep(w))

-----------------------------------------------------------------------------
\* Every message of the room is in the database or in the file of its row.
Complete(r) == AllMessages \subseteq messages[r] \cup archived[r]

(***************************************************************************)
(* Archiving loses no message, whatever fails or is killed and however     *)
(* often it is resumed: messages are deleted only once the file holds      *)
(* them, unless two workers have archived the room at once.                *)
(***************************************************************************)
ArchivedWhole == \A r \in ArchivedRooms \ doubled : Complete(r)

(***************************************************************************)
(* The claim keeps a task that was delivered twice away from a room that   *)
(* is being archived (_is_actively_processed), unless the row was FAILED   *)
(* when it was claimed.                                                    *)
(***************************************************************************)
SoftLockHolds ==
    [][\A w \in Workers, r \in ArchivedRooms :
          /\ atRoom'[w] = r /\ atRoom[w] # r
          /\ \E v \in Workers : atRoom[v] = r
          => archiveStatus[r] = "FAILED"]_archiveVars

(***************************************************************************)
(* A room that was picked is archived in the end, across killed workers,   *)
(* lost tasks and errors: the scheduler picks it again.                    *)
(***************************************************************************)
ArchiveEnds ==
    \A r \in ArchivedRooms : archiveStatus[r] = "PENDING" ~> archiveStatus[r] = "FINISHED"

(***************************************************************************)
(* What _claim_room_for_archive promises ("None when another worker holds  *)
(* or has recently claimed the row") would make archiving lossless for     *)
(* every room.                                                             *)
(***************************************************************************)
NothingLost == \A r \in ArchivedRooms : Complete(r)
=============================================================================
