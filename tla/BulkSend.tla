------------------------------ MODULE BulkSend ------------------------------
(***************************************************************************)
(* Sending one text to many rooms (chats/apps/msgs/tasks.py).  One task    *)
(* picks the rooms and sends a task per room; each of these leaves a row   *)
(* with its outcome and asks for a progress update.  Updates are limited   *)
(* to one per second by a key that nobody deletes: a task that finds the   *)
(* key drops its update, and leaves at most one deferred task behind it.   *)
(* A periodic task closes whatever is half an hour old.                    *)
(***************************************************************************)
EXTENDS Celery, FiniteSets, Naturals

CONSTANTS
    SendRooms,      \* active rooms of the project
    MaxBulkKills,   \* bound on the workers killed in a task
    MaxResends      \* bound on the tasks the broker delivers again

ASSUME BulkAssumption ==
    /\ IsFiniteSet(SendRooms)
    /\ MaxBulkKills \in Nat
    /\ MaxResends \in Nat
    /\ Nothing \notin SendRooms

VARIABLES
    bulkStatus,        \* status; "none" before the request
    roomsQty,          \* rooms_qty, 0 while it is not set
    targets,           \* rooms picked by process_bulk_message_send
    processTasks,      \* messages of process_bulk_message_send
    sendTasks,         \* rooms with a message of send_bulk_message_to_room
    covered,           \* rooms with an outcome
    rows,              \* rows of BulkMessageSendMessage
    progressTasks,     \* messages of update_bulk_message_send_progress that are due
    progressPending,   \* the pending key, and the deferred message it stands for
    cooldown,          \* the key of the cooldown
    place,             \* where each worker is
    room,              \* the room it sends to
    left,              \* the rooms for which it still has to send a task
    copyFinished,      \* is its copy of the bulk send FINISHED?
    counted,           \* the rows it has counted
    shown,             \* rows behind the last progress the user received
    slow,              \* has an update outlived the cooldown?
    old,               \* half an hour has passed since the request
    kills, resends

bulkRow == <<bulkStatus, roomsQty>>
queues == <<processTasks, sendTasks, progressTasks, progressPending>>
localVars == <<room, left, copyFinished, counted>>
bulkVars == <<bulkRow, targets, queues, covered, rows, cooldown, place, localVars,
              shown, slow, old, kills, resends>>

Spots == {"idle", "picked", "dispatch", "sent", "try", "read", "count", "notify"}
Updating == {"read", "count", "notify"}

BulkTypeOK ==
    /\ bulkStatus \in {"none", "PENDING", "PROCESSING", "FINISHED"}
    /\ roomsQty \in Nat
    /\ targets \subseteq SendRooms
    /\ processTasks \in 0..1
    /\ sendTasks \subseteq SendRooms
    /\ covered \subseteq SendRooms
    /\ rows \in Nat
    /\ progressTasks \in Nat
    /\ progressPending \in BOOLEAN
    /\ cooldown \in BOOLEAN
    /\ place \in [Workers -> Spots]
    /\ room \in [Workers -> SendRooms \cup {Nothing}]
    /\ left \in [Workers -> SUBSET SendRooms]
    /\ \A w \in Workers : left[w] # {} => place[w] \in {"picked", "dispatch"}
    /\ copyFinished \in [Workers -> BOOLEAN]
    /\ counted \in [Workers -> Nat]
    /\ shown \in Nat
    /\ slow \in BOOLEAN /\ old \in BOOLEAN
    /\ kills \in 0..MaxBulkKills
    /\ resends \in 0..MaxResends

BulkInit ==
    /\ bulkStatus = "none" /\ roomsQty = 0 /\ targets = {}
    /\ processTasks = 0 /\ sendTasks = {} /\ progressTasks = 0 /\ progressPending = FALSE
    /\ covered = {} /\ rows = 0
    /\ cooldown = FALSE
    /\ place = [w \in Workers |-> "idle"]
    /\ room = [w \in Workers |-> Nothing]
    /\ left = [w \in Workers |-> {}]
    /\ copyFinished = [w \in Workers |-> FALSE]
    /\ counted = [w \in Workers |-> 0]
    /\ shown = 0
    /\ slow = FALSE /\ old = FALSE
    /\ kills = 0 /\ resends = 0

\* StartBulkSendMessagesUseCase
StartBulkSend ==
    /\ bulkStatus = "none"
    /\ bulkStatus' = "PENDING"
    /\ processTasks' = 1
    /\ UNCHANGED <<roomsQty, targets, sendTasks, progressTasks, progressPending, covered, rows,
                   cooldown, place, localVars, shown, slow, old, kills, resends>>

\* GetBulkSendRoomsUseCase: the rooms that match the filters at this moment.
PickRooms(w) ==
    /\ place[w] = "idle"
    /\ processTasks = 1
    /\ processTasks' = 0
    /\ \E chosen \in SUBSET SendRooms :
          /\ targets' = chosen
          /\ left' = [left EXCEPT ![w] = chosen]
    /\ place' = Moved(place, w, "picked")
    /\ UNCHANGED <<bulkRow, sendTasks, progressTasks, progressPending, covered, rows, cooldown,
                   room, copyFinished, counted, shown, slow, old, kills, resends>>

MarkProcessing(w) ==
    /\ place[w] = "picked"
    /\ bulkStatus' = "PROCESSING"
    /\ roomsQty' = Cardinality(targets)
    /\ place' = Moved(place, w, "dispatch")
    /\ UNCHANGED <<targets, queues, covered, rows, cooldown, localVars, shown, slow, old, kills, resends>>

Dispatch(w) ==
    /\ place[w] = "dispatch"
    /\ \E r \in left[w] :
          /\ sendTasks' = sendTasks \cup {r}
          /\ left' = [left EXCEPT ![w] = @ \ {r}]
    /\ UNCHANGED <<bulkRow, targets, processTasks, progressTasks, progressPending, covered, rows,
                   cooldown, place, room, copyFinished, counted, shown, slow, old, kills, resends>>

Dispatched(w) ==
    /\ place[w] = "dispatch"
    /\ left[w] = {}
    /\ place' = Moved(place, w, "idle")
    /\ UNCHANGED <<bulkRow, targets, queues, covered, rows, cooldown, localVars, shown, slow, old, kills, resends>>

\* SendBulkMessageToRoomUseCase: the outcome, SUCCESS or FAILED, is committed.
SendToRoom(w, r) ==
    /\ place[w] = "idle"
    /\ r \in sendTasks
    /\ \/ sendTasks' = sendTasks \ {r} /\ UNCHANGED resends
       \/ resends < MaxResends /\ resends' = resends + 1 /\ UNCHANGED sendTasks
    /\ covered' = covered \cup {r}
    /\ rows' = rows + 1
    /\ room' = [room EXCEPT ![w] = r]
    /\ place' = Moved(place, w, "sent")
    /\ UNCHANGED <<bulkRow, targets, processTasks, progressTasks, progressPending, cooldown,
                   left, copyFinished, counted, shown, slow, old, kills>>

\* transaction.on_commit: the progress update is requested.
RequestProgress(w) ==
    /\ place[w] = "sent"
    /\ progressTasks' = progressTasks + 1
    /\ room' = [room EXCEPT ![w] = Nothing]
    /\ place' = Moved(place, w, "idle")
    /\ UNCHANGED <<bulkRow, targets, processTasks, sendTasks, progressPending, covered, rows,
                   cooldown, left, copyFinished, counted, shown, slow, old, kills, resends>>

TakeProgress(w) ==
    /\ place[w] = "idle"
    /\ progressTasks > 0
    /\ progressTasks' = progressTasks - 1
    /\ place' = Moved(place, w, "try")
    /\ UNCHANGED <<bulkRow, targets, processTasks, sendTasks, progressPending, covered, rows,
                   cooldown, localVars, shown, slow, old, kills, resends>>

\* Mutant: cache.set instead of cache.add.
CoolDownAnyway(w) ==
    /\ place[w] = "try"
    /\ cooldown' = TRUE
    /\ place' = Moved(place, w, "read")
    /\ UNCHANGED <<bulkRow, targets, queues, covered, rows, localVars, shown, slow, old, kills, resends>>

CoolDown(w) ==
    /\ place[w] = "try"
    /\ ~cooldown
    /\ cooldown' = TRUE
    /\ place' = Moved(place, w, "read")
    /\ UNCHANGED <<bulkRow, targets, queues, covered, rows, localVars, shown, slow, old, kills, resends>>

\* The pending key and the message it announces live for the same second.
DeferProgress(w) ==
    /\ place[w] = "try"
    /\ cooldown
    /\ progressPending' = TRUE
    /\ place' = Moved(place, w, "idle")
    /\ UNCHANGED <<bulkRow, targets, processTasks, sendTasks, progressTasks, covered, rows,
                   cooldown, localVars, shown, slow, old, kills, resends>>

DeferredIsDue ==
    /\ progressPending
    /\ progressPending' = FALSE
    /\ progressTasks' = progressTasks + 1
    /\ UNCHANGED <<bulkRow, targets, processTasks, sendTasks, covered, rows, cooldown, place,
                   localVars, shown, slow, old, kills, resends>>

\* A second is over, and an update that is still running is slow.
CooldownEnds ==
    /\ cooldown
    /\ cooldown' = FALSE
    /\ slow' = (slow \/ \E w \in Workers : place[w] \in Updating)
    /\ UNCHANGED <<bulkRow, targets, queues, covered, rows, place, localVars, shown, old, kills, resends>>

ReadBulk(w) ==
    /\ place[w] = "read"
    /\ copyFinished' = [copyFinished EXCEPT ![w] = bulkStatus = "FINISHED"]
    /\ place' = Moved(place, w, "count")
    /\ UNCHANGED <<bulkRow, targets, queues, covered, rows, cooldown, room, left, counted,
                   shown, slow, old, kills, resends>>

\* Mutant: the comparison is one short.
AlmostProcessed(n) == roomsQty > 0 /\ n + 1 >= roomsQty

AllProcessed(n) == roomsQty > 0 /\ n >= roomsQty

\* The rows are counted, and the row of the bulk send is closed at 100 %.
CountRows(w) ==
    /\ place[w] = "count"
    /\ counted' = [counted EXCEPT ![w] = rows]
    /\ bulkStatus' = IF AllProcessed(rows) /\ ~copyFinished[w] THEN "FINISHED" ELSE bulkStatus
    /\ place' = Moved(place, w, "notify")
    /\ UNCHANGED <<roomsQty, targets, queues, covered, rows, cooldown, room, left, copyFinished,
                   shown, slow, old, kills, resends>>

NotifyProgress(w) ==
    /\ place[w] = "notify"
    /\ shown' = counted[w]
    /\ counted' = [counted EXCEPT ![w] = 0]
    /\ copyFinished' = [copyFinished EXCEPT ![w] = FALSE]
    /\ place' = Moved(place, w, "idle")
    /\ UNCHANGED <<bulkRow, targets, queues, covered, rows, cooldown, room, left, slow, old, kills, resends>>

GrowOld ==
    /\ bulkStatus # "none"
    /\ ~old
    /\ old' = TRUE
    /\ UNCHANGED <<bulkRow, targets, queues, covered, rows, cooldown, place, localVars, shown,
                   slow, kills, resends>>

\* Mutant: only what was never processed is closed.
FinishForgotten ==
    /\ old
    /\ bulkStatus = "PENDING"
    /\ bulkStatus' = "FINISHED"
    /\ UNCHANGED <<roomsQty, targets, queues, covered, rows, cooldown, place, localVars, shown,
                   slow, old, kills, resends>>

\* finish_stale_bulk_message_sends
FinishStale ==
    /\ old
    /\ bulkStatus \in {"PENDING", "PROCESSING"}
    /\ bulkStatus' = "FINISHED"
    /\ UNCHANGED <<roomsQty, targets, queues, covered, rows, cooldown, place, localVars, shown,
                   slow, old, kills, resends>>

KillSender(w) ==
    /\ kills < MaxBulkKills
    /\ kills' = kills + 1
    /\ place[w] # "idle"
    /\ place' = Moved(place, w, "idle")
    /\ room' = [room EXCEPT ![w] = Nothing]
    /\ left' = [left EXCEPT ![w] = {}]
    /\ copyFinished' = [copyFinished EXCEPT ![w] = FALSE]
    /\ counted' = [counted EXCEPT ![w] = 0]
    /\ UNCHANGED <<bulkRow, targets, queues, covered, rows, cooldown, shown, slow, old, resends>>

BulkStep(w) ==
    \/ MarkProcessing(w) \/ Dispatch(w) \/ Dispatched(w) \/ RequestProgress(w)
    \/ CoolDown(w) \/ DeferProgress(w) \/ ReadBulk(w) \/ CountRows(w) \/ NotifyProgress(w)

BulkNext ==
    \/ StartBulkSend \/ DeferredIsDue \/ CooldownEnds \/ GrowOld \/ FinishStale
    \/ \E w \in Workers :
          \/ PickRooms(w) \/ TakeProgress(w) \/ BulkStep(w) \/ KillSender(w)
          \/ \E r \in SendRooms : SendToRoom(w, r)

BulkSpec == BulkInit /\ [][BulkNext]_bulkVars

\* The broker delivers, tasks go on, keys expire and the periodic task runs.
BulkFairness ==
    /\ WF_bulkVars(\E w \in Workers : PickRooms(w))
    /\ \A r \in SendRooms : WF_bulkVars(\E w \in Workers : SendToRoom(w, r))
    /\ WF_bulkVars(\E w \in Workers : TakeProgress(w))
    /\ \A w \in Workers : WF_bulkVars(BulkStep(w))
    /\ WF_bulkVars(DeferredIsDue)
    /\ WF_bulkVars(CooldownEnds)
    /\ WF_bulkVars(GrowOld)
    /\ WF_bulkVars(FinishStale)

-----------------------------------------------------------------------------
(***************************************************************************)
(* A bulk send that progress closed has an outcome for every room picked,  *)
(* unless a task was delivered twice: rows are counted, not rooms.         *)
(***************************************************************************)
FinishedIsComplete ==
    bulkStatus = "FINISHED" /\ ~old /\ resends = 0 => roomsQty > 0 /\ covered = targets

(***************************************************************************)
(* The progress a user sees does not go back, unless an update took longer *)
(* than the cooldown and was overtaken by the next one.                    *)
(***************************************************************************)
ProgressOnlyGrows == [][shown' >= shown \/ slow]_bulkVars

EveryRoomHasOutcome == roomsQty > 0 /\ rows >= roomsQty
FullIsShown == shown >= roomsQty \/ kills > 0 \/ slow

(***************************************************************************)
(* "So the latest progress (including 100%) is still delivered": once      *)
(* every room has an outcome the user is told so, although most updates    *)
(* are dropped, unless a worker was killed on the way or an update was     *)
(* overtaken.                                                              *)
(***************************************************************************)
FullProgressIsShown == EveryRoomHasOutcome ~> FullIsShown

(***************************************************************************)
(* A bulk send is FINISHED in the end even if progress tracking fails: no  *)
(* room matched, a worker was killed or a task was lost.                   *)
(***************************************************************************)
BulkEnds == bulkStatus = "PENDING" ~> bulkStatus = "FINISHED"

(***************************************************************************)
(* The progress of a bulk send is true: it is not finished too early and   *)
(* does not go back (UpdateBulkMessageSendProgressUseCase).                *)
(***************************************************************************)
ProgressHolds == []FinishedIsComplete /\ ProgressOnlyGrows
=============================================================================
