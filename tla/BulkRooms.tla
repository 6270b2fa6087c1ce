------------------------------ MODULE BulkRooms ------------------------------
(***************************************************************************)
(* Bulk requests over rooms (chats/apps/api/v1/rooms/services): take,      *)
(* transfer and close many rooms in batches.  The primary keys, or for a   *)
(* closure the rows themselves, are read once; a batch is read and its     *)
(* rooms saved one after the other while other requests write the same     *)
(* rooms.  A room that fails is counted and passed over, and the routing   *)
(* of the queues that changed is requested at the end of each batch.       *)
(***************************************************************************)
EXTENDS FiniteSets, Naturals

CONSTANTS
    BulkRequests,
    BulkRooms,
    Named,            \* the rooms each request names
    BulkAgents,
    Unassigned,       \* user_id of a room that waits
    BulkQueues,       \* each in a sector, and with a ticketer, of its own
    NoQueue,          \* a transfer that keeps the queue
    BatchSize,        \* BULK_TAKE_BATCH_SIZE and the like
    MaxBulkFaults     \* bound on the errors

ASSUME BulkAssumption ==
    /\ IsFiniteSet(BulkRooms)
    /\ Named \in [BulkRequests -> SUBSET BulkRooms]
    /\ Unassigned \notin BulkAgents /\ NoQueue \notin BulkQueues
    /\ BulkQueues # {} /\ BatchSize \in Nat \ {0} /\ MaxBulkFaults \in Nat

VARIABLES
    rows,            \* the committed row of each room
    ticketer,        \* the queue whose ticketer the flows have for the room's ticket
    bulkAt,          \* where each request is
    asks,            \* what it asks for: a kind, an agent and a queue
    ahead,           \* rooms it has not come to
    batch,           \* rooms of its batch it has not come to
    instance,        \* the rows it read
    working,         \* the room it works on, in a set
    affectedQueues,  \* queues to route at the end of its batch
    succeeded,       \* rooms it counts as done
    failed,          \* rooms it counts as failed
    bulkFaults,
    written,         \* history: rooms each request has written
    split,           \* history: rooms whose ticketer a failed transfer changed
    overlapped,      \* history: rooms written while another request held them
    owed,            \* history: queues that changed and were not routed since
    unrouted         \* history: queues whose change no request will route

progressVars == <<ahead, batch, instance, working, affectedQueues, succeeded, failed>>
historyVars == <<written, split, overlapped, owed, unrouted>>
bulkRoomVars ==
    <<rows, ticketer, bulkAt, asks, progressVars, bulkFaults, historyVars>>

RoomRows == [open : BOOLEAN, agent : BulkAgents \cup {Unassigned}, queue : BulkQueues]
BulkOrders ==
    [kind : {"take"}, agent : BulkAgents, queue : {NoQueue}]
    \cup [kind : {"close"}, agent : {Unassigned}, queue : {NoQueue}]
    \cup {o \in [kind : {"transfer"}, agent : BulkAgents \cup {Unassigned},
                 queue : BulkQueues \cup {NoQueue}] :
             o.agent # Unassigned \/ o.queue # NoQueue}
NoOrder == [kind |-> "none", agent |-> Unassigned, queue |-> NoQueue]

BulkRoomsTypeOK ==
    /\ rows \in [BulkRooms -> RoomRows]
    /\ ticketer \in [BulkRooms -> BulkQueues]
    /\ bulkAt \in [BulkRequests ->
          {"new", "listed", "rooms", "save", "write", "wrote", "counted", "ended"}]
    /\ asks \in [BulkRequests -> BulkOrders \cup {NoOrder}]
    /\ \A b \in BulkRequests : bulkAt[b] # "new" => asks[b] \in BulkOrders
    /\ {ahead, batch, working, succeeded, failed, written} \subseteq
          [BulkRequests -> SUBSET BulkRooms]
    /\ instance \in [BulkRequests -> [BulkRooms -> RoomRows]]
    /\ affectedQueues \in [BulkRequests -> SUBSET BulkQueues]
    /\ bulkFaults \in 0..MaxBulkFaults
    /\ split \subseteq BulkRooms /\ overlapped \subseteq BulkRooms
    /\ owed \subseteq BulkQueues /\ unrouted \subseteq BulkQueues

NoneYet == [b \in BulkRequests |-> {}]
\* What a request without instances remembers; nothing reads it.
BlankRows ==
    [r \in BulkRooms |->
        [open |-> FALSE, agent |-> Unassigned, queue |-> CHOOSE q \in BulkQueues : TRUE]]

BulkRoomsInit ==
    /\ rows \in [BulkRooms -> {row \in RoomRows : row.open}]
    /\ ticketer = [r \in BulkRooms |-> rows[r].queue]
    /\ bulkAt = [b \in BulkRequests |-> "new"]
    /\ asks = [b \in BulkRequests |-> NoOrder]
    /\ ahead = NoneYet /\ batch = NoneYet /\ working = NoneYet
    /\ instance = [b \in BulkRequests |-> BlankRows]
    /\ affectedQueues = NoneYet /\ succeeded = NoneYet /\ failed = NoneYet
    /\ bulkFaults = 0
    /\ written = NoneYet /\ split = {} /\ overlapped = {} /\ owed = {} /\ unrouted = {}

-----------------------------------------------------------------------------
BulkGoes(b, from, to) == bulkAt[b] = from /\ bulkAt' = [bulkAt EXCEPT ![b] = to]
HoldsRoom(b, r) == r \in batch[b] \cup working[b] \/ (asks[b].kind = "close" /\ r \in ahead[b])
BulkFault == bulkFaults < MaxBulkFaults /\ bulkFaults' = bulkFaults + 1
DestinationOf(b, held) ==
    CASE asks[b].kind = "take" -> [held EXCEPT !.agent = asks[b].agent]
      [] asks[b].kind = "close" -> [held EXCEPT !.open = FALSE]
      [] asks[b].kind = "transfer" ->
             [held EXCEPT !.agent = asks[b].agent,
                          !.queue = IF asks[b].queue = NoQueue THEN @ ELSE asks[b].queue]

\* The active rooms among those named, for a take those that wait; the others
\* are not counted (skipped_rooms is never set).
StartBulk(b, o) ==
    LET list == {r \in Named[b] : rows[r].open /\ (o.kind = "take" => rows[r].agent = Unassigned)}
    IN  /\ BulkGoes(b, "new", "listed")
        /\ list # {}
        /\ asks' = [asks EXCEPT ![b] = o]
        /\ ahead' = [ahead EXCEPT ![b] = list]
        /\ instance' = IF o.kind = "close" THEN [instance EXCEPT ![b] = rows] ELSE instance
        /\ UNCHANGED <<rows, ticketer, batch, working, affectedQueues, succeeded, failed,
                       bulkFaults, historyVars>>

\* _check_validations: the agent or the queue is of another project, and every
\* room has failed.
RefuseTransfer(b) ==
    /\ BulkGoes(b, "listed", "ended")
    /\ asks[b].kind = "transfer"
    /\ failed' = [failed EXCEPT ![b] = ahead[b]]
    /\ ahead' = [ahead EXCEPT ![b] = {}]
    /\ UNCHANGED <<rows, ticketer, asks, batch, instance, working, affectedQueues, succeeded,
                   bulkFaults, historyVars>>

BatchDone(b) ==
    \/ bulkAt[b] = "listed"
    \/ bulkAt[b] = "rooms" /\ batch[b] = {} /\ affectedQueues[b] = {}

\* A closure has read its rooms before, the others read the batch.
NextBatch(b) ==
    /\ BatchDone(b)
    /\ bulkAt' = [bulkAt EXCEPT ![b] = "rooms"]
    /\ \E rooms \in SUBSET ahead[b] :
          /\ rooms # {}
          /\ Cardinality(rooms) = BatchSize \/ (rooms = ahead[b] /\ Cardinality(rooms) < BatchSize)
          /\ ahead' = [ahead EXCEPT ![b] = @ \ rooms]
          /\ batch' = [batch EXCEPT ![b] = rooms]
    /\ instance' = IF asks[b].kind = "close" THEN instance ELSE [instance EXCEPT ![b] = rows]
    /\ UNCHANGED <<rows, ticketer, asks, working, affectedQueues, succeeded, failed, bulkFaults,
                   historyVars>>

EndBulk(b) ==
    /\ BatchDone(b) /\ ahead[b] = {}
    /\ bulkAt' = [bulkAt EXCEPT ![b] = "ended"]
    /\ instance' = [instance EXCEPT ![b] = BlankRows]
    /\ UNCHANGED <<rows, ticketer, asks, ahead, batch, working, affectedQueues, succeeded, failed,
                   bulkFaults, historyVars>>

\* The next room of the batch.
WorksOn(b, r) ==
    /\ r \in batch[b]
    /\ batch' = [batch EXCEPT ![b] = @ \ {r}]
    /\ UNCHANGED <<asks, ahead, instance, affectedQueues>>

PassesOver(b, r) ==
    /\ BulkGoes(b, "rooms", "rooms")
    /\ WorksOn(b, r)
    /\ failed' = [failed EXCEPT ![b] = @ \cup {r}]
    /\ UNCHANGED <<rows, ticketer, working, succeeded, historyVars>>

\* "already assigned": the instance says so.
SkipTaken(b, r) ==
    /\ asks[b].kind = "take"
    /\ instance[b][r].agent # Unassigned
    /\ PassesOver(b, r)
    /\ UNCHANGED bulkFaults

\* The flows have no ticketer for the sector, or refuse.
RefuseTicketer(b, r) ==
    /\ BulkFault
    /\ asks[b].kind = "transfer" /\ asks[b].queue # NoQueue
    /\ PassesOver(b, r)

GoesToSave(b, r) ==
    /\ BulkGoes(b, "rooms", "save")
    /\ WorksOn(b, r)
    /\ working' = [working EXCEPT ![b] = {r}]
    /\ UNCHANGED <<rows, succeeded, failed, bulkFaults, historyVars>>

\* change_ticketer_for_room, before the room is saved.
ChangeTicketer(b, r) ==
    /\ asks[b].kind = "transfer"
    /\ GoesToSave(b, r)
    /\ ticketer' = IF asks[b].queue = NoQueue THEN ticketer
                   ELSE [ticketer EXCEPT ![r] = asks[b].queue]

\* take and close change the instance and save it.
ChangeInstance(b, r) ==
    /\ asks[b].kind # "transfer"
    /\ asks[b].kind = "take" => instance[b][r].agent = Unassigned
    /\ GoesToSave(b, r)
    /\ UNCHANGED ticketer

-----------------------------------------------------------------------------
\* Room.save: the SELECT of is_active.
CheckOpen(b) ==
    /\ BulkGoes(b, "save", "write")
    /\ \A r \in working[b] : rows[r].open
    /\ UNCHANGED <<rows, ticketer, asks, progressVars, bulkFaults, historyVars>>

\* Ends the work on the room, which succeeded or failed.
Counts(b, count, other) ==
    /\ count' = [count EXCEPT ![b] = @ \cup working[b]]
    /\ working' = [working EXCEPT ![b] = {}]
    /\ UNCHANGED other

SplitTicket(b) ==
    split' = IF asks[b].queue # NoQueue THEN split \cup working[b] ELSE split

\* "Closed rooms can't receive updates": the transfer has told the flows.
RefuseClosed(b) ==
    /\ BulkGoes(b, "save", "rooms")
    /\ \A r \in working[b] : ~rows[r].open
    /\ Counts(b, failed, succeeded)
    /\ SplitTicket(b)
    /\ UNCHANGED <<rows, ticketer, asks, ahead, batch, instance, affectedQueues, bulkFaults,
                   written, overlapped, owed, unrouted>>

\* The queues a write gives routing a reason: that of an agent who has a place
\* again, and that of a room that begins to wait.
Changed(old, new) ==
    {q \in BulkQueues :
        \/ q = old.queue /\ old.agent # Unassigned /\ (~new.open \/ new.agent # old.agent)
        \/ q = new.queue /\ new.open /\ new.agent = Unassigned
           /\ (old.agent # Unassigned \/ old.queue # new.queue)}

\* The UPDATE of every column, with what depends on it.
WritesRoom(b) ==
    \E r \in working[b] :
        LET new == DestinationOf(b, instance[b][r])
        IN  /\ rows' = [rows EXCEPT ![r] = new]
            /\ written' = [written EXCEPT ![b] = @ \cup {r}]
            /\ overlapped' = IF \E other \in BulkRequests \ {b} : HoldsRoom(other, r)
                          THEN overlapped \cup {r} ELSE overlapped
            /\ owed' = owed \cup Changed(rows[r], new)
            /\ unrouted' = unrouted \cup
                   (Changed(rows[r], new) \ {instance[b][r].queue, new.queue})

\* Mutant: only the queue the room goes to is routed.
AffectedNew(b) ==
    \E r \in working[b] :
        affectedQueues' =
            [affectedQueues EXCEPT ![b] = @ \cup {DestinationOf(b, instance[b][r]).queue}]

AddsAffected(b) ==
    \E r \in working[b] :
        affectedQueues' = [affectedQueues EXCEPT ![b] =
                       @ \cup {instance[b][r].queue, DestinationOf(b, instance[b][r]).queue}]

\* The transaction of a transfer commits with everything else that it does.
CommitTransfer(b) ==
    /\ BulkGoes(b, "write", "rooms")
    /\ asks[b].kind = "transfer"
    /\ WritesRoom(b)
    /\ AddsAffected(b)
    /\ Counts(b, succeeded, failed)
    /\ UNCHANGED <<ticketer, asks, ahead, batch, instance, bulkFaults, split>>

\* Mutant: an error after the save leaves the room written.
FailUnprotected(b) ==
    /\ BulkFault
    /\ BulkGoes(b, "write", "rooms")
    /\ asks[b].kind = "transfer"
    /\ WritesRoom(b)
    /\ Counts(b, failed, succeeded)
    /\ SplitTicket(b)
    /\ UNCHANGED <<ticketer, asks, ahead, batch, instance, affectedQueues>>

\* A message, a notification or the ticket fails: the transfer is rolled back,
\* the ticketer in the flows is not.
FailTransfer(b) ==
    /\ BulkFault
    /\ BulkGoes(b, "write", "rooms")
    /\ asks[b].kind = "transfer"
    /\ Counts(b, failed, succeeded)
    /\ SplitTicket(b)
    /\ UNCHANGED <<rows, ticketer, asks, ahead, batch, instance, affectedQueues,
                   written, overlapped, owed, unrouted>>

WriteInstance(b) ==
    /\ BulkGoes(b, "write", "wrote")
    /\ asks[b].kind # "transfer"
    /\ WritesRoom(b)
    /\ UNCHANGED <<ticketer, asks, progressVars, bulkFaults, split>>

\* The room is taken or closed, and counted.
CountRoom(b) ==
    /\ BulkGoes(b, "wrote", IF asks[b].kind = "close" THEN "counted" ELSE "rooms")
    /\ AddsAffected(b)
    /\ Counts(b, succeeded, failed)
    /\ UNCHANGED <<rows, ticketer, asks, ahead, batch, instance, bulkFaults, historyVars>>

\* An error after the save counts the room as failed, and its queue is not
\* routed.
FailWritten(b) ==
    /\ BulkFault
    /\ BulkGoes(b, "wrote", "rooms")
    /\ \E r \in working[b] : unrouted' = unrouted \cup {instance[b][r].queue}
    /\ Counts(b, failed, succeeded)
    /\ UNCHANGED <<rows, ticketer, asks, ahead, batch, instance, affectedQueues,
                   written, split, overlapped, owed>>

\* _post_close changes nothing here.
PostClose(b) ==
    /\ BulkGoes(b, "counted", "rooms")
    /\ UNCHANGED <<rows, ticketer, asks, progressVars, bulkFaults, historyVars>>

\* refresh_from_db in _post_close is in no try: the whole request ends.
AbortClose(b) ==
    /\ BulkFault
    /\ BulkGoes(b, "counted", "ended")
    /\ unrouted' = unrouted \cup affectedQueues[b]
    /\ ahead' = [ahead EXCEPT ![b] = {}] /\ batch' = [batch EXCEPT ![b] = {}]
    /\ affectedQueues' = [affectedQueues EXCEPT ![b] = {}]
    /\ instance' = [instance EXCEPT ![b] = BlankRows]
    /\ UNCHANGED <<rows, ticketer, asks, working, succeeded, failed,
                   written, split, overlapped, owed>>

-----------------------------------------------------------------------------
\* start_queue_priority_routing once for each queue of the batch.
RouteQueue(b, q) ==
    /\ bulkAt[b] = "rooms" /\ batch[b] = {} /\ q \in affectedQueues[b]
    /\ affectedQueues' = [affectedQueues EXCEPT ![b] = @ \ {q}]
    /\ owed' = owed \ {q} /\ unrouted' = unrouted \ {q}
    /\ UNCHANGED <<rows, ticketer, bulkAt, asks, ahead, batch, instance, working, succeeded,
                   failed, bulkFaults, written, split, overlapped>>

\* The broker refuses the task; the error is logged.
FailRouting(b, q) ==
    /\ BulkFault
    /\ bulkAt[b] = "rooms" /\ batch[b] = {} /\ q \in affectedQueues[b]
    /\ affectedQueues' = [affectedQueues EXCEPT ![b] = @ \ {q}]
    /\ unrouted' = unrouted \cup {q}
    /\ UNCHANGED <<rows, ticketer, bulkAt, asks, ahead, batch, instance, working, succeeded,
                   failed, written, split, overlapped, owed>>

BulkRoomsStep(b) ==
    \/ RefuseTransfer(b) \/ NextBatch(b) \/ EndBulk(b) \/ CheckOpen(b) \/ RefuseClosed(b)
    \/ CommitTransfer(b) \/ FailTransfer(b) \/ WriteInstance(b) \/ CountRoom(b) \/ FailWritten(b)
    \/ PostClose(b) \/ AbortClose(b)
    \/ \E r \in BulkRooms :
          SkipTaken(b, r) \/ RefuseTicketer(b, r) \/ ChangeTicketer(b, r) \/ ChangeInstance(b, r)
    \/ \E q \in BulkQueues : RouteQueue(b, q) \/ FailRouting(b, q)
    \/ \E o \in BulkOrders : StartBulk(b, o)

BulkRoomsNext == \E b \in BulkRequests : BulkRoomsStep(b)
BulkRoomsSpec == BulkRoomsInit /\ [][BulkRoomsNext]_bulkRoomVars

-----------------------------------------------------------------------------
(***************************************************************************)
(* A queue that a bulk request gave a free agent or a waiting room is      *)
(* routed after the last such change, or some request still has it on its  *)
(* list (affected_queue_ids): but for an error between the save and the    *)
(* list, a routing that could not be started, and a room that another      *)
(* request moved to that queue after this one had read it.                 *)
(***************************************************************************)
ChangesAreRouted ==
    \A q \in owed \ unrouted :
        \E b \in BulkRequests :
            \/ q \in affectedQueues[b]
            \/ bulkAt[b] = "wrote" /\ \E r \in working[b] : instance[b][r].queue = q

(***************************************************************************)
(* The response is true: a room is counted once, as done only if it was    *)
(* written, and a transfer that is counted as failed has changed nothing   *)
(* (_process_batch, _transfer_room in transaction.atomic).                 *)
(***************************************************************************)
CountsAreTrue ==
    \A b \in BulkRequests :
        /\ succeeded[b] \cap failed[b] = {}
        /\ succeeded[b] \subseteq written[b]
        /\ asks[b].kind = "transfer" => failed[b] \cap written[b] = {}

(***************************************************************************)
(* The flows keep the ticketer of the sector a room is in, unless a        *)
(* transfer told them and then failed, or another request wrote the room   *)
(* that it held (change_ticketer_for_room is called before the save).      *)
(***************************************************************************)
TicketerFollows ==
    \A r \in BulkRooms \ (split \cup overlapped) :
        \/ ticketer[r] = rows[r].queue
        \/ \E b \in BulkRequests : r \in working[b] /\ bulkAt[b] \in {"save", "write"}

(***************************************************************************)
(* A bulk request is honest about its rooms, and nobody waits because of   *)
(* it: see the three parts.                                                *)
(***************************************************************************)
BulkRoomsHold == ChangesAreRouted /\ CountsAreTrue /\ TicketerFollows
=============================================================================
