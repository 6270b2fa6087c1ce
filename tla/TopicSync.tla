----------------------------- MODULE TopicSync -----------------------------
(***************************************************************************)
(* The queues of a sector are kept twice: as rows here, and as topics of   *)
(* the sector's ticketer in the flows.  Creating and deleting one writes   *)
(* both, one after the other, over a call that may be refused or lost, and *)
(* undoes what it can (QueueViewset, SectorViewset,                        *)
(* BulkQueueCreationUseCase, IntegratedTicketers).  Meanwhile the flows    *)
(* open rooms in the queues.                                               *)
(***************************************************************************)
EXTENDS FiniteSets, Naturals

CONSTANTS
    TopicRequests,
    Topics,            \* queues of the sector
    FlowRooms,
    NoTopic,
    MaxTopicTasks,     \* bound on the requests
    MaxTopicFaults     \* bound on refused and lost calls

ASSUME TopicAssumption == NoTopic \notin Topics /\ {MaxTopicTasks, MaxTopicFaults} \subseteq Nat

VARIABLES
    principal,     \* does the sector belong to a secondary project?
    sectorLive,    \* the sector's row is not deleted
    sectorInFlows, \* its ticketer
    topicRow,      \* the row of each queue
    topics,        \* the queues the flows have
    integrated,    \* queues with queue_integrated in their config
    roomTopic,     \* the queue of each room, open or about to be inserted
    roomState,
    topicAt,       \* where each request is
    topicTask,     \* what it does
    toPost,        \* queues it has still to post to the flows
    posted,        \* queues it has posted
    topicTasks,    \* requests so far
    topicFaults,
    troubled,      \* history: queues with a call that was lost, or not undone
    twice,         \* history: queues posted that the flows had already
    raced,         \* history: queues several requests worked on at once
    slipped        \* history: rooms that got past a deletion

flowsState == <<sectorInFlows, topics>>
rowState == <<principal, sectorLive, topicRow, integrated>>
roomsState == <<roomTopic, roomState>>
taskState == <<topicAt, topicTask, toPost, posted>>
topicBounds == <<topicTasks, topicFaults>>
topicHistory == <<troubled, twice, raced, slipped>>
topicVars == <<flowsState, rowState, roomsState, taskState, topicBounds, topicHistory>>

QueueDeletions == {"delete", "deleteAndClose", "deleteAndTransfer"}
SectorDeletions == {"deleteSector", "deleteSectorAndClose", "deleteSectorAndTransfer"}
TopicTasks ==
    [kind : {"create"}, queues : {{q} : q \in Topics}]
    \cup [kind : {"bulk"}, queues : SUBSET Topics \ {{}}]
    \cup [kind : {"integrate"}, queues : {{}}]
    \cup [kind : QueueDeletions, queues : {{q} : q \in Topics}]
    \cup [kind : SectorDeletions, queues : {Topics}]
NoTask == [kind |-> "none", queues |-> {}]

TopicTypeOK ==
    /\ {principal, sectorLive, sectorInFlows} \subseteq BOOLEAN
    /\ topicRow \in [Topics -> {"none", "live", "deleted"}]
    /\ topics \subseteq Topics /\ integrated \subseteq Topics
    /\ roomTopic \in [FlowRooms -> Topics \cup {NoTopic}]
    /\ roomState \in [FlowRooms -> {"none", "seeking", "open", "closed"}]
    /\ topicAt \in [TopicRequests ->
          {"idle", "begun", "post", "mark", "undo", "compensate", "call", "delete"}]
    /\ topicTask \in [TopicRequests -> TopicTasks \cup {NoTask}]
    /\ {toPost, posted} \subseteq [TopicRequests -> SUBSET Topics]
    /\ topicTasks \in 0..MaxTopicTasks /\ topicFaults \in 0..MaxTopicFaults
    /\ troubled \subseteq Topics \cup {NoTopic}
    /\ twice \subseteq Topics /\ raced \subseteq Topics /\ slipped \subseteq FlowRooms

TopicInit ==
    /\ principal \in BOOLEAN
    /\ sectorLive = TRUE /\ sectorInFlows = TRUE
    /\ topicRow = [q \in Topics |-> "none"]
    /\ topics = {} /\ integrated = {}
    /\ roomTopic = [r \in FlowRooms |-> NoTopic]
    /\ roomState = [r \in FlowRooms |-> "none"]
    /\ topicAt = [t \in TopicRequests |-> "idle"]
    /\ topicTask = [t \in TopicRequests |-> NoTask]
    /\ toPost = [t \in TopicRequests |-> {}] /\ posted = [t \in TopicRequests |-> {}]
    /\ topicTasks = 0 /\ topicFaults = 0
    /\ troubled = {} /\ twice = {} /\ raced = {} /\ slipped = {}

-----------------------------------------------------------------------------
TopicGoes(t, from, to) == topicAt[t] = from /\ topicAt' = [topicAt EXCEPT ![t] = to]
TaskEnds(t) ==
    /\ topicAt' = [topicAt EXCEPT ![t] = "idle"]
    /\ topicTask' = [topicTask EXCEPT ![t] = NoTask]
    /\ toPost' = [toPost EXCEPT ![t] = {}]
    /\ posted' = [posted EXCEPT ![t] = {}]
TopicFault ==
    topicFaults < MaxTopicFaults /\ topicFaults' = topicFaults + 1 /\ UNCHANGED topicTasks
Kind(t) == topicTask[t].kind
Queues(t) == topicTask[t].queues
DeletesSector(t) == Kind(t) \in SectorDeletions
OpenIn(t) == {r \in FlowRooms : roomState[r] = "open" /\ roomTopic[r] \in Queues(t)}
LiveTopics == {q \in Topics : topicRow[q] = "live"}

\* Queues that two requests work on at once, not both to delete them.
Meets(task) ==
    LET Under(k, queues) == IF k = "integrate" \/ (principal /\ k \in {"create", "bulk"})
                            THEN Topics ELSE queues
        Posting(k) == k \in {"create", "bulk", "integrate"}
    IN  UNION {Under(task.kind, task.queues) \cap Under(Kind(o), Queues(o)) :
                  o \in {other \in TopicRequests :
                           topicAt[other] # "idle" /\ (Posting(task.kind) \/ Posting(Kind(other)))}}

\* A request is checked against the rows: names are unique, queues and the
\* sector are found.
BeginTopicTask(t, task) ==
    /\ TopicGoes(t, "idle", "begun")
    /\ sectorLive
    /\ task.kind \in {"create", "bulk"} =>
          \A q \in task.queues :
              topicRow[q] = "none" /\ \A o \in TopicRequests :
                  Kind(o) \in {"create", "bulk"} => q \notin Queues(o)
    /\ task.kind = "integrate" => principal
    /\ task.kind \in QueueDeletions =>
          task.queues \subseteq LiveTopics
    /\ topicTasks < MaxTopicTasks /\ topicTasks' = topicTasks + 1
    /\ topicTask' = [topicTask EXCEPT ![t] = task]
    /\ raced' = raced \cup Meets(task)
    /\ UNCHANGED <<flowsState, rowState, roomsState, toPost, posted, topicFaults,
                   troubled, twice, slipped>>

-----------------------------------------------------------------------------
\* QueueViewset.perform_create: the row is committed before the flows hear of
\* it.  In a sector of a secondary project all its queues are integrated.
SaveTopic(t) ==
    /\ TopicGoes(t, "begun", "post")
    /\ Kind(t) = "create"
    /\ topicRow' = [q \in Topics |-> IF q \in Queues(t) THEN "live" ELSE topicRow[q]]
    /\ toPost' = [toPost EXCEPT ![t] = IF principal THEN LiveTopics \cup Queues(t) ELSE Queues(t)]
    /\ UNCHANGED <<flowsState, principal, sectorLive, integrated, roomsState, topicTask, posted,
                   topicBounds, topicHistory>>

\* BulkQueueCreationUseCase: the rows are not committed yet.
SaveInBulk(t) ==
    /\ TopicGoes(t, "begun", "post")
    /\ Kind(t) = "bulk"
    /\ toPost' = [toPost EXCEPT ![t] = IF principal THEN LiveTopics \cup Queues(t) ELSE Queues(t)]
    /\ UNCHANGED <<flowsState, rowState, roomsState, topicTask, posted, topicBounds, topicHistory>>

\* integrate_topic of a whole project
ListTopics(t) ==
    /\ TopicGoes(t, "begun", "post")
    /\ Kind(t) = "integrate"
    /\ toPost' = [toPost EXCEPT ![t] = LiveTopics]
    /\ UNCHANGED <<flowsState, rowState, roomsState, topicTask, posted, topicBounds, topicHistory>>

\* _check_queue_exists
SkipIntegrated(t, q) ==
    /\ topicAt[t] = "post" /\ q \in toPost[t]
    /\ principal /\ q \in integrated
    /\ toPost' = [toPost EXCEPT ![t] = @ \ {q}]
    /\ UNCHANGED <<flowsState, rowState, roomsState, topicAt, topicTask, posted, topicBounds,
                   topicHistory>>

\* Mutant: queues are posted whether they are integrated or not.
PostAnyway(t, q) ==
    /\ TopicGoes(t, "post", "mark")
    /\ q \in toPost[t] /\ toPost[t] \cap posted[t] = {}
    /\ topics' = topics \cup {q}
    /\ twice' = IF q \in topics THEN twice \cup {q} ELSE twice
    /\ posted' = [posted EXCEPT ![t] = @ \cup {q}]
    /\ UNCHANGED <<sectorInFlows, rowState, roomsState, topicTask, toPost, topicBounds,
                   troubled, raced, slipped>>

\* The flows create the topic.
PostTopic(t, q) ==
    /\ TopicGoes(t, "post", "mark")
    /\ q \in toPost[t]
    /\ principal => q \notin integrated
    /\ topics' = topics \cup {q}
    /\ twice' = IF q \in topics THEN twice \cup {q} ELSE twice
    /\ posted' = [posted EXCEPT ![t] = @ \cup {q}]
    /\ UNCHANGED <<sectorInFlows, rowState, roomsState, topicTask, toPost, topicBounds,
                   troubled, raced, slipped>>

\* The answer: a queue that is integrated is marked, in bulk not before the
\* commit.
MarkPosted(t) ==
    /\ TopicGoes(t, "mark", "post")
    /\ integrated' = IF principal /\ Kind(t) # "bulk"
                     THEN integrated \cup (toPost[t] \cap posted[t]) ELSE integrated
    /\ toPost' = [toPost EXCEPT ![t] = @ \ posted[t]]
    /\ UNCHANGED <<flowsState, principal, sectorLive, topicRow, roomsState, topicTask, posted,
                   topicBounds, topicHistory>>

\* _mark_queue_integrated logs its errors.
FailMark(t) ==
    /\ TopicFault
    /\ TopicGoes(t, "mark", "post")
    /\ principal
    /\ toPost' = [toPost EXCEPT ![t] = @ \ posted[t]]
    /\ troubled' = troubled \cup (toPost[t] \cap posted[t])
    /\ UNCHANGED <<flowsState, rowState, roomsState, topicTask, posted, twice, raced, slipped>>

\* Mutant: what was posted in bulk is not taken back.
RefuseAndLeave(t, q) ==
    /\ TopicFault
    /\ topicAt[t] = "post" /\ q \in toPost[t] /\ q \notin integrated
    /\ TaskEnds(t)
    /\ UNCHANGED <<flowsState, rowState, roomsState, topicHistory>>

\* The flows refuse: a queue is deleted again, a bulk of them rolled back and
\* taken back; an integration just ends, and in bulk leaves what it posted.
RefuseTopic(t, q) ==
    /\ TopicFault
    /\ topicAt[t] = "post" /\ q \in toPost[t] /\ q \notin integrated
    /\ IF principal
       THEN TaskEnds(t) /\ troubled' = troubled \cup toPost[t] \cup posted[t]
       ELSE /\ topicAt' = [topicAt EXCEPT ![t] = IF Kind(t) = "bulk" THEN "compensate" ELSE "undo"]
            /\ UNCHANGED <<topicTask, toPost, posted, troubled>>
    /\ UNCHANGED <<flowsState, rowState, roomsState, twice, raced, slipped>>

UndoTopic(t) ==
    /\ topicAt[t] = "undo"
    /\ topicRow' = [q \in Topics |-> IF q \in Queues(t) THEN "deleted" ELSE topicRow[q]]
    /\ slipped' = slipped \cup OpenIn(t)
    /\ TaskEnds(t)
    /\ UNCHANGED <<flowsState, principal, sectorLive, integrated, roomsState, topicBounds,
                   troubled, twice, raced>>

\* _rollback_flows, for each queue that was posted
TakeBack(t, q) ==
    /\ TopicGoes(t, "compensate", "compensate")
    /\ q \in posted[t]
    /\ topics' = topics \ {q}
    /\ posted' = [posted EXCEPT ![t] = @ \ {q}]
    /\ UNCHANGED <<sectorInFlows, rowState, roomsState, topicTask, toPost, topicBounds,
                   topicHistory>>

FailTakeBack(t, q) ==
    /\ TopicFault
    /\ TopicGoes(t, "compensate", "compensate")
    /\ q \in posted[t]
    /\ posted' = [posted EXCEPT ![t] = @ \ {q}]
    /\ troubled' = troubled \cup {q}
    /\ UNCHANGED <<flowsState, rowState, roomsState, topicTask, toPost, twice, raced, slipped>>

RollBack(t) ==
    /\ topicAt[t] = "compensate" /\ posted[t] = {}
    /\ TaskEnds(t)
    /\ UNCHANGED <<flowsState, rowState, roomsState, topicBounds, topicHistory>>

\* Everything is posted; a bulk is committed, with its marks.
EndPosting(t) ==
    /\ topicAt[t] = "post" /\ toPost[t] = {}
    /\ IF Kind(t) = "bulk"
       THEN /\ topicRow' = [q \in Topics |-> IF q \in Queues(t) THEN "live" ELSE topicRow[q]]
            /\ integrated' = IF principal THEN integrated \cup posted[t] ELSE integrated
       ELSE UNCHANGED <<topicRow, integrated>>
    /\ TaskEnds(t)
    /\ UNCHANGED <<flowsState, principal, sectorLive, roomsState, topicBounds, topicHistory>>

-----------------------------------------------------------------------------
\* Without a word about the rooms they are left where they are.
LeaveRooms(t) ==
    /\ TopicGoes(t, "begun", "call")
    /\ Kind(t) \in {"delete", "deleteSector"}
    /\ slipped' = slipped \cup OpenIn(t)
    /\ UNCHANGED <<flowsState, rowState, roomsState, topicTask, toPost, posted, topicBounds,
                   troubled, twice, raced>>

\* _close_active_rooms: some may fail, but not all.
CloseRooms(t) ==
    /\ TopicGoes(t, "begun", "call")
    /\ Kind(t) \in {"deleteAndClose", "deleteSectorAndClose"}
    /\ \E done \in SUBSET OpenIn(t) :
          /\ done # {} \/ OpenIn(t) = {}
          /\ IF done = OpenIn(t) THEN UNCHANGED topicBounds ELSE TopicFault
          /\ roomState' = [r \in FlowRooms |-> IF r \in done THEN "closed" ELSE roomState[r]]
          /\ slipped' = slipped \cup (OpenIn(t) \ done)
    /\ UNCHANGED <<flowsState, rowState, roomTopic, topicTask, toPost, posted,
                   troubled, twice, raced>>

\* _transfer_active_rooms, to a queue of another sector.
TransferRooms(t) ==
    /\ TopicGoes(t, "begun", "call")
    /\ Kind(t) \in {"deleteAndTransfer", "deleteSectorAndTransfer"}
    /\ roomTopic' = [r \in FlowRooms |-> IF r \in OpenIn(t) THEN NoTopic ELSE roomTopic[r]]
    /\ UNCHANGED <<flowsState, rowState, roomState, topicTask, toPost, posted, topicBounds,
                   topicHistory>>

\* "Deletion aborted": no room could be closed, or not every one transferred.
AbortDeletion(t) ==
    /\ TopicFault
    /\ topicAt[t] = "begun" /\ OpenIn(t) # {}
    /\ \/ /\ Kind(t) \in {"deleteAndClose", "deleteSectorAndClose"}
          /\ UNCHANGED roomTopic
       \/ /\ Kind(t) \in {"deleteAndTransfer", "deleteSectorAndTransfer"}
          /\ \E done \in SUBSET OpenIn(t) :
                /\ done # OpenIn(t)
                /\ roomTopic' = [r \in FlowRooms |-> IF r \in done THEN NoTopic ELSE roomTopic[r]]
    /\ TaskEnds(t)
    /\ UNCHANGED <<flowsState, rowState, roomState, topicHistory>>

\* The flows delete the topic, or have none (404); a sector they must have.
DeleteInFlows(t) ==
    /\ TopicGoes(t, "call", "delete")
    /\ DeletesSector(t) => sectorInFlows
    /\ sectorInFlows' = (sectorInFlows /\ ~DeletesSector(t))
    /\ topics' = topics \ Queues(t)
    /\ UNCHANGED <<rowState, roomsState, topicTask, toPost, posted, topicBounds, topicHistory>>

RefuseDeletion(t) ==
    /\ topicAt[t] = "call"
    /\ \/ DeletesSector(t) /\ ~sectorInFlows /\ UNCHANGED topicBounds
       \/ TopicFault
    /\ TaskEnds(t)
    /\ UNCHANGED <<flowsState, rowState, roomsState, topicHistory>>

\* instance.delete(), for a sector with the queues it has at that moment.
DeleteRow(t) ==
    /\ topicAt[t] = "delete"
    /\ topicRow' = [q \in Topics |->
          IF q \in Queues(t) /\ topicRow[q] = "live" THEN "deleted" ELSE topicRow[q]]
    /\ sectorLive' = (sectorLive /\ ~DeletesSector(t))
    /\ TaskEnds(t)
    /\ UNCHANGED <<flowsState, principal, integrated, roomsState, topicBounds, topicHistory>>

\* The answer of a call is lost, or the process is killed.
KillTask(t) ==
    /\ TopicFault
    /\ topicAt[t] \notin {"idle", "begun"}
    /\ troubled' = troubled \cup Queues(t) \cup toPost[t] \cup posted[t]
                   \cup (IF DeletesSector(t) THEN {NoTopic} ELSE {})
    /\ TaskEnds(t)
    /\ UNCHANGED <<flowsState, rowState, roomsState, twice, raced, slipped>>

-----------------------------------------------------------------------------
\* RoomFlowSerializer: the queue is found, and later a room inserted.
SeekTopic(r, q) ==
    /\ roomState[r] = "none" /\ topicRow[q] = "live"
    /\ roomState' = [roomState EXCEPT ![r] = "seeking"]
    /\ roomTopic' = [roomTopic EXCEPT ![r] = q]
    /\ UNCHANGED <<flowsState, rowState, taskState, topicBounds, topicHistory>>

InsertFlowRoom(r) ==
    /\ roomState[r] = "seeking"
    /\ roomState' = [roomState EXCEPT ![r] = "open"]
    /\ slipped' = IF \/ topicRow[roomTopic[r]] # "live"
                     \/ \E t \in TopicRequests :
                           roomTopic[r] \in Queues(t) /\ topicAt[t] \in {"call", "delete"}
                  THEN slipped \cup {r} ELSE slipped
    /\ UNCHANGED <<flowsState, rowState, roomTopic, taskState, topicBounds,
                   troubled, twice, raced>>

TopicStep(t) ==
    \/ SaveTopic(t) \/ SaveInBulk(t) \/ ListTopics(t) \/ MarkPosted(t) \/ FailMark(t)
    \/ UndoTopic(t) \/ RollBack(t) \/ EndPosting(t)
    \/ LeaveRooms(t) \/ CloseRooms(t) \/ TransferRooms(t) \/ AbortDeletion(t)
    \/ DeleteInFlows(t) \/ RefuseDeletion(t) \/ DeleteRow(t) \/ KillTask(t)
    \/ \E q \in Topics :
          SkipIntegrated(t, q) \/ PostTopic(t, q) \/ RefuseTopic(t, q)
          \/ TakeBack(t, q) \/ FailTakeBack(t, q)

TopicNext ==
    \/ \E t \in TopicRequests :
          TopicStep(t) \/ \E task \in TopicTasks : BeginTopicTask(t, task)
    \/ \E r \in FlowRooms : InsertFlowRoom(r) \/ \E q \in Topics : SeekTopic(r, q)
TopicSpec == TopicInit /\ [][TopicNext]_topicVars

-----------------------------------------------------------------------------
\* No request works on the queue, and none was lost or crossed another.
Undisturbed(q) ==
    /\ q \notin troubled \cup raced
    /\ \A t \in TopicRequests :
          q \notin Queues(t) \cup toPost[t] \cup posted[t] /\ Kind(t) # "integrate"

(***************************************************************************)
(* A queue is here as long as the flows have its topic, and the sector as  *)
(* long as they have its ticketer, whatever they refused: it was deleted   *)
(* again, rolled back or taken back.  Only a lost call, a kill, a refusal  *)
(* in the middle of an integration, or requests that met, part the two.    *)
(***************************************************************************)
FlowsAgree ==
    /\ \A q \in Topics : Undisturbed(q) => (topicRow[q] = "live") = (q \in topics)
    /\ NoTopic \notin troubled /\ (\A t \in TopicRequests : ~DeletesSector(t)) =>
          sectorLive = sectorInFlows

(***************************************************************************)
(* A queue is posted to the flows once, however often its sector is        *)
(* integrated (_check_queue_exists).                                       *)
(***************************************************************************)
PostedOnce == twice \subseteq troubled \cup raced

(***************************************************************************)
(* A deletion that closes or transfers the rooms leaves none open in the   *)
(* queue, but for one that failed to close or came while it was under way, *)
(* or before a creation was undone (_close_active_rooms,                   *)
(* _transfer_active_rooms).                                                *)
(***************************************************************************)
NoRoomStranded ==
    \A r \in FlowRooms \ slipped :
        roomState[r] = "open" /\ roomTopic[r] # NoTopic => topicRow[roomTopic[r]] # "deleted"

(***************************************************************************)
(* Rows and topics are created and deleted together.                       *)
(***************************************************************************)
TopicsHold == FlowsAgree /\ PostedOnce /\ NoRoomStranded
=============================================================================
