---------------------------- MODULE AgentRemoval ----------------------------
(***************************************************************************)
(* An agent is removed from a project, and perhaps restored.  The orders   *)
(* come from another service through a RabbitMQ queue                      *)
(* (chats/apps/projects/consumers/permission_consumer.py): the consumer    *)
(* soft-deletes the agent's permission, and a signal of that save sends    *)
(* the task that returns the agent's rooms to their queues and deletes the *)
(* agent's authorizations.  Meanwhile routing assigns rooms, and a status  *)
(* request saves the row it has read.  Each room is in a queue of its own. *)
(***************************************************************************)
EXTENDS Celery, Naturals, Sequences

CONSTANTS
    AgentRooms,         \* rooms of the project
    MaxOrders,          \* bound on the orders sent
    MaxRemovalFaults    \* bound on killed processes and failing statements

ASSUME RemovalAssumption ==
    /\ MaxOrders \in Nat /\ MaxRemovalFaults \in Nat
    /\ Nothing \notin AgentRooms

VARIABLES
    orders,          \* messages in the queue, "remove" or "restore"
    lastOrder,       \* the last one sent
    ordersSent,
    removed,         \* is_deleted of the agent's permission
    authorized,      \* has the agent authorizations on queues?
    consumer,        \* where the consumer is
    held,            \* open rooms whose user is the agent; the others wait
    closed,          \* rooms that are not is_active
    requeueTasks,    \* tasks requeue_agent_rooms_task in the broker
    requeue,         \* "idle", or "loop" while one runs
    remaining,            \* the rooms it has read and not yet saved
    affected,        \* affected_queues, by their rooms
    asked,           \* rooms whose queue has a routing request
    passRoom,        \* the room a routing pass is about to assign to the agent
    statusHandler,   \* "idle", or "read" once a status request has the row
    cutAt,           \* the places where handling an order was cut short
    abortedRequeue,  \* has a task been killed, or stopped by a closed room?
    late,            \* rooms assigned to a removed agent after the rooms were read
    resurrected,     \* has a status request saved the row over its deletion?
    manager,         \* "idle", or "checked" once a manager's request has the permission
    straying,        \* has such a request given a queue to an agent removed meanwhile?
    removalFaults

orderVars == <<orders, lastOrder, ordersSent>>
roomVars == <<held, closed>>
taskVars == <<requeueTasks, requeue, remaining, affected, abortedRequeue>>
passVars == <<passRoom, late>>
managerVars == <<manager, straying>>
handlerVars == <<statusHandler, resurrected, managerVars>>
removalVars == <<orderVars, removed, authorized, consumer, roomVars, taskVars, asked,
                 passVars, handlerVars, cutAt, removalFaults>>

ConsumerStages == {"idle", "received", "removed", "sent", "handled"}

RemovalTypeOK ==
    /\ orders \in Seq({"remove", "restore"})
    /\ lastOrder \in {"none", "remove", "restore"}
    /\ ordersSent \in 0..MaxOrders
    /\ Len(orders) <= ordersSent
    /\ removed \in BOOLEAN /\ authorized \in BOOLEAN
    /\ consumer \in ConsumerStages
    /\ consumer # "idle" => orders # <<>>
    /\ held \subseteq AgentRooms /\ closed \subseteq AgentRooms
    /\ held \cap closed = {}
    /\ requeueTasks \in Nat
    /\ requeue \in {"idle", "loop"}
    /\ remaining \subseteq AgentRooms /\ affected \subseteq AgentRooms
    /\ requeue = "idle" => remaining = {} /\ affected = {}
    /\ asked \subseteq AgentRooms
    /\ passRoom \in AgentRooms \cup {Nothing}
    /\ statusHandler \in {"idle", "read"} /\ manager \in {"idle", "checked"}
    /\ cutAt \subseteq ConsumerStages
    /\ {abortedRequeue, resurrected, straying} \subseteq BOOLEAN
    /\ late \subseteq AgentRooms
    /\ removalFaults \in 0..MaxRemovalFaults

RemovalInit ==
    /\ orders = <<>> /\ lastOrder = "none" /\ ordersSent = 0
    /\ removed = FALSE /\ authorized = TRUE
    /\ consumer = "idle"
    /\ held = {} /\ closed = {}
    /\ requeueTasks = 0 /\ requeue = "idle"
    /\ remaining = {} /\ affected = {}
    /\ asked = AgentRooms
    /\ passRoom = Nothing
    /\ statusHandler = "idle" /\ manager = "idle"
    /\ cutAt = {} /\ late = {}
    /\ abortedRequeue = FALSE /\ resurrected = FALSE /\ straying = FALSE
    /\ removalFaults = 0

-----------------------------------------------------------------------------
\* Another service publishes an order; it sends a removal and a restoration in turn.
SendOrder ==
    /\ ordersSent < MaxOrders
    /\ ordersSent' = ordersSent + 1
    /\ lastOrder' = IF lastOrder = "remove" THEN "restore" ELSE "remove"
    /\ orders' = Append(orders, lastOrder')
    /\ UNCHANGED <<removed, authorized, consumer, roomVars, taskVars, asked, passVars,
                   handlerVars, cutAt, removalFaults>>

\* The consumer works for an order: what stays as it is in all of its steps.
Handle(from, to) ==
    /\ consumer = from
    /\ consumer' = to
    /\ UNCHANGED <<lastOrder, ordersSent, roomVars, requeue, remaining, affected,
                   abortedRequeue, asked, passVars, handlerVars>>

NoFault == UNCHANGED <<cutAt, removalFaults>>

ReceiveOrder ==
    /\ orders # <<>>
    /\ Handle("idle", "received")
    /\ NoFault
    /\ UNCHANGED <<orders, removed, authorized, requeueTasks>>

\* delete_permission: the save and, before it, the signal that compares the rows.
RemoveAgent ==
    /\ Handle("received", "removed")
    /\ Head(orders) = "remove" /\ ~removed
    /\ removed' = TRUE
    /\ NoFault
    /\ UNCHANGED <<orders, authorized, requeueTasks>>

\* InvalidProjectPermission: the message is rejected, and its error published to
\* the dead-letter exchange; what arrives there is rejected as well.
RefuseRemoval ==
    /\ Handle("received", "idle")
    /\ Head(orders) = "remove" /\ removed
    /\ orders' = Tail(orders)
    /\ NoFault
    /\ UNCHANGED <<removed, authorized, requeueTasks>>

SendRequeue ==
    /\ Handle("removed", "sent")
    /\ requeueTasks' = requeueTasks + 1
    /\ NoFault
    /\ UNCHANGED <<orders, removed, authorized>>

\* Mutant: the authorizations are soft-deleted with the rows the manager hides.
KeepAuthorizations ==
    /\ Handle("sent", "handled")
    /\ NoFault
    /\ UNCHANGED <<orders, removed, authorized, requeueTasks>>

Unauthorize ==
    /\ Handle("sent", "handled")
    /\ authorized' = FALSE
    /\ NoFault
    /\ UNCHANGED <<orders, removed, requeueTasks>>

\* create_permission, and edit_permission of a row that exists.
RestoreAgent ==
    /\ Handle("received", "handled")
    /\ Head(orders) = "restore"
    /\ removed' = FALSE
    /\ NoFault
    /\ UNCHANGED <<orders, authorized, requeueTasks>>

Acknowledge ==
    /\ Handle("handled", "idle")
    /\ orders' = Tail(orders)
    /\ NoFault
    /\ UNCHANGED <<removed, authorized, requeueTasks>>

RemovalFault ==
    /\ removalFaults < MaxRemovalFaults
    /\ removalFaults' = removalFaults + 1

\* A statement raises: the message is rejected and not handled again.
FailOrder ==
    /\ RemovalFault
    /\ consumer # "handled" /\ consumer # "idle"
    /\ Handle(consumer, "idle")
    /\ orders' = Tail(orders)
    /\ cutAt' = cutAt \cup {consumer}
    /\ UNCHANGED <<removed, authorized, requeueTasks>>

\* Mutant: the broker takes a message for acknowledged when it delivers it.
KillAndForget ==
    /\ RemovalFault
    /\ consumer # "idle"
    /\ Handle(consumer, "idle")
    /\ orders' = Tail(orders)
    /\ cutAt' = cutAt \cup ({consumer} \cap {"removed", "sent"})
    /\ UNCHANGED <<removed, authorized, requeueTasks>>

\* The consumer dies or loses its connection: the broker delivers again.
KillConsumer ==
    /\ RemovalFault
    /\ consumer # "idle"
    /\ Handle(consumer, "idle")
    /\ cutAt' = cutAt \cup ({consumer} \cap {"removed", "sent"})
    /\ UNCHANGED <<orders, removed, authorized, requeueTasks>>

-----------------------------------------------------------------------------
\* A manager gives the agent a queue: the serializer finds the permission, which must not
\* be deleted, and the authorization is inserted later.
CheckAuthorization ==
    /\ manager = "idle" /\ ~removed /\ ~authorized
    /\ manager' = "checked"
    /\ UNCHANGED <<orderVars, removed, authorized, consumer, roomVars, taskVars, asked,
                   passVars, statusHandler, resurrected, straying, cutAt, removalFaults>>

Authorize ==
    /\ manager = "checked"
    /\ manager' = "idle"
    /\ authorized' = TRUE
    /\ straying' = (straying \/ (removed /\ consumer \notin {"removed", "sent"}))
    /\ UNCHANGED <<orderVars, removed, consumer, roomVars, taskVars, asked, passVars,
                   statusHandler, resurrected, cutAt, removalFaults>>

\* The agent's status request reads the permission, and later saves all of it.
ReadStatus ==
    /\ statusHandler = "idle" /\ ~removed
    /\ statusHandler' = "read"
    /\ UNCHANGED <<orderVars, removed, authorized, consumer, roomVars, taskVars, asked,
                   passVars, resurrected, managerVars, cutAt, removalFaults>>

SaveStatus ==
    /\ statusHandler = "read"
    /\ statusHandler' = "idle"
    /\ removed' = FALSE
    /\ resurrected' = (resurrected \/ removed)
    /\ UNCHANGED <<orderVars, authorized, consumer, roomVars, taskVars, asked, passVars,
                   managerVars, cutAt, removalFaults>>

CloseAgentRoom(r) ==
    /\ r \notin closed
    /\ closed' = closed \cup {r}
    /\ held' = held \ {r}
    /\ UNCHANGED <<orderVars, removed, authorized, consumer, taskVars, asked, passVars,
                   handlerVars, cutAt, removalFaults>>

-----------------------------------------------------------------------------
\* Steps of requeue_agent_rooms_task leave these alone.
RequeueStep ==
    UNCHANGED <<orderVars, removed, authorized, consumer, closed, passVars, handlerVars, cutAt>>

\* Mutant: the task starts from the rooms it knows.
ReadNoRoom ==
    /\ requeue = "idle" /\ requeueTasks > 0
    /\ requeueTasks' = requeueTasks - 1
    /\ UNCHANGED <<held, requeue, remaining, affected, abortedRequeue, asked, removalFaults>>
    /\ RequeueStep

ReadRooms ==
    /\ requeue = "idle" /\ requeueTasks > 0
    /\ requeueTasks' = requeueTasks - 1
    /\ requeue' = "loop"
    /\ remaining' = held
    /\ UNCHANGED <<held, affected, abortedRequeue, asked, removalFaults>>
    /\ RequeueStep

RequeueRoom ==
    /\ \E r \in remaining :
          /\ r \notin closed
          /\ held' = held \ {r}
          /\ remaining' = remaining \ {r}
          /\ affected' = affected \cup {r}
    /\ UNCHANGED <<requeueTasks, requeue, abortedRequeue, asked, removalFaults>>
    /\ RequeueStep

\* Mutant: a task that ends leaves its rooms behind.
StopAndKeep ==
    /\ requeue' = "idle"
    /\ UNCHANGED <<remaining, affected>>

StopRequeue ==
    /\ requeue' = "idle"
    /\ remaining' = {} /\ affected' = {}

\* Room.save refuses a room closed meanwhile, and the task ends there.
RefuseRequeue ==
    /\ remaining \cap closed # {}
    /\ StopRequeue
    /\ abortedRequeue' = TRUE
    /\ UNCHANGED <<held, requeueTasks, asked, removalFaults>>
    /\ RequeueStep

AskForRouting ==
    /\ requeue = "loop" /\ remaining = {}
    /\ \E r \in affected :
          /\ affected' = affected \ {r}
          /\ asked' = asked \cup {r}
    /\ UNCHANGED <<held, requeueTasks, requeue, remaining, abortedRequeue, removalFaults>>
    /\ RequeueStep

EndRequeue ==
    /\ requeue = "loop" /\ remaining = {} /\ affected = {}
    /\ StopRequeue
    /\ UNCHANGED <<held, requeueTasks, abortedRequeue, asked, removalFaults>>
    /\ RequeueStep

KillRequeue ==
    /\ RemovalFault
    /\ requeue = "loop"
    /\ StopRequeue
    /\ abortedRequeue' = TRUE
    /\ UNCHANGED <<held, requeueTasks, asked>>
    /\ RequeueStep

-----------------------------------------------------------------------------
\* Steps of a routing pass leave these alone.
PassStep ==
    UNCHANGED <<orderVars, removed, authorized, consumer, closed, taskVars, handlerVars,
                cutAt, removalFaults>>

\* A pass finds the room waiting, and an agent who is still online; the agents
\* of a queue are authorized on it by a permission that is not deleted.
ChooseFor(r) ==
    /\ passRoom = Nothing
    /\ r \in asked
    /\ asked' = asked \ {r}
    /\ r \notin held \cup closed
    /\ authorized /\ ~removed
    /\ passRoom' = r
    /\ UNCHANGED <<held, late>>
    /\ PassStep

\* The room is no longer waiting, nobody is available, or a colleague gets it:
\* a colleague's room is like a waiting one here.
LeaveWaiting(r) ==
    /\ passRoom = Nothing
    /\ r \in asked
    /\ asked' = asked \ {r}
    /\ UNCHANGED <<held, passVars>>
    /\ PassStep

AssignRoom ==
    /\ passRoom # Nothing
    /\ passRoom \notin closed
    /\ held' = held \cup {passRoom}
    /\ late' = IF removed /\ requeueTasks = 0 /\ consumer # "removed"
               THEN late \cup {passRoom} ELSE late
    /\ passRoom' = Nothing
    /\ UNCHANGED asked
    /\ PassStep

RefuseAssignment ==
    /\ passRoom # Nothing
    /\ passRoom \in closed
    /\ passRoom' = Nothing
    /\ UNCHANGED <<asked, held, late>>
    /\ PassStep

-----------------------------------------------------------------------------
HandleOrder ==
    \/ ReceiveOrder \/ RemoveAgent \/ RefuseRemoval \/ SendRequeue
    \/ Unauthorize \/ RestoreAgent \/ Acknowledge

RunRequeue ==
    \/ ReadRooms \/ RequeueRoom \/ RefuseRequeue \/ AskForRouting \/ EndRequeue

RemovalNext ==
    \/ SendOrder \/ HandleOrder \/ FailOrder \/ KillConsumer
    \/ CheckAuthorization \/ Authorize \/ ReadStatus \/ SaveStatus
    \/ RunRequeue \/ KillRequeue
    \/ AssignRoom \/ RefuseAssignment
    \/ \E r \in AgentRooms :
          CloseAgentRoom(r) \/ ChooseFor(r) \/ LeaveWaiting(r)

RemovalSpec == RemovalInit /\ [][RemovalNext]_removalVars

(***************************************************************************)
(* The consumer reads its queue, and the workers run the tasks.            *)
(***************************************************************************)
RemovalFairness == WF_removalVars(HandleOrder) /\ WF_removalVars(RunRequeue)

-----------------------------------------------------------------------------
RoutingIsDue(r) == r \in affected
RoutingIsAsked(r) == r \in asked \/ abortedRequeue

\* Nothing of an order is under way.
Settled ==
    /\ orders = <<>> /\ statusHandler = "idle"
    /\ requeueTasks = 0 /\ requeue = "idle"
    /\ passRoom = Nothing

(***************************************************************************)
(* A removed agent is left with no open room, across redelivered orders    *)
(* and routing in between: handle_permission_soft_delete.  Excepted are    *)
(* the order cut short between the soft delete and its task, a task that   *)
(* ends early, and a room whose pass chose the agent before the removal    *)
(* and saved it after the task had read the rooms.                         *)
(***************************************************************************)
RemovedHoldsNothing ==
    Settled /\ removed /\ "removed" \notin cutAt /\ ~abortedRequeue
    => held \subseteq late

(***************************************************************************)
(* A removed agent has no authorization, so that one who is restored       *)
(* starts without any, unless handling the order was cut short or a        *)
(* manager's request had found the permission before it was deleted.       *)
(***************************************************************************)
RemovedIsUnauthorized ==
    removed /\ consumer = "idle" /\ cutAt \cap {"removed", "sent"} = {} /\ ~straying
    => ~authorized

(***************************************************************************)
(* The last order wins, however often the consumer is killed: messages     *)
(* are acknowledged after they are handled.  Excepted are an order that    *)
(* failed, and a status request that saved the row it had read before.     *)
(***************************************************************************)
LastOrderWins ==
    Settled /\ "received" \notin cutAt /\ ~resurrected
    => (removed <=> lastOrder = "remove")

(***************************************************************************)
(* Routing is requested for the queue of every room that was returned to   *)
(* it, unless the task ends early.                                         *)
(***************************************************************************)
RequeuedIsRouted == \A r \in AgentRooms : RoutingIsDue(r) ~> RoutingIsAsked(r)

(***************************************************************************)
(* What an order to remove or restore an agent promises, across            *)
(* redeliveries, routing and status requests: the last order wins, and a   *)
(* removed agent is left with no room and no authorization                 *)
(* (handle_permission_soft_delete).                                        *)
(***************************************************************************)
RemovalHolds == RemovedHoldsNothing /\ RemovedIsUnauthorized /\ LastOrderWins
=============================================================================
