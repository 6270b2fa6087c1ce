------------------------------ MODULE RoomIntake ------------------------------
(***************************************************************************)
(* How rooms come into a project: RoomFlowViewSet.create runs a serializer *)
(* in one transaction that locks the contact, looks for an open room of    *)
(* the contact, decides who gets the room (ResolveRoomUserUseCase), checks *)
(* the queue limit under a lock on the queue, inserts, and commits.  The   *)
(* Celery message that asks for a routing pass is sent when the code says  *)
(* so, inside the transaction.                                             *)
(*                                                                         *)
(* A routing pass takes one step per room here; its own interleavings are  *)
(* in RoomAssignment and its lock is in RouteTask.  Which creation answers *)
(* a flow start is a free choice: the starts are in FlowStarts.  Working   *)
(* hours and ignore_close_rooms_on_flow_start are left out.  A room that   *)
(* was closed leaves the state, and its identity may be used again.        *)
(***************************************************************************)
EXTENDS Naturals, FiniteSets

CONSTANTS
    Contacts,
    Queues,           \* the queues of one project
    Rooms,            \* bounds the rooms that are open at once
    Agents,           \* agents, all online
    Threads,          \* request threads that create rooms
    NoRow,            \* stands for a room that is not there
    NoAgent,
    NoThread,
    RoomsLimit,       \* rooms limit of an agent
    QueueLimit,       \* limit of waiting rooms, for each queue
    PriorityRouting,  \* project.use_queue_priority_routing
    Recheck,          \* is the capacity recheck feature flag on?
    CalcMetrics       \* settings.ACTIVATE_CALC_METRICS

ASSUME ConstantsAssumption ==
    /\ IsFiniteSet(Rooms)
    /\ NoAgent \notin Agents /\ NoThread \notin Threads
    /\ NoRow \notin [contact: Contacts, queue: Queues, user: Agents \cup {NoAgent}]
    /\ RoomsLimit \in Nat
    /\ QueueLimit \in [Queues -> Nat]
    /\ {PriorityRouting, Recheck, CalcMetrics} \subseteq BOOLEAN

VARIABLES
    row,          \* the open rooms, as committed
    pc,           \* where each thread is in the transaction
    new,          \* the room each thread is about to insert
    contactLock,  \* who holds the row lock on each contact
    queueLock,    \* who holds the row lock on each queue
    wanted,       \* queues for which a routing pass was requested or runs
    admitted      \* history: rooms the limit let into a queue, and that never left it since

vars == <<row, pc, new, contactLock, queueLock, wanted, admitted>>

Row == [contact: Contacts, queue: Queues, user: Agents \cup {NoAgent}]

Locations == {"idle", "contact", "unique", "resolve", "agent", "recheck",
              "admit", "limit", "insert"}

TypeOK ==
    /\ row \in [Rooms -> Row \cup {NoRow}]
    /\ pc \in [Threads -> Locations]
    /\ new \in [Threads -> Row \cup {NoRow}]
    /\ \A t \in Threads : pc[t] # "idle" => new[t] \in Row
    /\ contactLock \in [Contacts -> Threads \cup {NoThread}]
    /\ queueLock \in [Queues -> Threads \cup {NoThread}]
    /\ wanted \subseteq Queues
    /\ admitted \subseteq Rooms

Open == {r \in Rooms : row[r] # NoRow}
Waiting(q) == {r \in Open : row[r].queue = q /\ row[r].user = NoAgent}
Load(a) == Cardinality({r \in Open : row[r].user = a})
Available == {a \in Agents : Load(a) < RoomsLimit}
LeastLoaded == {a \in Available : \A b \in Available : Load(a) <= Load(b)}

Init ==
    /\ row = [r \in Rooms |-> NoRow]
    /\ pc = [t \in Threads |-> "idle"]
    /\ new = [t \in Threads |-> NoRow]
    /\ contactLock = [c \in Contacts |-> NoThread]
    /\ queueLock = [q \in Queues |-> NoThread]
    /\ wanted = {}
    /\ admitted = {}

\* start_queue_priority_routing
AskForRouting(q) == wanted' = IF PriorityRouting THEN wanted \cup {q} ELSE wanted

Goto(t, location) == pc' = [pc EXCEPT ![t] = location]

-----------------------------------------------------------------------------
\* Mutant: nothing to insert.
BeginNothing(t, c, q) ==
    /\ pc[t] = "idle"
    /\ Goto(t, "contact")
    /\ UNCHANGED <<row, new, contactLock, queueLock, wanted, admitted>>

Begin(t, c, q) ==
    /\ pc[t] = "idle"
    /\ Goto(t, "contact")
    /\ new' = [new EXCEPT ![t] = [contact |-> c, queue |-> q, user |-> NoAgent]]
    /\ UNCHANGED <<row, contactLock, queueLock, wanted, admitted>>

\* Mutant: get_or_create, which locks nothing.
FindContact(t) ==
    /\ pc[t] = "contact"
    /\ Goto(t, "unique")
    /\ UNCHANGED <<row, new, contactLock, queueLock, wanted, admitted>>

\* Contact.objects.update_or_create selects the contact FOR UPDATE, and the
\* unique external_id makes the creators of a new contact wait likewise.
LockContact(t) ==
    LET c == new[t].contact IN
    /\ pc[t] = "contact"
    /\ contactLock[c] = NoThread
    /\ contactLock' = [contactLock EXCEPT ![c] = t]
    /\ Goto(t, "unique")
    /\ UNCHANGED <<row, new, queueLock, wanted, admitted>>

HasOpenRoom(c) == \E r \in Open : row[r].contact = c

\* validate_unique_active_project
CheckUnique(t) ==
    /\ pc[t] = "unique"
    /\ ~HasOpenRoom(new[t].contact)
    /\ Goto(t, "resolve")
    /\ UNCHANGED <<row, new, contactLock, queueLock, wanted, admitted>>

\* The end of a transaction, by commit or rollback, releases its locks.
Release(t) ==
    /\ pc' = [pc EXCEPT ![t] = "idle"]
    /\ new' = [new EXCEPT ![t] = NoRow]
    /\ contactLock' = [c \in Contacts |-> IF contactLock[c] = t THEN NoThread ELSE contactLock[c]]
    /\ queueLock' = [q \in Queues |-> IF queueLock[q] = t THEN NoThread ELSE queueLock[q]]

RefuseSecond(t) ==
    /\ pc[t] = "unique"
    /\ HasOpenRoom(new[t].contact)
    /\ Release(t)
    /\ UNCHANGED <<row, wanted, admitted>>

\* The agent of a flow start, the contact's linked one or the requested one: limits do not matter.
ResolveDirect(t, a) ==
    /\ pc[t] = "resolve"
    /\ new' = [new EXCEPT ![t].user = a]
    /\ Goto(t, "insert")
    /\ UNCHANGED <<row, contactLock, queueLock, wanted, admitted>>

ResolveBehindOthers(t) ==
    /\ pc[t] = "resolve"
    /\ Waiting(new[t].queue) # {}
    /\ AskForRouting(new[t].queue)
    /\ Goto(t, "admit")
    /\ UNCHANGED <<row, new, contactLock, queueLock, admitted>>

ResolveFirst(t) ==
    /\ pc[t] = "resolve"
    /\ Waiting(new[t].queue) = {}
    /\ Goto(t, "agent")
    /\ UNCHANGED <<row, new, contactLock, queueLock, wanted, admitted>>

TakeAgent(t, a) ==
    /\ pc[t] = "agent"
    /\ a \in LeastLoaded
    /\ new' = [new EXCEPT ![t].user = a]
    /\ Goto(t, IF Recheck THEN "recheck" ELSE "insert")
    /\ UNCHANGED <<row, contactLock, queueLock, wanted, admitted>>

\* get_available_agent found nobody: nothing is requested.
NoAgentAvailable(t) ==
    /\ pc[t] = "agent"
    /\ Available = {}
    /\ Goto(t, "admit")
    /\ UNCHANGED <<row, new, contactLock, queueLock, wanted, admitted>>

RecheckPassed(t) ==
    /\ pc[t] = "recheck"
    /\ new[t].user \in Available
    /\ Goto(t, "insert")
    /\ UNCHANGED <<row, new, contactLock, queueLock, wanted, admitted>>

RecheckFailed(t) ==
    /\ pc[t] = "recheck"
    /\ new[t].user \notin Available
    /\ new' = [new EXCEPT ![t].user = NoAgent]
    /\ AskForRouting(new[t].queue)
    /\ Goto(t, "admit")
    /\ UNCHANGED <<row, contactLock, queueLock, admitted>>

\* Mutant: get instead of select_for_update.
ReadQueue(t) ==
    /\ pc[t] = "admit"
    /\ Goto(t, "limit")
    /\ UNCHANGED <<row, new, contactLock, queueLock, wanted, admitted>>

\* Queue.objects.select_for_update: held until the outer transaction ends.
LockQueue(t) ==
    LET q == new[t].queue IN
    /\ pc[t] = "admit"
    /\ queueLock[q] = NoThread
    /\ queueLock' = [queueLock EXCEPT ![q] = t]
    /\ Goto(t, "limit")
    /\ UNCHANGED <<row, new, contactLock, wanted, admitted>>

\* _validate_queue_limit
QueueIsFull(q) == Cardinality(Waiting(q)) >= QueueLimit[q]

Admit(t) ==
    /\ pc[t] = "limit"
    /\ ~QueueIsFull(new[t].queue)
    /\ Goto(t, "insert")
    /\ UNCHANGED <<row, new, contactLock, queueLock, wanted, admitted>>

\* Mutant: a refused request keeps the queue locked.
RefuseAndKeepLock(t) ==
    /\ pc[t] = "limit"
    /\ QueueIsFull(new[t].queue)
    /\ pc' = [pc EXCEPT ![t] = "idle"]
    /\ new' = [new EXCEPT ![t] = NoRow]
    /\ contactLock' = [contactLock EXCEPT ![new[t].contact] = NoThread]
    /\ UNCHANGED <<row, queueLock, wanted, admitted>>

RefuseFull(t) ==
    /\ pc[t] = "limit"
    /\ QueueIsFull(new[t].queue)
    /\ Release(t)
    /\ UNCHANGED <<row, wanted, admitted>>

\* The insert becomes visible with the commit.  The lock on the contact keeps
\* unique_contact_queue_is_activetrue_room from ever being violated.
Commit(t) ==
    /\ pc[t] = "insert"
    /\ \E r \in Rooms \ Open :
          /\ row' = [row EXCEPT ![r] = new[t]]
          /\ admitted' = IF new[t].user = NoAgent THEN admitted \cup {r} ELSE admitted
    /\ Release(t)
    /\ UNCHANGED wanted

\* last_flow_start, and no room of the contact since: neither the lock of the queue nor its limit.
CommitUnlimited(t) ==
    /\ pc[t] = "admit"
    /\ \E r \in Rooms \ Open : row' = [row EXCEPT ![r] = new[t]]
    /\ Release(t)
    /\ UNCHANGED <<wanted, admitted>>

-----------------------------------------------------------------------------
\* Closing asks for routing, unless the metrics are switched off.
Close(r) ==
    /\ r \in Open
    /\ row' = [row EXCEPT ![r] = NoRow]
    /\ admitted' = admitted \ {r}
    /\ IF CalcMetrics THEN AskForRouting(row[r].queue) ELSE UNCHANGED wanted
    /\ UNCHANGED <<pc, new, contactLock, queueLock>>

\* pick_queue_room
Pick(r, a) ==
    /\ r \in Open
    /\ row[r].user = NoAgent
    /\ row' = [row EXCEPT ![r].user = a]
    /\ admitted' = admitted \ {r}
    /\ UNCHANGED <<pc, new, contactLock, queueLock, wanted>>

\* requeue_agent_rooms
Requeue(r) ==
    /\ r \in Open
    /\ row[r].user # NoAgent
    /\ row' = [row EXCEPT ![r].user = NoAgent]
    /\ AskForRouting(row[r].queue)
    /\ UNCHANGED <<pc, new, contactLock, queueLock, admitted>>

RouteRoom(q, r, a) ==
    /\ q \in wanted
    /\ r \in Waiting(q)
    /\ a \in LeastLoaded
    /\ row' = [row EXCEPT ![r].user = a]
    /\ admitted' = admitted \ {r}
    /\ UNCHANGED <<pc, new, contactLock, queueLock, wanted>>

FinishRouting(q) ==
    /\ q \in wanted
    /\ Waiting(q) = {} \/ Available = {}
    /\ wanted' = wanted \ {q}
    /\ UNCHANGED <<row, pc, new, contactLock, queueLock, admitted>>

-----------------------------------------------------------------------------
Proceed(t) ==
    \/ CheckUnique(t) \/ RefuseSecond(t)
    \/ \E a \in Agents : ResolveDirect(t, a) \/ TakeAgent(t, a)
    \/ ResolveBehindOthers(t) \/ ResolveFirst(t)
    \/ NoAgentAvailable(t) \/ RecheckPassed(t) \/ RecheckFailed(t)
    \/ Admit(t) \/ RefuseFull(t) \/ Commit(t) \/ CommitUnlimited(t)

Next ==
    \/ \E t \in Threads :
          \/ \E c \in Contacts, q \in Queues : Begin(t, c, q)
          \/ LockContact(t) \/ LockQueue(t) \/ Proceed(t)
    \/ \E r \in Rooms :
          \/ Close(r) \/ Requeue(r)
          \/ \E a \in Agents : Pick(r, a)
    \/ \E q \in Queues :
          \/ \E r \in Rooms, a \in Agents : RouteRoom(q, r, a)
          \/ FinishRouting(q)

Spec == Init /\ [][Next]_vars

-----------------------------------------------------------------------------
(***************************************************************************)
(* A contact never has two open rooms in the project, although the check   *)
(* and the insert are apart and the unique constraint of the table speaks  *)
(* of one queue only: the row lock that update_or_create takes on the      *)
(* contact lasts until the commit.                                         *)
(***************************************************************************)
OneOpenRoomPerContact ==
    \A r, s \in Open : row[r].contact = row[s].contact => r = s

(***************************************************************************)
(* Creations that the limit applies to never fill a queue beyond it,       *)
(* whatever comes in beside them, because the queue stays locked from the  *)
(* count to the commit.  On top of them come the rooms that answer a flow  *)
(* start, which are inserted without a count, and those sent back to the   *)
(* queue.                                                                  *)
(***************************************************************************)
LimitRespected ==
    \A q \in Queues : Cardinality(admitted \cap Waiting(q)) <= QueueLimit[q]

\* t waits for a row that another transaction has locked.
Blocked(t) ==
    \/ pc[t] = "contact" /\ contactLock[new[t].contact] # NoThread
    \/ pc[t] = "admit" /\ queueLock[new[t].queue] # NoThread

(***************************************************************************)
(* Creations never wait for each other in a circle, nor for a lock nobody  *)
(* is going to release: each locks its contact first, then its queue, and  *)
(* the end of its transaction releases both.                               *)
(***************************************************************************)
NeverAllBlocked ==
    \/ \A t \in Threads : pc[t] = "idle"
    \/ \E t \in Threads : pc[t] # "idle" /\ ~Blocked(t)

\* No request is being served and no routing pass is to come.
Quiet == wanted = {} /\ \A t \in Threads : pc[t] = "idle"

(***************************************************************************)
(* ResolveRoomUserUseCase: a room stays in the queue "so that when an      *)
(* agent becomes available, the first room in the queue will be assigned   *)
(* to them".  When nothing is under way any more, no room waits beside an  *)
(* available agent.                                                        *)
(***************************************************************************)
NoRoomLeftBehind ==
    PriorityRouting /\ CalcMetrics /\ Quiet /\ Available # {}
    => \A q \in Queues : Waiting(q) = {}
=============================================================================
