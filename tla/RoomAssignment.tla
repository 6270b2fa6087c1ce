---------------------------- MODULE RoomAssignment ----------------------------
(***************************************************************************)
(* Who may hold a room: routing passes (QueueRouterService.route_rooms)    *)
(* and request handlers that pick, transfer, requeue, update and close     *)
(* rooms of one sector, interleaved between their database statements.     *)
(*                                                                         *)
(* A handler works on its own copy of a row and Room.save writes every     *)
(* column of that copy.  The database runs at READ COMMITTED, the requests *)
(* are not atomic, and no row is locked between the read and the save: the *)
(* only protection is the SELECT of is_active at the start of Room.save.   *)
(*                                                                         *)
(* A routing pass is named by the cooldown key it holds, so that there is  *)
(* at most one pass per key at a time (OnePass of RouteTask; a pass that   *)
(* has outlived its key counts as one more).  The keys of a queue and of   *)
(* its sector are different, and passes under both may meet.               *)
(***************************************************************************)
EXTENDS Naturals, FiniteSets

CONSTANTS
    Rooms,        \* the rooms of the sector; all of them exist already
    Agents,
    NoAgent,
    NoRoom,
    Queues,       \* the queues of the sector
    Keys,         \* cooldown keys in use
    Covers,       \* the queues a pass under each key routes
    Handlers,     \* request threads
    Limit,        \* rooms limit of each agent (custom or of the sector)
    Recheck,      \* is the capacity recheck feature flag on?
    General,      \* is the project's routing option "general"?
    MaxRequests   \* bound on the requests

ASSUME ConstantsAssumption ==
    /\ IsFiniteSet(Rooms) /\ IsFiniteSet(Keys) /\ Keys # {}
    /\ NoAgent \notin Agents /\ NoRoom \notin Rooms /\ Queues # {}
    /\ Keys \cap Handlers = {}
    /\ Covers \in [Keys -> SUBSET Queues]
    /\ Limit \in [Agents -> Nat]
    /\ Recheck \in BOOLEAN /\ General \in BOOLEAN
    /\ MaxRequests \in Nat

VARIABLES
    db,        \* the committed row of each room
    online,    \* agents whose status is ONLINE, and fresh
    ready,     \* those of them with an authorization and without a break
    pc,        \* where each process is
    room,      \* the room each process works on
    copy,      \* the Room instance in the memory of each process
    queues,    \* queues a pass has not opened yet
    snapshot,  \* rooms of the evaluated queryset a pass has not reached yet
    requests,  \* requests so far
    routed,    \* history: rooms that hold the agent a pass gave them
    exposed,   \* history: rooms some save was about to write when they were last written
    crossed    \* history: rooms another pass had in hand when a pass wrote them last

rowVars == <<db, routed, exposed, crossed>>
passVars == <<queues, snapshot>>
presence == <<online, ready>>
vars == <<db, online, ready, pc, room, copy, queues, snapshot, requests, routed, exposed,
          crossed>>

Procs == Keys \cup Handlers

Row == [active: BOOLEAN, user: Agents \cup {NoAgent}, queue: Queues]

Choosing == {"agent", "online", "capacity"}
Locations == {"idle", "queue", "room", "save", "write"} \cup Choosing

TypeOK ==
    /\ db \in [Rooms -> Row]
    /\ online \subseteq Agents /\ ready \subseteq online
    /\ pc \in [Procs -> Locations]
    /\ \A h \in Handlers : pc[h] \in {"idle", "save", "write"}
    /\ room \in [Procs -> Rooms \cup {NoRoom}]
    /\ copy \in [Procs -> Row]
    /\ \A p \in Procs : pc[p] \in Choosing \cup {"save", "write"} => room[p] \in Rooms
    /\ queues \in [Keys -> SUBSET Queues]
    /\ snapshot \in [Keys -> SUBSET Rooms]
    /\ requests \in 0..MaxRequests
    /\ routed \subseteq Rooms
    /\ exposed \subseteq Rooms
    /\ crossed \subseteq Rooms

-----------------------------------------------------------------------------
\* active_rooms_count: active rooms of the agent in the sector.
Held(a) == {r \in Rooms : db[r].active /\ db[r].user = a}
Load(a) == Cardinality(Held(a))

Unassigned(r) == db[r].user = NoAgent

\* QueueRouterService.get_rooms_to_route, without its order.
RoomsToRoute(q) == {r \in Rooms : db[r].queue = q /\ db[r].active /\ Unassigned(r)}

\* Mutant: off by one.
HasCapacityAtLimit(a) == Load(a) <= Limit[a]

HasCapacity(a) == Load(a) < Limit[a]

\* Queue.available_agents, of what online_agents returns.
AvailableAgents == {a \in ready : HasCapacity(a)}

\* active_and_day_closed_rooms adds what the agent closed today, which is every
\* closed room here.
Burden(a) == IF General THEN Cardinality({r \in Rooms : db[r].user = a}) ELSE Load(a)

\* Queue.get_available_agent; ties are broken by a statistic or at random.
LeastLoaded == {a \in AvailableAgents : \A b \in AvailableAgents : Burden(a) <= Burden(b)}

\* What an idle process remembers; nothing reads it.
Blank == [active |-> FALSE, user |-> NoAgent, queue |-> CHOOSE q \in Queues : TRUE]

Init ==
    /\ db \in [Rooms -> {row \in Row : row.active}]
    /\ online = Agents /\ ready = Agents
    /\ pc = [p \in Procs |-> "idle"]
    /\ room = [p \in Procs |-> NoRoom]
    /\ copy = [p \in Procs |-> Blank]
    /\ queues = [k \in Keys |-> {}]
    /\ snapshot = [k \in Keys |-> {}]
    /\ requests = 0
    /\ routed = {}
    /\ exposed = {}
    /\ crossed = {}

-----------------------------------------------------------------------------
(***************************************************************************)
(* Request handlers: each reads the room, checks, and changes its copy.    *)
(***************************************************************************)
Fetch(h, r, row) ==
    /\ pc[h] = "idle"
    /\ requests < MaxRequests
    /\ requests' = requests + 1
    /\ pc' = [pc EXCEPT ![h] = "save"]
    /\ room' = [room EXCEPT ![h] = r]
    /\ copy' = [copy EXCEPT ![h] = row]
    /\ UNCHANGED <<rowVars, passVars, presence>>

\* pick_queue_room, bulk take, and the external assignment of an agent.
Pick(h, r, a) == Unassigned(r) /\ Fetch(h, r, [db[r] EXCEPT !.user = a])

\* A transfer to a user, within the queue or along with a new one, replaces
\* whoever holds the room.
TransferToUser(h, r, a, q) == Fetch(h, r, [db[r] EXCEPT !.user = a, !.queue = q])

\* A transfer to a queue alone takes the room from its agent.
TransferToQueue(h, r, q) == Fetch(h, r, [db[r] EXCEPT !.queue = q, !.user = NoAgent])

\* requeue_agent_rooms, for the active rooms of an agent who lost access.
Requeue(h, r) ==
    /\ db[r].active /\ ~Unassigned(r)
    /\ Fetch(h, r, [db[r] EXCEPT !.user = NoAgent])

\* update_custom_fields saves the whole row it read before calling Flows.
UpdateCustomFields(h, r) == db[r].active /\ Fetch(h, r, db[r])

Close(h, r) == Fetch(h, r, [db[r] EXCEPT !.active = FALSE])

Handle(h) ==
    \E r \in Rooms :
        \/ \E a \in Agents : Pick(h, r, a)
        \/ \E a \in Agents, q \in Queues : TransferToUser(h, r, a, q)
        \/ \E q \in Queues : TransferToQueue(h, r, q)
        \/ Requeue(h, r)
        \/ UpdateCustomFields(h, r)
        \/ Close(h, r)

-----------------------------------------------------------------------------
(***************************************************************************)
(* Room.save, for handlers and passes alike: the SELECT of is_active, then *)
(* the UPDATE of every column.  The UPDATEs of a transfer, which runs in a *)
(* transaction, become visible together.                                   *)
(***************************************************************************)
Continue(p) == IF p \in Keys THEN "room" ELSE "idle"

\* Mutant: the SELECT is gone, and with it the ValidationError.
SaveUnchecked(p) ==
    /\ pc[p] = "save"
    /\ pc' = [pc EXCEPT ![p] = "write"]
    /\ UNCHANGED <<rowVars, passVars, presence, room, copy, requests>>

CheckActive(p) ==
    /\ pc[p] = "save"
    /\ db[room[p]].active
    /\ pc' = [pc EXCEPT ![p] = "write"]
    /\ UNCHANGED <<rowVars, passVars, presence, room, copy, requests>>

\* ValidationError: the request fails, or the whole pass is abandoned.
RejectClosed(p) ==
    /\ pc[p] = "save"
    /\ ~db[room[p]].active
    /\ pc' = [pc EXCEPT ![p] = "idle"]
    /\ room' = [room EXCEPT ![p] = NoRoom]
    /\ copy' = [copy EXCEPT ![p] = Blank]
    /\ queues' = [k \in Keys |-> IF k = p THEN {} ELSE queues[k]]
    /\ snapshot' = [k \in Keys |-> IF k = p THEN {} ELSE snapshot[k]]
    /\ UNCHANGED <<rowVars, presence, requests>>

Holder(row) == IF row.active THEN row.user ELSE NoAgent

Writing(r) == {p \in Procs : pc[p] = "write" /\ room[p] = r}

\* Passes that have refreshed the room and may write it.
InHand(r) == {k \in Keys : pc[k] \in Choosing \cup {"save", "write"} /\ room[k] = r}

Write(p) ==
    LET r == room[p] IN
    /\ pc[p] = "write"
    /\ db' = [db EXCEPT ![r] = copy[p]]
    /\ routed' = IF p \in Keys THEN routed \cup {r}
                 ELSE IF Holder(copy[p]) = Holder(db[r]) THEN routed
                 ELSE routed \ {r}
    /\ exposed' = IF Writing(r) = {p} THEN exposed \ {r} ELSE exposed \cup {r}
    /\ crossed' = IF p \notin Keys THEN crossed
                  ELSE IF InHand(r) = {p} THEN crossed \ {r} ELSE crossed \cup {r}
    /\ pc' = [pc EXCEPT ![p] = Continue(p)]
    /\ room' = [room EXCEPT ![p] = NoRoom]
    /\ copy' = [copy EXCEPT ![p] = Blank]
    /\ UNCHANGED <<passVars, presence, requests>>

-----------------------------------------------------------------------------
(***************************************************************************)
(* QueueRouterService.route_rooms: under its own key for one queue, under  *)
(* the sector's key for every queue in turn.                               *)
(***************************************************************************)
BeginPass(k) ==
    /\ pc[k] = "idle"
    /\ pc' = [pc EXCEPT ![k] = "queue"]
    /\ queues' = [queues EXCEPT ![k] = Covers[k]]
    /\ UNCHANGED <<rowVars, presence, room, copy, snapshot, requests>>

\* Evaluates the queryset, unless no agent is available.
OpenQueue(k, q) ==
    /\ pc[k] = "queue"
    /\ q \in queues[k]
    /\ queues' = [queues EXCEPT ![k] = @ \ {q}]
    /\ snapshot' = [snapshot EXCEPT ![k] = IF AvailableAgents = {} THEN {} ELSE RoomsToRoute(q)]
    /\ pc' = [pc EXCEPT ![k] = "room"]
    /\ UNCHANGED <<rowVars, presence, room, copy, requests>>

\* room.refresh_from_db() and the test of room.user; is_active is not tested.
SkipAssigned(k, r) ==
    /\ pc[k] = "room"
    /\ r \in snapshot[k]
    /\ ~Unassigned(r)
    /\ snapshot' = [snapshot EXCEPT ![k] = @ \ {r}]
    /\ UNCHANGED <<rowVars, presence, pc, room, copy, queues, requests>>

\* Mutant: the pass loses track of the room.
RefreshNothing(k, r) ==
    /\ pc[k] = "room"
    /\ r \in snapshot[k]
    /\ snapshot' = [snapshot EXCEPT ![k] = @ \ {r}]
    /\ pc' = [pc EXCEPT ![k] = "agent"]
    /\ UNCHANGED <<rowVars, presence, queues, room, copy, requests>>

\* Mutant: the pass goes on with the room at hand until no agent is left.
RefreshAgain(k, r) ==
    /\ pc[k] = "room"
    /\ r \in snapshot[k]
    /\ pc' = [pc EXCEPT ![k] = "agent"]
    /\ room' = [room EXCEPT ![k] = r]
    /\ copy' = [copy EXCEPT ![k] = db[r]]
    /\ UNCHANGED <<passVars, rowVars, presence, requests>>

Refresh(k, r) ==
    /\ pc[k] = "room"
    /\ r \in snapshot[k]
    /\ Unassigned(r)
    /\ snapshot' = [snapshot EXCEPT ![k] = @ \ {r}]
    /\ pc' = [pc EXCEPT ![k] = "agent"]
    /\ room' = [room EXCEPT ![k] = r]
    /\ copy' = [copy EXCEPT ![k] = db[r]]
    /\ UNCHANGED <<rowVars, presence, queues, requests>>

\* The chosen agent is kept in the copy from here on.
ChooseAgent(k, a) ==
    /\ pc[k] = "agent"
    /\ a \in LeastLoaded
    /\ copy' = [copy EXCEPT ![k].user = a]
    /\ pc' = [pc EXCEPT ![k] = "online"]
    /\ UNCHANGED <<rowVars, passVars, presence, room, requests>>

\* The loop ends: with "break" before its last room, or after it.
EndQueue(k) ==
    /\ \/ pc[k] = "agent" /\ AvailableAgents = {}
       \/ pc[k] = "room" /\ snapshot[k] = {}
    /\ snapshot' = [snapshot EXCEPT ![k] = {}]
    /\ pc' = [pc EXCEPT ![k] = "queue"]
    /\ room' = [room EXCEPT ![k] = NoRoom]
    /\ copy' = [copy EXCEPT ![k] = Blank]
    /\ UNCHANGED <<rowVars, presence, queues, requests>>

\* Neither a break nor the authorization for the queue is looked at again.
StillOnline(k) ==
    /\ pc[k] = "online"
    /\ copy[k].user \in online
    /\ pc' = [pc EXCEPT ![k] = "capacity"]
    /\ UNCHANGED <<rowVars, passVars, presence, room, copy, requests>>

\* CanAgentReceiveRoomUseCase, behind its feature flag.
StillHasCapacity(k) ==
    /\ pc[k] = "capacity"
    /\ Recheck => HasCapacity(copy[k].user)
    /\ pc' = [pc EXCEPT ![k] = "save"]
    /\ UNCHANGED <<rowVars, passVars, presence, room, copy, requests>>

\* "continue": the room stays in its queue and the pass goes on.
LeaveRoom(k) ==
    /\ \/ pc[k] = "online" /\ copy[k].user \notin online
       \/ pc[k] = "capacity" /\ Recheck /\ ~HasCapacity(copy[k].user)
    /\ pc' = [pc EXCEPT ![k] = "room"]
    /\ room' = [room EXCEPT ![k] = NoRoom]
    /\ copy' = [copy EXCEPT ![k] = Blank]
    /\ UNCHANGED <<rowVars, passVars, presence, requests>>

EndPass(k) ==
    /\ pc[k] = "queue"
    /\ queues[k] = {}
    /\ pc' = [pc EXCEPT ![k] = "idle"]
    /\ UNCHANGED <<rowVars, passVars, presence, room, copy, requests>>

Route(k) ==
    \/ BeginPass(k)
    \/ \E q \in Queues : OpenQueue(k, q)
    \/ \E r \in Rooms : SkipAssigned(k, r) \/ Refresh(k, r)
    \/ \E a \in Agents : ChooseAgent(k, a)
    \/ EndQueue(k)
    \/ StillOnline(k)
    \/ StillHasCapacity(k)
    \/ LeaveRoom(k)
    \/ EndPass(k)

\* An agent connects, disconnects, or is gone for too long (AgentPresence).
ChangeStatus(a) ==
    /\ online' = IF a \in online THEN online \ {a} ELSE online \cup {a}
    /\ ready' = ready \ {a}
    /\ UNCHANGED <<rowVars, passVars, pc, room, copy, requests>>

\* An agent who is online takes or ends a break, gains or loses the queues
\* (AgentStatus, AgentRemoval).
ChangeReadiness(a) ==
    /\ a \in online
    /\ ready' = IF a \in ready THEN ready \ {a} ELSE ready \cup {a}
    /\ UNCHANGED <<rowVars, passVars, online, pc, room, copy, requests>>

Next ==
    \/ \E h \in Handlers : Handle(h)
    \/ \E p \in Procs : CheckActive(p) \/ RejectClosed(p) \/ Write(p)
    \/ \E k \in Keys : Route(k)
    \/ \E a \in Agents : ChangeStatus(a) \/ ChangeReadiness(a)

Spec == Init /\ [][Next]_vars

-----------------------------------------------------------------------------
\* Passes that have chosen an agent and have not written the room yet.
Committed(a) ==
    {k \in Keys : pc[k] \in {"online", "capacity", "save", "write"} /\ copy[k].user = a}

RoutedTo(a) == {r \in routed : db[r].active /\ db[r].user = a}

(***************************************************************************)
(* What passes give an agent, counting what they are about to give, never  *)
(* exceeds the agent's limit by more than the number of other passes, no   *)
(* matter what handlers pick, transfer, close and overwrite meanwhile, and *)
(* with or without the capacity recheck.  With a single key the limit is   *)
(* exact.                                                                  *)
(***************************************************************************)
OvershootBounded ==
    \A a \in Agents :
        Cardinality(RoutedTo(a)) + Cardinality(Committed(a)) < Limit[a] + Cardinality(Keys)

(***************************************************************************)
(* The SELECT in Room.save holds for every request that was not already    *)
(* past it: a room that was closed while nobody was between the SELECT and *)
(* the UPDATE is never reopened, by any sequence of stale copies.          *)
(***************************************************************************)
ClosedHolds ==
    [][\A r \in Rooms : ~db[r].active /\ r \notin exposed => ~db'[r].active]_vars

(***************************************************************************)
(* The refresh before each room protects the agent a pass has given it     *)
(* from every pass that refreshes the room afterwards, however old its     *)
(* queryset is and whatever requests save in between: an agent is replaced *)
(* by a pass only when that pass had the room in hand before the other     *)
(* wrote it.                                                               *)
(***************************************************************************)
Replaces(r) ==
    /\ r \in routed /\ Holder(db[r]) # NoAgent /\ r \in routed'
    /\ db'[r].user # db[r].user

RoutedOnce == [][\A r \in Rooms : Replaces(r) => r \in crossed]_vars

(***************************************************************************)
(* route_rooms, of the refresh: "This is to avoid routing the same room    *)
(* multiple times (race condition)".                                       *)
(***************************************************************************)
NeverRoutedAgain == [][\A r \in Rooms : ~Replaces(r)]_vars

(***************************************************************************)
(* "Closed rooms can't receive updates" (Room.save).                       *)
(***************************************************************************)
ClosedStaysClosed == [][\A r \in Rooms : ~db[r].active => db'[r] = db[r]]_vars
=============================================================================
