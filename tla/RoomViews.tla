------------------------------ MODULE RoomViews ------------------------------
(***************************************************************************)
(* Who is shown which rooms, and who may act on them, while rooms change   *)
(* hands and sectors, queues, authorizations and members come and go:      *)
(* the list of rooms with its pins, the counts by queue, the history, the  *)
(* permission classes in front of every action (api/v1/permissions.py),    *)
(* and the messages.  A request is a step: the rows it meets are those of  *)
(* one moment.                                                             *)
(***************************************************************************)
EXTENDS FiniteSets, Naturals

CONSTANTS
    ViewRooms,
    ViewQueues,
    SectorHas,       \* the sector of each queue
    Users,
    Admins,          \* users whose role in the project is admin
    NoUser,
    QueueHistory,    \* project.agents_can_see_queue_history
    AdminsCloseQueued,  \* sector.can_close_chats_in_queue
    MaxUpsets        \* bound on changes of the configuration

ASSUME ViewsAssumption ==
    /\ IsFiniteSet(ViewRooms)
    /\ Admins \subseteq Users /\ NoUser \notin Users
    /\ {QueueHistory, AdminsCloseQueued} \subseteq BOOLEAN
    /\ MaxUpsets \in Nat

ViewSectors == {SectorHas[q] : q \in ViewQueues}

VARIABLES
    viewRow,       \* rooms_room
    pinned,        \* room pins: who pinned what
    joined,        \* users with a permission that is not deleted
    inQueue,       \* queue authorizations
    inSector,      \* sector authorizations, with their role
    goneQueues,    \* soft-deleted queues
    goneSectors,   \* soft-deleted sectors
    upsets

configVars == <<joined, inQueue, inSector, goneQueues, goneSectors>>
viewVars == <<viewRow, pinned, configVars, upsets>>

ViewRowType ==
    [is: {"unmade", "flow", "open", "closed"}, queue: ViewQueues, user: Users \cup {NoUser}]
SectorRoles == {"not set", "manager"}

ViewsTypeOK ==
    /\ viewRow \in [ViewRooms -> ViewRowType]
    /\ pinned \subseteq Users \X ViewRooms
    /\ joined \subseteq Users
    /\ inQueue \subseteq joined \X ViewQueues
    /\ inSector \subseteq joined \X ViewSectors \X SectorRoles
    /\ goneQueues \subseteq ViewQueues /\ goneSectors \subseteq ViewSectors
    /\ upsets \in 0..MaxUpsets

ViewsInit ==
    /\ viewRow \in [ViewRooms ->
          [is: {"unmade"}, queue: ViewQueues, user: {NoUser}]]
    /\ pinned = {} /\ joined = Users
    /\ inQueue \in SUBSET ((Users \ Admins) \X ViewQueues)
    /\ inSector \in SUBSET ((Users \ Admins) \X ViewSectors \X SectorRoles)
    /\ \A a, b \in inSector : a[1] = b[1] /\ a[2] = b[2] => a = b
    /\ goneQueues = {} /\ goneSectors = {} /\ upsets = 0

RoomSector(r) == SectorHas[viewRow[r].queue]
Alive(r) == viewRow[r].is \in {"flow", "open"}
Unattended(r) == viewRow[r].user = NoUser

-----------------------------------------------------------------------------
(* Permissions. *)

IsManager(u, sector) == u \in Admins \/ <<u, sector, "manager">> \in inSector
IsAnyManager(u) == u \in Admins \/ \E a \in inSector : a[1] = u

\* queue_ids: queues that were deleted are among them, of deleted sectors for agents only.
QueueIds(u) ==
    IF u \in Admins THEN {q \in ViewQueues : SectorHas[q] \notin goneSectors}
    ELSE {q \in ViewQueues : \/ \E a \in inSector : a[1] = u /\ a[2] = SectorHas[q]
                             \/ <<u, q>> \in inQueue}

\* is_agent raises when there is no such sector or authorization, and any sector will do.
IsAgent(u, q) ==
    \/ u \in Admins
    \/ SectorHas[q] \notin goneSectors /\ (IsManager(u, SectorHas[q]) \/ <<u, q>> \in inQueue)
    \/ IsAnyManager(u)

\* Mutant: a room is for its agent alone.
OnlyItsUser(u, r) == u \in joined /\ viewRow[r].user = u

\* IsQueueAgent, of a room that get_queryset finds.
MayAct(u, r) ==
    /\ u \in joined
    /\ viewRow[r].user = u \/ IsAgent(u, viewRow[r].queue)

\* MessagePermission and the permissions of medias and notes.
MayWrite(u, r) == viewRow[r].user = u
MayRead(u, r) == viewRow[r].user = u \/ u \in joined

-----------------------------------------------------------------------------
(* What is shown. *)

\* RoomFilter.filter_project
Filtered(u) ==
    {r \in ViewRooms :
        /\ u \in joined /\ Alive(r)
        /\ \/ /\ u \in Admins
              /\ viewRow[r].user \in {u, NoUser} /\ viewRow[r].queue \in QueueIds(u)
           \/ /\ u \notin Admins
              /\ \/ viewRow[r].user = u
                 \/ Unattended(r) /\ viewRow[r].queue \in QueueIds(u)}

\* filter_room_status
Ongoing == {r \in ViewRooms : ~Unattended(r) /\ viewRow[r].is # "flow"}
AwaitingRooms == {r \in ViewRooms : Unattended(r) /\ viewRow[r].is # "flow"}

Pins(u) == {r \in ViewRooms : <<u, r>> \in pinned}
InProject(u) == {r \in ViewRooms : viewRow[r].is # "unmade" /\ u \in joined}

\* _list_with_legacy_pin_order and _list_with_optimized_pin_order
LegacyList(u) == (Filtered(u) \cup Pins(u)) \cap InProject(u)
ActivePins(u) == {r \in Pins(u) : Alive(r)}
OptimizedMain(u) == Filtered(u) \ ActivePins(u)
OptimizedPins(u) == ActivePins(u) \cap InProject(u)

\* RoomsCountByQueueService: live queues of live sectors, of the target if one is named.
CountedQueues(u, named) ==
    {q \in ViewQueues \ goneQueues :
        /\ SectorHas[q] \notin goneSectors
        /\ (u \in Admins /\ ~named) \/ q \in QueueIds(u)}
AwaitingCount(q) == {r \in ViewRooms : Alive(r) /\ r \in AwaitingRooms /\ viewRow[r].queue = q}
ProgressCount(u, named, q) ==
    {r \in ViewRooms :
        /\ Alive(r) /\ r \in Ongoing /\ viewRow[r].queue = q
        /\ (~named /\ IsAnyManager(u)) \/ viewRow[r].user = u}

\* RoomsCountView counts rooms of flow starts too.
CountWaiting(q) == {r \in ViewRooms : Alive(r) /\ viewRow[r].queue = q /\ Unattended(r)}
CountInService(q) == {r \in ViewRooms : Alive(r) /\ viewRow[r].queue = q /\ ~Unattended(r)}

\* filter_history_rooms_queryset_by_project_permission
History(u) ==
    {r \in ViewRooms :
        /\ u \in joined /\ viewRow[r].is = "closed"
        /\ \/ u \in Admins
           \/ viewRow[r].user = u
           \/ QueueHistory /\ viewRow[r].queue \in QueueIds(u)}

-----------------------------------------------------------------------------
(* Rooms change hands. *)

PutRoom(r, row, pins) ==
    /\ viewRow' = [viewRow EXCEPT ![r] = row]
    /\ pinned' = pins
    /\ UNCHANGED <<configVars, upsets>>
Unpinned(r) == {p \in pinned : p[2] # r}

MakeViewRoom(r, is) ==
    /\ viewRow[r].is = "unmade" /\ viewRow[r].queue \notin goneQueues
    /\ PutRoom(r, [viewRow[r] EXCEPT !.is = is], pinned)

\* The contact of a flow start answers.
AnswerFlow(r) ==
    /\ viewRow[r].is = "flow"
    /\ PutRoom(r, [viewRow[r] EXCEPT !.is = "open"], pinned)

\* Room.save takes the pins away with the agent, and refuses a closed room.
HandTo(r, u, q) ==
    /\ Alive(r)
    /\ PutRoom(r, [viewRow[r] EXCEPT !.user = u, !.queue = q],
               IF viewRow[r].user = u THEN pinned ELSE Unpinned(r))

PickQueueRoom(u, r) == MayAct(u, r) /\ Unattended(r) /\ HandTo(r, u, viewRow[r].queue)

\* A transfer names a user, member or not, or a queue that is not deleted.
TransferToUser(u, r, v) == MayAct(u, r) /\ HandTo(r, v, viewRow[r].queue)
TransferToQueue(u, r, q) == MayAct(u, r) /\ q \notin goneQueues /\ HandTo(r, NoUser, q)

CloseView(u, r) ==
    /\ MayAct(u, r) /\ Alive(r)
    /\ Unattended(r) /\ AdminsCloseQueued => u \in Admins
    /\ PutRoom(r, [viewRow[r] EXCEPT !.is = "closed"], Unpinned(r))

PinView(u, r) ==
    /\ u \in joined /\ viewRow[r].user = u /\ Alive(r)
    /\ PutRoom(r, viewRow[r], pinned \cup {<<u, r>>})

-----------------------------------------------------------------------------
(* The configuration changes. *)

Upset ==
    /\ upsets < MaxUpsets /\ upsets' = upsets + 1
    /\ UNCHANGED <<viewRow, pinned>>

DeleteQueue(q) ==
    /\ Upset /\ q \notin goneQueues
    /\ goneQueues' = goneQueues \cup {q}
    /\ UNCHANGED <<joined, inQueue, inSector, goneSectors>>

\* A sector takes its queues with it, and leaves rooms and authorizations.
DeleteSector(s) ==
    /\ Upset /\ s \notin goneSectors
    /\ goneSectors' = goneSectors \cup {s}
    /\ goneQueues' = goneQueues \cup {q \in ViewQueues : SectorHas[q] = s}
    /\ UNCHANGED <<joined, inQueue, inSector>>

\* A permission takes its authorizations with it, and leaves rooms and pins.
RemoveUser(u) ==
    /\ Upset /\ u \in joined
    /\ joined' = joined \ {u}
    /\ inQueue' = {a \in inQueue : a[1] # u}
    /\ inSector' = {a \in inSector : a[1] # u}
    /\ UNCHANGED <<goneQueues, goneSectors>>

RevokeQueue(a) ==
    /\ Upset
    /\ inQueue' = inQueue \ {a}
    /\ UNCHANGED <<joined, inSector, goneQueues, goneSectors>>

RevokeSector(a) ==
    /\ Upset
    /\ inSector' = inSector \ {a}
    /\ UNCHANGED <<joined, inQueue, goneQueues, goneSectors>>

ViewsNext ==
    \/ \E r \in ViewRooms :
          \/ \E is \in {"flow", "open"} : MakeViewRoom(r, is)
          \/ AnswerFlow(r)
          \/ \E u \in Users :
                \/ PickQueueRoom(u, r) \/ CloseView(u, r) \/ PinView(u, r)
                \/ \E v \in Users : TransferToUser(u, r, v)
                \/ \E q \in ViewQueues : TransferToQueue(u, r, q)
    \/ \E q \in ViewQueues : DeleteQueue(q)
    \/ \E s \in ViewSectors : DeleteSector(s)
    \/ \E u \in Users : RemoveUser(u)
    \/ \E a \in inQueue : RevokeQueue(a)
    \/ \E a \in inSector : RevokeSector(a)
ViewsSpec == ViewsInit /\ [][ViewsNext]_viewVars

-----------------------------------------------------------------------------
(***************************************************************************)
(* Whoever is shown a room may act on it and read it; the exception is an  *)
(* agent's queue in a sector that was deleted.  Nobody else's room is      *)
(* shown, and whoever writes in a room is shown it while a member, but for *)
(* an admin when the sector was deleted.                                   *)
(***************************************************************************)
ListedMayAct ==
    \A u \in joined, r \in ViewRooms :
        /\ r \in LegacyList(u) /\ (RoomSector(r) \notin goneSectors \/ IsAnyManager(u)) =>
              MayAct(u, r) /\ MayRead(u, r)
        /\ Alive(r) /\ MayWrite(u, r) /\ ~(u \in Admins /\ RoomSector(r) \in goneSectors) =>
              r \in Filtered(u)

(***************************************************************************)
(* No open room is lost from view: a member who can take it up, write in   *)
(* it or hand it on has it in the list, as long as its sector is there and *)
(* a room that has an agent has one who is still a member.                 *)
(***************************************************************************)
NoRoomOutOfSight ==
    \A r \in ViewRooms :
        /\ Alive(r) /\ RoomSector(r) \notin goneSectors /\ joined \cap Admins # {}
        /\ ~Unattended(r) => viewRow[r].user \in joined
        => \E u \in joined : r \in Filtered(u) /\ MayAct(u, r)

(***************************************************************************)
(* The counts by queue are the counts of the list: of a queue that was not *)
(* deleted as many await as the list shows there, and as many are in       *)
(* progress as are shown of the agent's own.                               *)
(***************************************************************************)
CountsMatchList ==
    \A u \in joined : \A q \in CountedQueues(u, TRUE) :
        LET shown == {r \in Filtered(u) : viewRow[r].queue = q}
        IN  /\ AwaitingCount(q) = shown \cap AwaitingRooms
            /\ ProgressCount(u, TRUE, q) = shown \cap Ongoing
            /\ q \in CountedQueues(u, FALSE)
            /\ ProgressCount(u, TRUE, q) \subseteq ProgressCount(u, FALSE, q)
            /\ AwaitingCount(q) \subseteq CountWaiting(q)
            /\ ProgressCount(u, FALSE, q) \subseteq CountInService(q)

(***************************************************************************)
(* The two orders of the list show the same rooms, each of them once: no   *)
(* pin outlives its room, or the agent's hold on it.                       *)
(***************************************************************************)
PinListsAgree ==
    \A u \in joined :
        /\ OptimizedMain(u) \cup OptimizedPins(u) = LegacyList(u)
        /\ OptimizedMain(u) \cap OptimizedPins(u) = {}
        /\ \A r \in Pins(u) : Alive(r) /\ MayWrite(u, r)

(***************************************************************************)
(* A room that was closed is in the history of its last agent and of the   *)
(* admins; and where agents see the history of their queues, no room an    *)
(* agent would have been shown is missing.                                 *)
(***************************************************************************)
ClosedIsHistory ==
    \A u \in joined, r \in ViewRooms :
        viewRow[r].is = "closed" =>
            /\ MayWrite(u, r) \/ u \in Admins => r \in History(u)
            /\ QueueHistory /\ viewRow[r].queue \in QueueIds(u) => r \in History(u)
            /\ r \in History(u) => MayRead(u, r)

(***************************************************************************)
(* What is shown of rooms fits with what may be done with them.            *)
(***************************************************************************)
ViewsHold ==
    /\ ListedMayAct /\ NoRoomOutOfSight /\ CountsMatchList /\ PinListsAgree
    /\ ClosedIsHistory
=============================================================================
