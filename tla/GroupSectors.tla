---------------------------- MODULE GroupSectors ----------------------------
(***************************************************************************)
(* Department groups (chats/apps/sectors/usecases): who belongs to a group *)
(* is authorized, one row after the other, in the sectors or queues the    *)
(* group has at that moment, and again when a sector or a queue joins it.  *)
(* Every request reads rows, and commits what it derives from them; at     *)
(* READ COMMITTED another request may commit in between.                   *)
(***************************************************************************)
EXTENDS FiniteSets, Naturals

CONSTANTS
    GroupRequests,
    GroupMembers,
    Sectors,
    SectorQueues,
    SectorOf,           \* the sector of each queue
    LateQueues,         \* queues that are created later
    MaxGroupRequests

ASSUME GroupAssumption ==
    /\ SectorOf \in [SectorQueues -> Sectors]
    /\ LateQueues \subseteq SectorQueues
    /\ Sectors \cap SectorQueues = {}
    /\ MaxGroupRequests \in Nat

VARIABLES
    groupDeleted,
    linked,        \* SectorGroupSector: the sectors of the group
    queues,        \* the queues that exist
    memberships,   \* GroupSectorAuthorization: pairs of a member and a role
    access,        \* authorizations: pairs of a sector or a queue and a member
    groupAt,       \* where each request is
    doing,         \* what it does
    places,        \* sectors or queues it read
    people,        \* memberships it read
    toRemove,      \* sectors a destruction of the group has still to remove
    begun,         \* requests so far
    exempt,        \* history: queues a member need not have, by what was asked
    disturbed      \* history: pairs that two requests worked on at once

requestState == <<groupAt, doing, places, people, toRemove>>
groupRows == <<groupDeleted, linked, queues, memberships, access>>
groupVars == <<groupRows, requestState, begun, exempt, disturbed>>

Roles == {"manager", "agent"}
Places == Sectors \cup SectorQueues
QueuesOf(sectors) == {q \in queues : SectorOf[q] \in sectors}

Tasks ==
    [kind : {"authorize", "unauthorize"}, who : GroupMembers, role : Roles]
    \cup [kind : {"add", "remove"}, sector : Sectors]
    \cup [kind : {"create", "bulk"}, queue : LateQueues]
    \cup [kind : {"enable", "disable"}, who : GroupMembers, queue : SectorQueues]
    \cup [kind : {"destroy"}]
Idle == [kind |-> "idle"]

GroupTypeOK ==
    /\ groupDeleted \in BOOLEAN
    /\ linked \subseteq Sectors
    /\ queues \subseteq SectorQueues
    /\ memberships \subseteq GroupMembers \X Roles
    /\ access \subseteq Places \X GroupMembers
    /\ groupAt \in [GroupRequests -> {"idle", "begun", "sectors", "people", "commit", "loop"}]
    /\ doing \in [GroupRequests -> Tasks \cup {Idle}]
    /\ \A r \in GroupRequests : (doing[r] = Idle) = (groupAt[r] = "idle")
    /\ places \in [GroupRequests -> SUBSET Places]
    /\ people \in [GroupRequests -> SUBSET (GroupMembers \X Roles)]
    /\ toRemove \in [GroupRequests -> SUBSET Sectors]
    /\ begun \in 0..MaxGroupRequests
    /\ exempt \subseteq SectorQueues \X GroupMembers
    /\ disturbed \subseteq Places \X GroupMembers

GroupInit ==
    /\ groupDeleted = FALSE
    /\ linked \in SUBSET Sectors
    /\ queues = SectorQueues \ LateQueues
    /\ memberships = {} /\ access = {}
    /\ groupAt = [r \in GroupRequests |-> "idle"]
    /\ doing = [r \in GroupRequests |-> Idle]
    /\ places = [r \in GroupRequests |-> {}]
    /\ people = [r \in GroupRequests |-> {}]
    /\ toRemove = [r \in GroupRequests |-> {}]
    /\ begun = 0 /\ exempt = {} /\ disturbed = {}

-----------------------------------------------------------------------------
Advances(r, from, to) == groupAt[r] = from /\ groupAt' = [groupAt EXCEPT ![r] = to]
EndsRequest(r) ==
    /\ groupAt' = [groupAt EXCEPT ![r] = "idle"]
    /\ doing' = [doing EXCEPT ![r] = Idle]
    /\ places' = [places EXCEPT ![r] = {}]
    /\ people' = [people EXCEPT ![r] = {}]
    /\ toRemove' = [toRemove EXCEPT ![r] = {}]

PairsOf(task) ==
    CASE task.kind \in {"authorize", "unauthorize"} -> Places \X {task.who}
      [] task.kind \in {"enable", "disable"} -> SectorQueues \X {task.who}
      [] task.kind \in {"add", "remove"} ->
             {p \in Places : p = task.sector \/ (p \in SectorQueues /\ SectorOf[p] = task.sector)}
             \X GroupMembers
      [] task.kind \in {"create", "bulk"} -> {task.queue} \X GroupMembers
      [] task.kind = "destroy" -> Places \X GroupMembers
      [] task.kind = "idle" -> {}

\* What one of these decides may be gone when the other one commits; two
\* requests of one row depend on each other's order alone.
Concerns(kind) ==
    CASE kind \in {"authorize", "unauthorize", "enable", "disable"} -> "member"
      [] kind \in {"add", "remove", "destroy"} -> "sector"
      [] kind \in {"create", "bulk"} -> "queue"
      [] kind = "idle" -> "nothing"
Disturbs(r) ==
    UNION {PairsOf(doing[r]) \cap PairsOf(doing[s]) :
               s \in {other \in GroupRequests \ {r} :
                        groupAt[other] # "begun"
                        /\ (Concerns(doing[other].kind) # Concerns(doing[r].kind)
                            \/ Concerns(doing[r].kind) = "member")}}

\* A request finds the group, and the membership it is to delete.
BeginTask(r, task) ==
    /\ Advances(r, "idle", "begun")
    /\ begun < MaxGroupRequests
    /\ begun' = begun + 1
    /\ task.kind \in {"create", "bulk"} \/ ~groupDeleted
    /\ task.kind = "unauthorize" => <<task.who, task.role>> \in memberships
    /\ task.kind \in {"create", "bulk"} =>
          /\ task.queue \notin queues
          /\ \A other \in GroupRequests :
                doing[other].kind \in {"create", "bulk"} => doing[other].queue # task.queue
    /\ doing' = [doing EXCEPT ![r] = task]
    /\ UNCHANGED <<groupRows, places, people, toRemove, exempt, disturbed>>

\* group_sector.sectors
ReadSectors(r) ==
    /\ doing[r].kind \in {"authorize", "unauthorize", "enable", "disable"}
    /\ \/ /\ doing[r].kind \in {"authorize", "unauthorize"} /\ doing[r].role = "manager"
          /\ Advances(r, "begun", "commit")
       \/ /\ doing[r].kind \in {"authorize", "unauthorize"} /\ doing[r].role = "agent"
          /\ Advances(r, "begun", "sectors")
       \/ /\ doing[r].kind \in {"enable", "disable"}
          /\ Advances(r, "people", "sectors")
    /\ places' = [places EXCEPT ![r] = linked]
    /\ UNCHANGED <<groupRows, doing, people, toRemove, begun, exempt, disturbed>>

\* sector.queues, for each sector
ReadQueues(r) ==
    /\ Advances(r, "sectors", "commit")
    /\ places' = [places EXCEPT ![r] =
                     IF doing[r].kind \in {"remove", "destroy"} THEN @ \cup QueuesOf(@)
                     ELSE QueuesOf(@)]
    /\ UNCHANGED <<groupRows, doing, people, toRemove, begun, exempt, disturbed>>

\* Commits what the request wrote.
Grants(r, pairs) ==
    /\ access' = access \cup pairs
    /\ disturbed' = disturbed \cup Disturbs(r)
Withdraws(r, pairs) ==
    /\ access' = access \ pairs
    /\ disturbed' = disturbed \cup Disturbs(r)

\* GroupSectorAuthorizationCreationUseCase; the row is unique, and everything
\* is rolled back where it exists.
AuthorizeMember(r) ==
    /\ groupAt[r] = "commit" /\ doing[r].kind = "authorize"
    /\ LET row == <<doing[r].who, doing[r].role>>
       IN  IF row \in memberships THEN UNCHANGED <<memberships, access, exempt, disturbed>>
           ELSE /\ memberships' = memberships \cup {row}
                /\ Grants(r, places[r] \X {doing[r].who})
                /\ exempt' = exempt \ (places[r] \X {doing[r].who})
    /\ EndsRequest(r)
    /\ UNCHANGED <<groupDeleted, linked, queues, begun>>

\* Mutant: the sectors are left to a former manager.
UnauthorizeAgent(r) ==
    /\ groupAt[r] = "commit" /\ doing[r].kind = "unauthorize"
    /\ memberships' = memberships \ {<<doing[r].who, doing[r].role>>}
    /\ Withdraws(r, (places[r] \cap SectorQueues) \X {doing[r].who})
    /\ EndsRequest(r)
    /\ UNCHANGED <<groupDeleted, linked, queues, begun, exempt>>

\* GroupSectorAuthorizationDeletionUseCase
UnauthorizeMember(r) ==
    /\ groupAt[r] = "commit" /\ doing[r].kind = "unauthorize"
    /\ memberships' = memberships \ {<<doing[r].who, doing[r].role>>}
    /\ Withdraws(r, places[r] \X {doing[r].who})
    /\ EndsRequest(r)
    /\ UNCHANGED <<groupDeleted, linked, queues, begun, exempt>>

-----------------------------------------------------------------------------
\* create with enabled_queues or disabled_queues: get_or_create of the
\* membership, committed by itself.
EnsureMembership(r) ==
    /\ Advances(r, "begun", "people")
    /\ doing[r].kind \in {"enable", "disable"}
    /\ memberships' = memberships \cup {<<doing[r].who, "agent">>}
    /\ exempt' = IF <<doing[r].who, "agent">> \in memberships THEN exempt
                 ELSE exempt \cup (queues \X {doing[r].who})
    /\ disturbed' = disturbed \cup Disturbs(r)
    /\ UNCHANGED <<groupDeleted, linked, queues, access, doing, places, people,
                   toRemove, begun>>

\* UpdateAgentQueueAuthorizationsUseCase, for queues of the group only.
EnableQueue(r) ==
    /\ groupAt[r] = "commit" /\ doing[r].kind = "enable"
    /\ LET pairs == ({doing[r].queue} \cap places[r]) \X {doing[r].who}
       IN  Grants(r, pairs) /\ exempt' = exempt \ pairs
    /\ EndsRequest(r)
    /\ UNCHANGED <<groupDeleted, linked, queues, memberships, begun>>

DisableQueue(r) ==
    /\ groupAt[r] = "commit" /\ doing[r].kind = "disable"
    /\ LET pairs == ({doing[r].queue} \cap places[r]) \X {doing[r].who}
       IN  Withdraws(r, pairs) /\ exempt' = exempt \cup pairs
    /\ EndsRequest(r)
    /\ UNCHANGED <<groupDeleted, linked, queues, memberships, begun>>

-----------------------------------------------------------------------------
\* AddSectorToGroupSectorUseCase: a sector of any group is refused, the other
\* group is not told from this one.
RefuseSector(r) ==
    /\ groupAt[r] = "begun" /\ doing[r].kind = "add"
    /\ doing[r].sector \in linked
    /\ EndsRequest(r)
    /\ UNCHANGED <<groupRows, begun, exempt, disturbed>>

\* The memberships, as far as each request looks at them.
ReadManagers(r) ==
    /\ Advances(r, "begun", "commit")
    /\ doing[r].kind = "add" /\ doing[r].sector \notin linked
    /\ people' = [people EXCEPT ![r] = memberships]
    /\ UNCHANGED <<groupRows, doing, places, toRemove, begun, exempt, disturbed>>

With(r, role) == {m \in GroupMembers : <<m, role>> \in people[r]}

\* Mutant: the managers are forgotten.
LinkSectorOnly(r) ==
    /\ groupAt[r] = "commit" /\ doing[r].kind = "add"
    /\ linked' = linked \cup {doing[r].sector}
    /\ disturbed' = disturbed \cup Disturbs(r)
    /\ EndsRequest(r)
    /\ UNCHANGED <<groupDeleted, queues, memberships, access, begun, exempt>>

\* The managers get the sector; the agents get none of its queues
\* (_create_queue_permissions is not called).
LinkSector(r) ==
    /\ groupAt[r] = "commit" /\ doing[r].kind = "add"
    /\ linked' = linked \cup {doing[r].sector}
    /\ IF doing[r].sector \in linked THEN UNCHANGED <<access, exempt, disturbed>>
       ELSE /\ Grants(r, {doing[r].sector} \X With(r, "manager"))
            /\ exempt' = exempt \cup (QueuesOf({doing[r].sector}) \X GroupMembers)
    /\ EndsRequest(r)
    /\ UNCHANGED <<groupDeleted, queues, memberships, begun>>

\* perform_destroy: the sectors of the group, and for each a transaction.
ReadGroup(r) ==
    /\ Advances(r, "begun", "loop")
    /\ doing[r].kind = "destroy"
    /\ toRemove' = [toRemove EXCEPT ![r] = linked]
    /\ UNCHANGED <<groupRows, doing, places, people, begun, exempt, disturbed>>

ReadForRemoval(r) ==
    /\ \/ /\ Advances(r, "begun", "sectors") /\ doing[r].kind = "remove"
          /\ places' = [places EXCEPT ![r] = {doing[r].sector}]
          /\ UNCHANGED toRemove
       \/ /\ Advances(r, "loop", "sectors")
          /\ \E s \in toRemove[r] :
                /\ places' = [places EXCEPT ![r] = {s}]
                /\ toRemove' = [toRemove EXCEPT ![r] = @ \ {s}]
    /\ people' = [people EXCEPT ![r] = memberships]
    /\ UNCHANGED <<groupRows, doing, begun, exempt, disturbed>>

Removing(r) == groupAt[r] = "commit" /\ doing[r].kind \in {"remove", "destroy"}

\* RemoveSectorFromGroupSectorUseCase
UnlinkSector(r) ==
    /\ Removing(r)
    /\ places[r] \cap linked # {}
    /\ linked' = linked \ places[r]
    /\ Withdraws(r, ((places[r] \cap Sectors) \X With(r, "manager"))
                    \cup ((places[r] \cap SectorQueues) \X With(r, "agent")))
    /\ IF doing[r].kind = "remove" THEN EndsRequest(r)
       ELSE /\ groupAt' = [groupAt EXCEPT ![r] = "loop"]
            /\ places' = [places EXCEPT ![r] = {}]
            /\ people' = [people EXCEPT ![r] = {}]
            /\ UNCHANGED <<doing, toRemove>>
    /\ UNCHANGED <<groupDeleted, queues, memberships, begun, exempt>>

\* "Sector not found in group sector": rolled back, and a destruction ends.
RefuseRemoval(r) ==
    /\ Removing(r)
    /\ places[r] \cap linked = {}
    /\ EndsRequest(r)
    /\ UNCHANGED <<groupRows, begun, exempt, disturbed>>

DeleteGroup(r) ==
    /\ groupAt[r] = "loop" /\ toRemove[r] = {}
    /\ groupDeleted' = TRUE
    /\ EndsRequest(r)
    /\ UNCHANGED <<linked, queues, memberships, access, begun, exempt, disturbed>>

-----------------------------------------------------------------------------
\* QueueViewset.perform_create: the queue is committed first.
SaveQueue(r) ==
    /\ Advances(r, "begun", "people")
    /\ doing[r].kind = "create"
    /\ queues' = queues \cup {doing[r].queue}
    /\ disturbed' = disturbed \cup Disturbs(r)
    /\ UNCHANGED <<groupDeleted, linked, memberships, access, doing, places, people, toRemove,
                   begun, exempt>>

\* Is the sector in a group, and who are its agents?
ReadAgents(r) ==
    /\ \/ Advances(r, "people", "commit") /\ doing[r].kind = "create"
       \/ Advances(r, "begun", "commit") /\ doing[r].kind = "bulk"
    /\ people' = [people EXCEPT ![r] =
                     IF SectorOf[doing[r].queue] \in linked THEN memberships ELSE {}]
    /\ UNCHANGED <<groupRows, doing, places, toRemove, begun, exempt, disturbed>>

\* Mutant: in bulk, the agents of the group get nothing.
CreateQueueOnly(r) ==
    /\ groupAt[r] = "commit" /\ doing[r].kind \in {"create", "bulk"}
    /\ queues' = queues \cup {doing[r].queue}
    /\ Grants(r, IF doing[r].kind = "bulk" THEN {} ELSE {doing[r].queue} \X With(r, "agent"))
    /\ EndsRequest(r)
    /\ UNCHANGED <<groupDeleted, linked, memberships, begun, exempt>>

\* QueueGroupSectorAuthorizationCreationUseCase; in bulk the queue is committed
\* with it.
GrantQueue(r) ==
    /\ groupAt[r] = "commit" /\ doing[r].kind \in {"create", "bulk"}
    /\ queues' = queues \cup {doing[r].queue}
    /\ Grants(r, {doing[r].queue} \X With(r, "agent"))
    /\ EndsRequest(r)
    /\ UNCHANGED <<groupDeleted, linked, memberships, begun, exempt>>

GroupStep(r) ==
    \/ ReadSectors(r) \/ ReadQueues(r) \/ AuthorizeMember(r) \/ UnauthorizeMember(r)
    \/ EnsureMembership(r) \/ EnableQueue(r) \/ DisableQueue(r)
    \/ RefuseSector(r) \/ ReadManagers(r) \/ LinkSector(r)
    \/ ReadGroup(r) \/ ReadForRemoval(r) \/ UnlinkSector(r) \/ RefuseRemoval(r) \/ DeleteGroup(r)
    \/ SaveQueue(r) \/ ReadAgents(r) \/ GrantQueue(r)

GroupNext ==
    \E r \in GroupRequests : GroupStep(r) \/ \E task \in Tasks : BeginTask(r, task)
GroupSpec == GroupInit /\ [][GroupNext]_groupVars

-----------------------------------------------------------------------------
\* Pairs that nobody works on, and that no two requests crossed over.
Settled(pair) ==
    pair \notin disturbed /\ \A r \in GroupRequests : pair \notin PairsOf(doing[r])

(***************************************************************************)
(* A manager of the group has its sectors, and an agent the queues of its  *)
(* sectors, whichever came first, but for queues of a sector that joined   *)
(* after the agent did, or that were left out when he was authorized       *)
(* (AddSectorToGroupSectorUseCase, UpdateAgentQueueAuthorizationsUseCase). *)
(***************************************************************************)
MembersReach ==
    /\ \A q \in QueuesOf(linked), m \in GroupMembers :
          <<m, "agent">> \in memberships /\ Settled(<<q, m>>) =>
              <<q, m>> \in access \cup exempt
    /\ \A s \in linked, m \in GroupMembers :
          <<m, "manager">> \in memberships /\ Settled(<<s, m>>) => <<s, m>> \in access

(***************************************************************************)
(* What somebody was given as a member ends with the membership, and with  *)
(* the sector's leaving the group (GroupSectorAuthorizationDeletionUseCase *)
(* and RemoveSectorFromGroupSectorUseCase).                                *)
(***************************************************************************)
OnlyMembersReach ==
    \A pair \in access :
        Settled(pair) =>
            IF pair[1] \in Sectors
            THEN pair[1] \in linked /\ <<pair[2], "manager">> \in memberships
            ELSE SectorOf[pair[1]] \in linked /\ <<pair[2], "agent">> \in memberships

(***************************************************************************)
(* Access follows the group, whatever came first.                          *)
(***************************************************************************)
GroupsHold == MembersReach /\ OnlyMembersReach
=============================================================================
