---------------------------- MODULE Discussions ----------------------------
(***************************************************************************)
(* A discussion that agents open among themselves about a room             *)
(* (chats/apps/discussions).  A room has one active discussion at most: of *)
(* the others only whether one is active matters here.  A discussion waits *)
(* in its queue until a second user joins it; the request that adds a user *)
(* counts the users and saves an instance it read at its beginning.        *)
(***************************************************************************)
EXTENDS FiniteSets, Naturals

CONSTANTS
    TalkRequests,      \* requests at work on the discussion
    Members,           \* users with a permission in the project
    Managers,          \* those who manage a sector or the project
    Nobody,            \* no user yet
    TalkLimit,         \* DISCUSSION_AGENTS_LIMIT
    MaxTalkFaults      \* bound on the requests that die on their way

ASSUME DiscussionAssumption ==
    /\ IsFiniteSet(Members)
    /\ Managers \subseteq Members
    /\ Nobody \notin Members
    /\ TalkLimit \in Nat
    /\ MaxTalkFaults \in Nat

VARIABLES
    creator,        \* created_by; Nobody before the discussion is created
    active,         \* is_active
    queued,         \* is_queued
    added,          \* rows of DiscussionUser
    otherActive,    \* another discussion of the room is active
    talkAt,         \* where each request is
    talkWith,       \* the user it is to add
    byManager,      \* does a manager send it?
    copyActive,     \* is_active of its instance
    copyQueued,     \* is_queued of its instance
    requeued,       \* a stale instance has put the discussion back into the queue
    helped,         \* two users were admitted at once, or a manager has added one
    cut,            \* a request died on its way
    talkFaults

talkRows == <<creator, active, queued, added, otherActive>>
talkRequestVars == <<talkAt, talkWith, byManager, copyActive, copyQueued>>
talkHistory == <<requeued, helped, cut, talkFaults>>
discussionVars == <<talkRows, talkRequestVars, talkHistory>>

Created == creator # Nobody
Joining == {"join", "insert", "joined"}

DiscussionsTypeOK ==
    /\ creator \in Members \cup {Nobody}
    /\ active \in BOOLEAN /\ otherActive \in BOOLEAN
    /\ ~(active /\ otherActive)
    /\ queued \in BOOLEAN
    /\ added \subseteq Members
    /\ active \/ queued \/ added # {} => Created
    /\ talkAt \in [TalkRequests -> Joining \cup {"none", "free", "close", "rewrite"}]
    /\ \A q \in TalkRequests : talkAt[q] \notin {"none", "free"} => Created
    /\ talkWith \in [TalkRequests -> Members \cup {Nobody}]
    /\ \A q \in TalkRequests : talkAt[q] \in Joining \cup {"free"} => talkWith[q] \in Members
    /\ byManager \in [TalkRequests -> BOOLEAN]
    /\ copyActive \in [TalkRequests -> BOOLEAN]
    /\ copyQueued \in [TalkRequests -> BOOLEAN]
    /\ requeued \in BOOLEAN /\ helped \in BOOLEAN /\ cut \in BOOLEAN
    /\ talkFaults \in 0..MaxTalkFaults

DiscussionsInit ==
    /\ creator = Nobody /\ active = FALSE /\ queued = FALSE /\ added = {}
    /\ otherActive = FALSE
    /\ talkAt = [q \in TalkRequests |-> "none"]
    /\ talkWith = [q \in TalkRequests |-> Nobody]
    /\ byManager = [q \in TalkRequests |-> FALSE]
    /\ copyActive = [q \in TalkRequests |-> FALSE]
    /\ copyQueued = [q \in TalkRequests |-> FALSE]
    /\ requeued = FALSE /\ helped = FALSE /\ cut = FALSE
    /\ talkFaults = 0

EndTalk(q) ==
    /\ talkAt' = [talkAt EXCEPT ![q] = "none"]
    /\ talkWith' = [talkWith EXCEPT ![q] = Nobody]
    /\ byManager' = [byManager EXCEPT ![q] = FALSE]
    /\ copyActive' = [copyActive EXCEPT ![q] = FALSE]
    /\ copyQueued' = [copyQueued EXCEPT ![q] = FALSE]

BeginTalk(q, u, v, spot) ==
    /\ talkAt[q] = "none"
    /\ talkAt' = [talkAt EXCEPT ![q] = spot]
    /\ talkWith' = [talkWith EXCEPT ![q] = v]
    /\ byManager' = [byManager EXCEPT ![q] = u \in Managers]

\* get_object: the request of u goes on with an instance of the discussion.
HoldDiscussion(q, u, v, spot) ==
    /\ Created
    /\ BeginTalk(q, u, v, spot)
    /\ copyActive' = [copyActive EXCEPT ![q] = active]
    /\ copyQueued' = [copyQueued EXCEPT ![q] = queued]
    /\ UNCHANGED <<talkRows, talkHistory>>

ManagerOrCreator(u) == u \in Managers \/ u = creator

\* The room has no open discussion.
CheckNoneOpen(q, u) ==
    /\ ~active /\ ~otherActive
    /\ BeginTalk(q, u, u, "free")
    /\ UNCHANGED <<talkRows, copyActive, copyQueued, talkHistory>>

\* The discussion is created, and its creator is to be added.
CreateDiscussion(q) ==
    /\ talkAt[q] = "free"
    /\ ~Created /\ ~otherActive
    /\ creator' = talkWith[q]
    /\ active' = TRUE /\ queued' = TRUE
    /\ talkAt' = [talkAt EXCEPT ![q] = "join"]
    /\ copyActive' = [copyActive EXCEPT ![q] = TRUE]
    /\ copyQueued' = [copyQueued EXCEPT ![q] = TRUE]
    /\ UNCHANGED <<added, otherActive, talkWith, byManager, talkHistory>>

\* A request creates another discussion of the room instead.
CreateOther(q) ==
    /\ talkAt[q] = "free"
    /\ ~active /\ ~otherActive
    /\ otherActive' = TRUE
    /\ EndTalk(q)
    /\ UNCHANGED <<creator, active, queued, added, talkHistory>>

CloseOther ==
    /\ otherActive
    /\ otherActive' = FALSE
    /\ UNCHANGED <<creator, active, queued, added, talkRequestVars, talkHistory>>

\* unique_room_is_activetrue_discussion
RefuseDiscussion(q) ==
    /\ talkAt[q] = "free"
    /\ active \/ otherActive
    /\ EndTalk(q)
    /\ UNCHANGED <<talkRows, talkHistory>>

\* add_agents: who may add, and the user is not there yet.
AskToAdd(q, u, v) ==
    /\ ManagerOrCreator(u) \/ (Cardinality(added) < 2 /\ u = v)
    /\ v \notin added
    /\ HoldDiscussion(q, u, v, "join")

\* Mutant: the comparison is off by one.
CanAddOneMore(manager) == manager \/ Cardinality(added) <= TalkLimit

CanAddUser(manager) == manager \/ Cardinality(added) < TalkLimit

Admit(q) ==
    /\ talkAt[q] = "join"
    /\ CanAddUser(byManager[q])
    /\ talkAt' = [talkAt EXCEPT ![q] = "insert"]
    /\ helped' = (helped \/ byManager[q] \/ \E other \in TalkRequests : talkAt[other] = "insert")
    /\ UNCHANGED <<talkRows, talkWith, byManager, copyActive, copyQueued, requeued, cut, talkFaults>>

\* None is returned, and the answer of add_agents fails on it.
RefuseUser(q) ==
    /\ talkAt[q] = "join"
    /\ ~CanAddUser(byManager[q])
    /\ EndTalk(q)
    /\ UNCHANGED <<talkRows, talkHistory>>

AddUser(q) ==
    /\ talkAt[q] = "insert"
    /\ talkWith[q] \notin added
    /\ added' = added \cup {talkWith[q]}
    /\ talkAt' = [talkAt EXCEPT ![q] = "joined"]
    /\ UNCHANGED <<creator, active, queued, otherActive, talkWith, byManager, copyActive,
                   copyQueued, talkHistory>>

\* unique_permission_per_discussion
CollideOnUser(q) ==
    /\ talkAt[q] = "insert"
    /\ talkWith[q] \in added
    /\ EndTalk(q)
    /\ UNCHANGED <<talkRows, talkHistory>>

\* Mutant: the user just added is not counted.
HasOldCompany(q) == copyQueued[q] /\ Cardinality(added \ {talkWith[q]}) > 1

HasCompany(q) == copyQueued[q] /\ Cardinality(added) > 1

\* check_queued: the instance is saved, as active as it was when it was read.
LeaveQueue(q) ==
    /\ talkAt[q] = "joined"
    /\ HasCompany(q)
    /\ ~(copyActive[q] /\ otherActive)
    /\ active' = copyActive[q]
    /\ queued' = FALSE
    /\ EndTalk(q)
    /\ UNCHANGED <<creator, added, otherActive, talkHistory>>

StayQueued(q) ==
    /\ talkAt[q] = "joined"
    /\ ~HasCompany(q)
    /\ EndTalk(q)
    /\ UNCHANGED <<talkRows, talkHistory>>

AskToClose(q, u) == ManagerOrCreator(u) /\ HoldDiscussion(q, u, Nobody, "close")

\* PATCH by anyone who may retrieve the discussion.
AskToRewrite(q, u) ==
    /\ ManagerOrCreator(u) \/ u \in added \/ queued
    /\ HoldDiscussion(q, u, Nobody, "rewrite")

StaleQueued(q) == copyQueued[q] /\ ~queued

CloseDiscussion(q) ==
    /\ talkAt[q] = "close"
    /\ active' = FALSE
    /\ queued' = copyQueued[q]
    /\ requeued' = (requeued \/ StaleQueued(q))
    /\ EndTalk(q)
    /\ UNCHANGED <<creator, added, otherActive, helped, cut, talkFaults>>

\* Mutant: no constraint keeps a stale copy from being written open.
RewriteAnyway(q) ==
    /\ talkAt[q] = "rewrite"
    /\ active' = copyActive[q]
    /\ queued' = copyQueued[q]
    /\ requeued' = (requeued \/ StaleQueued(q))
    /\ EndTalk(q)
    /\ UNCHANGED <<creator, added, otherActive, helped, cut, talkFaults>>

RewriteDiscussion(q) ==
    /\ talkAt[q] = "rewrite"
    /\ ~(copyActive[q] /\ otherActive)
    /\ active' = copyActive[q]
    /\ queued' = copyQueued[q]
    /\ requeued' = (requeued \/ StaleQueued(q))
    /\ EndTalk(q)
    /\ UNCHANGED <<creator, added, otherActive, helped, cut, talkFaults>>

\* A discussion that another one has replaced cannot be written open again.
CollideOnActive(q) ==
    /\ talkAt[q] = "rewrite" \/ (talkAt[q] = "joined" /\ HasCompany(q))
    /\ copyActive[q] /\ otherActive
    /\ cut' = (cut \/ talkAt[q] = "joined")
    /\ EndTalk(q)
    /\ UNCHANGED <<talkRows, requeued, helped, talkFaults>>

\* The process dies, or a notification fails, between two statements.
CutTalk(q) ==
    /\ talkFaults < MaxTalkFaults
    /\ talkFaults' = talkFaults + 1
    /\ talkAt[q] \in Joining
    /\ cut' = TRUE
    /\ EndTalk(q)
    /\ UNCHANGED <<talkRows, requeued, helped>>

DiscussionsNext ==
    \/ CloseOther
    \/ \E q \in TalkRequests :
          \/ CreateDiscussion(q) \/ CreateOther(q) \/ RefuseDiscussion(q)
          \/ Admit(q) \/ RefuseUser(q) \/ AddUser(q) \/ CollideOnUser(q)
          \/ LeaveQueue(q) \/ StayQueued(q)
          \/ CloseDiscussion(q) \/ RewriteDiscussion(q) \/ CollideOnActive(q) \/ CutTalk(q)
          \/ \E u \in Members :
                \/ CheckNoneOpen(q, u) \/ AskToClose(q, u) \/ AskToRewrite(q, u)
                \/ \E v \in Members : AskToAdd(q, u, v)

DiscussionsSpec == DiscussionsInit /\ [][DiscussionsNext]_discussionVars

-----------------------------------------------------------------------------
(***************************************************************************)
(* A discussion still offered to its queue has one user at most, however   *)
(* many join at once: the last to be inserted sees the others.  Left out   *)
(* are a request that died before it counted, a stale instance that put    *)
(* the discussion back, and one refused because another discussion had     *)
(* replaced this one.                                                      *)
(***************************************************************************)
QueuedIsAlone ==
    active /\ queued =>
        \/ Cardinality(added) <= 1
        \/ cut \/ requeued
        \/ \E q \in TalkRequests : talkAt[q] = "joined"

(***************************************************************************)
(* A discussion has at most DISCUSSION_AGENTS_LIMIT users, unless two were *)
(* admitted at once or a manager, whom the limit does not bind, added one. *)
(***************************************************************************)
TalkWithinLimit == Cardinality(added) <= TalkLimit \/ helped

(***************************************************************************)
(* A discussion keeps its limit, and only one with a lone user is offered  *)
(* to its queue, whatever additions, closures and rewrites are under way   *)
(* (create_discussion_user, check_queued).                                 *)
(***************************************************************************)
TalkHolds == QueuedIsAlone /\ TalkWithinLimit
=============================================================================
