---------------------------- MODULE ProjectSetup ----------------------------
(***************************************************************************)
(* A project that another service announces over RabbitMQ: its creation    *)
(* with the sectors of a template, an integrated feature with sectors of   *)
(* its own, an update of its config, and the orders that give its creator  *)
(* a role (chats/apps/projects/consumers).  Several processes consume.     *)
(* Nothing here is done in a transaction: every statement is committed by  *)
(* itself, and a killed process has its message delivered again.  Messages *)
(* are sent and received in any order, so the broker has all of them from  *)
(* the beginning.  A sector has one queue.                                 *)
(***************************************************************************)
EXTENDS FiniteSets, Naturals

CONSTANTS
    EventMessages,      \* messages about the project
    EventKind,          \* what each is: "project", "feature", "update"
    Consumers,          \* number of processes
    TemplateSectors,    \* the sectors of the template, by their names
    FeatureSectors,     \* and those of the feature
    MaxSetupFaults      \* bound on killed processes and expired messages

ASSUME SetupAssumption ==
    /\ EventKind \in [EventMessages -> {"project", "feature", "update"}]
    /\ Consumers \in Nat /\ MaxSetupFaults \in Nat
    /\ IsFiniteSet(EventMessages) /\ IsFiniteSet(TemplateSectors \cup FeatureSectors)

VARIABLES
    place,          \* of each message
    at,             \* how far its consumer is
    todo,           \* the sectors it has not begun
    current,        \* the sector it is at, as a set
    project,        \* does the project?
    owner,          \* the role of its creator: "none", "agent", "admin"
    others,         \* have the other users their permissions?
    option,         \* is the updated option in its config?
    built,          \* sectors that exist
    managed,        \* those whose manager the creator is
    ready,          \* those with their queue
    ticketers,      \* how often the flows were asked for the ticketer of each
    setupFaults,
    cutShort,       \* history: setups that were killed or refused a permission
    overwritten     \* history: has a setup saved the project over the option?

SetupSectors == TemplateSectors \cup FeatureSectors
eventVars == <<place, at, todo, current>>
projectRows == <<project, owner, others, option>>
sectorRows == <<built, managed, ready, ticketers>>
setupHistory == <<setupFaults, cutShort, overwritten>>
setupVars == <<eventVars, projectRows, sectorRows, setupHistory>>

SetupTypeOK ==
    /\ place \in [EventMessages -> {"queued", "taken", "acked", "dead", "dropped"}]
    /\ at \in [EventMessages -> {"start", "admitted", "created", "granted", "sectors", "sector",
                          "queue", "ticketer", "end"}]
    /\ todo \in [EventMessages -> SUBSET SetupSectors]
    /\ current \in [EventMessages -> SUBSET SetupSectors]
    /\ \A e \in EventMessages :
          /\ Cardinality(current[e]) <= 1
          /\ place[e] # "taken" => at[e] = "start" /\ todo[e] = {} /\ current[e] = {}
    /\ {project, others, option, overwritten} \subseteq BOOLEAN
    /\ owner \in {"none", "agent", "admin"}
    /\ ready \subseteq built /\ managed \subseteq built /\ built \subseteq SetupSectors
    /\ ticketers \in [SetupSectors -> Nat]
    /\ setupFaults \in 0..MaxSetupFaults /\ cutShort \subseteq EventMessages

SetupInit ==
    /\ place = [e \in EventMessages |-> "queued"]
    /\ at = [e \in EventMessages |-> "start"]
    /\ todo = [e \in EventMessages |-> {}] /\ current = [e \in EventMessages |-> {}]
    /\ project = FALSE /\ owner = "none" /\ others = FALSE
    /\ option = FALSE
    /\ built = {} /\ managed = {} /\ ready = {}
    /\ ticketers = [s \in SetupSectors |-> 0]
    /\ setupFaults = 0 /\ cutShort = {} /\ overwritten = FALSE

-----------------------------------------------------------------------------
Subject(e) == EventKind[e]
About(subject) == {e \in EventMessages : Subject(e) = subject}
Underway(e) == place[e] = "taken"

\* The broker dead-letters what waits for too long.
ExpireEvent(e) ==
    /\ place[e] = "queued"
    /\ setupFaults < MaxSetupFaults /\ setupFaults' = setupFaults + 1
    /\ place' = [place EXCEPT ![e] = "dead"]
    /\ UNCHANGED <<at, todo, current, projectRows, sectorRows, cutShort, overwritten>>

ReceiveEvent(e) ==
    /\ place[e] = "queued"
    /\ Cardinality({o \in EventMessages : Underway(o)}) < Consumers
    /\ place' = [place EXCEPT ![e] = "taken"]
    /\ UNCHANGED <<at, todo, current, projectRows, sectorRows, setupHistory>>

Settle(e, p) ==
    /\ place' = [place EXCEPT ![e] = p]
    /\ at' = [at EXCEPT ![e] = "start"]
    /\ todo' = [todo EXCEPT ![e] = {}] /\ current' = [current EXCEPT ![e] = {}]

Go(e, from, to) ==
    /\ Underway(e) /\ at[e] = from
    /\ at' = [at EXCEPT ![e] = to]
    /\ place' = place

\* An exception: the message is rejected, and a copy with the error published.
Reject(e) == Settle(e, "dead") /\ UNCHANGED <<projectRows, sectorRows>>

AckEvent(e) ==
    /\ Underway(e) /\ at[e] = "end"
    /\ Settle(e, "acked")
    /\ UNCHANGED <<projectRows, sectorRows, setupHistory>>

\* Mutant: the message is acknowledged before the work.
KillAcknowledged(e) ==
    /\ Underway(e)
    /\ setupFaults < MaxSetupFaults /\ setupFaults' = setupFaults + 1
    /\ Settle(e, "acked")
    /\ cutShort' = IF at[e] \in {"start", "admitted"} THEN cutShort ELSE cutShort \cup {e}
    /\ UNCHANGED <<projectRows, sectorRows, overwritten>>

\* The connection is lost with the process: the message is queued again.
KillConsumer(e) ==
    /\ Underway(e)
    /\ setupFaults < MaxSetupFaults /\ setupFaults' = setupFaults + 1
    /\ Settle(e, "queued")
    /\ cutShort' = IF at[e] \in {"start", "admitted"} THEN cutShort ELSE cutShort \cup {e}
    /\ UNCHANGED <<projectRows, sectorRows, overwritten>>

\* DeadLetterHandler refuses what was rejected.  What expired it lets pass, but
\* the publishing fails: basic_publish takes no routing_key.  Both are dropped.
DropDead(e) ==
    /\ place[e] = "dead"
    /\ place' = [place EXCEPT ![e] = "dropped"]
    /\ UNCHANGED <<at, todo, current, projectRows, sectorRows, setupHistory>>

-----------------------------------------------------------------------------
AdmitProject(e) ==
    /\ Subject(e) = "project" /\ Go(e, "start", "admitted")
    /\ ~project
    /\ UNCHANGED <<todo, current, projectRows, sectorRows, setupHistory>>

RefuseProject(e) ==
    /\ Subject(e) = "project" /\ Underway(e)
    /\ at[e] \in {"start", "admitted"} /\ project
    /\ Reject(e)
    /\ UNCHANGED setupHistory

CreateProject(e) ==
    /\ Go(e, "admitted", "created")
    /\ ~project /\ project' = TRUE
    /\ UNCHANGED <<todo, current, owner, others, option, sectorRows, setupHistory>>

\* A role of the creator that came by another message.
OrderPermission(role) ==
    /\ project
    /\ owner' = role
    /\ UNCHANGED <<eventVars, project, others, option, sectorRows, setupHistory>>

GrantCreator(e) ==
    /\ Go(e, "created", "granted")
    /\ owner \in {"none", "admin"} /\ owner' = "admin"
    /\ UNCHANGED <<todo, current, project, others, option, sectorRows, setupHistory>>

\* get_or_create looks for an administrator and collides with the agent there is.
CreatorCollides(e) ==
    /\ Underway(e) /\ at[e] = "created" /\ owner = "agent"
    /\ Reject(e)
    /\ cutShort' = cutShort \cup {e}
    /\ UNCHANGED <<setupFaults, overwritten>>

\* Mutant: the setup ends with the users, and leaves the template.
GrantAndEnd(e) ==
    /\ Go(e, "granted", "end")
    /\ others' = TRUE
    /\ UNCHANGED <<todo, current, project, owner, option, sectorRows, setupHistory>>

GrantOthers(e) ==
    /\ Go(e, "granted", "sectors")
    /\ others' = TRUE
    /\ todo' = [todo EXCEPT ![e] = TemplateSectors]
    /\ UNCHANGED <<current, project, owner, option, sectorRows, setupHistory>>

-----------------------------------------------------------------------------
\* get_or_create of the next sector; the manager comes with a new one.
BeginSector(e, s) ==
    /\ Go(e, "sectors", IF Subject(e) = "project" THEN "sector" ELSE "queue")
    /\ s \in todo[e]
    /\ Subject(e) = "project" => s \notin built
    /\ built' = built \cup {s}
    /\ todo' = [todo EXCEPT ![e] = @ \ {s}] /\ current' = [current EXCEPT ![e] = {s}]
    /\ UNCHANGED <<projectRows, managed, ready, ticketers, setupHistory>>

\* The setup passes over a sector that exists.
SkipSector(e, s) ==
    /\ Subject(e) = "project" /\ Underway(e) /\ at[e] = "sectors"
    /\ s \in todo[e] \cap built
    /\ todo' = [todo EXCEPT ![e] = @ \ {s}]
    /\ UNCHANGED <<place, at, current, projectRows, sectorRows, setupHistory>>

GrantManager(e) ==
    /\ Go(e, "sector", "queue")
    /\ managed' = managed \cup current[e]
    /\ UNCHANGED <<todo, current, projectRows, built, ready, ticketers, setupHistory>>

AddQueue(e) ==
    /\ Go(e, "queue", "ticketer")
    /\ ready' = ready \cup current[e]
    /\ UNCHANGED <<todo, current, projectRows, built, managed, ticketers, setupHistory>>

\* request_ticketer publishes again and again until the broker has it.
RequestTicketer(e) ==
    /\ Go(e, "ticketer", "sectors")
    /\ ticketers' = [s \in SetupSectors |-> ticketers[s] + (IF s \in current[e] THEN 1 ELSE 0)]
    /\ current' = [current EXCEPT ![e] = {}]
    /\ UNCHANGED <<todo, projectRows, built, managed, ready, setupHistory>>

\* The project is saved as it was created, with its template.
SaveProject(e) ==
    /\ Subject(e) = "project" /\ Go(e, "sectors", "end")
    /\ todo[e] = {}
    /\ option' = FALSE
    /\ overwritten' = (overwritten \/ option)
    /\ UNCHANGED <<todo, current, project, owner, others, sectorRows,
                   setupFaults, cutShort>>

-----------------------------------------------------------------------------
\* A feature and an update want the project to exist.
RefuseOthers(e) ==
    /\ Subject(e) \in {"feature", "update"} /\ Underway(e) /\ at[e] = "start"
    /\ ~project
    /\ Reject(e)
    /\ UNCHANGED setupHistory

BeginFeature(e) ==
    /\ Subject(e) = "feature" /\ Go(e, "start", "sectors")
    /\ project
    /\ todo' = [todo EXCEPT ![e] = FeatureSectors]
    /\ UNCHANGED <<current, projectRows, sectorRows, setupHistory>>

EndFeature(e) ==
    /\ Subject(e) = "feature" /\ Go(e, "sectors", "end")
    /\ todo[e] = {}
    /\ UNCHANGED <<todo, current, projectRows, sectorRows, setupHistory>>

UpdateConfig(e) ==
    /\ Subject(e) = "update" /\ Go(e, "start", "end")
    /\ project
    /\ option' = TRUE
    /\ UNCHANGED <<todo, current, project, owner, others, sectorRows, setupHistory>>

Consume(e) ==
    \/ ReceiveEvent(e) \/ AckEvent(e) \/ DropDead(e)
    \/ AdmitProject(e) \/ RefuseProject(e) \/ CreateProject(e)
    \/ GrantCreator(e) \/ CreatorCollides(e) \/ GrantOthers(e)
    \/ \E s \in SetupSectors : BeginSector(e, s) \/ SkipSector(e, s)
    \/ GrantManager(e) \/ AddQueue(e) \/ RequestTicketer(e) \/ SaveProject(e)
    \/ RefuseOthers(e) \/ BeginFeature(e) \/ EndFeature(e) \/ UpdateConfig(e)

SetupNext ==
    \/ \E e \in EventMessages : ExpireEvent(e) \/ KillConsumer(e) \/ Consume(e)
    \/ \E role \in {"agent", "admin"} : OrderPermission(role)
SetupSpec == SetupInit /\ [][SetupNext]_setupVars

-----------------------------------------------------------------------------
AllSettled == \A e \in EventMessages : ~Underway(e)

(***************************************************************************)
(* No project is left half set up, unless its consumer was killed, or an   *)
(* order about its creator came in between: then every further message is  *)
(* refused, since the project exists (project_creation.py).  A sector that *)
(* the feature made first is left to the feature.                          *)
(***************************************************************************)
SetUpIsWhole ==
    (AllSettled /\ project /\ cutShort \cap About("project") = {}) =>
        /\ owner # "none" /\ others
        /\ \A s \in TemplateSectors :
              \/ s \in managed \cap ready /\ ticketers[s] > 0
              \/ s \in FeatureSectors \cap built

(***************************************************************************)
(* A feature that was acknowledged has its sectors, their queues and their *)
(* ticketers, however often its consumer was killed.                       *)
(***************************************************************************)
FeatureIsWhole ==
    (\E e \in About("feature") : place[e] = "acked") =>
        \A s \in FeatureSectors : s \in ready /\ ticketers[s] > 0

(***************************************************************************)
(* The ticketer of a sector is asked for once by the setup that made the   *)
(* sector and once by each feature, unless they were killed and resumed.   *)
(***************************************************************************)
TicketersAreAskedOnce ==
    cutShort = {} => \A s \in SetupSectors :
        ticketers[s] <= (IF s \in managed THEN 1 ELSE 0)
            + (IF s \in FeatureSectors THEN Cardinality(About("feature")) ELSE 0)

(***************************************************************************)
(* An update stays, unless the setup saved the project over it.            *)
(***************************************************************************)
UpdateIsKept ==
    (\E e \in About("update") : place[e] = "acked") => option \/ overwritten

(***************************************************************************)
(* Projects are set up whole, features too, and updates are kept.          *)
(***************************************************************************)
SetupHolds == SetUpIsWhole /\ FeatureIsWhole /\ TicketersAreAskedOnce /\ UpdateIsKept
=============================================================================
