----------------------------- MODULE SurveyFlow -----------------------------
(***************************************************************************)
(* The flow that asks a contact for a rating (chats/apps/csat).  The code  *)
(* carries a definition of it with a version, imports the definition into  *)
(* the project of the flows service, and keeps the flow's uuid and version *)
(* in a row of its own and the uuid in a cache.  A deployment replaces the *)
(* workers one after the other, so that two versions run side by side.     *)
(***************************************************************************)
EXTENDS Celery, Naturals

CONSTANTS
    MaxVersion,      \* bound on CSAT_FLOW_VERSION
    MaxFlows,        \* bound on the flows the other service makes for the project
    MaxEnables,      \* bound on the sectors that enable surveys
    MaxFlowFaults    \* bound on failed imports, expired tasks and killed workers

ASSUME SurveyFlowAssumption ==
    /\ MaxVersion \in Nat \ {0} /\ MaxFlows \in Nat \ {0}
    /\ MaxEnables \in Nat /\ MaxFlowFaults \in Nat

VARIABLES
    release,          \* CSAT_FLOW_VERSION of the newest code deployed
    runs,             \* CSAT_FLOW_VERSION of the code each worker runs
    flowVersion,      \* version of the definition in the flows service; 0 without a flow
    flowId,           \* its uuid there, of the last flow if it was deleted
    configVersion,    \* version of CSATFlowProjectConfig; 0 without a row
    configFlow,       \* its flow_uuid
    cachedFlow,       \* the cached uuid; 0 without one
    createTasks,      \* messages of create_csat_flow
    command,          \* a message of update_all_projects_csat_flow_definition
    updateTasks,      \* versions with a message of update_project_csat_flow_definition
    flowAt,           \* where each worker is
    flowSeen,         \* the uuid it received
    versionSeen,      \* the version it read
    reading,          \* the uuid a task that starts a survey has read; 0 without one
    mixed,            \* an import came between the import and the save of another version
    cut,              \* a worker ended between its import and its save
    refilled,         \* a reader that had read an old uuid cached it
    enables, flowFaults

flowRows == <<release, runs, flowVersion, flowId, configVersion, configFlow, cachedFlow>>
flowTasks == <<createTasks, command, updateTasks>>
flowCopies == <<flowSeen, versionSeen, reading>>
flowHistory == <<mixed, cut, refilled, enables, flowFaults>>
flowVars == <<flowRows, flowTasks, flowAt, flowCopies, flowHistory>>

Versions == 1..MaxVersion
Flows == 1..MaxFlows
Unsaved == {"created", "saving", "updated"}

SurveyFlowTypeOK ==
    /\ release \in Versions
    /\ runs \in [Workers -> 1..release]
    /\ flowVersion \in 0..release
    /\ flowId \in 0..MaxFlows
    /\ configVersion \in 0..release
    /\ configFlow \in 0..flowId
    /\ (configVersion = 0) = (configFlow = 0)
    /\ cachedFlow \in 0..flowId
    /\ configFlow = 0 => cachedFlow = 0
    /\ createTasks \in 0..MaxEnables
    /\ command \in BOOLEAN
    /\ updateTasks \subseteq 1..release
    /\ flowAt \in [Workers -> {"idle", "create", "update", "invalidate"} \cup Unsaved]
    /\ flowSeen \in [Workers -> 0..flowId]
    /\ versionSeen \in [Workers -> 0..release]
    /\ \A w \in Workers : flowAt[w] \in Unsaved => flowSeen[w] # 0
    /\ reading \in 0..flowId
    /\ mixed \in BOOLEAN /\ cut \in BOOLEAN /\ refilled \in BOOLEAN
    /\ enables \in 0..MaxEnables /\ flowFaults \in 0..MaxFlowFaults

FlowInit ==
    /\ release = 1 /\ runs = [w \in Workers |-> 1]
    /\ flowVersion = 0 /\ flowId = 0
    /\ configVersion = 0 /\ configFlow = 0 /\ cachedFlow = 0
    /\ createTasks = 0 /\ command = FALSE /\ updateTasks = {}
    /\ flowAt = [w \in Workers |-> "idle"]
    /\ flowSeen = [w \in Workers |-> 0] /\ versionSeen = [w \in Workers |-> 0]
    /\ reading = 0
    /\ mixed = FALSE /\ cut = FALSE /\ refilled = FALSE
    /\ enables = 0 /\ flowFaults = 0

EndFlowTask(w) ==
    /\ flowAt' = Moved(flowAt, w, "idle")
    /\ flowSeen' = [flowSeen EXCEPT ![w] = 0]
    /\ versionSeen' = [versionSeen EXCEPT ![w] = 0]
    /\ UNCHANGED reading

-----------------------------------------------------------------------------
\* A deployment, the restart of a worker with its code, and the other service.
Deploy ==
    /\ release < MaxVersion
    /\ release' = release + 1
    /\ UNCHANGED <<runs, flowVersion, flowId, configVersion, configFlow, cachedFlow, flowTasks,
                   flowAt, flowCopies, flowHistory>>

Upgrade(w) ==
    /\ flowAt[w] = "idle"
    /\ runs[w] < release
    /\ runs' = [runs EXCEPT ![w] = release]
    /\ UNCHANGED <<release, flowVersion, flowId, configVersion, configFlow, cachedFlow, flowTasks,
                   flowAt, flowCopies, flowHistory>>

DeleteFlow ==
    /\ flowVersion > 0
    /\ flowId < MaxFlows
    /\ flowVersion' = 0
    /\ UNCHANGED <<release, runs, flowId, configVersion, configFlow, cachedFlow, flowTasks,
                   flowAt, flowCopies, flowHistory>>

-----------------------------------------------------------------------------
\* Sector.save, in a web process of version v.
EnableSurveys(v) ==
    /\ enables < MaxEnables
    /\ v <= release
    /\ configVersion # v
    /\ createTasks' = createTasks + 1
    /\ enables' = enables + 1
    /\ UNCHANGED <<flowRows, command, updateTasks, flowAt, flowCopies, mixed, cut, refilled, flowFaults>>

\* python manage.py update_csat_flows
SendCommand ==
    /\ ~command
    /\ configVersion > 0
    /\ command' = TRUE
    /\ UNCHANGED <<flowRows, createTasks, updateTasks, flowAt, flowCopies, flowHistory>>

\* Mutant: a row one version behind is left alone.
RunCommandLate(w) ==
    /\ flowAt[w] = "idle"
    /\ command
    /\ command' = FALSE
    /\ updateTasks' = IF configVersion + 1 < runs[w] THEN updateTasks \cup {runs[w]} ELSE updateTasks
    /\ UNCHANGED <<flowRows, createTasks, flowAt, flowCopies, flowHistory>>

\* The rows older than the version of the worker get an update.
RunCommand(w) ==
    /\ flowAt[w] = "idle"
    /\ command
    /\ command' = FALSE
    /\ updateTasks' = IF configVersion < runs[w] THEN updateTasks \cup {runs[w]} ELSE updateTasks
    /\ UNCHANGED <<flowRows, createTasks, flowAt, flowCopies, flowHistory>>

TakeCreate(w) ==
    /\ flowAt[w] = "idle"
    /\ createTasks > 0
    /\ createTasks' = createTasks - 1
    /\ flowAt' = Moved(flowAt, w, "create")
    /\ UNCHANGED <<flowRows, command, updateTasks, flowCopies, flowHistory>>

TakeUpdate(w, v) ==
    /\ flowAt[w] = "idle"
    /\ v \in updateTasks
    /\ v = runs[w]
    /\ updateTasks' = updateTasks \ {v}
    /\ flowAt' = Moved(flowAt, w, "update")
    /\ UNCHANGED <<flowRows, createTasks, command, flowCopies, flowHistory>>

\* "Version is not the current CSAT flow version": the task is lost.
RefuseUpdate(w, v) ==
    /\ flowAt[w] = "idle"
    /\ v \in updateTasks
    /\ v # runs[w]
    /\ updateTasks' = updateTasks \ {v}
    /\ UNCHANGED <<flowRows, createTasks, command, flowAt, flowCopies, flowHistory>>

\* The flows service answers with the uuid of the flow it made or changed.
ImportFlow(w) ==
    /\ flowAt[w] \in {"create", "update"}
    /\ flowVersion' = runs[w]
    /\ flowId' = IF flowVersion = 0 THEN flowId + 1 ELSE flowId
    /\ flowSeen' = [flowSeen EXCEPT ![w] = flowId']
    /\ UNCHANGED reading
    /\ flowAt' = Moved(flowAt, w, IF flowAt[w] = "create" THEN "created" ELSE "updated")
    /\ mixed' = (mixed \/ \E other \in Workers :
                              flowAt[other] \in Unsaved /\ runs[other] # runs[w])
    /\ UNCHANGED <<release, runs, configVersion, configFlow, cachedFlow, flowTasks, versionSeen,
                   cut, refilled, enables, flowFaults>>

\* create_csat_flow tries once, update_csat_flow_definition a few times.
FailImport(w) ==
    /\ flowAt[w] \in {"create", "update"}
    /\ flowFaults < MaxFlowFaults
    /\ flowFaults' = flowFaults + 1
    /\ EndFlowTask(w)
    /\ UNCHANGED <<flowRows, flowTasks, mixed, cut, refilled, enables>>

ReadConfig(w) ==
    /\ flowAt[w] = "created"
    /\ versionSeen' = [versionSeen EXCEPT ![w] = configVersion]
    /\ flowAt' = Moved(flowAt, w, "saving")
    /\ UNCHANGED <<flowRows, flowTasks, flowSeen, reading, flowHistory>>

\* Two creations at once may both have found no row.
CollideOnConfig(w) ==
    /\ flowAt[w] = "saving"
    /\ versionSeen[w] = 0 /\ configVersion # 0
    /\ cut' = TRUE
    /\ EndFlowTask(w)
    /\ UNCHANGED <<flowRows, flowTasks, mixed, refilled, enables, flowFaults>>

\* Mutant: a row that exists keeps its version.
SaveUuidOnly(w) ==
    /\ \/ flowAt[w] = "updated"
       \/ flowAt[w] = "saving" /\ (versionSeen[w] = 0 => configVersion = 0)
    /\ configVersion' = IF configVersion = 0 THEN runs[w] ELSE configVersion
    /\ configFlow' = flowSeen[w]
    /\ flowAt' = Moved(flowAt, w, "invalidate")
    /\ UNCHANGED <<release, runs, flowVersion, flowId, cachedFlow, flowTasks, flowCopies, flowHistory>>

\* A creation writes the version only if the row it read had another.
SaveConfig(w) ==
    /\ \/ flowAt[w] = "updated"
       \/ flowAt[w] = "saving" /\ (versionSeen[w] = 0 => configVersion = 0)
    /\ configVersion' = IF flowAt[w] = "saving" /\ versionSeen[w] = runs[w]
                        THEN configVersion ELSE runs[w]
    /\ configFlow' = flowSeen[w]
    /\ flowAt' = Moved(flowAt, w, "invalidate")
    /\ UNCHANGED <<release, runs, flowVersion, flowId, cachedFlow, flowTasks, flowCopies, flowHistory>>

\* Mutant: the save does not touch the cache.
KeepFlowCache(w) ==
    /\ flowAt[w] = "invalidate"
    /\ EndFlowTask(w)
    /\ UNCHANGED <<flowRows, flowTasks, flowHistory>>

\* transaction.on_commit, after each save that may have changed the uuid.
InvalidateFlow(w) ==
    /\ flowAt[w] = "invalidate"
    /\ cachedFlow' = 0
    /\ EndFlowTask(w)
    /\ UNCHANGED <<release, runs, flowVersion, flowId, configVersion, configFlow, flowTasks, flowHistory>>

\* start_csat_flow of a closed room, when the uuid is not cached.  One such
\* task at a time, by a worker of its own, is enough to bring an old uuid back.
ReadFlow ==
    /\ reading = 0
    /\ cachedFlow = 0
    /\ configFlow # 0
    /\ reading' = configFlow
    /\ UNCHANGED <<flowRows, flowTasks, flowAt, flowSeen, versionSeen, flowHistory>>

CacheFlow ==
    /\ reading # 0
    /\ cachedFlow' = reading
    /\ refilled' = (reading # configFlow)
    /\ reading' = 0
    /\ UNCHANGED <<release, runs, flowVersion, flowId, configVersion, configFlow, flowTasks,
                   flowAt, flowSeen, versionSeen, mixed, cut, enables, flowFaults>>

\* CSAT_FLOW_CACHE_TTL
ExpireFlow ==
    /\ cachedFlow # 0
    /\ cachedFlow' = 0
    /\ refilled' = FALSE
    /\ UNCHANGED <<release, runs, flowVersion, flowId, configVersion, configFlow, flowTasks,
                   flowAt, flowCopies, mixed, cut, enables, flowFaults>>

\* CSAT_FLOW_UPDATE_EXPIRATION_TIME
ExpireUpdate(v) ==
    /\ v \in updateTasks
    /\ flowFaults < MaxFlowFaults
    /\ flowFaults' = flowFaults + 1
    /\ updateTasks' = updateTasks \ {v}
    /\ UNCHANGED <<flowRows, createTasks, command, flowAt, flowCopies, mixed, cut, refilled, enables>>

KillFlowTask(w) ==
    /\ flowAt[w] # "idle"
    /\ flowFaults < MaxFlowFaults
    /\ flowFaults' = flowFaults + 1
    /\ cut' = (cut \/ flowAt[w] \in Unsaved)
    /\ refilled' = (refilled \/ flowAt[w] = "invalidate")
    /\ EndFlowTask(w)
    /\ UNCHANGED <<flowRows, flowTasks, mixed, enables>>

FlowStep(w) ==
    \/ ImportFlow(w) \/ ReadConfig(w) \/ CollideOnConfig(w) \/ SaveConfig(w)
    \/ InvalidateFlow(w)

FlowNext ==
    \/ Deploy \/ DeleteFlow \/ SendCommand \/ ReadFlow \/ CacheFlow \/ ExpireFlow
    \/ \E v \in Versions : EnableSurveys(v) \/ ExpireUpdate(v)
    \/ \E w \in Workers :
          \/ Upgrade(w) \/ RunCommand(w) \/ TakeCreate(w) \/ FailImport(w)
          \/ FlowStep(w) \/ KillFlowTask(w)
          \/ \E v \in Versions : TakeUpdate(w, v) \/ RefuseUpdate(w, v)

FlowSpec == FlowInit /\ [][FlowNext]_flowVars

\* The broker delivers and tasks go on.
FlowFairness ==
    /\ WF_flowVars(\E w \in Workers : RunCommand(w))
    /\ WF_flowVars(\E w \in Workers, v \in Versions : TakeUpdate(w, v))
    /\ WF_flowVars(\E w \in Workers : FlowStep(w))

-----------------------------------------------------------------------------
(***************************************************************************)
(* The version in the row is that of the definition the flows service has, *)
(* unless imports of two versions overlapped or a worker ended between its *)
(* import and its save.  A row that claims too much is never updated       *)
(* again: the command picks rows of a lower version only.                  *)
(***************************************************************************)
RowMatchesFlow ==
    \/ mixed \/ cut
    \/ configVersion = 0 \/ flowVersion = 0
    \/ \E w \in Workers : flowAt[w] \in Unsaved
    \/ configVersion = flowVersion

(***************************************************************************)
(* Surveys start the flow of the row, unless a reader cached what it read  *)
(* before the row changed, until the entry expires.                        *)
(***************************************************************************)
CachedFlowIsCurrent ==
    \/ cachedFlow \in {0, configFlow}
    \/ refilled
    \/ \E w \in Workers : flowAt[w] = "invalidate"

CommandWaits ==
    /\ command /\ configVersion > 0
    /\ release = MaxVersion /\ \A w \in Workers : runs[w] = release
RowIsUpdated == configVersion = release \/ flowFaults > 0

(***************************************************************************)
(* Once every worker runs the last release one command is enough: the row  *)
(* gets its version, unless the import fails, the task expires or a worker *)
(* is killed.                                                              *)
(***************************************************************************)
CommandUpdates == CommandWaits ~> RowIsUpdated

(***************************************************************************)
(* The row of a project says which flow the flows service has, and         *)
(* closing rooms start that flow (CSATFlowService).                        *)
(***************************************************************************)
FlowIsCurrent == RowMatchesFlow /\ CachedFlowIsCurrent
=============================================================================
