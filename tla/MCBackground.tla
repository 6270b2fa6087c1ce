---------------------------- MODULE MCBackground ----------------------------
(***************************************************************************)
(* The background tasks in one run.  They share the pool of workers and    *)
(* nothing else, so a behaviour picks one component in its initial state   *)
(* and takes the steps of that one: each is checked in full beside the     *)
(* others at rest, and never in a product with them.                       *)
(***************************************************************************)
EXTENDS Reports, Archive, BulkSend, MetricGoals, SurveyFlow

VARIABLE component

Components == {"dashboard", "export", "archive", "bulk", "metric", "flow"}

\* The first report has a part more in its table of rooms than in the other.
TwoAndOne == <<2, 1>>

\* What a constant is given is computed once if it names what is defined, and at every use
\* of the constant if it is the definition itself.
GivenChunksOf == TwoAndOne

\* Nothing is claimed of sweeps that overlapped, and none begins after them.
OverlapIsLast == overlapped => \A w \in Workers : sweep[w] = "idle" => sweep'[w] = "idle"

\* The workers are alike, and one of them is the first to be upgraded.
FirstWorker == CHOOSE w \in Workers : TRUE
FirstUpgradesFirst == \A w \in Workers : runs'[w] <= runs'[FirstWorker]

\* Workers are alike, and one of them is the first to take the report of the dashboard.
FirstTakesFirst ==
    reportStatus[1] = "pending" /\ retryCount[1] = 0 =>
        \A w \in Workers : report'[w] = 1 => w = FirstWorker

\* One worker at the dashboard's report is taken over alive, and then nothing else
\* goes wrong than what the two do to each other.
OutlivedOnce ==
    timesOutlived' > 0 =>
        /\ timesOutlived' = 1 /\ reportFaults' = 0
        /\ \A r \in Reports : "moved" \notin blame'[r]

BackgroundInit ==
    /\ component \in Components
    /\ ReportsInit /\ ArchiveInit /\ BulkInit /\ MetricInit /\ FlowInit

BackgroundNext ==
    /\ UNCHANGED component
    /\ \/ /\ component \in {"dashboard", "export"}
          /\ ReportsNext
          /\ admitted'[component = "dashboard"] = 0
          /\ component = "dashboard" => FirstTakesFirst /\ OutlivedOnce
          /\ UNCHANGED <<archiveVars, bulkVars, metricVars, flowVars>>
       \/ /\ component = "archive"
          /\ ArchiveNext
          /\ UNCHANGED <<reportVars, bulkVars, metricVars, flowVars>>
       \/ /\ component = "bulk"
          /\ BulkNext
          /\ UNCHANGED <<reportVars, archiveVars, metricVars, flowVars>>
       \/ /\ component = "metric"
          /\ MetricNext /\ OverlapIsLast
          /\ UNCHANGED <<reportVars, archiveVars, bulkVars, flowVars>>
       \/ /\ component = "flow"
          /\ FlowNext /\ FirstUpgradesFirst
          /\ UNCHANGED <<reportVars, archiveVars, bulkVars, metricVars>>

\* A component at rest has no fair action enabled.
BackgroundFairness ==
    ReportsFairness /\ ArchiveFairness /\ BulkFairness /\ MetricFairness
    /\ FlowFairness

BackgroundSpec ==
    /\ BackgroundInit
    /\ [][BackgroundNext]_<<component, reportVars, archiveVars, bulkVars, metricVars, flowVars>>
    /\ BackgroundFairness

(***************************************************************************)
(* Types of the state of every background task; what is idle is as it is   *)
(* where its own behaviours begin.                                         *)
(***************************************************************************)
BackgroundTypeOK ==
    /\ component = "archive"                 => ArchiveTypeOK
    /\ component = "bulk"                    => BulkTypeOK
    /\ component = "metric"                  => MetricTypeOK
    /\ component = "flow"                    => SurveyFlowTypeOK
    /\ component \in {"dashboard", "export"} => ReportsTypeOK

\* What is due of the component that runs, two things at most, and what settles it.
Due(n) ==
    CASE component \in {"dashboard", "export"}            -> reportStatus[n] = "pending"
      [] component = "archive" /\ n \in ArchivedRooms     -> archiveStatus[n] = "PENDING"
      [] component = "bulk" /\ n = 1                      -> bulkStatus = "PENDING"
      [] component = "bulk" /\ n = 2                      -> EveryRoomHasOutcome
      [] component = "flow"                               -> CommandWaits
      [] OTHER                                            -> FALSE

Done(n) ==
    CASE component \in {"dashboard", "export"}            -> reportStatus[n] \in Finished
      [] component = "archive" /\ n \in ArchivedRooms     -> archiveStatus[n] = "FINISHED"
      [] component = "bulk" /\ n = 1                      -> bulkStatus = "FINISHED"
      [] component = "bulk" /\ n = 2                      -> FullIsShown
      [] component = "flow"                               -> RowIsUpdated
      [] OTHER                                            -> TRUE

(***************************************************************************)
(* Every background task comes to its end, whatever worker is killed on    *)
(* the way: reports, archived rooms and bulk sends finish, the last        *)
(* progress of a bulk send is announced, a widget is told how things       *)
(* stand, and one command updates the survey's flow.  It is ReportEnds,    *)
(* ArchiveEnds, BulkEnds, FullProgressIsShown, CommandUpdates and          *)
(* WidgetSettles, of which the others are idle while one component runs.   *)
(***************************************************************************)
JobsEnd == WidgetSettles /\ \A n \in 1..2 : Due(n) ~> Done(n)

(***************************************************************************)
(* Rows and notifications that outlive a task: an alert follows a climb of *)
(* the metric, and the project's survey has a flow of the newest version.  *)
(***************************************************************************)
OutcomesHold ==
    /\ component = "metric" => ToastsFollowClimbs
    /\ component = "flow"   => FlowIsCurrent

(***************************************************************************)
(* How a task proceeds that others may take over: reports are whole and    *)
(* delivered once, what a user sees of a bulk send is its progress, and a  *)
(* room that somebody archives is left to them.                            *)
(***************************************************************************)
TakeoversHold == ReportsHold /\ ProgressHolds /\ SoftLockHolds
=============================================================================
