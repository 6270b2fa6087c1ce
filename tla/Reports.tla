------------------------------- MODULE Reports -------------------------------
(***************************************************************************)
(* Reports built in the background: those of the dashboard                 *)
(* (process_pending_reports, chats/apps/dashboard/tasks.py) and the export *)
(* of a closed room (generate_room_export and process_pending_room_exports,*)
(* chats/apps/rooms/tasks.py).  A row of ReportStatus is claimed under a   *)
(* row lock; an attempt writes the parts of its two tables to the storage, *)
(* a part per chunk of rows, combines them, removes them, delivers the     *)
(* file and marks the row.  An attempt that dies leaves the row            *)
(* "in_progress" and its parts behind: ten minutes later another worker    *)
(* takes the row over and resumes after the parts it finds.                *)
(***************************************************************************)
EXTENDS Celery, FiniteSetsExt, Integers

CONSTANTS
    Reports,          \* identities of rows, numbered in order of creation
    Exports,          \* those of type room_export; the others are custom_dashboard
    ChunksOf,         \* how many parts each of the two tables of a report has
    MaxRetryCount,    \* ReportStatus.MAX_RETRY_COUNT
    MaxReportFaults,  \* bound on the workers killed and on the calls that fail
    MaxOutlived       \* bound on ten minutes that pass with a worker at the report

ASSUME ReportsAssumption ==
    /\ Reports \subseteq Nat
    /\ Exports \subseteq Reports
    /\ ChunksOf \in [1..2 -> Nat]
    /\ MaxRetryCount \in Nat \ {0}
    /\ MaxReportFaults \in Nat /\ MaxOutlived \in Nat
    /\ Nothing \notin Reports

\* "rooms" and "agent_status_logs", in the order they are written.
Tables == 1..2

\* A part: its table, its chunk, and how often its name was taken before.
Parts == Tables \X Nat \X Nat

VARIABLES
    reportStatus,   \* "none" before the row exists
    retryCount,     \* retry_count
    reportStale,    \* was the row last modified more than ten minutes ago?
    parts,          \* the part files of each report in the storage
    admitted,       \* requests that found no active report, by type
    exportTasks,    \* reports with a message of generate_room_export
    doing,          \* where each worker is
    report,         \* the report it works on
    attempt,        \* retry_count in its copy of the row
    table,          \* the table it is at
    next,           \* the next chunk to write
    todo,           \* the parts it still has to remove
    harmed,         \* are rows missing or repeated in what it has combined?
    sent,           \* reports delivered
    damaged,        \* reports delivered with rows missing or repeated
    resent,         \* reports delivered again
    blame,          \* what went wrong with each report before
    reportFaults,   \* faults so far
    timesOutlived   \* how often a row grew stale with a worker at it

reportVars == <<reportStatus, retryCount, reportStale, parts, admitted, exportTasks,
                doing, report, attempt, table, next, todo, harmed,
                sent, damaged, resent, blame, reportFaults, timesOutlived>>

rowVars == <<reportStatus, retryCount, reportStale>>
requestVars == <<admitted, exportTasks>>
outcomeVars == <<sent, damaged, resent, timesOutlived>>

Finished == {"ready", "permanently_failed"}
Statuses == {"none", "pending", "in_progress", "failed"} \cup Finished
Places == {"idle", "list", "write", "combine", "cleanup", "render",
           "deliver", "finish", "discard", "give_up"}
Blames == {"outlived", "moved", "holed", "cut_after_sending"}

PartsOf(r, t) == {p \in parts[r] : p[1] = t}

\* The chunks 0, 1, ... without a gap, each once: a prefix of the table.
IsPrefix(ps, t) ==
    {p \in ps : p[1] = t} = {<<t, i, 0>> : i \in 0..(Cardinality({p \in ps : p[1] = t}) - 1)}

Whole(ps) == ps = {p \in Tables \X (0..ChunksOf[1] + ChunksOf[2]) \X {0} : p[2] < ChunksOf[p[1]]}

ReportsTypeOK ==
    /\ reportStatus \in [Reports -> Statuses]
    /\ retryCount \in [Reports -> 0..MaxRetryCount]
    /\ reportStale \in [Reports -> BOOLEAN]
    /\ \A r \in Reports : parts[r] \subseteq Parts
    /\ admitted \in [BOOLEAN -> Nat]
    /\ exportTasks \subseteq Exports
    /\ doing \in [Workers -> Places]
    /\ report \in [Workers -> Reports \cup {Nothing}]
    /\ \A w \in Workers : doing[w] = "idle" <=> report[w] = Nothing
    /\ attempt \in [Workers -> 0..MaxRetryCount]
    /\ table \in [Workers -> Tables]
    /\ next \in [Workers -> Nat]
    /\ harmed \in [Workers -> BOOLEAN]
    /\ sent \subseteq Reports /\ damaged \subseteq sent /\ resent \subseteq sent
    /\ blame \in [Reports -> SUBSET Blames]
    /\ reportFaults \in 0..MaxReportFaults /\ timesOutlived \in 0..MaxOutlived

ReportsInit ==
    /\ reportStatus = [r \in Reports |-> "none"]
    /\ retryCount = [r \in Reports |-> 0]
    /\ reportStale = [r \in Reports |-> FALSE]
    /\ parts = [r \in Reports |-> {}]
    /\ admitted = [export \in BOOLEAN |-> 0]
    /\ exportTasks = {}
    /\ doing = [w \in Workers |-> "idle"]
    /\ report = [w \in Workers |-> Nothing]
    /\ attempt = [w \in Workers |-> 0]
    /\ table = [w \in Workers |-> 1]
    /\ next = [w \in Workers |-> 0]
    /\ todo = [w \in Workers |-> {}]
    /\ harmed = [w \in Workers |-> FALSE]
    /\ sent = {} /\ damaged = {} /\ resent = {}
    /\ blame = [r \in Reports |-> {}]
    /\ reportFaults = 0 /\ timesOutlived = 0

workVars == <<doing, report, attempt, table, next, todo, harmed>>

OfType(export) == IF export THEN Exports ELSE Reports \ Exports

\* What a request takes for an active report of its type.  The dashboard asks
\* for the statuses "pending" and "processing", and no row is ever "processing".
Active(export) ==
    IF export THEN {"pending", "in_progress"} ELSE {"pending"}

\* The check and the creation of the row are two statements of the request.
AdmitReport(export) ==
    /\ \A r \in OfType(export) : reportStatus[r] \notin Active(export)
    /\ admitted[export] < Cardinality(OfType(export))
    /\ admitted' = [admitted EXCEPT ![export] = @ + 1]
    /\ UNCHANGED <<rowVars, parts, exportTasks, workVars, outcomeVars, blame, reportFaults>>

CreateReport(export) ==
    \E r \in OfType(export) :
        /\ admitted[export] > 0
        /\ reportStatus[r] = "none"
        /\ \A q \in OfType(export) : reportStatus[q] = "none" => r <= q
        /\ admitted' = [admitted EXCEPT ![export] = @ - 1]
        /\ reportStatus' = [reportStatus EXCEPT ![r] = "pending"]
        /\ exportTasks' = IF export THEN exportTasks \cup {r} ELSE exportTasks
        /\ UNCHANGED <<retryCount, reportStale, parts, workVars, outcomeVars, blame, reportFaults>>

\* The row of w's report is saved; auto_now stamps modified_on.
Save(w, status, count) ==
    /\ reportStatus' = [reportStatus EXCEPT ![report[w]] = status]
    /\ retryCount' = [retryCount EXCEPT ![report[w]] = count]
    /\ reportStale' = [reportStale EXCEPT ![report[w]] = FALSE]

Idle(w) ==
    /\ doing' = Moved(doing, w, "idle")
    /\ report' = [report EXCEPT ![w] = Nothing]
    /\ attempt' = [attempt EXCEPT ![w] = 0]
    /\ table' = [table EXCEPT ![w] = 1]
    /\ next' = [next EXCEPT ![w] = 0]
    /\ todo' = [todo EXCEPT ![w] = {}]
    /\ harmed' = [harmed EXCEPT ![w] = FALSE]

Reaches(w, place) ==
    /\ doing' = Moved(doing, w, place)
    /\ UNCHANGED <<report, attempt>>

\* A worker takes report r: its row becomes in_progress under the row lock.
Claim(w, r) ==
    /\ doing[w] = "idle"
    /\ doing' = Moved(doing, w, IF r \in Exports THEN "render" ELSE "list")
    /\ report' = [report EXCEPT ![w] = r]
    /\ attempt' = [attempt EXCEPT ![w] = retryCount[r]]
    /\ reportStatus' = [reportStatus EXCEPT ![r] = "in_progress"]
    /\ reportStale' = [reportStale EXCEPT ![r] = FALSE]
    /\ blame' = [blame EXCEPT ![r] =
                    IF \E v \in Workers : report[v] = r THEN @ \cup {"outlived"} ELSE @]
    /\ UNCHANGED <<retryCount, parts, admitted, table, next, todo, harmed, outcomeVars, reportFaults>>

\* Mutant: a row left in_progress is never taken over.
EligibleUnlessStuck(export) ==
    {r \in OfType(export) : /\ reportStatus[r] \in {"pending", "failed"}
                            /\ retryCount[r] < MaxRetryCount}

Eligible(export) ==
    {r \in OfType(export) : /\ \/ reportStatus[r] \in {"pending", "failed"}
                               \/ reportStatus[r] = "in_progress" /\ reportStale[r]
                            /\ retryCount[r] < MaxRetryCount}

\* process_pending_reports and process_pending_room_exports: the oldest first.
SelectReport(w, export) ==
    /\ Eligible(export) # {}
    /\ Claim(w, Min(Eligible(export)))
    /\ UNCHANGED exportTasks

\* generate_room_export, sent by the request itself.
StartExport(w, r) ==
    /\ r \in exportTasks
    /\ reportStatus[r] \in {"pending", "failed"}
    /\ exportTasks' = exportTasks \ {r}
    /\ Claim(w, r)

\* Somebody has the export already, or it is done.
SkipExport(w, r) ==
    /\ doing[w] = "idle"
    /\ r \in exportTasks
    /\ reportStatus[r] \notin {"pending", "failed"}
    /\ exportTasks' = exportTasks \ {r}
    /\ UNCHANGED <<rowVars, parts, admitted, workVars, outcomeVars, blame, reportFaults>>

\* Mutant: the files of both tables are counted.
ListAllParts(w) ==
    /\ doing[w] = "list"
    /\ next' = [next EXCEPT ![w] = Cardinality(parts[report[w]])]
    /\ Reaches(w, "write")
    /\ UNCHANGED <<rowVars, parts, requestVars, table, todo, harmed, outcomeVars, blame, reportFaults>>

\* As many parts as there are files of this table count as written.
ListParts(w) ==
    /\ doing[w] = "list"
    /\ next' = [next EXCEPT ![w] = Cardinality(PartsOf(report[w], table[w]))]
    /\ Reaches(w, "write")
    /\ UNCHANGED <<rowVars, parts, requestVars, table, todo, harmed, outcomeVars, blame, reportFaults>>

\* The rows that the query of a dashboard report finds change while its parts are
\* there.  Each part is a query of its own, so rows are missed or repeated, or not,
\* and there is a part more or less; which rows, is ReportPages of Dashboard.
RowsMove(r) ==
    /\ r \notin Exports
    /\ parts[r] # {} \/ \E w \in Workers : report[w] = r /\ doing[w] = "write"
    /\ "moved" \notin blame[r]
    /\ blame' = [blame EXCEPT ![r] = @ \cup {"moved"}]
    /\ UNCHANGED <<rowVars, parts, requestVars, workVars, outcomeVars, reportFaults>>

Moving(w) == "moved" \in blame[report[w]]

\* A name that is taken gets a suffix (AWS_S3_FILE_OVERWRITE is off): the copy
\* is one more part.  The heartbeat stamps modified_on after each part.
WritePart(w) ==
    LET r == report[w]
        copies == {p \in PartsOf(r, table[w]) : p[2] = next[w]}
    IN  /\ doing[w] = "write"
        /\ next[w] < ChunksOf[table[w]] + (IF Moving(w) THEN 1 ELSE 0)
        /\ parts' = [parts EXCEPT ![r] = @ \cup {<<table[w], next[w], Cardinality(copies)>>}]
        /\ next' = [next EXCEPT ![w] = @ + 1]
        /\ reportStale' = [reportStale EXCEPT ![r] = FALSE]
        /\ UNCHANGED <<reportStatus, retryCount, requestVars, doing, report, attempt, table,
                       todo, harmed, outcomeVars, blame, reportFaults>>

TableWritten(w) ==
    /\ doing[w] = "write"
    /\ next[w] >= ChunksOf[table[w]] \/ Moving(w)
    /\ next' = [next EXCEPT ![w] = 0]
    /\ table' = [table EXCEPT ![w] = 2]
    /\ Reaches(w, IF table[w] = 1 THEN "list" ELSE "combine")
    /\ UNCHANGED <<rowVars, parts, requestVars, todo, harmed, outcomeVars, blame, reportFaults>>

\* Whether rows are missing or repeated in the parts that there are.
Harms(w) == IF Moving(w) THEN BOOLEAN ELSE {~Whole(parts[report[w]])}

\* Mutant: the row is marked before the file is out.
CombineAndMark(w) ==
    /\ doing[w] = "combine"
    /\ \E harm \in Harms(w) : harmed' = [harmed EXCEPT ![w] = harm]
    /\ todo' = [todo EXCEPT ![w] = PartsOf(report[w], 1)]
    /\ table' = [table EXCEPT ![w] = 1]
    /\ Reaches(w, "cleanup")
    /\ Save(w, "ready", attempt[w])
    /\ UNCHANGED <<parts, requestVars, next, outcomeVars, blame, reportFaults>>

\* _finalize_from_all_parts, after which _cleanup_parts lists the first table.
Combine(w) ==
    /\ doing[w] = "combine"
    /\ \E harm \in Harms(w) : harmed' = [harmed EXCEPT ![w] = harm]
    /\ todo' = [todo EXCEPT ![w] = PartsOf(report[w], 1)]
    /\ table' = [table EXCEPT ![w] = 1]
    /\ Reaches(w, "cleanup")
    /\ UNCHANGED <<rowVars, parts, requestVars, next, outcomeVars, blame, reportFaults>>

\* Parts go one by one, in the order of their names.  A failure is ignored.
RemovePart(w) ==
    LET chunk == Min({p[2] : p \in todo[w]})
        copy == Min({p[3] : p \in {q \in todo[w] : q[2] = chunk}})
        p == <<table[w], chunk, copy>>
    IN  /\ At(doing, w, {"cleanup", "discard"})
        /\ todo[w] # {}
        /\ todo' = [todo EXCEPT ![w] = @ \ {p}]
        /\ \/ parts' = [parts EXCEPT ![report[w]] = @ \ {p}] /\ UNCHANGED reportFaults
           \/ /\ reportFaults < MaxReportFaults
              /\ reportFaults' = reportFaults + 1
              /\ UNCHANGED parts
        /\ UNCHANGED <<rowVars, requestVars, doing, report, attempt, table, next, harmed,
                       outcomeVars, blame>>

TableRemoved(w) ==
    /\ At(doing, w, {"cleanup", "discard"})
    /\ todo[w] = {}
    /\ IF table[w] = 1
       THEN /\ table' = [table EXCEPT ![w] = 2]
            /\ todo' = [todo EXCEPT ![w] = PartsOf(report[w], 2)]
            /\ UNCHANGED <<doing, report, attempt>>
       ELSE /\ Reaches(w, IF doing[w] = "cleanup" THEN "deliver" ELSE "give_up")
            /\ UNCHANGED <<table, todo>>
    /\ UNCHANGED <<rowVars, parts, requestVars, next, harmed, outcomeVars, blame, reportFaults>>

\* The export of a room is built in memory.
RenderExport(w) ==
    /\ doing[w] = "render"
    /\ Reaches(w, "deliver")
    /\ UNCHANGED <<rowVars, parts, requestVars, table, next, todo, harmed, outcomeVars, blame, reportFaults>>

\* The file is saved and sent by e-mail.
Deliver(w) ==
    LET r == report[w]
    IN  /\ doing[w] = "deliver"
        /\ sent' = sent \cup {r}
        /\ resent' = IF r \in sent THEN resent \cup {r} ELSE resent
        /\ damaged' = IF harmed[w] /\ r \notin Exports THEN damaged \cup {r} ELSE damaged
        /\ Reaches(w, "finish")
        /\ UNCHANGED <<rowVars, parts, requestVars, table, next, todo, harmed, blame, reportFaults,
                       timesOutlived>>

\* An e-mail of the dashboard that fails is logged, and the report is ready.
LoseMail(w) ==
    /\ reportFaults < MaxReportFaults
    /\ reportFaults' = reportFaults + 1
    /\ doing[w] = "deliver"
    /\ report[w] \notin Exports
    /\ Reaches(w, "finish")
    /\ UNCHANGED <<rowVars, parts, requestVars, table, next, todo, harmed, outcomeVars, blame>>

\* Mutant: the status is set on the object and the object is not saved.
FinishUnsaved(w) ==
    /\ doing[w] = "finish"
    /\ Idle(w)
    /\ UNCHANGED <<rowVars, parts, requestVars, outcomeVars, blame, reportFaults>>

FinishReport(w) ==
    /\ doing[w] = "finish"
    /\ Save(w, "ready", IF report[w] \in Exports THEN retryCount[report[w]] ELSE attempt[w])
    /\ Idle(w)
    /\ UNCHANGED <<parts, requestVars, outcomeVars, blame, reportFaults>>

Blame(r, cause) == [blame EXCEPT ![r] = @ \cup cause]

\* What an attempt that ends here leaves behind.
Leftovers(w) ==
    (IF \E t \in Tables : ~IsPrefix(parts[report[w]], t) THEN {"holed"} ELSE {})
    \cup (IF doing[w] = "finish" THEN {"cut_after_sending"} ELSE {})

\* A part that w has listed is gone when it is opened.
PartIsGone(w) ==
    /\ doing[w] = "combine"
    /\ \E v \in Workers : report[v] = report[w] /\ At(doing, v, {"cleanup", "discard"})

\* An exception: the last attempt removes the parts before it gives up.
FailReport(w) ==
    /\ \/ PartIsGone(w) /\ UNCHANGED reportFaults
       \/ /\ reportFaults < MaxReportFaults
          /\ reportFaults' = reportFaults + 1
          /\ \/ At(doing, w, {"list", "write", "combine", "render", "finish"})
             \/ doing[w] = "deliver" /\ report[w] \in Exports
    /\ blame' = Blame(report[w], Leftovers(w))
    /\ IF attempt[w] + 1 >= MaxRetryCount /\ report[w] \notin Exports
       THEN /\ Reaches(w, "discard")
            /\ table' = [table EXCEPT ![w] = 1]
            /\ todo' = [todo EXCEPT ![w] = PartsOf(report[w], 1)]
       ELSE Reaches(w, "give_up") /\ UNCHANGED <<table, todo>>
    /\ UNCHANGED <<rowVars, parts, requestVars, next, harmed, outcomeVars>>

GiveUp(w) ==
    /\ doing[w] = "give_up"
    /\ Save(w, IF attempt[w] + 1 >= MaxRetryCount THEN "permanently_failed" ELSE "failed",
            attempt[w] + 1)
    /\ Idle(w)
    /\ UNCHANGED <<parts, requestVars, outcomeVars, blame, reportFaults>>

\* A killed worker leaves the row in_progress.
KillReport(w) ==
    /\ reportFaults < MaxReportFaults
    /\ reportFaults' = reportFaults + 1
    /\ doing[w] # "idle"
    /\ blame' = Blame(report[w], Leftovers(w))
    /\ Idle(w)
    /\ UNCHANGED <<rowVars, parts, requestVars, outcomeVars>>

\* Ten minutes pass since the row was modified, with its worker gone or alive: it
\* stamps the row after every part and not while it lists, combines, removes the
\* parts, uploads or sends the e-mail, nor in an export.
GrowStale(r) ==
    /\ reportStatus[r] = "in_progress"
    /\ ~reportStale[r]
    /\ reportStale' = [reportStale EXCEPT ![r] = TRUE]
    /\ IF \E w \in Workers : report[w] = r
       THEN timesOutlived < MaxOutlived /\ timesOutlived' = timesOutlived + 1
       ELSE UNCHANGED timesOutlived
    /\ UNCHANGED <<reportStatus, retryCount, parts, requestVars, workVars, sent, damaged, resent,
                   blame, reportFaults>>

ReportStep(w) ==
    \/ ListParts(w) \/ WritePart(w) \/ TableWritten(w) \/ Combine(w) \/ RemovePart(w)
    \/ TableRemoved(w) \/ RenderExport(w) \/ Deliver(w) \/ FinishReport(w) \/ GiveUp(w)

TakeReport(w) ==
    \/ \E export \in BOOLEAN : SelectReport(w, export)
    \/ \E r \in Exports : StartExport(w, r) \/ SkipExport(w, r)

ReportsNext ==
    \/ \E export \in BOOLEAN : AdmitReport(export) \/ CreateReport(export)
    \/ \E w \in Workers : TakeReport(w) \/ ReportStep(w) \/ LoseMail(w) \/ FailReport(w) \/ KillReport(w)
    \/ \E r \in Reports : GrowStale(r) \/ RowsMove(r)

ReportsSpec == ReportsInit /\ [][ReportsNext]_reportVars

(***************************************************************************)
(* Celery beat starts the two periodic tasks every twenty seconds, a task  *)
(* that is running goes on, and time passes.  Nothing has to fail.         *)
(***************************************************************************)
ReportsFairness ==
    /\ \A export \in BOOLEAN : WF_reportVars(\E w \in Workers : SelectReport(w, export))
    /\ \A w \in Workers : WF_reportVars(ReportStep(w))
    /\ \A r \in Reports : WF_reportVars(GrowStale(r))

-----------------------------------------------------------------------------
(***************************************************************************)
(* A report is delivered with every row of both tables, each once, however *)
(* often its attempts were cut and resumed: unless an attempt ended in the *)
(* middle of removing the parts (_cleanup_parts runs before the delivery), *)
(* was taken over alive, or rows came or went while the parts were there.  *)
(***************************************************************************)
DeliveredWhole == \A r \in damaged : blame[r] \cap {"holed", "outlived", "moved"} # {}

(***************************************************************************)
(* Nobody receives a report twice, although two tasks compete for an       *)
(* export and attempts are repeated: unless an attempt ended between the   *)
(* delivery and the save of the row, or outlived the ten minutes.          *)
(***************************************************************************)
DeliveredOnce == \A r \in resent : blame[r] \cap {"cut_after_sending", "outlived"} # {}

(***************************************************************************)
(* A report that is ready or has failed for good is not taken up again,    *)
(* unless a worker that had outlived the ten minutes saves its copy late.  *)
(***************************************************************************)
FinishedStays ==
    [][\A r \in Reports :
          /\ reportStatus[r] \in Finished
          /\ "outlived" \notin blame[r]
          => reportStatus'[r] = reportStatus[r]]_reportVars

(***************************************************************************)
(* Every report is ready or failed for good in the end, whoever was killed *)
(* while at it: a row left in_progress is taken over, and each failure     *)
(* counts towards MAX_RETRY_COUNT.                                         *)
(***************************************************************************)
ReportEnds ==
    \A r \in Reports : reportStatus[r] = "pending" ~> reportStatus[r] \in Finished

(***************************************************************************)
(* A report is delivered whole and once, and what is finished stays so,    *)
(* however two tasks compete for it and however often it is resumed        *)
(* (generate_room_export and process_pending_reports).                     *)
(***************************************************************************)
ReportsHold == []DeliveredWhole /\ []DeliveredOnce /\ FinishedStays
=============================================================================
