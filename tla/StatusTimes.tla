----------------------------- MODULE StatusTimes -----------------------------
(***************************************************************************)
(* How long an agent was online, in service or on a break, as others are   *)
(* told: the lengths of the CustomStatus rows, the daily log that Celery   *)
(* tasks write (projects/tasks.py), the online time the external API       *)
(* calculates from it, and the totals and labels of the dashboard.         *)
(* AgentStatus has the requests overlap; here they come one at a time and  *)
(* the tasks that log them come late.                                      *)
(***************************************************************************)
EXTENDS Naturals, Sequences, SequencesExt, Functions

CONSTANTS
    MaxClock,       \* bound on the ticks of the clock
    DayLength,      \* ticks in a day
    MaxChanges,     \* bound on the requests
    LogWorkers,     \* Celery workers
    NoTask

ASSUME TimesAssumption == MaxClock \in Nat /\ DayLength \in Nat \ {0} /\ MaxChanges \in Nat

VARIABLES
    clock,
    agentIs,        \* ProjectPermission.status
    custom,         \* the active CustomStatus row: its type and created_on
    spent,          \* break_time summed over the rows that ended, by type
    attends,        \* has the agent rooms?
    finishing,      \* has the agent gone OFFLINE by request, the rest to do?
    toLog,          \* log_agent_status_change tasks in the broker
    logging,        \* what a worker is about to append
    statusLog,      \* AgentStatusLog.status_changes, day by day
    changes,
    wasOnline,      \* history: ticks during which the agent was ONLINE
    onlineToday,    \* ... since midnight
    lived,          \* history: ticks during which a row of a type was active
    replaced,       \* history: a break was begun during another
    prompt,         \* history: every task ran before anything else happened
    unlogged        \* history: a change the log does not see

agentVars == <<agentIs, custom, spent, attends, finishing>>
logVars == <<toLog, logging, statusLog>>
timesVars ==
    <<clock, agentVars, logVars, changes, wasOnline, onlineToday, lived, replaced, prompt,
      unlogged>>

Days == 0..(MaxClock \div DayLength)
Today == clock \div DayLength
NoCustom == [type |-> "none", since |-> 0]
Entries == [state: {"ONLINE", "OFFLINE", "In-Service", "BREAK"}, at: 0..MaxClock]
LogTask == [status: {"ONLINE", "OFFLINE"}, custom: {"none", "In-Service", "BREAK"}]

TimesTypeOK ==
    /\ clock \in 0..MaxClock
    /\ agentIs \in {"ONLINE", "OFFLINE"}
    /\ custom \in [type: {"none", "In-Service", "BREAK"}, since: 0..clock]
    /\ spent \in [{"In-Service", "BREAK"} -> 0..clock]
    /\ attends \in BOOLEAN /\ finishing \in BOOLEAN
    /\ toLog \in Seq(LogTask)
    /\ logging \in [LogWorkers -> Entries \cup {NoTask}]
    /\ statusLog \in [Days -> Seq(Entries)]
    /\ changes \in 0..MaxChanges
    /\ wasOnline \in 0..clock /\ onlineToday \in 0..wasOnline
    /\ lived \in [{"In-Service", "BREAK"} -> 0..clock] /\ replaced \in BOOLEAN
    /\ prompt \in BOOLEAN /\ unlogged \in BOOLEAN

TimesInit ==
    /\ clock = 0 /\ agentIs = "OFFLINE" /\ custom = NoCustom
    /\ spent = [t \in {"In-Service", "BREAK"} |-> 0]
    /\ attends \in BOOLEAN /\ finishing = FALSE
    /\ toLog = <<>> /\ logging = [w \in LogWorkers |-> NoTask]
    /\ statusLog = [d \in Days |-> <<>>]
    /\ changes = 0 /\ wasOnline = 0 /\ onlineToday = 0
    /\ lived = spent /\ replaced = FALSE
    /\ prompt = TRUE /\ unlogged = FALSE

-----------------------------------------------------------------------------
(* The agent's status changes. *)

LoggingDone == toLog = <<>> /\ \A w \in LogWorkers : logging[w] = NoTask

Change ==
    /\ ~finishing /\ changes < MaxChanges
    /\ changes' = changes + 1
    /\ prompt' = (prompt /\ LoggingDone)
    /\ UNCHANGED <<clock, logging, statusLog, wasOnline, onlineToday, lived>>

Log(status, type) == toLog' = Append(toLog, [status |-> status, custom |-> type])

\* Mutant: the row ends and its break_time stays zero.
DeactivateOnly(row) == spent

\* A row ends with the time since created_on as its break_time.
Lengthened(row) ==
    IF row.type = "none" THEN spent ELSE [spent EXCEPT ![row.type] = @ + clock - row.since]

\* The row that follows when the agent is ONLINE, with or without rooms.
Resumed == IF attends THEN [type |-> "In-Service", since |-> clock] ELSE NoCustom

\* status endpoint: breaks end, the change is logged, In-Service is inserted.
AskOnline ==
    /\ Change
    /\ agentIs' = "ONLINE"
    /\ \/ custom.type = "In-Service" /\ UNCHANGED <<custom, spent>>
       \/ custom.type # "In-Service" /\ custom' = Resumed /\ spent' = Lengthened(custom)
    /\ Log("ONLINE", "none")
    /\ UNCHANGED <<attends, finishing, unlogged, replaced>>

\* status endpoint: the task is sent first ...
AskOffline ==
    /\ Change
    /\ agentIs' = "OFFLINE" /\ finishing' = TRUE
    /\ Log("OFFLINE", "none")
    /\ UNCHANGED <<custom, spent, attends, unlogged, replaced>>

\* ... and In-Service ends afterwards.
FinishOffline ==
    /\ finishing /\ finishing' = FALSE
    /\ \/ custom.type = "In-Service" /\ custom' = NoCustom /\ spent' = Lengthened(custom)
       \/ custom.type # "In-Service" /\ UNCHANGED <<custom, spent>>
    /\ UNCHANGED <<clock, agentIs, attends, logVars, changes, wasOnline, onlineToday, lived,
                   replaced, prompt, unlogged>>

\* The consumer's set_user_status and log; In-Service stays active.
DropConnection ==
    /\ Change
    /\ agentIs' = "OFFLINE"
    /\ Log("OFFLINE", "none")
    /\ unlogged' = (unlogged \/ custom.type = "In-Service")
    /\ UNCHANGED <<custom, spent, attends, finishing, replaced>>

\* AgentDisconnectView logs the supervisor, not the status.
Disconnected ==
    /\ Change
    /\ \/ custom.type = "BREAK" /\ custom' = NoCustom /\ spent' = Lengthened(custom)
          /\ UNCHANGED agentIs
       \/ custom.type # "BREAK" /\ agentIs' = "OFFLINE" /\ UNCHANGED <<custom, spent>>
    /\ unlogged' = (unlogged \/ agentIs' # agentIs)
    /\ UNCHANGED <<attends, finishing, toLog, replaced>>

BeginBreak ==
    /\ Change
    /\ agentIs' = "OFFLINE"
    /\ custom' = [type |-> "BREAK", since |-> clock]
    /\ spent' = Lengthened(IF custom.type = "In-Service" THEN custom ELSE NoCustom)
    /\ Log("OFFLINE", "BREAK")
    /\ replaced' = (replaced \/ custom.type = "BREAK")
    /\ UNCHANGED <<attends, finishing, unlogged>>

\* close_status, of the break that is active, with or without becoming ONLINE.
CloseStatus(online) ==
    /\ Change
    /\ custom.type = "BREAK"
    /\ spent' = Lengthened(custom)
    /\ agentIs' = IF online THEN "ONLINE" ELSE agentIs
    /\ custom' = IF agentIs' = "ONLINE" THEN Resumed ELSE NoCustom
    /\ IF online THEN Log("ONLINE", "none") ELSE UNCHANGED toLog
    /\ UNCHANGED <<attends, finishing, unlogged, replaced>>

\* room_assigned: a room created for an agent who is ONLINE.
FirstRoom ==
    /\ Change
    /\ ~attends /\ attends' = TRUE
    /\ \/ /\ agentIs = "ONLINE" /\ custom.type = "none"
          /\ custom' = [type |-> "In-Service", since |-> clock]
          /\ Log("OFFLINE", "In-Service")
       \/ /\ agentIs # "ONLINE" \/ custom.type # "none"
          /\ UNCHANGED <<custom, toLog>>
    /\ UNCHANGED <<agentIs, spent, finishing, unlogged, replaced>>

\* room_closed: the change is logged as ONLINE, whatever the agent is.
LastRoom ==
    /\ Change
    /\ attends /\ attends' = FALSE
    /\ \/ /\ custom.type = "In-Service"
          /\ custom' = NoCustom /\ spent' = Lengthened(custom)
          /\ Log("ONLINE", "none")
       \/ custom.type # "In-Service" /\ UNCHANGED <<custom, spent, toLog>>
    /\ UNCHANGED <<agentIs, finishing, unlogged, replaced>>

-----------------------------------------------------------------------------
(* log_agent_status_change. *)

\* Without a name, the row that is active now gives one.
Named(task) == IF task.custom = "none" THEN custom.type ELSE task.custom
Entry(task) ==
    [state |-> IF task.status = "ONLINE" \/ Named(task) = "none" THEN task.status ELSE Named(task),
     at |-> clock]

\* A worker takes any task of the broker, reads the row and the clock ...
StartLog(w, i) ==
    /\ logging[w] = NoTask
    /\ logging' = [logging EXCEPT ![w] = Entry(toLog[i])]
    /\ toLog' = RemoveAt(toLog, i)
    /\ prompt' = (prompt /\ i = 1 /\ ~finishing /\ \A v \in LogWorkers : logging[v] = NoTask)
    /\ UNCHANGED <<clock, agentVars, statusLog, changes, wasOnline, onlineToday, lived,
                   replaced, unlogged>>

\* Mutant: what the log says already is said again.
AppendAnyway(day, entry) == Append(statusLog[day], entry)

\* ... and appends under a lock, unless the last entry says the same.
Appended(day, entry) ==
    IF statusLog[day] # <<>> /\ Last(statusLog[day]).state = entry.state THEN statusLog[day]
    ELSE Append(statusLog[day], entry)

EndLog(w) ==
    /\ logging[w] # NoTask
    /\ LET day == logging[w].at \div DayLength
       IN  statusLog' = [statusLog EXCEPT ![day] = Appended(day, logging[w])]
    /\ logging' = [logging EXCEPT ![w] = NoTask]
    /\ UNCHANGED <<clock, agentVars, toLog, changes, wasOnline, onlineToday, lived, replaced,
                   prompt, unlogged>>

TimePasses ==
    /\ clock < MaxClock
    /\ clock' = clock + 1
    /\ wasOnline' = IF agentIs = "ONLINE" THEN wasOnline + 1 ELSE wasOnline
    /\ onlineToday' = IF clock' % DayLength = 0 THEN 0
                      ELSE onlineToday + wasOnline' - wasOnline
    /\ lived' = [t \in DOMAIN lived |-> IF custom.type = t THEN lived[t] + 1 ELSE lived[t]]
    /\ prompt' = (prompt /\ LoggingDone)
    /\ UNCHANGED <<agentVars, logVars, changes, replaced, unlogged>>

TimesNext ==
    \/ AskOnline \/ AskOffline \/ FinishOffline \/ DropConnection \/ Disconnected
    \/ BeginBreak \/ (\E online \in BOOLEAN : CloseStatus(online))
    \/ FirstRoom \/ LastRoom
    \/ \E w \in LogWorkers : EndLog(w) \/ \E i \in 1..Len(toLog) : StartLog(w, i)
    \/ TimePasses
TimesSpec == TimesInit /\ [][TimesNext]_timesVars

-----------------------------------------------------------------------------
(* What others are told. *)

\* Mutant: whoever has not left counts as online.
NotOffline(event) == event.state # "OFFLINE"

\* calculate_online_time, of events in the order of their timestamps.
IsOnline(event) == event.state \in {"ONLINE", "In-Service"}
ByTime(events) == SortSeq(events, LAMBDA e, f : e.at < f.at)
OnlineSince(events) ==
    FoldLeft(LAMBDA acc, e :
        CASE IsOnline(e) /\ acc.start = 0 -> [acc EXCEPT !.start = e.at + 1]
          [] ~IsOnline(e) /\ acc.start # 0 ->
                [start |-> 0, total |-> acc.total + e.at + 1 - acc.start]
          [] OTHER -> acc, [start |-> 0, total |-> 0], events)
OnlineTime(events) ==
    LET told == OnlineSince(ByTime(events))
    IN  IF told.start # 0 THEN told.total + clock + 1 - told.start ELSE told.total

\* build_agent_log_maps, for a period that ends today.
Logged(first) == FlattenSeq([i \in 1..(Today - first + 1) |-> statusLog[first + i - 1]])

\* calculate_in_service_time: the row that is active counts while the agent is ONLINE.
InServiceTime ==
    spent["In-Service"] +
        (IF custom.type = "In-Service" /\ agentIs = "ONLINE" THEN clock - custom.since ELSE 0)

\* agents_totals and _build_status_filter.
Bucket ==
    CASE agentIs = "ONLINE" -> "online"
      [] agentIs = "OFFLINE" /\ custom.type = "BREAK" -> "custom_breaks"
      [] OTHER -> "offline"

\* get_status: a break goes before the status, if the period asked for has its beginning.
Label(first) ==
    CASE custom.type = "BREAK" /\ custom.since >= first * DayLength -> "custom"
      [] agentIs = "ONLINE" -> "online"
      [] OTHER -> "offline"

-----------------------------------------------------------------------------
(***************************************************************************)
(* As long as the tasks run promptly and no change escapes the log, the    *)
(* online time of a period is the time the agent was ONLINE; a day on      *)
(* which the agent is ONLINE from the day before counts from its first     *)
(* change.  A lost connection with In-Service active, and a supervisor's   *)
(* disconnection, escape the log.                                          *)
(***************************************************************************)
OnlineTimeIsTrue ==
    prompt /\ LoggingDone /\ ~finishing /\ ~unlogged =>
        /\ OnlineTime(Logged(0)) = wasOnline
        /\ OnlineTime(Logged(Today)) <= onlineToday

(***************************************************************************)
(* Whatever the order of the tasks: a day's log has no entry twice in a    *)
(* row, and its entries are of the day.                                    *)
(***************************************************************************)
LogInOrder ==
    \A d \in Days : \A i \in 1..Len(statusLog[d]) :
        /\ statusLog[d][i].at \div DayLength = d
        /\ i > 1 => statusLog[d][i].state # statusLog[d][i - 1].state

(***************************************************************************)
(* And nobody was online for longer than the period took.                  *)
(***************************************************************************)
OnlineTimeIsBounded ==
    /\ OnlineTime(Logged(0)) <= clock
    /\ OnlineTime(Logged(Today)) <= clock - Today * DayLength

(***************************************************************************)
(* No time in service or on a break is lost or told twice, however the     *)
(* statuses follow on each other: what the ended rows add up to, with the  *)
(* time of the active one, is the time spent.  The exception is a break    *)
(* begun during another, which is deactivated with its length at zero; and *)
(* service while OFFLINE is told only when it has ended.                   *)
(***************************************************************************)
TimesAddUp ==
    LET total(t) == spent[t] + (IF custom.type = t THEN clock - custom.since ELSE 0)
    IN  /\ total("In-Service") = lived["In-Service"]
        /\ ~replaced => total("BREAK") = lived["BREAK"]
        /\ InServiceTime <= lived["In-Service"]

(***************************************************************************)
(* The label beside an agent and the total the agent is counted in say the *)
(* same, but for an agent ONLINE during a break and for a break that began *)
(* before the period.                                                      *)
(***************************************************************************)
StatusIsTold ==
    \A first \in 0..Today :
        ~(agentIs = "ONLINE" /\ custom.type = "BREAK")
        /\ (custom.type # "BREAK" \/ custom.since >= first * DayLength) =>
            Bucket = IF Label(first) = "custom" THEN "custom_breaks" ELSE Label(first)

(***************************************************************************)
(* The log and the rows that an agent's time is told from, and the label   *)
(* that goes with it.                                                      *)
(***************************************************************************)
TimesHold == LogInOrder /\ TimesAddUp /\ StatusIsTold
OnlineTimeHolds == OnlineTimeIsTrue /\ OnlineTimeIsBounded
=============================================================================
