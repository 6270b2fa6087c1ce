----------------------------- MODULE RoomWaits -----------------------------
(***************************************************************************)
(* The metrics of a room (RoomMetrics) and its automatic message.          *)
(* Whoever takes a room from its queue adds the time of that stay to       *)
(* waiting_time: routing, picks, bulk requests, transfers, the flows, and  *)
(* the closure of a room that is still queued; the first message of an     *)
(* agent has its delay stored by a task.  All of them read the row, change *)
(* the instance and save it whole.  Time is left out: waiting_time is kept *)
(* as how often each stay in the queue was added to it.                    *)
(***************************************************************************)
EXTENDS FiniteSets, Naturals

CONSTANTS
    Handovers,      \* requests and passes that write the room, numbered as they read it
    Replies,        \* messages of agents
    AtOnce,         \* bound on those that are under way together
    MaxStays,       \* bound on the stays in the queue
    MaxWaitFaults   \* bound on requests that are cut

ASSUME WaitsAssumption ==
    Handovers \subseteq Nat /\ MaxStays \in Nat \ {0}
    /\ {AtOnce, MaxWaitFaults} \subseteq Nat

VARIABLES
    handed,      \* the room: open, queued, the stay it is or was in, assigned before
    lastStay,
    metric,      \* its metrics: how often each stay was counted, first_response_time
    step,        \* where each handover is
    kind,        \* what it does
    read,        \* the room it read
    metricCopy,  \* the metrics it read
    closing,     \* close_metrics, enqueued by each handover that closes
    closingCopy, \* the metrics that task read
    greeting,    \* send_automatic_message, enqueued by each handover
    reply,       \* where each message is
    timing,      \* calculate_first_response_time_task, for each message
    greetings,   \* automatic messages of the room
    waitFaults,
    blurred,     \* history: stays whose handovers overlapped or were cut
    readTwice,   \* history: stays that a closure and its close_metrics counted at once
    blurredTime, \* history: first_response_time was overwritten, or computed early
    greetedTwice \* history: two tasks found no automatic message at once

waitHistory == <<waitFaults, blurred, readTwice, blurredTime, greetedTwice>>
chatVars == <<greeting, reply, timing, greetings>>
taskVars == <<closing, closingCopy, chatVars>>
roomVars == <<handed, lastStay, metric>>
waitVars == <<roomVars, step, kind, read, metricCopy, taskVars, waitHistory>>

Stays == 1..MaxStays
Takings == {"pick", "pass", "forward"}
Transfers == {"transfer", "reassign", "return"}
Kinds == Takings \cup Transfers \cup {"requeue", "close", "expire"}
HandedRooms == [open : BOOLEAN, queued : BOOLEAN, since : Stays, assigned : BOOLEAN]
\* first_response_time is null, 0, or the delay of the first answer.
Metrics == [counted : [Stays -> Nat], first : {"null", "zero", "time"}]

WaitsTypeOK ==
    /\ handed \in HandedRooms /\ lastStay \in Stays /\ handed.since <= lastStay
    /\ metric \in Metrics
    /\ step \in [Handovers -> {"new", "held", "saved", "counting", "over"}]
    /\ kind \in [Handovers -> Kinds]
    /\ read \in [Handovers -> HandedRooms] /\ metricCopy \in [Handovers -> Metrics]
    /\ closing \in [Handovers -> {"none", "sent", "counting", "over"}]
    /\ closingCopy \in [Handovers -> Metrics]
    /\ greeting \in [Handovers -> {"none", "sent", "checked", "over"}]
    /\ reply \in [Replies -> {"new", "inserted", "committed"}]
    /\ timing \in [Replies -> {"none", "sent", "over"}]
    /\ greetings \in Nat
    /\ waitFaults \in 0..MaxWaitFaults
    /\ blurred \subseteq Stays /\ readTwice \subseteq Stays
    /\ {blurredTime, greetedTwice} \subseteq BOOLEAN

NewRoom == [open |-> TRUE, queued |-> TRUE, since |-> 1, assigned |-> FALSE]
NoMetrics == [counted |-> [s \in Stays |-> 0], first |-> "null"]
WaitsInit ==
    /\ handed = NewRoom /\ lastStay = 1 /\ metric = NoMetrics
    /\ step = [p \in Handovers |-> "new"]
    /\ kind = [p \in Handovers |-> "pick"]
    /\ read = [p \in Handovers |-> NewRoom]
    /\ metricCopy = [p \in Handovers |-> NoMetrics]
    /\ closing = [p \in Handovers |-> "none"] /\ closingCopy = metricCopy
    /\ greeting = [p \in Handovers |-> "none"]
    /\ reply = [m \in Replies |-> "new"]
    /\ timing = [m \in Replies |-> "none"]
    /\ greetings = 0
    /\ waitFaults = 0 /\ blurred = {} /\ readTwice = {}
    /\ blurredTime = FALSE /\ greetedTwice = FALSE

Proceed(p, from, to) == step[p] = from /\ step' = [step EXCEPT ![p] = to]
Forget(p) ==
    /\ kind' = [kind EXCEPT ![p] = "pick"]
    /\ read' = [read EXCEPT ![p] = NewRoom]
    /\ metricCopy' = [metricCopy EXCEPT ![p] = NoMetrics]

-----------------------------------------------------------------------------
\* What each kind of handover asks of the room it reads.
Begin(p, k) ==
    /\ Proceed(p, "new", "held")
    /\ \A o \in Handovers : o < p => step[o] # "new"
    /\ Cardinality({o \in Handovers : step[o] \notin {"new", "over"}}) < AtOnce
    /\ handed.open
    /\ k \in Takings => handed.queued
    /\ k \in {"requeue", "expire"} => ~handed.queued
    /\ k \in {"requeue", "return"} => lastStay < MaxStays
    /\ kind' = [kind EXCEPT ![p] = k]
    /\ read' = [read EXCEPT ![p] = handed]
    /\ UNCHANGED <<roomVars, metricCopy, taskVars, waitHistory>>

\* Mutant: a room that is queued and stays so begins a new stay.
AlwaysNewStay(k, i) ==
    CASE k \in {"requeue", "return"} ->
            [i EXCEPT !.queued = TRUE, !.since = IF lastStay < MaxStays THEN lastStay + 1 ELSE @]
      [] k \in {"close", "expire"} -> [i EXCEPT !.open = FALSE]
      [] OTHER -> [i EXCEPT !.queued = FALSE, !.assigned = TRUE]

\* The instance after it: added_to_queue_at is set when a room loses its agent.
AfterHandover(k, i) ==
    CASE k \in {"requeue", "return"} /\ i.queued -> i
      [] k \in {"requeue", "return"} /\ ~i.queued ->
            [i EXCEPT !.queued = TRUE, !.since = lastStay + 1]
      [] k \in {"close", "expire"} -> [i EXCEPT !.open = FALSE]
      [] OTHER -> [i EXCEPT !.queued = FALSE, !.assigned = TRUE]

\* Room.save writes the instance; whoever wrote the room since it was read
\* had a stay that this one begins, ends or counts as well.
SaveRoom(p) ==
    LET k == kind[p]
        new == AfterHandover(k, read[p])
    IN  /\ handed.open
        /\ new.since <= MaxStays
        /\ handed' = new
        /\ lastStay' = IF new.since > lastStay THEN new.since ELSE lastStay
        /\ blurred' = blurred \cup
               (IF handed = read[p] THEN {} ELSE {handed.since, read[p].since, new.since})

\* Picks, of one room or in bulk, ask for the automatic message always,
\* routing and bulk transfers when the room never had an agent.
Greets(p) ==
    \/ kind[p] = "pick"
    \/ kind[p] \in {"pass", "transfer"} /\ ~read[p].assigned
SendGreeting(p) ==
    greeting' = IF Greets(p) THEN [greeting EXCEPT ![p] = "sent"] ELSE greeting

\* Picks, routing and forwards save the room and then count the stay.
SaveTaking(p) ==
    /\ kind[p] \in Takings
    /\ Proceed(p, "held", "saved")
    /\ SaveRoom(p) /\ SendGreeting(p)
    /\ UNCHANGED <<metric, kind, read, metricCopy, closing, closingCopy, reply, timing, greetings,
                   waitFaults, readTwice, blurredTime, greetedTwice>>

\* requeue_agent_rooms counts nothing; an expired room has its metrics in a task.
SaveOnly(p) ==
    /\ kind[p] \in {"requeue", "expire"}
    /\ Proceed(p, "held", "over")
    /\ SaveRoom(p) /\ Forget(p)
    /\ closing' = IF kind[p] = "expire" THEN [closing EXCEPT ![p] = "sent"] ELSE closing
    /\ UNCHANGED <<metric, closingCopy, chatVars, waitFaults, readTwice, blurredTime, greetedTwice>>

\* close_room enqueues close_metrics, which a worker may take up at once, and generates the
\* metrics as well.
SaveClosed(p) ==
    /\ kind[p] = "close"
    /\ Proceed(p, "held", "saved")
    /\ SaveRoom(p)
    /\ closing' = [closing EXCEPT ![p] = "sent"]
    /\ UNCHANGED <<metric, kind, read, metricCopy, closingCopy, chatVars,
                   waitFaults, readTwice, blurredTime, greetedTwice>>

RefuseHandover(p) ==
    /\ Proceed(p, "held", "over")
    /\ ~handed.open
    /\ Forget(p)
    /\ UNCHANGED <<roomVars, taskVars, waitHistory>>

\* The stay that the closure ended.
ClosingStay == IF ~handed.open /\ handed.queued THEN {handed.since} ELSE {}

ReadMetric(p) ==
    /\ \/ kind[p] \in Transfers /\ Proceed(p, "held", "counting")
       \/ kind[p] \notin Transfers /\ Proceed(p, "saved", "counting")
    /\ metricCopy' = [metricCopy EXCEPT ![p] = metric]
    /\ readTwice' = readTwice \cup (IF closing[p] = "counting" THEN ClosingStay ELSE {})
    /\ UNCHANGED <<roomVars, kind, read, taskVars, waitFaults, blurred, blurredTime, greetedTwice>>

-----------------------------------------------------------------------------
AddStay(m, s) == [m EXCEPT !.counted[s] = @ + 1]

\* Mutant: a transfer counts the wait of a room that had an agent, too.
CountsAny(p) == kind[p] \in Takings \cup {"transfer", "reassign", "close"}

\* Does it add the wait, or, as a forward, the part of it since modified_on?
\* A transfer of an agent's room adds to transfer_count instead.
CountsStay(p) ==
    \/ kind[p] \in Takings
    \/ kind[p] \in {"transfer", "reassign"} /\ read[p].queued
    \/ kind[p] = "close" /\ handed.queued

\* The row is saved whole: what was added to it since it was read is lost.
SaveMetric(m, from) ==
    /\ metric' = m
    /\ blurredTime' = (blurredTime \/ metric.first # from.first)
Overwritten(from) == {s \in Stays : metric.counted[s] # from.counted[s]}
Counted(p, s) == IF CountsStay(p) THEN AddStay(metricCopy[p], s) ELSE metricCopy[p]

WriteMetric(p) ==
    /\ kind[p] \notin Transfers
    /\ Proceed(p, "counting", "over")
    /\ SaveMetric(Counted(p, read[p].since), metricCopy[p])
    /\ blurred' = blurred
           \cup (Overwritten(metricCopy[p]) \ IF kind[p] = "close" THEN readTwice ELSE {})
    /\ Forget(p)
    /\ UNCHANGED <<handed, lastStay, taskVars, waitFaults, readTwice, greetedTwice>>

\* Transfers commit the room and its metrics together; perform_update saves
\* the metrics of every transfer, bulk transfers only if the room was queued.
CommitMove(p) ==
    /\ kind[p] \in Transfers
    /\ Proceed(p, "counting", "over")
    /\ handed.open /\ AfterHandover(kind[p], read[p]).since <= MaxStays
    /\ handed' = AfterHandover(kind[p], read[p])
    /\ lastStay' = IF handed'.since > lastStay THEN handed'.since ELSE lastStay
    /\ IF kind[p] = "transfer" /\ ~read[p].queued
       THEN UNCHANGED <<metric, blurredTime>>
       ELSE SaveMetric(Counted(p, read[p].since), metricCopy[p])
    /\ blurred' = blurred
           \cup (IF handed = read[p] THEN {} ELSE {handed.since, read[p].since, handed'.since})
           \cup (IF metric' = metric THEN {} ELSE Overwritten(metricCopy[p]))
    /\ SendGreeting(p) /\ Forget(p)
    /\ UNCHANGED <<closing, closingCopy, reply, timing, greetings,
                   waitFaults, readTwice, greetedTwice>>

RefuseMove(p) ==
    /\ kind[p] \in Transfers
    /\ Proceed(p, "counting", "over")
    /\ ~handed.open
    /\ Forget(p)
    /\ UNCHANGED <<roomVars, taskVars, waitHistory>>

\* A notification raises, or the process is killed: an open transaction is
\* rolled back, a saved room stays without its metrics, a closed one without its task too.
CutHandover(p) ==
    /\ step[p] \in {"held", "saved", "counting"}
    /\ waitFaults < MaxWaitFaults /\ waitFaults' = waitFaults + 1
    /\ step' = [step EXCEPT ![p] = "over"]
    /\ blurred' = blurred \cup (IF step[p] = "held" THEN {} ELSE {read[p].since})
    /\ closing' = closing
       \/ /\ kind[p] = "close" /\ step[p] = "saved" /\ closing[p] = "sent"
          /\ closing' = [closing EXCEPT ![p] = "none"]
    /\ Forget(p)
    /\ UNCHANGED <<roomVars, closingCopy, chatVars, readTwice, blurredTime, greetedTwice>>

-----------------------------------------------------------------------------
\* close_metrics: generate_metrics once more.
ReadClosing(p) ==
    /\ closing[p] = "sent"
    /\ closing' = [closing EXCEPT ![p] = "counting"]
    /\ closingCopy' = [closingCopy EXCEPT ![p] = metric]
    /\ readTwice' = readTwice \cup (IF step[p] = "counting" THEN ClosingStay ELSE {})
    /\ UNCHANGED <<roomVars, step, kind, read, metricCopy, chatVars,
                   waitFaults, blurred, blurredTime, greetedTwice>>

WriteClosing(p) ==
    /\ closing[p] = "counting"
    /\ closing' = [closing EXCEPT ![p] = "over"]
    /\ SaveMetric(IF handed.queued THEN AddStay(closingCopy[p], handed.since) ELSE closingCopy[p],
                  closingCopy[p])
    /\ blurred' = blurred \cup (Overwritten(closingCopy[p]) \ readTwice)
    /\ closingCopy' = [closingCopy EXCEPT ![p] = NoMetrics]
    /\ UNCHANGED <<handed, lastStay, step, kind, read, metricCopy, chatVars,
                   waitFaults, readTwice, greetedTwice>>

\* An agent's message, whose transaction enqueues the task before it commits.
InsertReply(m) ==
    /\ reply[m] = "new"
    /\ handed.open /\ ~handed.queued
    /\ reply' = [reply EXCEPT ![m] = "inserted"]
    /\ timing' = IF metric.first = "null" THEN [timing EXCEPT ![m] = "sent"] ELSE timing
    /\ UNCHANGED <<roomVars, step, kind, read, metricCopy, closing, closingCopy, greeting,
                   greetings, waitHistory>>

CommitReply(m) ==
    /\ reply[m] = "inserted"
    /\ reply' = [reply EXCEPT ![m] = "committed"]
    /\ UNCHANGED <<roomVars, step, kind, read, metricCopy, closing, closingCopy, greeting, timing,
                   greetings, waitHistory>>

Answered == \E m \in Replies : reply[m] = "committed"

\* Mutant: a task that sees no answer leaves the time to a later one.
StoreWhenSeen(m) ==
    /\ timing[m] = "sent"
    /\ timing' = [timing EXCEPT ![m] = "over"]
    /\ metric' = IF metric.first = "null" /\ Answered
                 THEN [metric EXCEPT !.first = "time"] ELSE metric
    /\ UNCHANGED <<handed, lastStay, step, kind, read, metricCopy, closing, closingCopy, greeting,
                   reply, greetings, waitHistory>>

\* The first answer has a time; without one that can be seen it is 0 for good.
StoreFirstResponse(m) ==
    /\ timing[m] = "sent"
    /\ timing' = [timing EXCEPT ![m] = "over"]
    /\ IF metric.first = "null"
       THEN /\ metric' = [metric EXCEPT !.first = IF Answered THEN "time" ELSE "zero"]
            /\ blurredTime' = (blurredTime \/ ~Answered)
       ELSE UNCHANGED <<metric, blurredTime>>
    /\ UNCHANGED <<handed, lastStay, step, kind, read, metricCopy, closing, closingCopy, greeting,
                   reply, greetings, waitFaults, blurred, readTwice, greetedTwice>>

-----------------------------------------------------------------------------
\* Mutant: only answers of agents are looked for.
CheckAnswersOnly(p) ==
    /\ greeting[p] = "sent"
    /\ greeting' = [greeting EXCEPT ![p] = IF ~handed.open \/ Answered THEN "over" ELSE "checked"]
    /\ greetedTwice' = (greetedTwice \/ \E o \in Handovers : greeting[o] = "checked")
    /\ UNCHANGED <<roomVars, step, kind, read, metricCopy, closing, closingCopy, reply, timing,
                   greetings, waitFaults, blurred, readTwice, blurredTime>>

\* No automatic message yet, and no message of an agent.
CheckGreeting(p) ==
    /\ greeting[p] = "sent"
    /\ greeting' = [greeting EXCEPT ![p] =
           IF ~handed.open \/ Answered \/ greetings > 0 THEN "over" ELSE "checked"]
    /\ greetedTwice' = (greetedTwice \/ \E o \in Handovers : greeting[o] = "checked")
    /\ UNCHANGED <<roomVars, step, kind, read, metricCopy, closing, closingCopy, reply, timing,
                   greetings, waitFaults, blurred, readTwice, blurredTime>>

Greet(p) ==
    /\ greeting[p] = "checked"
    /\ greeting' = [greeting EXCEPT ![p] = "over"]
    /\ greetings' = greetings + 1
    /\ UNCHANGED <<roomVars, step, kind, read, metricCopy, closing, closingCopy, reply, timing,
                   waitHistory>>

WaitsNext ==
    \/ \E p \in Handovers :
          \/ \E k \in Kinds : Begin(p, k)
          \/ SaveTaking(p) \/ SaveOnly(p) \/ SaveClosed(p) \/ RefuseHandover(p)
          \/ ReadMetric(p) \/ WriteMetric(p) \/ CommitMove(p) \/ RefuseMove(p) \/ CutHandover(p)
          \/ ReadClosing(p) \/ WriteClosing(p) \/ CheckGreeting(p) \/ Greet(p)
    \/ \E m \in Replies : InsertReply(m) \/ CommitReply(m) \/ StoreFirstResponse(m)

WaitsSpec == WaitsInit /\ [][WaitsNext]_waitVars

-----------------------------------------------------------------------------
HandoversDone ==
    \A p \in Handovers : step[p] \in {"new", "over"} /\ closing[p] \in {"none", "over"}
Ended(s) == s < lastStay \/ (s = lastStay /\ ~(handed.open /\ handed.queued))

(***************************************************************************)
(* Every stay in the queue is in the waiting time once, unless handovers   *)
(* overlapped or were cut.  A stay that the closure of the room ended is   *)
(* in it twice, since close_room enqueues close_metrics and does its work  *)
(* as well, or once where the two read the row at once and the later save  *)
(* overwrote the earlier (chats/apps/rooms/views.py,                       *)
(* chats/apps/dashboard/tasks.py).                                         *)
(***************************************************************************)
StaysAreCounted ==
    HandoversDone => \A s \in {t \in 1..lastStay : Ended(t)} \ blurred :
        metric.counted[s] = IF s \in ClosingStay \ readTwice THEN 2 ELSE 1

(***************************************************************************)
(* Once an agent has answered and the tasks are done, the delay of the     *)
(* first answer is stored, unless the task overtook the commit or another  *)
(* save of the metrics overlapped.                                         *)
(***************************************************************************)
ResponseIsTimed ==
    (HandoversDone /\ Answered /\ \A m \in Replies : reply[m] # "inserted" /\ timing[m] # "sent")
        => blurredTime \/ metric.first = "time"

(***************************************************************************)
(* The contact is greeted once, unless two tasks checked at once.          *)
(***************************************************************************)
GreetedOnce == greetedTwice \/ greetings <= 1

(***************************************************************************)
(* Waits and answers are measured, and the room is greeted, once.          *)
(***************************************************************************)
WaitsHold == StaysAreCounted /\ ResponseIsTimed /\ GreetedOnce
=============================================================================
