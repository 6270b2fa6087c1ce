# Chats Engine: a TLA+ model of its concurrent core

Chats Engine is a Django service. Customers' conversations ("rooms") come in
from flows, wait in the queues of sectors, and are assigned to human agents,
who work over websockets. Requests, websocket consumers, Celery workers and the
Celery beat all change the same few database rows, mostly by reading a row,
deciding on the copy and saving it. The repository's tests run one of them at a
time. This project models the places where they meet, checks the models with
TLC on small instances, and proves what matters most with TLAPS for every
instance.

Paths below are relative to `src/chats/apps/` unless they begin with `src/`.

## 1. Inventory

| Part | State | Operations | What must hold |
|---|---|---|---|
| Routing tasks (`queues/tasks.py`, `queues/utils.py`) | cooldown key and pending key per queue or sector (Redis), messages in the broker | `start_queue_priority_routing`, `route_queue_rooms`, `route_sector_rooms` | passes under one key do not overlap; no request for routing is lost; a killed worker does not stop routing |
| Routing passes (`queues/services.py`, `queues/models.py`, `queues/usecases/`) | `Room.user`, `Room.queue`, `Room.is_active` | `QueueRouterService.route_rooms` | an agent's limit; a room is routed once; closed rooms stay closed |
| Rooms (`rooms/models.py`, `rooms/views.py`, `rooms/services.py`, `api/v1/rooms/`) | the room's row | save, close, pick, transfer, requeue, custom fields | updates are not lost in ways users can see |
| Bulk requests (`api/v1/rooms/services/`) | the same rows, the queues that changed, tickets of the flows | take, transfer and close many rooms in batches | every change is routed and counted; the flows learn of it |
| Creation of rooms (`api/v1/external/rooms/`, `rooms/usecases/resolve_room_user.py`) | contacts, rooms, row locks | `RoomFlowSerializer.create` in one transaction | one open room per contact; the queue's limit; no deadlock; no room is left waiting beside a free agent |
| Flow starts (`api/v1/projects/viewsets.py`, `api/v1/external/rooms/`, `rooms/models.py`) | `FlowStart`, `Room.is_waiting`, `request_callback`, the key of the 24 hours | start a flow from a room or for a contact, ticket, message | one start waits for a room; its ticket goes to that room; a message is refused only outside of the 24 hours |
| Details of a room (`api/v1/rooms/`, `rooms/models.py`) | tags, notes, their messages and files | tag, note, upload, delete, transfer, close | tags are of the room's sector; a note keeps its message; files have a limit |
| Inactivity (`rooms/usecases/inactivity.py`, `rooms/tasks.py`) | `is_inactive`, `last_interaction`, `last_message_*`, a Redis lock | warn, close, reset | only abandoned rooms are closed; abandoned rooms are closed; ticks do not overlap |
| Metrics of a room (`RoomMetrics`, `api/v1/rooms/viewsets.py`, `dashboard/utils.py`) | waiting time, first response, automatic message | every handover, closing, the task of the first response | each wait is counted once; the first answer is timed; one greeting |
| Lists of rooms (`api/v1/rooms/`, `api/v1/permissions.py`) | rows of rooms, queues, authorizations, members | list, counts, pins, history, permission classes | who is shown a room may act on it; no room is out of everyone's sight |
| Presence (`api/websockets/rooms/consumers/agent.py`) | `ProjectPermission.status`, `last_seen`, channel groups, the answer key in the cache | connect, ping, ping timeout, disconnect with or without the connection check | who has left is OFFLINE; who died is not offered rooms |
| Agent status (`projects/usecases/status_service.py`, `api/v1/projects/`, `api/v1/internal/`) | `CustomStatus` rows | breaks, In-Service, status requests, forced disconnection | a break is not replaced; In-Service follows the rooms |
| Time of an agent (`projects/tasks.py`, `api/v1/external/agents/`) | `AgentStatusLog`, lengths of the statuses | log tasks, online time, totals and labels | what is told of an agent is what happened |
| Dashboards (`api/v1/dashboard/`, `api/v1/internal/dashboard/`) | rooms, metrics, surveys, agents | totals, lists, averages, scores, exports, what a report selects | the figures of one page agree with each other, and with the report |
| Reports and room export (`dashboard/tasks.py`, `rooms/tasks.py`) | `ReportStatus`, part files in the storage | request, claim, write, resume, deliver, give up | whole, once, and some day |
| Metric goals (`dashboard/services/metric_goal_alerts.py`) | a state key and an alert key per widget (Redis) | sweep, notify | one toast per climb; the widget shows the truth in the end |
| Messages (`msgs/usecases/`, `msgs/consumers/`) | messages, a Redis key per `request_id`, batches of statuses in memory | creation by agents with repetition, delivery reports | one message per request; a status that came is recorded |
| Bulk sends (`msgs/tasks.py`, `msgs/usecases/`) | `BulkMessageSend`, an outcome row per room, a progress key and a pending key | dispatch, send, count, close | a send ends; its progress never falls and is shown to the end |
| Archiving (`archive_chats/`) | `RoomArchivedConversation`, files in S3, messages | claim, upload, delete, retry | no message is deleted that was not uploaded; a room is archived in the end |
| Survey flow (`csat/tasks.py`, `csat/services.py`) | `CSATFlowProjectConfig`, its cached uuid, the flow in another service | create, update by command, start | the row says which flow is there |
| Survey (`csat/flows/`, `api/v1/internal/csat/`) | a contact's place in the flow, `CSATSurvey` | question, reply, second attempt, comment, posts and their repetition | the rating is the one that was meant; an accepted answer is kept |
| Setup of projects (`projects/consumers/`, `sectors/consumers`) | project, sectors, queues, permissions, config | messages of RabbitMQ, redelivered after a crash | a project that was announced is set up whole, once |
| Removal of agents (`projects/consumers/`, `event_driven/`, `projects/models/signals.py`) | `ProjectPermission.is_deleted`, queue authorizations, orders in RabbitMQ | remove, restore, requeue rooms | a removed agent has nothing left; the last order wins |
| Queues and topics (`api/v1/queues/`, `queues/usecases/`, `projects/usecases/integrate_ticketers.py`) | rows here, topics in the flows | create, bulk create, integrate, delete with its rooms | the two agree; no topic twice; no open room in a deleted queue |
| Groups of sectors (`sectors/usecases/`) | authorizations per member and queue | join, leave, link, unlink | members, and only members, reach the group's queues |
| Settings of a sector (`api/v1/sectors/`) | limits, texts, config, tags, holidays | overlapping updates | settings stay valid and are kept |
| Working hours (`sectors/utils.py`, `sectors/models.py`) | `Sector.working_hours`, `SectorHoliday`, a cache entry per day | edit, validate | rooms are admitted when the sector is open |
| Pins (`rooms/models.py`) | `RoomPin` | pin, unpin, transfer, close | limit; a pin belongs to the room's agent |
| Discussions (`discussions/`) | `Discussion`, `DiscussionUser` | open, add, leave the queue, close, rewrite | limit; one open discussion per room; the queue offers only lone ones |
| History summaries (`ai_features/history_summary/`) | `HistorySummary` rows of a room | request, generate, give up, show, rate | a written summary is kept; the agent rates what he is shown |
| Transcription (`ai_features/audio_transcription/`) | `AudioTranscription`, unique per audio | ask, retry, call, notify | one call at a time; done stays done |
| Message improvement, clients of models and services | - | single calls | - |
| Users (`accounts/`, `src/chats/core/cache_utils.py`) | `User`, two keys per address (Redis) | login, registration, language, lookup | the keys follow the row; no update is lost |
| Config of projects (`projects/models/`, `src/chats/core/cache_utils.py`, `api/v1/internal/rest_clients/`) | `Project.config`, its key (Redis), the token of the flows | read, update, promote, call the flows | the key follows the row; one principal; an old token is renewed |
| Feedbacks (`feedbacks/`) | `UserFeedback`, the last showing, a counter of the day and the dates of a survey (Redis) | ask whether to show, create | asked seldom enough; one answer per survey |
| Contacts, quick messages, feature flags and versions, infrastructure | configuration and records | sequential CRUD, queries, tokens | - |

How the parts interact:

- **Calls and messages.** Closing, creating, transferring or requeueing a room,
  and an agent becoming available, call `start_queue_priority_routing`, which
  sends a Celery message. A routing pass saves rooms. `Room.save` and
  `Room.close` call the In-Service service, which writes `CustomStatus`.
- **Shared rows.** The room's row is saved as a whole by passes, handlers and
  the inactivity task; so are `RoomMetrics`, sectors and permissions by theirs.
  The agent's status is written by consumers, requests and administrators, and
  read by passes.
- **Callbacks.** An agent's message calls a URL of the flows before the room is
  updated. Consumers of one agent ask each other through the channel layer.
- **Other services.** Topics, tickets and the survey's flow are kept in the
  flows as well, by calls that may be refused or lost. Orders come from RabbitMQ
  at least once.

What is hard: PostgreSQL runs at READ COMMITTED and most requests are not
atomic, so every read that is followed by a write may be stale. Celery
acknowledges a task before it runs, so a killed worker loses it. Locks in Redis
expire and are, for the routing, deleted by whoever finishes. Answers come
through the channel layer after any delay. `PROJECT.json` lists each of these
hazards at its line.

## 2. Modules

| Module | Models |
|---|---|
| `RoutingService` | abstract: what the routing tasks promise to their callers |
| `RouteTask` | the tasks: keys, messages, countdown, workers, crashes |
| `RoomAssignment` | routing passes and handlers on the rooms of one sector |
| `RoomIntake` | the transaction that creates rooms, with its row locks |
| `FlowStarts` | the flows started for one contact, his tickets, and the window of his rooms |
| `RoomDetails` | the tags, notes and files of one room |
| `Inactivity` | one room, the inactivity task, messages and saves |
| `AgentPresence` | the websocket connections of one agent |
| `AgentStatus` | the custom statuses of one agent |
| `RoomWaits` | the metrics of one room through several hands, and its greeting |
| `ProjectSetup` | the messages that set up a project, its features and its config |
| `Dashboard` | what the dashboards count, list and average; what a report and the exports of the dashboard select and tell; the pages of a report, while its rows come and go |
| `StatusTimes` | the log of an agent's statuses and the times told from it |
| `RoomViews` | who is shown which rooms and may act on them |
| `Feedbacks` | when a user is asked for feedback, and what he answers |
| `Celery` | workers and their tasks, for the modules of `MCBackground` |
| `Reports` | reports of the dashboard and exports of rooms |
| `Archive` | the archiving of rooms |
| `BulkSend` | one bulk send and its progress |
| `MetricGoals` | the sweeps over one widget |
| `SurveyFlow` | the survey's flow of one project, across deployments |
| `AgentRemoval` | an agent is removed and restored while rooms are routed to him |
| `AIFeatures` | the summaries of one room, and the transcription of one audio |
| `SurveySession` | the survey of one closed room: its webhook, and the contact in the flow that posts to it |
| `BulkRooms` | bulk requests over rooms |
| `RoomPins` | the pins of a few rooms |
| `Discussions` | one discussion beside the others of its room |
| `GroupSectors` | the members of one group and their authorizations |
| `TopicSync` | the queues of one sector, here and in the flows |
| `AgentMessages` | texts of agents that are sent again, and their delivery reports |
| `SectorSettings` | the settings, tags and holidays of one sector; the validator of its working hours behind a cache of holidays |
| `CachedRows` | the row of one user and its two keys; the config of a few projects, its keys and their tokens |
| `MCRoomAssignment` | values of constants and symmetry for TLC |
| `MCRooms`, `MCAgents`, `MCBackground`, `MCServices`, `MCRequests` | components side by side, for one run each |
| `*Proofs` | theorems: see section 4 |

The parts are coupled loosely on purpose, each module keeping of its neighbours
what it needs: `RoomAssignment` names a pass by the key it holds, one pass per
key, which is what `RouteTask` proves (`OnePass`). `RoomIntake` takes the
service of `RouteTask` as the set `wanted` of queues with a request under way,
and a pass as one step per room. `RoomAssignment.ChangeStatus` lets an agent
come and go at any time, whatever `AgentPresence` and `AgentStatus` do.
`SurveySession` composes the flow with its webhook, `AgentRemoval` routing, the
consumer, the requeue task, status requests and managers on one agent.

### RouteTask and RoutingService

One key stands for a queue's or a sector's. `lock` and `pending` are the two
cache keys, `queued` counts plain messages and `deferred` holds those with a
countdown, each with an identity so that a pending key can be compared with the
message it announces. A worker runs through `Receive` or `ReceiveDeferred`, then
`Acquire` (the pass) or `Skip`, `Announce`, `Publish` (the deferred retry). A
pass is `Snapshot`, the evaluation of the queryset, and `Release`, the `finally`
that deletes the key whoever set it. `ExpireLock` and `ExpirePending` are the
TTLs. The countdown and the TTL of the pending key are the same setting and the
key is set first, so a deferred message is due when its key is gone.
`unserved` says that a request was made after the last snapshot.

`overran` is history: a pass has outlived the lock, and not all passes of that
moment are over.

`RoutingService` has a request that is owed an answer, the passes that run, and
the two things that excuse it: a pass that is overdue may meet others, and a
killed worker may leave a request unanswered. `RouteTask` implements it with
`owed <- unserved`, `running <- Inside`, `overdue <- overran`,
`killed <- crashes > 0`, its liveness included.

### RoomAssignment

`db` holds the committed rows (active, user, queue). Every process, handler or
pass, works on `copy`, and `Room.save` is two steps, `CheckActive` or
`RejectClosed` (the SELECT) and `Write` (the UPDATE of every column). Handlers
differ in what they do to the copy: pick, transfer to a user or a queue,
requeue, custom fields, close. A pass follows `route_rooms` statement by
statement: `OpenQueue` (queryset), `Refresh` or `SkipAssigned`, `ChooseAgent`
(the least burdened available agent, by what the routing option counts),
`StillOnline`, `StillHasCapacity` (the recheck behind its flag) or `LeaveRoom`,
then the save. `ready` are the agents a queue's `online_agents` returns, `online`
those with the status alone, which is all that `StillOnline` looks at again. A
ValidationError in a save abandons the pass, as in the code. `routed`, `exposed`
and `crossed` are history: the rooms that hold what a pass gave them, those that
were last written while another save was past its SELECT, and those that a pass
wrote last while another pass had them in hand.

### RoomIntake

A thread locks its contact (`update_or_create`), looks for an open room
(`CheckUnique`, `RefuseSecond`), resolves the agent (`ResolveDirect`,
`ResolveBehindOthers`, `ResolveFirst`, `TakeAgent`, `RecheckPassed`,
`RecheckFailed`, `NoAgentAvailable`), locks the queue and checks its limit
(`LockQueue`, `Admit`, `RefuseFull`), and commits. A creation that answers a flow
start, with no room of the contact since, waits in the queue without that lock
and that check (`CommitUnlimited`); which one does is a free choice, because an
agent may start a flow for any contact at any time. Locks last to the end of the
transaction; a request for routing leaves at once. Closing, picking, requeueing
and routing act on committed rooms in between. `admitted` is history: rooms that
the limit let into a queue and that never left it since.

### FlowStarts

`start_flow` is one transaction: the room is looked up with its starts
(`flowAsk` remembers what was seen), marked as waiting when its 24 hours are
over, the start inserted, Flows asked, and all of it committed or rolled back.
A ticket (`RoomFlowSerializer.create`) finds the start it answers, ends it, and
is attached to the waiting room or opens another. An agent's message reads the
window of its room through a key in Redis that is filled a step later.
`crossedStarts` is history: two starts of a room were under way at a commit.

### RoomDetails

A request reads the room, decides on tags, notes or files and writes a step
later, while a transfer or a closure writes back what it read before. A change
of sector clears the tags inside the save (`ToClear`), a transfer marks the
notes as not deletable, and a note is deleted with its message in two steps.
`behind` and `strayed` are history of requests that wrote after another one
changed what they had read, `broken` of notes that ended half-way.

### AgentPresence

`conn` is where each connection is, `mailbox` the events of the channel layer
it has not handled, `answered` the answer keys in the cache. A connection that
leaves is out of its groups and handles nothing any more. Whether it asks the
others is a setting of its server process (`Checking`), so both kinds may meet.
`GoOffline` may happen before any answer is recorded. `ExpirePing` is the ping
timeout, `GrowStale` the age of `last_seen`. `orphan` is history: ONLINE was
requested when no connection was there to end it.

### AgentStatus

`active` is the one active `CustomStatus` row; `CustomStatus.save` deactivates
the others first (`InsertService`), or loses to the unique index (`Collide`). A
handler's `pc` separates the checks of `room_assigned`, `room_closed`,
`close_status` and the status endpoint from the writes that depend on them.
`exposed` is history: the break began while somebody was about to insert
In-Service.

`Room._update_agent_service_status` reads the previous agent after the new one
is saved; `AssignWaiting` and `Unassign` therefore change no status, which is
what the code does.

### Inactivity

`row` is what the task looks at: active, flagged, the time of the last
interaction, whether the agent spoke last. A worker acquires the lock, reads
the rooms to warn, sends the warning, sets the flag, reads the rooms to close,
sends the closing message, refreshes the row, saves it and releases the lock.
Between the queryset and the room's turn anything may happen. An automatic
message may be sent, have no text, or fail (`Outcomes`). A contact's message is
created, then recorded (`OnNewMessage`, only if newer), then resets the flag;
an agent's is created, its callback runs, then `UpdateLastMessage` writes
whatever came in between. `SaveRoom` stands for every request that saves the
whole row. `latest`, `answered` and `exposed` are history of the latest message.

### Celery

A worker takes one task at a time. Every module with tasks has a variable that
says where each worker is, and an action that kills the worker: tasks are
acknowledged before they run, so a killed task is not delivered again. Where
the transport may deliver a task twice (the visibility timeout of the broker),
the module has an action and a bound for it.

### Reports

One module for both kinds of `ReportStatus`, since they share the row, its
claim and its periodic tasks. A request checks for an active report
(`AdmitReport`) and creates a row (`CreateReport`) in two statements. A worker
claims a row by the periodic task (`SelectReport`) or, for an export, by the
task of its own (`StartExport`, `SkipExport`). A report of the dashboard writes
its two tables as parts (`ListParts`, `WritePart`, `TableWritten`) and resumes
after the parts it finds; it combines and removes them, and only then delivers
the file. An export is built in memory. `FailReport` and `GiveUp` are the error
path with its `retry_count`, `KillReport` and `GrowStale` lead to the takeover
of a row that was not modified for ten minutes. Its worker may be alive: the
heartbeat stamps the row after each part, and nothing stamps it while parts are
listed, combined and removed or the file is uploaded and mailed. Two workers then
write copies of the same parts, remove each other's, and find a part they listed
gone (`PartIsGone`). The rows that a query finds change while parts are there
(`RowsMove`), and then there is a part more or less and the file may miss rows or
have them twice; which ones, is `ReportPages` of `Dashboard`, page by page.
`blame` is history of what went wrong with each report: an attempt that ended
between two removals (`holed`) or between delivery and save, was taken over alive
(`outlived`), or rows that moved.

### Archive

The nightly task picks rooms and sends a task for each (`PickRoom`, `LoseTask`,
`Redeliver`). `ClaimRoom` and `LeaveRoom` are the claim under the row lock; what
protects the room afterwards is only the row (`ActivelyProcessed`: a status of
work and a start less than twelve hours ago). The pipeline of
`archive_room_history` follows, one action for each write: `ReadPage` and
`ReadAll`, `SaveFile`, `MarkUploaded`, `Refresh`, `CheckUploaded` or
`RefuseDeletion`, `DeleteBatch`, `DeletedAll`, `FinishRoom`. It may fail or be
killed at each of them, and a later claim continues where the row says the work
had got to. `doubled` is history: rooms that two workers archived at once.

### BulkSend

A worker picks the rooms, marks the row and sends a task per room; each leaves
an outcome and asks for a progress update. `TakeProgress` ends in `CoolDown`
(the update goes on) or `DeferProgress` (the update is dropped and one deferred
task announced by the pending key). `ReadBulk`, `CountRows` and
`NotifyProgress` are the update, `GrowOld` and `FinishStale` the end after half
an hour. `covered` are the rooms with an outcome, `shown` the last progress the
user saw, `slow` that an update was overtaken by the next one.

### MetricGoals

One goal of one project. `LevelChanges` is everything that moves the number of
rooms in breach. A sweep detects, reads the two keys, claims or clears them and
tells the widget, without a lock against other sweeps. Broadcasts may fail and
are not repeated; sweeps may be killed between any two steps; the keys may run
out.

### SurveyFlow

The survey's flow of a project lives in another service; its version is a
constant of the code. `Deploy` releases a version and `Upgrade` restarts one
worker, so workers of two versions run side by side. `RunCommand` sends an
update for every row that is behind the worker's version; a worker takes or
refuses updates of another version. An import and the save of the row are two
steps (`ImportFlow`, `ReadConfig`, `SaveConfig`), the cache is invalidated in a
third, and a closing room may refill it with what it read before (`CacheFlow`).

### AgentRemoval

Orders to remove and restore one agent wait in a queue of RabbitMQ and are
acknowledged after they were handled; a killed consumer gets the order again
(`KillConsumer`). Removal is three writes: the soft delete, the requeue task,
the authorizations. The task walks over the agent's rooms (`ReadRooms`,
`RequeueRoom`, `RefuseRequeue`) and then asks for routing queue by queue; each
room has a queue of its own here, so that one forgotten queue shows. A routing
pass that chose the agent saves later (`ChooseFor`, `AssignRoom`). A status
request reads the permission and saves all of it (`ReadStatus`, `SaveStatus`),
and a manager's request finds the permission before it inserts an authorization
(`CheckAuthorization`, `Authorize`). `late` holds the rooms a pass gave the agent after the task had read them.

### AIFeatures: summaries

`request`, `generation` and `cancellation` say where the request, the task that
writes the summary and the task that gives it up are; the first request is part
of the transaction that creates the room and later ones are not. `BeginSummary`
writes the status alone, `SaveText` and `SaveGivenUp` save the whole row as
read. `newer` is the order of `modified_on`, by which the summary is shown
(`Shown`), while the feedback goes by the order of creation (`Rated`).

### AIFeatures: transcription

The row of an audio is unique. A request finds none or a failed one, deletes
it, creates its own (or collides) and sends the task. The task calls the
function, saves the answer and notifies inside one `try`: `FailNotification`
leads to the exception handler, which fails the row, `done` or not.

### SectorSettings: working hours

`holiday` is a row of `SectorHoliday` that a manager edits: save, then
`Invalidate` for the days of the new row (or an error of the cache, which is
ignored). A contact's request is refused on a closed weekday, or finds the
holiday in the cache, or queries it and fills the cache a step later.
`Decide` is the validator as code, with the holiday of the day, the static
holidays and the schedule; `AdmittedWhenOpen` compares it with the set of times
the sector is open.

### RoomPins and Discussions

Requests that read an instance, check, and write later. In `RoomPins` a pin is
read, counted and created in three steps, and a save that changes the agent
deletes the pins first and writes the row in the next step; `crossed` are rooms
written while another request held an instance. In `Discussions` a request is
admitted on a count (`CanAddUser`), inserts the user, counts again
(`HasCompany`) and saves its instance to leave the queue; a PATCH saves an
instance as well (`RewriteDiscussion`), and the unique index on active
discussions stops a second one (`RefuseDiscussion`, `CollideOnActive`).

### SurveySession

At the webhook a post is admitted by the permission, finds the survey or
not, and creates or saves it whole; `together` are posts that were under way at
once. `SurveySession` drives it: the contact is asked, his reply goes through
the ordered cases of the flow's definition (`Cases`, by words and by phrases),
he is asked once more if none fits, and the flow posts the rating, then rating
and comment. A post may be heard, fail, or time out while it is still served.

### BulkRooms

A bulk request reads its rooms (a closure) or their keys (the others), then
batch by batch the rows, and saves room after room: `ChangeTicketer` tells the
flows before the save, `WritesRoom` is the whole row, `AddsAffected` notes the
queue, and `RouteQueue` starts the routing at the end of the batch. A transfer
runs in a transaction of its own, which is rolled back when it fails
(`FailTransfer`); taking and closing do not. `split` and `overlapped` are
history of tickets told too early and of rooms that two requests wrote.

### RoomWaits

`step` is where each handover is between its save of the room and its save of
the metrics, which are two copies read at different times. `metric.counted`
counts how often each stay in the queue was added to the waiting time, so that
a lost increment shows as zero and a doubled one as two. The tasks
(`StoreFirstResponse`, `CheckGreeting`, the metrics of a closure) run when they
like: `close_metrics` is enqueued before `close_room` generates the metrics
itself, so the two may read the same row (`closingCopy` beside `metricCopy`),
and then the wait of a queued room is counted once instead of twice
(`readTwice`). `blurred`, `blurredTime` and `greetedTwice` are history of
handovers that overlapped, of times computed before the commit, and of two
greetings checked at once.

### ProjectSetup

A message is received, handled and acknowledged by one of a few consumers
(`ReceiveEvent` to `AckEvent`); a killed one has it delivered again, an error
rejects it to the dead letters (`Reject`, `DropDead`). A setup creates the
project and then, sector by sector, sector, manager, queue and ticketer,
committing each; the features do the same for theirs and find what is there.
`cutShort` is history of setups that were killed or refused a permission: the
code cannot resume those.

### Dashboard

Rooms go through their life (`MakeDashRoom` to `RateDashRoom`), midnight passes,
members and queues are removed; most other definitions are a query: which rooms
a total, a list, a division or a score takes, with the multiplicity a join
gives them (`Rows`). The totals (`raw_data`) and the times (`get_time_metrics`)
take several queries one after the other, in the order of the services, while
rows change between them (`AskFigures`, `QueryNext`, `TellFigures`). `seen` is
history: where each room stood since they were asked. In `rooms` the component
"figures" has these requests, about one room since each room is counted by
itself, and "dashboard" the rest with two rooms.

### Dashboard: reports and their pages

A report adds its own queries, from the merging of the filters of
the root and of the table (`Asked`) over dates and names to the rows (`Joined`),
the refusal, the estimate, and the four tables of an export. The pages are
the loop of `_write_parts_from_queryset`: each page a query of its own by
offset, an attempt that dies is resumed after the parts that are there, and
rows with any key come and go in between. A row is `Settled` when neither it
nor one before it moved.

### StatusTimes

Statuses change one at a time, each with its task for the log in the broker
(`toLog`), and a worker appends an entry in two steps (`StartLog`, `EndLog`),
so tasks of one agent may overtake each other. `OnlineTime` is the fold of the
external API over the entries. `prompt` is history that no task was late.

### RoomViews

Requests change the rows of rooms, pins and authorizations in one step each;
the rest are the permission classes (`MayAct`, `MayWrite`, `MayRead`) and the
querysets of the lists, counts and the history, as sets of rooms per user.
`Upset` bounds the removals of members, authorizations, queues and sectors.

### Feedbacks

A request asks whether to show the form: it reads the counter of the day, the
dates (in Redis for ten seconds), the answers, the last showing and the rooms
that ended since, then writes the showing and counts it, each in a step; or it
creates an answer after the same checks. Days pass, rooms end and surveys begin
and end in between. `feedbackCrossed` is history of a write after another
request had written what was read. A moment is told by the rooms and surveys
that were there, which is all that the comparisons of dates are about.

### GroupSectors

A request is a task (add or remove a member, link or unlink a sector, delete
the group, create a queue) that reads memberships, sectors and queues, and then
writes authorizations one by one (`AuthorizeMember`, `EnableQueue`, ...).
`disturbed` holds the pairs of place and member that two requests worked on at
once, and `exempt` the queues that the code leaves out by itself.

### TopicSync

`topicRow` and `topics` are the two copies, and `sectorLive` and
`sectorInFlows` those of the sector. A creation saves the row and posts the
topic, or lists topics first and posts what is missing (`ListTopics`,
`SkipIntegrated`); a refusal deletes, rolls back or takes back. A deletion
closes or transfers the rooms, deletes in the flows, then the row. The flows go
on opening rooms (`SeekTopic`, `InsertFlowRoom`). Calls are refused or lost,
and tasks killed (`troubled`).

### AgentMessages

`requestKey` is the Redis key that an attempt claims
(`Claim`), fills with its message (`StoreMessage`) or gives up
(`ReleaseKey`); the others wait for it (`FindClaimed`, `StopPolling`). Without
Redis an attempt goes on blindly. The text is posted from inside the
transaction (`PostToContact`), which may be rolled back (`takenBack`).
Of the delivery reports ids and statuses arrive in any order; a status is retried until
its id is known, waits in the memory of a worker (`buffer`) and is written with
its batch: read, changed in memory and updated column by column
(`UpdateFlags`). A status whose message cannot be read is logged and dropped
(`MissMessage`), and the rest of its batch goes on.

### SectorSettings

An update reads the row (`BeginUpdate`), is validated against it (`Accepts`),
saves it whole and then once more with its config. `agreed` is history: the row
as it would be if each request were applied to the last one. Tags are required
or not through a copy that the deletion of a tag holds (`KeepRequired`,
`DisableRequired`). A request for holidays goes from date to date
(`EnableHoliday`, `CreateHoliday`) and breaks off at a constraint.

### CachedRows

A login, a registration, a change of language or a lookup reads a key or the
row, fills a key, compares, saves the whole row and forgets the keys, in steps.
`userRaced` is history: a commit came between a read and what was done with it;
`meant` is what was last asked for. Of a project most requests save the
whole row; the promotion of a principal demotes the others and promotes one in
two updates that forget no key, and a call to the flows renews the token and
tries again when it is refused (`RenewsToken` in the proofs). Flows may revoke
a token at any time.

### The union modules

The components of `MCRooms`, `MCAgents`, `MCBackground`, `MCServices` and `MCRequests`
share no variable that matters to them, and a product of their states would be
unaffordable and show nothing. `component` is chosen in the initial state and
never changes; a behaviour takes the steps of that component, and the others
rest in their initial states. A component at rest has no fair action enabled,
so the conjunction of all fairness conditions asks nothing of it. Nor is it
checked again in every state: it is where the behaviours of its own begin. The
composition lemmas of the proofs (`RequestsAreComponents` and the like) say the
same: a behaviour of the union is one of each component.

## 3. Runs

| Run | Instance | Shows |
|---|---|---|
| `route_task` | 2 workers, 4 requests, 3 deferred messages, passes that outlive the lock, 1 crash | `OnePass`, `NoLostWakeup`, `RoutingGoesOn`; `ServiceSpec`: the tasks implement `RoutingService` with its liveness |
| `room_assignment` | 2 rooms, 2 agents with limit 1, 2 queues, a queue's key and the sector's, 1 request, option "general" | `OvershootBounded` (exact for one key), `ClosedHolds`, `RoutedOnce` |
| `rooms` | 3 contacts, 2 queues with limit 1, 3 rooms, 1 agent with limit 1, 2 threads; a dashboard of 2 rooms, queues, sectors, agents and tags, 1 removal, and of 1 room for figures that take several queries; 4 rows in pages of 2, 2 of them moving, 1 resumption; 1 room of WhatsApp, 2 starts of 1 flow, 2 requests; 2 tags of 2 sectors, one of which requires them, 1 agent, 1 note with up to 2 files, 2 requests | `OneOpenRoomPerContact`, `LimitRespected`, `NeverAllBlocked`, `RoomsHold` |
| `inactivity` | 2 workers, 2 handlers, both timeouts 1, clock to 4, 3 requests, 1 crash | `TicksDoNotOverlap`, `ContactKeepsOpen`, `OverdueIsClosed` |
| `agents` | 2 breaks, 2 rooms, 2 handlers; 3 handovers, 2 at once, 1 reply, 2 stays, 1 fault; 4 messages about a project, 2 consumers, 2 sectors of a template, 1 fault; a clock to 4 with days of 2, 2 changes of status, 2 log workers; 1 room seen by 3 users in 2 queues, 2 upsets; 2 requests for feedback, 2 surveys, 2 rooms that end, 1 being enough, 1 showing a day; 2 requests on a group with 1 member, 2 sectors, 2 queues, one of them created late, 3 tasks; 3 transmissions of one text, 2 faults; 2 ids of one message, batches of 2, 2 tries, a fault | `BreakHolds`, `AgentsHold`, `OnlineTimeHolds`, `ViewsHold` |
| `background` | 2 workers; two reports, one of them an export, 3 attempts, 3 faults and 2 takeovers of a living worker (the dashboard's report: one, and then no fault, `OutlivedOnce`); one room with 3 messages to archive, 3 faults and a redelivery; a bulk send to 2 rooms with a kill and a redelivery; one goal with a fault and an expiry; 2 versions of the flow with a fault | `ArchivedWhole`, `OutcomesHold`, `TakeoversHold`, `JobsEnd` |
| `services` | an agent with 2 rooms, 2 orders, a fault; 2 summaries, a fault; an audio with 2 askers, 3 rows, 2 faults; a contact in the survey, 3 posts; 3 connections of an agent, 2 of them checking, 1 crash | `GoneIsOffline`, `RequestedHolds`, `SummariesHold`, `TranscriptionHolds`, `AnswersCome` |
| `requests` | 2 bulk requests on 2 rooms and queues in batches of 1, a fault; 2 days of 3 times, 2 saves; 2 requests on 2 rooms with 1 pin each; 2 requests on a discussion with limit 1, a fault; 2 requests on 2 topics, 1 room, 3 tasks, a fault; 2 editors of a sector with 1 tag and 1 date, 3 edits; 2 requests on a user with 1 name and 1 language, 2 rows; 2 requests on 2 projects with 1 option, 2 tries, 2 changes | `RequestsHold`, `PinsHold`, `TalkHolds`, `SettingsHold` |

In `rooms` and the last four runs most properties are what several components
promise: the conjunction of parts that their modules define one by one, and most of
which a mutant of `PROJECT.json` breaks by itself:

| Property | Its parts |
|---|---|
| `RoutingGoesOn` | `EveryRequestServed` (until the crash), `CrashIsSurvived` |
| `RoomsHold` | `DashboardHolds`: `TotalsMatchAgents`, `DivisionsMakeUpGeneral`, `RemovedHaveRooms`, `ScoresAreOfAgents`, `FiguresTellOneStory`; `ReportsFit`: `ReportsMatchDashboard`, `RowsAreTheTags`, `RootOrTable`, `TablesAreOfSameRooms`; `ReportPagesHold`: `SettledRowsOnce`, `OnlyWhatWasFound`; `FlowStartsHold`: `RefusedRightly`, `HandedOnce`, `AttachedOnce`, `WaitingWasAsked`, `OneStartPerRoom`; `DetailsHold`: `TagsOfItsSector`, `ClosedWithTags`, `NotesOutliveTransfers`, `NotesHaveTheirMessage`, `MediasFit` |
| `AgentsHold` | `WaitsHold`: `StaysAreCounted`, `ResponseIsTimed`, `GreetedOnce`; `SetupHolds`: `SetUpIsWhole`, `FeatureIsWhole`, `TicketersAreAskedOnce`, `UpdateIsKept`; `TimesHold`: `LogInOrder`, `TimesAddUp`, `StatusIsTold`; `FeedbacksHold`; `GroupsHold`: `MembersReach`, `OnlyMembersReach`; `MessagesHold`: `OneMessagePerRequest`, `ContactReadsOnce`, `AnswersAreTrue`; `StatusHolds`: `StatusesAreKept`, `StatusesAreTrue` |
| `OnlineTimeHolds` | `OnlineTimeIsTrue`, `OnlineTimeIsBounded` |
| `ViewsHold` | `ListedMayAct`, `NoRoomOutOfSight`, `CountsMatchList`, `PinListsAgree`, `ClosedIsHistory` |
| `TakeoversHold` | `ReportsHold`: `DeliveredWhole`, `DeliveredOnce`, `FinishedStays`; `ProgressHolds`: `FinishedIsComplete`, `ProgressOnlyGrows`; `SoftLockHolds` |
| `OutcomesHold` | `ToastsFollowClimbs`: `OneToastPerClimb`, `AlertNeedsViolation`; `FlowIsCurrent`: `RowMatchesFlow`, `CachedFlowIsCurrent` |
| `RequestedHolds` | `RemovalHolds`: `RemovedHoldsNothing`, `RemovedIsUnauthorized`, `LastOrderWins`; `AnswerIsKept`; `SessionHolds`: `RatingIsMeant`, `AnswersAreRecorded` |
| `SummariesHold` | `ShownIsRated`, `SummaryKept` |
| `TranscriptionHolds` | `OneCall`, `DoneStays` |
| `RequestsHold` | `BulkRoomsHold`: `ChangesAreRouted`, `CountsAreTrue`, `TicketerFollows`; `HoursHold`: `HolidayFresh`, `AdmittedWhenOpen`; `TopicsHold`: `FlowsAgree`, `PostedOnce`, `NoRoomStranded`; `UserCacheHolds`: `KeysAreCurrent`, `NothingIsLost`, `OnlyRenamingForgets`; `ProjectConfigHolds`: `ConfigKeysAreCurrent`, `OptionsAreKept`, `OnePrincipal`, `OldTokensAreRenewed` |
| `PinsHold` | `PinsFollowAgent`, `PinLimitHolds` |
| `TalkHolds` | `QueuedIsAlone`, `TalkWithinLimit` |
| `SettingsHold` | `SettingsStayValid`, `SettingsAreKept`, `HolidaysAreClosed` |
| `JobsEnd` | `ReportEnds`, `ArchiveEnds`, `BulkEnds`, `FullProgressIsShown`, `WidgetSettles`, `CommandUpdates` |
| `AnswersCome` | `RequeuedIsRouted`, `SummarySettles`, `TranscriptionEnds`, `SessionEnds`, `NoGhostAgents` |

Each of these runs also checks its modules' type invariants. Four runs show
a disagreement between the code and what the repository says of it:

| Run | Property | What the counterexample shows |
|---|---|---|
| `room_reopened` | `ClosedStaysClosed` | a save past its SELECT writes its stale row over a closed room |
| `routed_twice` | `NeverRoutedAgain` | passes under a queue's key and its sector's key both refresh a waiting room before either saves it, and the later one replaces the agent |
| `room_left_behind` | `NoRoomLeftBehind` | routing is requested inside the creating transaction, or not at all, and the new room waits beside a free agent |
| `service_outlives_timeout` | `ServiceFinalized` | the ping timeout sets OFFLINE first, after which In-Service is not finalized |

The properties of the passing runs say what holds in spite of the races, with
the condition that makes it hold: `ClosedHolds` excludes a save past its SELECT,
`RoutedOnce` a room that two passes had in hand at once,
`BreakHolds` a break that began while somebody was about to insert In-Service,
`ContactKeepsOpen` a message recorded while a tick or a request held an older
row of the room, `ArchivedWhole` a room that two workers archived at once. Each
such condition is a named variable of history (`exposed`, `doubled`, `blame`,
`crossed`, `late`, `disturbed`, `raced`, `blurred`, ...) that only the race
itself sets, so that the property still speaks about every behaviour without
that race. What happens in the excepted cases is in section 5.

**Bounds.** Two processes of each kind suffice for every interleaving of two
critical sections; a third contact is needed in `rooms`, so that two rooms
can compete for the last place in a queue while the third keeps the agent busy,
a third connection in `services`, so that one can ask, one answer and one record
the answer, a third transmission in `agents`, so that one can find the message
of a second while the first was taken back, and a third handover in `agents`, so
that two stays end while a third handover holds older metrics. Limits of 1 make
"at the limit" happen after one step. `MaxRequests` bounds the calls of
handlers; a property here needs at most two requests beside a pass or a tick to
fail, and one beside two passes. In `room_assignment` one agent at a time is
away or on a break (`OneAwayAtMost`). `MaxTime` of 4 is twice the sum of both timeouts, enough for a room to be
warned, answered and warned again. `Slots` exceeds the deferred messages that
can be there at once. The theorems hold without these bounds.

A second worker, request or asker is there wherever two can meet. Two summaries,
versions, orders or edits are the fewest that can be applied out of order. One
fault is enough to cut any step; reports and archiving take three, so that every
attempt a report has may fail and a room may be cut, resumed and cut again; a
text takes two, so that both it and its repetition may be taken back. Three
messages let a cut leave some of them read, some deleted; one report has tables
of different lengths for the same reason. Three posts let one be repeated beside
a third. Two queues in sectors of their own give every filter something to leave
out, and two tags one room that comes twice; four rows make two pages, so that a
row can move from the second to the first. Limits of 2 files, 1 showing and 1
room stand for 10, 2 and 15: they are reached after fewer of the same steps. A
clock of two days of two ticks has an hour before and after midnight.

The unions leave out what adds states and nothing else, by conditions with a
name. In `services` posts that overlap bring the one rating and the one
comment (`RatedAlike`), in `agents` a handover that was cut leaves one that
never begins (`CutLeavesOne`), in `background` no sweep begins after two that
overlapped (`OverlapIsLast`), of which nothing is claimed any more, and two
workers at one report of the dashboard disturb only each other (`OutlivedOnce`;
with a fault besides there are 563 000 states, and every property holds in them
too); and in each a
component at rest has one initial state where it could have many. Where liveness
forbids symmetry, one of two that are alike comes first: the room of a removed
agent that is closed (`FirstIsClosedFirst`) and the worker that is upgraded
(`FirstUpgradesFirst`) or takes the dashboard's report (`FirstTakesFirst`); any other behaviour is one of these with the two names
exchanged. In `rooms` the details of a room are two components: requests about
tags without those about notes (`TagsApart`), and requests about notes with the
closes and transfers they can meet, in one sector (`NotesApart`); the properties of
the ones do not look at what the others write. What a
constant is given is a name of its own (`GivenNamed`), since TLC computes it
once then and at every use otherwise.

**Symmetry** is used only where no liveness is checked: agents and rooms in `room_assignment`; contacts, and threads, which are the requests and
the dashboard's agents too, in `rooms`; requests and topics in `requests`; those
who handle statuses, feedback and groups, the log's workers, the messages that
announce a project and the ids of WhatsApp in `agents`. Values of two components
may be the same ones, since only one of the two runs.

**Deadlock** is checked except in `RouteTask`, `background`, `services` and
`requests`, where the system rests when nobody requests anything and every bound
is used up. In `agents` the components that may rest have a step that changes
nothing once they do, so that statuses, handovers and setups are checked for
deadlock. In
`rooms`, whose point is that threads waiting for each other's locks never
block, every component can always go on.

**Fairness.** `RouteTask`: Celery workers take messages and go on with a task
(weak fairness per worker), Redis expires keys; nobody has to make requests or
crash. `AgentPresence`: `last_seen` grows old. `Inactivity`: the beat fires
every minute and a tick goes on, requests that began end, the lock's TTL runs
out; nobody has to write. A worker's weak fairness is on all of its steps
together, because a worker does one thing at a time. The background modules
assume the same of their workers, that the beat goes on starting the periodic
tasks, that the broker delivers what is in it, and that time passes (rows grow
stale, keys expire). Faults are never fair: nothing has to fail, and a liveness
property that a fault can defeat says so (`lostRequests`, `kills`).
`AgentRemoval` and `AIFeatures` have the weak fairness of the
consumer, of requests that have begun and of tasks; `SurveySession` that of the
flow engine, whose waits for a reply run out after ten minutes. The modules of
`rooms`, `requests` and `agents` have no liveness: nothing in
them waits for anything but what a client may never do.

## 4. Proofs

All theorems are proved from the named assumption on the constants of their
module (`ConstantsAssumption`, or `ArchiveAssumption`, `PinAssumption` and the
like in the modules that share a run), which TLC evaluates in the runs. Every
inductive invariant was checked by TLC on an instance of its module before it
was proved. Each module's proofs go the same way: a lemma per invariant that the
initial states have it, a lemma per action or group of actions that the step
keeps it, and a theorem that puts them together.

- **RouteTaskProofs.** `PassesDoNotOverlap` rests on `InsideHoldsLock`: unless a
  pass has outlived the lock, whoever is inside set the key, so that nobody else
  is inside and the unowned `delete` removes no one's key. `WakeupsAreKept` rests
  on `PendingIsAnnounced`: a pending key always stands for a message that is
  there or about to be sent, so a worker that drops its request relies on a real
  one; it needs no bound on the passes. `ImplementsService` maps each step to a
  step of `RoutingService` or a stutter.
- **RoomAssignmentProofs.** `ClosedRoomsHold` rests on `NobodyWritesClosed`: no
  save is past its SELECT of a closed room that is not exposed.
  `PassesOvershootByKeys` is itself inductive: it counts what passes have given
  an agent together with what they are committed to give; a pass commits only
  below the limit, and at most one commitment per key can be added after it.
  `PassesRouteOnce` rests on `InHandNotRouted`: a room that a pass has in hand
  holds no agent a pass gave it, unless they crossed over it.
- **RoomsProofs.** `OneOpenRoom` rests on `UniqueInv`: a thread past the
  check holds its contact's lock and the contact has no open room yet.
  `QueueLimitHolds` rests on `LimitInv`: a thread that the limit let pass holds
  its queue's lock and there is room left. `NoDeadlock` rests on
  `LockInv`: who holds a contact is past that lock, and who holds a queue waits
  for nothing. `DashboardsFit` and `ReportsKept` rest on `RowsFit`, that the
  dates and the agent of a row fit its stage; what two endpoints select is then
  compared as sets. `DashboardsFit` needs also that who serves a queue is a member
  (`MembersServe`) and, for figures that take several queries, `FiguresFit`: what
  each query asked so far has found of a room fits where the room stood. `PagesKept` rests on `PlaceIsKept`: a settled row keeps
  its place, is written once as soon as the offset is past that place, and
  every page before it was full, so that the parts tell an attempt that resumes
  where to go on. `FlowStartsKept` rests on `FlowInv`: whoever holds the lock of
  the contact or of a start is alone at it, and a start that was found is in the
  table (`AsksFit`). On it rest `RefusalsFit` (a request that met a
  closed window is known to have), `HandsFit` (the start that chose a room's
  agent was there when the room opened), `WaitsFit` (a room that waits has a
  start that Flows were asked for) and `StartsFitRooms` (who is about to start a
  flow from a room found no pending start of it, unless two looked at once).
  `DetailsKept` rests on `RoomInv` (a transfer or a closure holds the room as it
  is unless it is `behind`), `NotesInv` (a note is created by one
  request, and who is past the check of a note finds it) and `MediaInv`
  (the files of a note and the uploads past their count stay below the limit
  and the number of requests).
- **InactivityProofs.** `LockExcludesTicks`: a worker in a tick holds the lock,
  unless the lock may lapse. `AnswersKeepOpen` rests on `Kept`: once the
  contact's latest message is recorded and nobody held an older row, the row and
  every copy of it say the contact spoke last. To get there it needs `Newest`:
  until the message is recorded, no row, copy or older message is as new as it.
- **AgentsProofs.**
  - `BreaksHold` rests on `InsertersSawTheBreak`: whoever is about to insert
    In-Service while an unexposed break is active is the close_status of it.
  - `WaitsAreMeasured` rests on `StaysAreDue` (a stay that is not blurred was
    counted, or one handover alone still has to, and `close_metrics` once more;
    where those two have read the metrics at once, both copies lack the stay),
    `TimeIsComing` and `GreetsOnce`.
  - `SetupsAreWhole` rests on `SetupInv`: `OneCreator` (one message creates
    the project), `StagesFit` (what a consumer has passed is there),
    `SetupGoesOn` (what is not there is still on somebody's list),
    `FeaturesGoOn` and `TicketersAreCounted`.
  - `ShownMayAct` rests on `AtABuiltSector` and `PinsFollow`: a pin is of an
    open room by the user who has it. The lists are then compared as sets.
  - `TimesAreTold` rests on `TimesInv`: the entries of the log are in order
    (`LogInOrder`), and what is spent and what is active add up to what was
    lived (`TimeSums`).
  - `FeedbacksKept` rests on `SurveysFit` (surveys begin one after the other,
    the last showing is of one that began) and, until two requests cross, on
    `CountFits` (the count of Redis covers the showings of the day) and
    `UncrossedFit`: what a request found about answers, rooms and showings is
    still so (`RequestFits`), unless it was overtaken.
  - `MessagesAreOne` rests on `MessageInv` (the key of a request names a message
    that is committed or whoever is at it), and `StatusesAreShown` on
    `StatusInv`.
  - `GroupsFollow` rests on `GroupInv`: for a pair of place and member that no
    two requests crossed over, either it has what it should have, or the one
    request that is about it will see to it (`PairFits`), having read what is
    still so (`ReadFits`).
- **ServiceProofs.** `GoneAreOffline` rests on `SomeoneIsLeft`: while the status
  is ONLINE some connection will still set it OFFLINE, ask first, or has crashed.
  It needs `OnlyAskedChecks`, that events and answers are only about connections
  that have asked: the last one to leave finds no answer of its own.
  `AnswersAreKept` rests on `Alone`: a post that is not
  `together` is under way alone, so the instance it saves is the row it read.
  `SessionFits` ties the flow's place to its posts and to the survey (`RunFits`,
  `PostsFit`, `FreshIsAlone`, `LastPostFits`), so that what is rated is what was
  meant. `OrdersAreFollowed` and `RemovalGoesOn` say of a removal that what it
  has not done is on its way. `SummaryFits`, `OrderIsTotal` and `RowsFollow` tie
  the summaries to their tasks. `TranscriptionFits` ties the status of the row
  to the place of its task, which gives `OneCallAtATime` and `DoneIsKept`.
- **BackgroundProofs.** `SoftLock` rests on `StartedIsRecent`: a room somebody
  is at was started lately, so the row of a worker at work is actively processed
  unless somebody failed it. `ArchiveIsWhole` rests on `Whole` for rooms never
  archived by two at once: the worker's pages, then the file, hold every message
  of the room before the first is deleted, and a row that says the file is
  uploaded names a complete one; `ClaimedAlone` carries it over a claim. The
  reports rest on `SoleHolders` (a report nobody took over has one worker),
  `SentIsSaved` and `ReportsWhole` (the parts on the storage are the tables'
  beginnings, as long as the report is `Spared`), the bulk send on `BulkCounts`, `EachSentOnce` and `OneUpdate`,
  the goals on `MetricInv` (a state key is claimed by one sweep, `OneSweep`, and
  what it will notify fits, `ToastsFit`), the survey's flow on `FlowInv` with
  `ImportsAgree`.
- **RequestProofs.** `PinsAreKept` rests on `PinsSafe` (an instance of a room
  that was not crossed agrees with the row, so the pins a save deletes are those
  of the agent the row has) and `PlaceIsLeft` (a request past its count still
  finds a place if nobody else counted for the same agent). `TalkIsKept` rests
  on `WithinLimit`, `CopyIsQueued` and `QueueIsWatched`: if a discussion with
  company is still queued, somebody is about to count it, and that instance is
  queued and will be taken off. `HoursAreRight` rests on `CacheFollows`,
  `SettingsAreTrue` on `OneEdit` and `CopiesAreValid`, `BulkRoomsAreTrue` on
  `BulkRoomsInv` (`BulkSets`, `InstanceIsRow`, `TicketerIsTold`), and
  `TopicsAgree` on `TopicInv` (`TaskFits`, `PostsAlone`, `TopicFits`,
  `SectorFits`, `NoneLeft`). `UsersAreKept` rests on `UserInv`: ids are given out in
  order, and until somebody is deleted there is one (`IdsGrow`, `OneUser`); a
  request that was not raced holds what the row says (`ErrandFits`,
  `HeldIsCurrent`), and a key that disagrees with the row is about to be
  forgotten (`KeysFollow`). `ConfigsAreKept` rests on
  `ConfigInv`: as long as nothing was mixed, one request at a time changes a
  project (`OneAtATime`) and what it writes back is what the row says
  (`ConfigTaskFits`, `HeldIsRow`); between the save of the principal project and
  the demotion of the others the promotion goes on (`PromotionGoesOn`); a token
  that was refused is replaced before the next try (`RenewsToken`).
- **The unions.** `RoomsTypeCorrect`, `AgentsTypeCorrect`,
  `BackgroundTypeCorrect`, `ServicesTypeCorrect` and `RequestsTypeCorrect`, and the theorems that state
  the composed properties of the runs, follow from those of the components by a
  lemma that a behaviour of the union is a behaviour of each component
  (`RunIsRooms`, `*AreComponents`).

The proofs changed the models where they could not be reasoned about:
`ShownIsRated` had made an exception for faults which it does not need;
`TakeoversHold` had a liveness part, which is now in `JobsEnd`; the assumptions
of `SectorSettings` say that there are finitely many dates,
at least one day and two times.

Only model-checked: everything under fairness, which is out of the prover's
reach (`RoutingGoesOn`, the liveness of `ServiceSpec`, `OverdueIsClosed`,
`JobsEnd`, `AnswersCome`); the disagreements above, which are counterexamples;
and `OnlineTimeHolds`, which compares two folds over a log of any length: that is
an induction over data, which the prover cannot make. What it rests on, that the
log is in order and nothing of the time is lost, is proved.

## 5. What is left out

What a module leaves out of the code it models:

- **Rooms, routing, creation.** The start of the survey, billing and
  notifications, which decide nothing here; tags and `is_waiting`, which are
  the subject of `RoomDetails` and `FlowStarts`; the statistic that breaks ties
  between equally loaded agents (any of them may be chosen); the order of
  waiting rooms within a pass (any order, an over-approximation: no property
  depends on it).
  `settings.ACTIVATE_CALC_METRICS` off (closing then requests no routing,
  `api/v1/rooms/viewsets.py:423`) is a constant of `RoomIntake`, on in its runs.
- **Single statements.** `update_last_message`, `on_new_message` and
  `reset_inactivity` are single UPDATE statements and single steps. A request
  that fails between two steps is modelled where it leaves something behind that
  others look at. `RoomViews`, the lists and scores of `Dashboard` and the changes of
  `StatusTimes` are requests of one step: their subject is what the queries say of
  the rows.
- **Data.** The wording of reports, exports, archive files, summaries and
  prompts (`Dashboard` has the rows, agents, tags and dates of a report); the
  arithmetic of averages, which are kept as the bag of the rooms they are taken
  over; amounts of time, kept as how often each stay was counted.
- **Messages.** Media, and the order of messages in a room.

Not modelled at all, because nothing in them interleaves or fails halfway in a
way that another part sees: the consumers of sectors and tickets (single
creations behind the wrapper that `ProjectSetup` and `AgentRemoval` model);
message improvement and the clients of models and services (single calls);
quick messages, feature flags and versions; tokens and their verification; the
serializers and filters of the API beyond what decides who sees and changes
what. Of the largest files much is of this kind: serializers, settings,
migrations and the JSON definition of the survey's flow. Nothing calls
`get_general_data`, `get_agents_data` and `get_sector_data`
(`api/v1/dashboard/presenter.py`), nor, outside of tests,
`generate_custom_fields_report` (`dashboard/tasks.py`).

Seen while modelling, and excepted by a named variable of history, by a constant
or by the wording of a property:

- **Routing.** The capacity recheck of `route_rooms` and the save after it are
  two statements, so a pick in between still pushes the agent above the limit
  (`OvershootBounded` counts only what passes give), and an agent who goes
  offline in between receives the room; so does one who began a break or lost
  the queue after he was chosen, which `route_rooms` does not look at again. A
  queue's pass and a sector's pass hold different keys and may route one room
  twice (`routed_twice`). A room closed meanwhile aborts the rest of the pass.
- **Queue limits.** Rooms that come of a flow start are inserted without the
  lock of the queue and its limit (`CommitUnlimited`), so `LimitRespected` is
  about the other creations only.
- **Starts and tickets.** Two requests to start a flow from a room look for a
  pending start before either is committed, and both wait for a ticket
  (`crossedStarts`).
- **Details of a room.** A transfer or a closure that read the room before
  another transfer writes its sector back, beside tags of the other (`strayed`).
  Uploads that count at once exceed the limit of files by all but one of them
  (`MediasFit`).
- **In-Service.** `Room._update_agent_service_status` reads the previous agent
  after the save (`rooms/models.py:248`), so assigning a waiting room starts no
  In-Service, in every interleaving.
- **Bulk requests.** `_post_close` refreshes the room outside the `try`, so one
  room deleted meanwhile aborts the rest of a bulk closure. A failed transfer
  leaves the flows with the new ticketer (`split`). `skipped_rooms` is never set.
- **Metrics of a room.** `RoomMetrics` is saved whole, so overlapping handovers
  lose an increment. Closing a queued room adds its wait twice, since
  `close_room` enqueues `close_metrics` and does its work as well, or once when
  the two read the row at once (`StaysAreCounted` says 2 or 1). The first response is stored as 0 when its task
  runs before the commit.
- **Inactivity.** Both timeouts count from `last_interaction`, so a room that is
  warned late is closed in the tick that warned it.
- **Presence.** A connection that joins its group after another has asked is not
  asked, and the agent is set OFFLINE beside it.
- **Time of an agent.** A lost connection with In-Service active is logged as
  "In-Service", which counts as online; a supervisor's disconnection is not
  logged; a break begun during another leaves the first with no length; the time
  of an entry is taken before the row is locked; the online time of today alone
  misses the time since midnight.
- **Dashboards.** Averages per sector go by the creation of `RoomMetrics`,
  general ones by that of the room; a filter of two tags counts a room twice;
  with dates, "opened" of the v1 list counts closed rooms; an agent ONLINE
  during a break is labelled as on a break and counted as online; removed agents
  are listed and in no total. The totals and the times are queries one after the
  other, so a room that leaves its queue meanwhile may be in no total, one that
  comes back to it in two, and one that is answered meanwhile in neither of the
  response times. The ratings take the dates as they come
  (`api/v1/internal/dashboard/repository.py:733`): a last day without hours ends
  when it begins and leaves that day's surveys out of the ratings, which the
  scores beside them have. A response within its first second is saved as 0 and
  counts as awaited (`api/v1/dashboard/service.py:195`). The cache key of the general figures
  (`RoomsDataService`) leaves out who asks, so a manager may be answered with
  the figures of another's sectors; answers are modelled uncached.
- **Lists of rooms.** An agent authorized in a queue of a deleted sector sees
  its rooms and may not act on them; rooms of deleted queues are listed and not
  counted; any authorization in a sector allows acting on every room of it.
- **Archive.** A row that is FAILED is not protected by the soft lock
  (`archive_chats/services.py:155-179`): two workers may archive the room at
  once, and the one that reads after the other began to delete uploads a file
  without those messages (`doubled`).
- **Reports.** Pages go by offset, so a row with a smaller key that comes or
  goes while a report is written has another row written twice or left out
  (`Settled`). The filters of the root are lost when a request names no table of
  rooms. Rooms asked for as open and as closed at once are admitted by the
  request and refused by the worker alone. The request for a report looks for a status "processing" that no
  row ever has (`api/v1/dashboard/viewsets.py:990`), so a second report may
  start beside one in progress. An e-mail that fails is swallowed and the report
  is "ready". A report or an export whose worker lives longer than ten minutes after
  the last part is taken over alive: the first removes the parts the second
  counts on, either may be sent, or both, and the later save of the row decides.
- **Messages.** A blind attempt (Redis down) that fails releases the key of
  another. A text that was posted and whose transaction was then rolled back is
  read twice. Statuses wait in the memory of a worker until there are
  `MESSAGE_BULK_SIZE` of them, and are lost with it.
- **Bulk sends.** A send that was closed as stale while a task was at it is
  PROCESSING again until the next sweep.
- **Metric goals.** Two sweeps at once can leave the widget violating with no
  key; one killed between the two deletions leaves the alert key, and the next
  climb has no toast; a "resolved" that was not broadcast is not repeated.
  `oldest = Max(age_field)` (`metric_goal_alerts.py:274`) takes the newest
  timestamp.
- **Feedbacks.** Two requests of a user that cross show the form twice, or lose
  a showing from the count (`feedbackCrossed`).
- **Users and configs.** A login that renames a user saves one built from the
  key, so the password and the date of joining, which the key leaves out, are
  lost (`OnlyRenamingForgets`). The promotion of a principal project updates rows
  without a signal, so the keys of the others tell the old config for as long as
  they last (`wiped`). Saves of whole rows that cross lose each other's options
  (`mixed`), and a name or a language (`userRaced`).
- **Survey.** A task of a new version taken by an old worker raises and is
  lost. Imports of two versions at once may leave the row ahead of the flow, or
  naming a flow that was replaced. A post repeated with a copy read before
  another was saved overwrites the comment. "Muito satisfeito" typed without its
  emoji is rated 4, by a case further up.
- **Setup of projects.** A consumer killed after the project was created leaves
  it half set up for good, since the repeated message is refused. Saving the
  project at the end of the setup overwrites a config updated meanwhile. The
  order about the creator's permission may come first with another role, and the
  setup stops there. `dead_letter_consumer.py:36-42` gives `basic_publish` an
  argument that `pyamqp_backend.py:8-16` does not take, so dead letters are
  rejected although the docstring says that they are requeued.
- **Removal of agents.** A consumer killed after the soft delete gets the order
  again and rejects it, as the permission is gone: rooms and authorizations are
  never cleaned. A pass that chose the agent before may save after the requeue
  task has read his rooms (`late`). A status request that read the permission
  before brings it back, and a manager's request that found it before authorizes
  an agent who is gone (`straying`).
- **Queues and topics.** A deletion of a sector killed between the flows and
  the row is refused for ever, while that of a queue takes the 404 as done. A
  bulk creation for a principal project leaves its topics in the flows when it is
  rolled back. A plain deletion leaves rooms open.
- **Groups.** A sector that joins a group does not give its agents the queues
  (`exempt`). Members and places that change while a request walks over them are
  missed or kept (`disturbed`).
- **Settings of a sector.** A stale update puts back the other fields, required
  tags included after the last tag is gone, or a limit without routing
  (`interleaved`). A PATCH that moves or deletes the last tag leaves tags required,
  where its deletion ends that (`tagTaken`). Enabling an official holiday over a
  day with hours of its own violates a check constraint, and the request breaks
  off with the dates before done.
- **Working hours.** Moving a holiday leaves its old days in the cache, and a
  reader may refill an old value; both last five minutes. Static holiday hours
  narrow the schedule, the hours of a `SectorHoliday` replace it.
- **Pins.** A request that read the room before a transfer leaves a pin of the
  former agent, which counts against his limit and which he cannot remove
  (`crossed`); two pins at once exceed the limit (`doubled`).
- **Discussions.** An addition or PATCH that read the discussion before it was
  closed opens it again. Two additions at once exceed the limit.
- **Summaries.** A request that fails between creating the row and sending the
  tasks leaves a PENDING row that blocks later requests, and a summary killed in
  PROCESSING hides the finished ones. The feedback picks by `created_on`, the
  view by `modified_on`. A cancellation that read PENDING overwrites the text.
- **Transcription.** A notification that raises turns DONE into FAILED. A killed
  task leaves QUEUED or PROCESSING, and no retry is possible.

## 6. Plan

1. Done: the modules of section 2, their runs, and theorems for every safety
   property of the runs except `OnlineTimeHolds`.
2. `JobClaim`, an abstract specification of a job that is claimed, worked on and
   finished once, which `Reports` and `Archive` implement as long as no worker
   outlives the timeout of its claim.
3. Composition: `RoomIntake` with the steps of `RouteTask` in place of `wanted`,
   so that the requests dropped in the cooldown meet uncommitted rooms; and
   `AgentPresence` with `AgentStatus` on one `status`.
4. The dead-letter consumer with its retry count, once it can requeue.
