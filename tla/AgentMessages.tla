---------------------------- MODULE AgentMessages -----------------------------
(***************************************************************************)
(* An agent's messages as they are sent, and below as WhatsApp reports them.*)
(*                                                                         *)
(* Messages of an agent (CreateAgentMessageUseCase).  The client sends a   *)
(* request_id with each text and sends both again when it hears nothing.   *)
(* A key in Redis says who creates the message of a request_id, and later  *)
(* which message it was; the text goes to the contact from inside the      *)
(* transaction that creates the row.                                       *)
(***************************************************************************)
EXTENDS FiniteSets, Naturals, Sequences

CONSTANTS
    Attempts,        \* transmissions of texts by clients
    RequestIds,
    RequestOf,       \* the request_id of each attempt
    NoKey, Pending,  \* no value, and REQUEST_ID_PENDING_MARKER
    MaxMessageFaults \* bound on failing calls and killed processes

ASSUME AttemptAssumption ==
    /\ RequestOf \in [Attempts -> RequestIds]
    /\ Attempts \cap {NoKey, Pending} = {} /\ NoKey # Pending
    /\ MaxMessageFaults \in Nat

VARIABLES
    requestKey,    \* the key of each request_id; a message is named by its attempt
    messageRows,   \* attempts whose message is committed
    attemptAt,     \* where each attempt is
    answer,        \* the message its client was told about
    heard,         \* texts of each request_id that went to the contact
    roomTakes,     \* the room is the agent's, open, not waiting, within its 24 hours
    messageFaults,
    takenBack,     \* history: texts that went out and were rolled back
    unsure         \* history: request_ids whose key expired, or was not asked

messageBounds == <<messageFaults, takenBack, unsure>>
messageVars == <<requestKey, messageRows, attemptAt, answer, heard, roomTakes, messageBounds>>

InProgress == {"claimed", "valid", "posted", "committed", "failing", "polling"}

MessagesTypeOK ==
    /\ requestKey \in [RequestIds -> Attempts \cup {NoKey, Pending}]
    /\ messageRows \subseteq Attempts
    /\ attemptAt \in [Attempts -> {"new", "over"} \cup InProgress]
    /\ answer \in [Attempts -> Attempts \cup {NoKey}]
    /\ heard \in [RequestIds -> Nat]
    /\ roomTakes \in BOOLEAN
    /\ messageFaults \in 0..MaxMessageFaults
    /\ takenBack \in [RequestIds -> Nat]
    /\ unsure \subseteq RequestIds

MessagesInit ==
    /\ requestKey = [i \in RequestIds |-> NoKey]
    /\ messageRows = {}
    /\ attemptAt = [a \in Attempts |-> "new"]
    /\ answer = [a \in Attempts |-> NoKey]
    /\ heard = [i \in RequestIds |-> 0]
    /\ roomTakes = TRUE
    /\ messageFaults = 0
    /\ takenBack = [i \in RequestIds |-> 0]
    /\ unsure = {}

AttemptGoes(a, from, to) == attemptAt[a] = from /\ attemptAt' = [attemptAt EXCEPT ![a] = to]
SetKey(i, value) == requestKey' = [requestKey EXCEPT ![i] = value]
MessageFault == messageFaults < MaxMessageFaults /\ messageFaults' = messageFaults + 1
NoMessageFault == UNCHANGED messageBounds
Busy(i) == \E a \in Attempts : RequestOf[a] = i /\ attemptAt[a] \in InProgress

-----------------------------------------------------------------------------
\* Mutant: the key is set whether or not it is there.
ClaimAnyway(a) ==
    /\ AttemptGoes(a, "new", "claimed")
    /\ SetKey(RequestOf[a], Pending)
    /\ NoMessageFault
    /\ UNCHANGED <<messageRows, answer, heard, roomTakes>>

\* SET NX with the marker and a TTL.
Claim(a) ==
    /\ AttemptGoes(a, "new", "claimed")
    /\ requestKey[RequestOf[a]] = NoKey
    /\ SetKey(RequestOf[a], Pending)
    /\ NoMessageFault
    /\ UNCHANGED <<messageRows, answer, heard, roomTakes>>

\* Redis does not answer: the attempt proceeds as if it had claimed the id.
ClaimBlindly(a) ==
    /\ AttemptGoes(a, "new", "claimed")
    /\ MessageFault
    /\ unsure' = unsure \cup {RequestOf[a]}
    /\ UNCHANGED <<requestKey, messageRows, answer, heard, roomTakes, takenBack>>

FindClaimed(a) ==
    /\ AttemptGoes(a, "new", "polling")
    /\ requestKey[RequestOf[a]] # NoKey
    /\ NoMessageFault
    /\ UNCHANGED <<requestKey, messageRows, answer, heard, roomTakes>>

\* The message that the key names exists.
ResolveExisting(a) ==
    /\ AttemptGoes(a, "polling", "over")
    /\ requestKey[RequestOf[a]] \in messageRows
    /\ answer' = [answer EXCEPT ![a] = requestKey[RequestOf[a]]]
    /\ NoMessageFault
    /\ UNCHANGED <<requestKey, messageRows, heard, roomTakes>>

\* The last poll finds no message: duplicate_in_progress.
StopPolling(a) ==
    /\ AttemptGoes(a, "polling", "over")
    /\ requestKey[RequestOf[a]] \notin messageRows
    /\ NoMessageFault
    /\ UNCHANGED <<requestKey, messageRows, answer, heard, roomTakes>>

-----------------------------------------------------------------------------
Validate(a) ==
    /\ AttemptGoes(a, "claimed", "valid")
    /\ roomTakes
    /\ NoMessageFault
    /\ UNCHANGED <<requestKey, messageRows, answer, heard, roomTakes>>

RefuseMessage(a) ==
    /\ AttemptGoes(a, "claimed", "failing")
    /\ ~roomTakes
    /\ NoMessageFault
    /\ UNCHANGED <<requestKey, messageRows, answer, heard, roomTakes>>

\* The row is inserted and its text posted to the callback_url, in one transaction.
PostToContact(a) ==
    /\ AttemptGoes(a, "valid", "posted")
    /\ heard' = [heard EXCEPT ![RequestOf[a]] = @ + 1]
    /\ NoMessageFault
    /\ UNCHANGED <<requestKey, messageRows, answer, roomTakes>>

\* The callback fails, and notify_room swallows it: the row stays.
PostUnheard(a) ==
    /\ AttemptGoes(a, "valid", "posted")
    /\ MessageFault
    /\ UNCHANGED <<requestKey, messageRows, answer, heard, roomTakes, takenBack, unsure>>

\* Mutant: the key names the message before it is committed.
CommitAfterStore(a) ==
    /\ attemptAt[a] = "posted" /\ requestKey[RequestOf[a]] = Pending
    /\ SetKey(RequestOf[a], a)
    /\ answer' = [answer EXCEPT ![a] = a]
    /\ NoMessageFault
    /\ UNCHANGED <<messageRows, attemptAt, heard, roomTakes>>

CommitMessage(a) ==
    /\ AttemptGoes(a, "posted", "committed")
    /\ messageRows' = messageRows \cup {a}
    /\ NoMessageFault
    /\ UNCHANGED <<requestKey, answer, heard, roomTakes>>

\* update_last_message or the COMMIT fails: the row goes, the text is out.
RollBackMessage(a) ==
    /\ AttemptGoes(a, "posted", "failing")
    /\ MessageFault
    /\ takenBack' = [takenBack EXCEPT ![RequestOf[a]] = @ + 1]
    /\ UNCHANGED <<requestKey, messageRows, answer, heard, roomTakes, unsure>>

StoreMessage(a) ==
    /\ AttemptGoes(a, "committed", "over")
    /\ SetKey(RequestOf[a], a)
    /\ answer' = [answer EXCEPT ![a] = a]
    /\ NoMessageFault
    /\ UNCHANGED <<messageRows, heard, roomTakes>>

\* Redis does not answer: the marker stays until its TTL.
StoreNothing(a) ==
    /\ AttemptGoes(a, "committed", "over")
    /\ MessageFault
    /\ answer' = [answer EXCEPT ![a] = a]
    /\ UNCHANGED <<requestKey, messageRows, heard, roomTakes, takenBack, unsure>>

\* The key is deleted, whoever's it is by now.
ReleaseKey(a) ==
    /\ AttemptGoes(a, "failing", "over")
    /\ SetKey(RequestOf[a], NoKey)
    /\ NoMessageFault
    /\ UNCHANGED <<messageRows, answer, heard, roomTakes>>

ReleaseNothing(a) ==
    /\ AttemptGoes(a, "failing", "over")
    /\ MessageFault
    /\ UNCHANGED <<requestKey, messageRows, answer, heard, roomTakes, takenBack, unsure>>

-----------------------------------------------------------------------------
\* The server's process dies: an open transaction is rolled back.
KillAttempt(a) ==
    /\ attemptAt[a] \in InProgress
    /\ MessageFault
    /\ attemptAt' = [attemptAt EXCEPT ![a] = "over"]
    /\ takenBack' = [takenBack EXCEPT ![RequestOf[a]] =
                         IF attemptAt[a] = "posted" THEN @ + 1 ELSE @]
    /\ UNCHANGED <<requestKey, messageRows, answer, heard, roomTakes, unsure>>

\* AGENT_MESSAGE_CREATE_REQUEST_ID_CACHE_TTL, 24 hours, outlasts a request.
ExpireKey(i) ==
    /\ requestKey[i] # NoKey /\ ~Busy(i)
    /\ SetKey(i, NoKey)
    /\ unsure' = unsure \cup {i}
    /\ UNCHANGED <<messageRows, attemptAt, answer, heard, roomTakes, messageFaults, takenBack>>

\* The room is transferred, closed, or answered by its contact.
ChangeRoom ==
    /\ roomTakes' = ~roomTakes
    /\ UNCHANGED <<requestKey, messageRows, attemptAt, answer, heard, messageBounds>>

MessagesNext ==
    \/ \E a \in Attempts :
          \/ Claim(a) \/ ClaimBlindly(a) \/ FindClaimed(a) \/ ResolveExisting(a) \/ StopPolling(a)
          \/ Validate(a) \/ RefuseMessage(a) \/ PostToContact(a) \/ PostUnheard(a)
          \/ CommitMessage(a) \/ RollBackMessage(a) \/ StoreMessage(a) \/ StoreNothing(a)
          \/ ReleaseKey(a) \/ ReleaseNothing(a) \/ KillAttempt(a)
    \/ \E i \in RequestIds : ExpireKey(i)
    \/ ChangeRoom

MessagesSpec == MessagesInit /\ [][MessagesNext]_messageVars

-----------------------------------------------------------------------------
(***************************************************************************)
(* A request_id has one message, however often it is sent, unless its key  *)
(* expired or an attempt went without Redis                                *)
(* (chats/apps/msgs/usecases/create_agent_message.py).                     *)
(***************************************************************************)
OneMessagePerRequest ==
    \A i \in RequestIds \ unsure : Cardinality({a \in messageRows : RequestOf[a] = i}) <= 1

(***************************************************************************)
(* The contact reads a text once, and once more for every time it was      *)
(* posted from a transaction that was rolled back.                         *)
(***************************************************************************)
ContactReadsOnce == \A i \in RequestIds \ unsure : heard[i] <= 1 + takenBack[i]

(***************************************************************************)
(* Whoever is told of success is told of a message of his own request that *)
(* is committed.                                                           *)
(***************************************************************************)
AnswersAreTrue ==
    \A a \in Attempts :
        answer[a] = NoKey \/ (answer[a] \in messageRows /\ RequestOf[answer[a]] = RequestOf[a])

(***************************************************************************)
(* Sending a text again creates no second message, tells no lie and        *)
(* repeats no text that was not taken back.                                *)
(***************************************************************************)
MessagesHold == OneMessagePerRequest /\ ContactReadsOnce /\ AnswersAreTrue

-----------------------------------------------------------------------------
(***************************************************************************)
(* What WhatsApp reports of an agent's message: the ids it has there, one  *)
(* for its text and one for each media, and that it was delivered and      *)
(* read.  Ids and statuses come through two queues, in any order           *)
(* (msgs/consumers); a status waits in a task that is retried until its id *)
(* is known, and then in the memory of a worker until there are            *)
(* MESSAGE_BULK_SIZE of them (UpdateStatusMessageUseCase).                 *)
(***************************************************************************)
CONSTANTS
    StatusWorkers,
    WhatsAppIds,
    MessageOf,         \* the message that has each id, as text or as media
    BulkSize,          \* MESSAGE_BULK_SIZE
    MaxStatusTries,    \* MESSAGE_STATUS_MAX_RETRIES
    MaxStatusFaults    \* bound on failing updates and killed processes

ASSUME StatusAssumption ==
    /\ DOMAIN MessageOf = WhatsAppIds
    /\ {BulkSize, MaxStatusTries} \subseteq Nat \ {0}
    /\ MaxStatusFaults \in Nat

VARIABLES
    idState,       \* of each id: not reported, in the queue, indexed, or dropped
    closed,        \* the room takes no more saves of its messages
    statusState,   \* of each status: not reported, in the queue, or consumed
    statusTasks,   \* tasks: a status and how often it was tried
    buffer,        \* the deque of each worker
    drained,         \* what a worker drained and has not saved yet
    instances,         \* the flags of the messages it read for them
    flags,         \* is_delivered and is_read of each message
    statusFaults,
    accepted,      \* history: statuses that a worker took
    lostStatuses   \* history: statuses lost by a killed worker, a failed update or read

queueVars == <<idState, closed, statusState>>
workerVars == <<buffer, drained, instances>>
statusHistory == <<statusFaults, accepted, lostStatuses>>
statusVars == <<queueVars, statusTasks, workerVars, flags, statusHistory>>

Reports == [id : WhatsAppIds, status : {"delivered", "read"}]
ReportedMessages == {MessageOf[i] : i \in WhatsAppIds}
Flags == [ReportedMessages -> SUBSET {"delivered", "read"}]
NothingRead == [r \in {} |-> {}]

StatusTypeOK ==
    /\ idState \in [WhatsAppIds -> {"none", "queued", "indexed", "dropped"}]
    /\ closed \in BOOLEAN
    /\ statusState \in [Reports -> {"none", "queued", "consumed"}]
    /\ statusTasks \subseteq [report : Reports, tries : 0..MaxStatusTries]
    /\ \A w \in StatusWorkers :
          /\ buffer[w] \in Seq(Reports) /\ Len(buffer[w]) < BulkSize
          /\ drained[w] \in Seq(Reports) /\ Len(drained[w]) <= BulkSize
          /\ DOMAIN instances[w] \subseteq 1..Len(drained[w])
          /\ \A k \in DOMAIN instances[w] : instances[w][k] \subseteq {"delivered", "read"}
    /\ flags \in Flags
    /\ statusFaults \in 0..MaxStatusFaults
    /\ accepted \subseteq Reports /\ lostStatuses \subseteq accepted

StatusInit ==
    /\ idState = [i \in WhatsAppIds |-> "none"]
    /\ closed = FALSE
    /\ statusState = [r \in Reports |-> "none"]
    /\ statusTasks = {}
    /\ buffer = [w \in StatusWorkers |-> <<>>]
    /\ drained = [w \in StatusWorkers |-> <<>>]
    /\ instances = [w \in StatusWorkers |-> NothingRead]
    /\ flags = [m \in ReportedMessages |-> {}]
    /\ statusFaults = 0
    /\ accepted = {} /\ lostStatuses = {}

StatusFault == statusFaults < MaxStatusFaults /\ statusFaults' = statusFaults + 1
Waiting(w) == {buffer[w][k] : k \in DOMAIN buffer[w]}
Saving(w) == {drained[w][k] : k \in DOMAIN drained[w]}
AtRest(w) == drained[w] = <<>>

-----------------------------------------------------------------------------
\* WhatsApp answers the send, and reports on a message it has.
ReportId(i) ==
    /\ idState[i] = "none"
    /\ idState' = [idState EXCEPT ![i] = "queued"]
    /\ UNCHANGED <<closed, statusState, statusTasks, workerVars, flags, statusHistory>>

ReportStatus(r) ==
    /\ statusState[r] = "none"
    /\ statusState' = [statusState EXCEPT ![r] = "queued"]
    /\ UNCHANGED <<idState, closed, statusTasks, workerVars, flags, statusHistory>>

\* The room is closed, or the contact's 24 hours have passed.
CloseWindow ==
    /\ ~closed
    /\ closed' = TRUE
    /\ UNCHANGED <<idState, statusState, statusTasks, workerVars, flags, statusHistory>>

IdArrives(i) == idState[i] = "queued"

\* SetMsgExternalIdUseCase saves the message, and Message.save refuses one of
\* a closed room: the error is swallowed and the event acknowledged.
SetExternalId(i) ==
    /\ IdArrives(i)
    /\ idState' = [idState EXCEPT ![i] = IF closed THEN "dropped" ELSE "indexed"]
    /\ UNCHANGED <<closed, statusState, statusTasks, workerVars, flags, statusHistory>>

\* process_message_status.delay, then the acknowledgement.
ConsumeStatus(r) ==
    /\ statusState[r] = "queued"
    /\ statusState' = [statusState EXCEPT ![r] = "consumed"]
    /\ statusTasks' = statusTasks \cup {[report |-> r, tries |-> 0]}
    /\ UNCHANGED <<idState, closed, workerVars, flags, statusHistory>>

\* The consumer dies between the two: the event comes again.
ConsumeTwice(r) ==
    /\ statusState[r] = "queued"
    /\ StatusFault
    /\ statusTasks' = statusTasks \cup {[report |-> r, tries |-> 0]}
    /\ UNCHANGED <<queueVars, workerVars, flags, accepted, lostStatuses>>

-----------------------------------------------------------------------------
Known(t) == idState[t.report.id] = "indexed"

\* The task runs on a worker, whose deque may be full with it.
AcceptStatus(w, t) ==
    /\ AtRest(w) /\ t \in statusTasks /\ Known(t)
    /\ statusTasks' = statusTasks \ {t}
    /\ accepted' = accepted \cup {t.report}
    /\ LET all == Append(buffer[w], t.report)
       IN  IF Len(all) < BulkSize
           THEN buffer' = [buffer EXCEPT ![w] = all] /\ UNCHANGED drained
           ELSE /\ buffer' = [buffer EXCEPT ![w] = <<>>]
                /\ drained' = [drained EXCEPT ![w] = all]
    /\ UNCHANGED <<queueVars, instances, flags, statusFaults, lostStatuses>>

RetryStatus(w, t) ==
    /\ AtRest(w) /\ t \in statusTasks /\ ~Known(t)
    /\ t.tries < MaxStatusTries - 1
    /\ statusTasks' = (statusTasks \ {t}) \cup {[t EXCEPT !.tries = @ + 1]}
    /\ UNCHANGED <<queueVars, workerVars, flags, statusHistory>>

\* "Message without external_id"
GiveUpStatus(w, t) ==
    /\ AtRest(w) /\ t \in statusTasks /\ ~Known(t)
    /\ t.tries >= MaxStatusTries - 1
    /\ statusTasks' = statusTasks \ {t}
    /\ UNCHANGED <<queueVars, workerVars, flags, statusHistory>>

\* Each drained status reads an instance of its message, in turn.
NextRead(w) == Cardinality(DOMAIN instances[w]) + 1
Reads(w, seen) ==
    /\ NextRead(w) <= Len(drained[w])
    /\ instances' = [instances EXCEPT ![w] =
           [j \in 1..NextRead(w) |-> IF j = NextRead(w) THEN seen ELSE @[j]]]
    /\ UNCHANGED <<queueVars, statusTasks, buffer, drained, flags, accepted>>

ReadMessage(w) ==
    /\ Reads(w, flags[MessageOf[drained[w][NextRead(w)].id]])
    /\ UNCHANGED <<statusFaults, lostStatuses>>

\* The read of one raises, which is logged: nothing of it will be updated, as
\* though its instance had every flag already.
MissMessage(w) ==
    /\ StatusFault
    /\ Reads(w, {"delivered", "read"})
    /\ lostStatuses' = lostStatuses \cup {drained[w][NextRead(w)]}

ReadAll(w) == drained[w] # <<>> /\ Cardinality(DOMAIN instances[w]) = Len(drained[w])
EndBatch(w) ==
    /\ drained' = [drained EXCEPT ![w] = <<>>]
    /\ instances' = [instances EXCEPT ![w] = NothingRead]

\* Mutant: the update writes every flag of the instances it read.
UpdateInstances(w) ==
    /\ ReadAll(w)
    /\ flags' = [m \in ReportedMessages |->
           IF \E k \in DOMAIN drained[w] : MessageOf[drained[w][k].id] = m
           THEN LET last == CHOOSE k \in DOMAIN drained[w] :
                        /\ MessageOf[drained[w][k].id] = m
                        /\ \A j \in DOMAIN drained[w] : MessageOf[drained[w][j].id] = m => j <= k
                IN  instances[w][last] \cup {drained[w][last].status}
           ELSE flags[m]]
    /\ EndBatch(w)
    /\ UNCHANGED <<queueVars, statusTasks, buffer, statusHistory>>

\* Drained statuses whose column the instance did not have.
Unset(w, columns) ==
    {drained[w][k] : k \in {j \in DOMAIN drained[w] :
        drained[w][j].status \in columns \ instances[w][j]}}
WriteColumns(w, columns) ==
    flags' = [m \in ReportedMessages |->
        flags[m] \cup {r.status : r \in {u \in Unset(w, columns) : MessageOf[u.id] = m}}]

\* One bulk_update for each column.
UpdateFlags(w) ==
    /\ ReadAll(w)
    /\ WriteColumns(w, {"delivered", "read"})
    /\ EndBatch(w)
    /\ UNCHANGED <<queueVars, statusTasks, buffer, statusHistory>>

\* The first update raises, or the second: what was drained is gone.
FailUpdate(w, saved) ==
    /\ ReadAll(w)
    /\ StatusFault
    /\ WriteColumns(w, saved)
    /\ lostStatuses' = lostStatuses \cup Unset(w, {"delivered", "read"} \ saved)
    /\ EndBatch(w)
    /\ UNCHANGED <<queueVars, statusTasks, buffer, accepted>>

KillStatusWorker(w) ==
    /\ StatusFault
    /\ lostStatuses' = lostStatuses \cup Waiting(w) \cup Saving(w)
    /\ buffer' = [buffer EXCEPT ![w] = <<>>]
    /\ EndBatch(w)
    /\ UNCHANGED <<queueVars, statusTasks, flags, accepted>>

StatusNext ==
    \/ \E i \in WhatsAppIds : ReportId(i) \/ SetExternalId(i)
    \/ \E r \in Reports : ReportStatus(r) \/ ConsumeStatus(r) \/ ConsumeTwice(r)
    \/ CloseWindow
    \/ \E w \in StatusWorkers :
          \/ \E t \in statusTasks : AcceptStatus(w, t) \/ RetryStatus(w, t) \/ GiveUpStatus(w, t)
          \/ ReadMessage(w) \/ MissMessage(w) \/ UpdateFlags(w) \/ KillStatusWorker(w)
          \/ \E saved \in {{}, {"delivered"}, {"read"}} : FailUpdate(w, saved)

StatusSpec == StatusInit /\ [][StatusNext]_statusVars

-----------------------------------------------------------------------------
(***************************************************************************)
(* A status that a worker took is in its message, or in the memory of a    *)
(* worker that lives, or was lost by a killed one, a failed update or a    *)
(* failed read; no update of another status undoes it                      *)
(* (UpdateStatusMessageUseCase._process_message, _bulk_create).            *)
(***************************************************************************)
StatusesAreKept ==
    \A r \in accepted \ lostStatuses :
        \/ r.status \in flags[MessageOf[r.id]]
        \/ \E w \in StatusWorkers : r \in Waiting(w) \cup Saving(w)

(***************************************************************************)
(* A message is shown as delivered or read only after WhatsApp said so of  *)
(* one of its ids, and only if that id was saved before its room closed.   *)
(***************************************************************************)
StatusesAreTrue ==
    \A m \in ReportedMessages, s \in {"delivered", "read"} :
        s \in flags[m] => \E i \in WhatsAppIds :
            /\ MessageOf[i] = m /\ idState[i] = "indexed"
            /\ statusState[[id |-> i, status |-> s]] # "none"

(***************************************************************************)
(* Statuses that are taken are kept, and what is shown was reported.       *)
(***************************************************************************)
StatusHolds == StatusesAreKept /\ StatusesAreTrue
=============================================================================
