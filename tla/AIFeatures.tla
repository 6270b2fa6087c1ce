------------------------------ MODULE AIFeatures ------------------------------
(***************************************************************************)
(* Two features of ai_features beside a room: the summaries of its history,*)
(* and below the transcription of an audio.  They share no state.          *)
(*                                                                         *)
(* The summaries an AI writes of a room's history                          *)
(* (chats/apps/ai_features/history_summary).  Creating the room, and       *)
(* sending its history later, create a row and send two delayed tasks: one *)
(* generates the summary and the other gives it up if it was not begun.    *)
(* The row is read and written by both without a lock, and the agent sees  *)
(* the summaries of the room through two requests.                         *)
(***************************************************************************)
EXTENDS Integers, FiniteSets

CONSTANTS
    LastSummary,        \* summaries of the room are 1..LastSummary, as created
    MaxSummaryFaults    \* bound on the processes killed

ASSUME SummaryAssumption == LastSummary \in Nat \ {0} /\ MaxSummaryFaults \in Nat

Summaries == 1..LastSummary

VARIABLES
    summaryStatus,   \* status of each row; "none" without one
    hasText,         \* summary is not empty
    newer,           \* of each row, the rows whose modified_on is later
    committed,       \* is the transaction that created the room over?
    request,         \* where the request that creates each row is
    generation,      \* where the task that generates it is
    cancellation,    \* where the task that gives it up is
    raced,           \* rows whose generation began between the read and the save of the other task
    overlapping,     \* was a row created while another was being generated?
    summaryFaults

creationVars == <<committed, request>>
summaryVars == <<summaryStatus, hasText, newer, creationVars, generation,
                 cancellation, raced, overlapping, summaryFaults>>

Finals == {"DONE", "UNAVAILABLE"}

SummariesTypeOK ==
    /\ summaryStatus \in [Summaries -> {"none", "PENDING", "PROCESSING"} \cup Finals]
    /\ hasText \in [Summaries -> BOOLEAN]
    /\ newer \in [Summaries -> SUBSET {s \in Summaries : summaryStatus[s] # "none"}]
    /\ \A s, t \in Summaries :
          summaryStatus[s] # "none" /\ summaryStatus[t] # "none" /\ s # t =>
              (t \in newer[s] <=> s \notin newer[t])
    /\ committed \in BOOLEAN
    /\ request \in [Summaries -> {"none", "create", "generate", "cancel", "over"}]
    /\ generation \in [Summaries -> {"none", "sent", "read", "processing", "saving_text",
                                     "saving_none", "over"}]
    /\ cancellation \in [Summaries -> {"none", "sent", "read", "over"}]
    /\ raced \subseteq Summaries
    /\ overlapping \in BOOLEAN
    /\ summaryFaults \in 0..MaxSummaryFaults

SummariesInit ==
    /\ summaryStatus = [s \in Summaries |-> "none"]
    /\ hasText = [s \in Summaries |-> FALSE]
    /\ newer = [s \in Summaries |-> {}]
    /\ committed = FALSE
    /\ request = [s \in Summaries |-> "none"]
    /\ generation = [s \in Summaries |-> "none"]
    /\ cancellation = [s \in Summaries |-> "none"]
    /\ raced = {}
    /\ overlapping = FALSE
    /\ summaryFaults = 0

\* What the tasks and later requests see: not the row of an open transaction.
Visible(s) == summaryStatus[s] # "none" /\ (s = 1 => committed)

SetSummary(s, status) == summaryStatus' = [summaryStatus EXCEPT ![s] = status]

\* A save of the whole row sets modified_on; update_status does not.
Touch(s) ==
    newer' = [t \in Summaries |->
                 IF t = s \/ summaryStatus[t] = "none" THEN {} ELSE newer[t] \cup {s}]

-----------------------------------------------------------------------------
\* The flows create the room, and its first summary in the same transaction.
CreateRoom ==
    /\ request[1] = "none"
    /\ request' = [request EXCEPT ![1] = "create"]
    /\ UNCHANGED <<summaryStatus, hasText, newer, committed, generation, cancellation,
                   raced, overlapping, summaryFaults>>

\* The history endpoint looks for a row that is PENDING and finds none.
CheckPending(s) ==
    /\ committed
    /\ s > 1 /\ request[s] = "none" /\ request[s - 1] # "none"
    /\ \A t \in Summaries : summaryStatus[t] # "PENDING"
    /\ request' = [request EXCEPT ![s] = "create"]
    /\ UNCHANGED <<summaryStatus, hasText, newer, committed, generation, cancellation,
                   raced, overlapping, summaryFaults>>

\* The row may yet be written by its tasks.
Unsettled(t) ==
    \/ summaryStatus[t] \in {"PENDING", "PROCESSING"}
    \/ generation[t] \notin {"none", "over"}

\* Mutant: the row is created and no task is sent for it.
CreateUnsent(s) ==
    /\ request[s] = "create"
    /\ \A t \in 1..(s - 1) : summaryStatus[t] # "none"
    /\ request' = [request EXCEPT ![s] = "over"]
    /\ SetSummary(s, "PENDING")
    /\ Touch(s)
    /\ overlapping' = (overlapping \/ \E t \in 1..(s - 1) : Unsettled(t))
    /\ UNCHANGED <<hasText, committed, generation, cancellation, raced, summaryFaults>>

CreateSummary(s) ==
    /\ request[s] = "create"
    /\ \A t \in 1..(s - 1) : summaryStatus[t] # "none"
    /\ request' = [request EXCEPT ![s] = "generate"]
    /\ SetSummary(s, "PENDING")
    /\ Touch(s)
    /\ overlapping' = (overlapping \/ \E t \in 1..(s - 1) : Unsettled(t))
    /\ UNCHANGED <<hasText, committed, generation, cancellation, raced, summaryFaults>>

SendGenerate(s) ==
    /\ request[s] = "generate"
    /\ request' = [request EXCEPT ![s] = "cancel"]
    /\ generation' = [generation EXCEPT ![s] = "sent"]
    /\ UNCHANGED <<summaryStatus, hasText, newer, committed, cancellation, raced,
                   overlapping, summaryFaults>>

SendCancel(s) ==
    /\ request[s] = "cancel"
    /\ request' = [request EXCEPT ![s] = "over"]
    /\ cancellation' = [cancellation EXCEPT ![s] = "sent"]
    /\ UNCHANGED <<summaryStatus, hasText, newer, committed, generation, raced,
                   overlapping, summaryFaults>>

CommitRoom ==
    /\ ~committed /\ request[1] = "over"
    /\ committed' = TRUE
    /\ UNCHANGED <<summaryStatus, hasText, newer, request, generation, cancellation,
                   raced, overlapping, summaryFaults>>

SummaryFault ==
    /\ summaryFaults < MaxSummaryFaults
    /\ summaryFaults' = summaryFaults + 1

\* A request of the history endpoint fails or dies after it created the row.
KillRequest(s) ==
    /\ SummaryFault
    /\ s > 1 /\ request[s] \in {"generate", "cancel"}
    /\ request' = [request EXCEPT ![s] = "over"]
    /\ UNCHANGED <<summaryStatus, hasText, newer, committed, generation, cancellation,
                   raced, overlapping>>

-----------------------------------------------------------------------------
Generates(s, from, to) ==
    /\ generation[s] = from
    /\ generation' = [generation EXCEPT ![s] = to]
    /\ UNCHANGED <<creationVars, cancellation, overlapping>>

\* The task is early for a row whose transaction takes longer than three seconds.
MissRow(s) ==
    /\ Generates(s, "sent", "over")
    /\ ~Visible(s)
    /\ UNCHANGED <<summaryStatus, hasText, newer, raced, summaryFaults>>

ReadRow(s) ==
    /\ Generates(s, "sent", "read")
    /\ Visible(s)
    /\ UNCHANGED <<summaryStatus, hasText, newer, raced, summaryFaults>>

\* get_prompt raises before anything is saved.
LackPrompt(s) ==
    /\ Generates(s, "read", "over")
    /\ UNCHANGED <<summaryStatus, hasText, newer, raced, summaryFaults>>

\* The prompt has no place for the conversation.
RefusePrompt(s) ==
    /\ Generates(s, "read", "over")
    /\ SetSummary(s, "UNAVAILABLE")
    /\ UNCHANGED <<hasText, newer, raced, summaryFaults>>

BeginSummary(s) ==
    /\ Generates(s, "read", "processing")
    /\ SetSummary(s, "PROCESSING")
    /\ raced' = IF cancellation[s] = "read" THEN raced \cup {s} ELSE raced
    /\ UNCHANGED <<hasText, newer, summaryFaults>>

\* The status is saved first; the text waits for the save of the whole row.
ReceiveText(s) ==
    /\ Generates(s, "processing", "saving_text")
    /\ SetSummary(s, "DONE")
    /\ UNCHANGED <<hasText, newer, raced, summaryFaults>>

ReceiveNone(s) ==
    /\ Generates(s, "processing", "saving_none")
    /\ SetSummary(s, "UNAVAILABLE")
    /\ UNCHANGED <<hasText, newer, raced, summaryFaults>>

SaveText(s) ==
    /\ Generates(s, "saving_text", "over")
    /\ SetSummary(s, "DONE")
    /\ hasText' = [hasText EXCEPT ![s] = TRUE]
    /\ Touch(s)
    /\ UNCHANGED <<raced, summaryFaults>>

SaveNone(s) ==
    /\ Generates(s, "saving_none", "over")
    /\ SetSummary(s, "UNAVAILABLE")
    /\ hasText' = [hasText EXCEPT ![s] = FALSE]
    /\ Touch(s)
    /\ UNCHANGED <<raced, summaryFaults>>

\* An exception after the row is PROCESSING.
FailSummary(s) ==
    /\ generation[s] \in {"processing", "saving_text", "saving_none"}
    /\ Generates(s, generation[s], "over")
    /\ SetSummary(s, "UNAVAILABLE")
    /\ UNCHANGED <<hasText, newer, raced, summaryFaults>>

KillSummary(s) ==
    /\ SummaryFault
    /\ generation[s] \notin {"none", "over"}
    /\ Generates(s, generation[s], "over")
    /\ UNCHANGED <<summaryStatus, hasText, newer, raced>>

-----------------------------------------------------------------------------
\* The creation of the room takes less than the thirty-three seconds of this task.
GiveUpDue(s) == cancellation[s] = "sent" /\ Visible(s)

Cancels(s, to) ==
    /\ cancellation' = [cancellation EXCEPT ![s] = to]
    /\ UNCHANGED <<hasText, creationVars, generation, raced, overlapping, summaryFaults>>

LeaveSummary(s) ==
    /\ GiveUpDue(s)
    /\ summaryStatus[s] # "PENDING"
    /\ Cancels(s, "over")
    /\ UNCHANGED <<summaryStatus, newer>>

\* Mutant: a summary that is not DONE yet is given up as well.
ReadUnfinished(s) ==
    /\ GiveUpDue(s)
    /\ summaryStatus[s] \in {"PENDING", "PROCESSING"}
    /\ Cancels(s, "read")
    /\ UNCHANGED <<summaryStatus, newer>>

ReadPending(s) ==
    /\ GiveUpDue(s)
    /\ summaryStatus[s] = "PENDING"
    /\ Cancels(s, "read")
    /\ UNCHANGED <<summaryStatus, newer>>

\* The whole row is saved as it was read: without a text.
SaveGivenUp(s) ==
    /\ cancellation[s] = "read"
    /\ cancellation' = [cancellation EXCEPT ![s] = "over"]
    /\ SetSummary(s, "UNAVAILABLE")
    /\ hasText' = [hasText EXCEPT ![s] = FALSE]
    /\ Touch(s)
    /\ UNCHANGED <<creationVars, generation, raced, overlapping, summaryFaults>>

-----------------------------------------------------------------------------
RequestStep(s) == CreateSummary(s) \/ SendGenerate(s) \/ SendCancel(s)

GenerateStep(s) ==
    \/ MissRow(s) \/ ReadRow(s) \/ LackPrompt(s) \/ RefusePrompt(s) \/ BeginSummary(s)
    \/ ReceiveText(s) \/ ReceiveNone(s) \/ SaveText(s) \/ SaveNone(s) \/ FailSummary(s)

CancelStep(s) == LeaveSummary(s) \/ ReadPending(s) \/ SaveGivenUp(s)

SummariesNext ==
    \/ CreateRoom \/ CommitRoom
    \/ \E s \in Summaries :
          \/ CheckPending(s) \/ RequestStep(s) \/ KillRequest(s)
          \/ GenerateStep(s) \/ KillSummary(s) \/ CancelStep(s)

SummariesSpec == SummariesInit /\ [][SummariesNext]_summaryVars

(***************************************************************************)
(* Requests go on, the transaction ends and the workers run the tasks.     *)
(***************************************************************************)
SummariesFairness ==
    /\ WF_summaryVars(CommitRoom)
    /\ \A s \in Summaries :
          /\ WF_summaryVars(RequestStep(s))
          /\ WF_summaryVars(GenerateStep(s))
          /\ WF_summaryVars(CancelStep(s))

-----------------------------------------------------------------------------
Written(s) == summaryStatus[s] = "DONE" /\ hasText[s]

(***************************************************************************)
(* A summary that was written is not lost to the task that gives it up     *)
(* (cancel_history_summary_generation), unless that task had read the row  *)
(* before the generation began and saved it afterwards.                    *)
(***************************************************************************)
SummaryKept ==
    [][\A s \in Summaries \ raced : Written(s) => Written(s)']_summaryVars

\* Mutant: the first of the rows is taken.
EarliestOf(rows) == CHOOSE s \in rows : rows \ {s} \subseteq newer[s]

\* The last of the rows in a set, in the order of modified_on.
LatestOf(rows) == CHOOSE s \in rows : rows \cap newer[s] = {}

\* chats_summary: what the agent is shown; 0 is "unavailable".
Shown ==
    LET awaited == {s \in Summaries : summaryStatus[s] \in {"PENDING", "PROCESSING"}}
        written == {s \in Summaries : Written(s)}
    IN  IF awaited # {} THEN LatestOf(awaited)
        ELSE IF written # {} THEN LatestOf(written) ELSE 0

\* chats_summary_feedback: the row that a feedback is for.
Rated == CHOOSE s \in Summaries :
    /\ summaryStatus[s] # "none"
    /\ \A t \in Summaries : summaryStatus[t] # "none" => t <= s

(***************************************************************************)
(* The feedback the agent gives is for the summary the agent is shown:     *)
(* chats_summary picks by modified_on and chats_summary_feedback by        *)
(* created_on.  They agree unless summaries were generated at once.        *)
(***************************************************************************)
ShownIsRated ==
    committed /\ ~overlapping /\ Written(Rated) => Shown = Rated

IsAwaited(s) == summaryStatus[s] = "PENDING"
HasSettled(s) == summaryStatus[s] \in Finals \/ summaryFaults > 0

(***************************************************************************)
(* A summary the agent is told to wait for is written or unavailable in    *)
(* the end, unless a process is killed.                                    *)
(***************************************************************************)
SummarySettles == \A s \in Summaries : IsAwaited(s) ~> HasSettled(s)

(***************************************************************************)
(* A summary that was written is kept, and it is the one the agent sees    *)
(* and rates (cancel_history_summary_generation, chats_summary).           *)
(***************************************************************************)
SummariesHold == []ShownIsRated /\ SummaryKept

-----------------------------------------------------------------------------
(***************************************************************************)
(* Transcribing the audio of a message                                     *)
(* (chats/apps/ai_features/audio_transcription): agents ask for it, a row  *)
(* that is unique for the audio is created, and a task calls a function    *)
(* outside, saves the text and notifies the room.  A failed transcription  *)
(* may be asked for again: its row is deleted and another one created.     *)
(***************************************************************************)
CONSTANTS
    Askers,                 \* agents who ask for the transcription
    LastRow,                \* rows are 1..LastRow as created, at most one at a time
    MaxTranscriptionFaults  \* bound on killed processes and failed notifications

ASSUME TranscriptionAssumption == LastRow \in Nat /\ MaxTranscriptionFaults \in Nat

Rows == 1..LastRow

VARIABLES
    row,              \* the row of the audio, 0 without one
    lastRow,          \* the last one created
    transcription,    \* its status
    transcribed,      \* its text is not empty
    asking,           \* where each agent's request is
    foundRow,         \* the failed row it has found
    transcribing,     \* where the task of each row is
    lostRequests,     \* has a process been killed?
    transcriptionFaults

audioVars == <<row, lastRow, transcription, transcribed>>
askVars == <<asking, foundRow>>
transcriptionVars == <<audioVars, askVars, transcribing, lostRequests, transcriptionFaults>>

RowStatuses == {"QUEUED", "PROCESSING", "DONE", "FAILED"}

TranscriptionTypeOK ==
    /\ row \in 0..lastRow /\ lastRow \in 0..LastRow
    /\ transcription \in RowStatuses \cup {"none"}
    /\ row = 0 <=> transcription = "none"
    /\ transcribed \in BOOLEAN
    /\ asking \in [Askers -> {"idle", "delete", "create", "send"}]
    /\ foundRow \in [Askers -> 0..lastRow]
    /\ transcribing \in [Rows -> {"none", "sent", "calling", "telling_done", "telling_failed",
                                  "except", "retelling", "over"}]
    /\ \A i \in Rows : i > lastRow => transcribing[i] = "none"
    /\ lostRequests \in BOOLEAN
    /\ transcriptionFaults \in 0..MaxTranscriptionFaults

TranscriptionInit ==
    /\ row = 0 /\ lastRow = 0
    /\ transcription = "none" /\ transcribed = FALSE
    /\ asking = [a \in Askers |-> "idle"]
    /\ foundRow = [a \in Askers |-> 0]
    /\ transcribing = [i \in Rows |-> "none"]
    /\ lostRequests = FALSE
    /\ transcriptionFaults = 0

-----------------------------------------------------------------------------
Asks(a, from, to) ==
    /\ asking[a] = from
    /\ asking' = [asking EXCEPT ![a] = to]
    /\ UNCHANGED <<lostRequests, transcriptionFaults>>

FindNone(a) ==
    /\ Asks(a, "idle", "create")
    /\ row = 0
    /\ UNCHANGED <<audioVars, foundRow, transcribing>>

\* Mutant: whatever has ended may be tried again.
FindEnded(a) ==
    /\ Asks(a, "idle", "delete")
    /\ transcription \in {"FAILED", "DONE"}
    /\ foundRow' = [foundRow EXCEPT ![a] = row]
    /\ UNCHANGED <<audioVars, transcribing>>

\* Any other status is returned, and that is all.
FindFailed(a) ==
    /\ Asks(a, "idle", "delete")
    /\ transcription = "FAILED"
    /\ foundRow' = [foundRow EXCEPT ![a] = row]
    /\ UNCHANGED <<audioVars, transcribing>>

\* Deletes the row it has found, which may be gone already.
DeleteFailed(a) ==
    /\ Asks(a, "delete", "create")
    /\ IF row = foundRow[a]
       THEN row' = 0 /\ transcription' = "none" /\ transcribed' = FALSE
       ELSE UNCHANGED <<row, transcription, transcribed>>
    /\ foundRow' = [foundRow EXCEPT ![a] = 0]
    /\ UNCHANGED <<lastRow, transcribing>>

\* Mutant: an audio may have more than one row.
CreateBeside(a) ==
    /\ Asks(a, "create", "send")
    /\ lastRow < LastRow
    /\ lastRow' = lastRow + 1
    /\ row' = lastRow'
    /\ transcription' = "QUEUED"
    /\ transcribed' = FALSE
    /\ UNCHANGED <<foundRow, transcribing>>

CreateRow(a) ==
    /\ Asks(a, "create", "send")
    /\ row = 0 /\ lastRow < LastRow
    /\ lastRow' = lastRow + 1
    /\ row' = lastRow'
    /\ transcription' = "QUEUED"
    /\ transcribed' = FALSE
    /\ UNCHANGED <<foundRow, transcribing>>

\* The audio has a row again: the request ends in an IntegrityError.
CollideOnRow(a) ==
    /\ Asks(a, "create", "idle")
    /\ row # 0
    /\ UNCHANGED <<audioVars, foundRow, transcribing>>

\* Until the task is sent nothing else can touch the row.
SendTranscription(a) ==
    /\ Asks(a, "send", "idle")
    /\ transcribing' = [transcribing EXCEPT ![row] = "sent"]
    /\ UNCHANGED <<audioVars, foundRow>>

-----------------------------------------------------------------------------
Transcribes(i, from, to) ==
    /\ transcribing[i] = from
    /\ transcribing' = [transcribing EXCEPT ![i] = to]
    /\ UNCHANGED askVars

\* A save of the row of a task, which does nothing to a row that is gone.
SaveRow(i, status, text) ==
    IF row = i THEN transcription' = status /\ transcribed' = text
               ELSE UNCHANGED <<transcription, transcribed>>

NoTranscriptionFault == UNCHANGED <<lostRequests, transcriptionFaults>>

CallFunction(i) ==
    /\ Transcribes(i, "sent", "calling")
    /\ SaveRow(i, "PROCESSING", transcribed)
    /\ NoTranscriptionFault
    /\ UNCHANGED <<row, lastRow>>

ReceiveTranscription(i) ==
    /\ Transcribes(i, "calling", "telling_done")
    /\ SaveRow(i, "DONE", TRUE)
    /\ NoTranscriptionFault
    /\ UNCHANGED <<row, lastRow>>

\* The function answers with an error, or with nothing.
ReceiveError(i) ==
    /\ Transcribes(i, "calling", "telling_failed")
    /\ SaveRow(i, "FAILED", transcribed)
    /\ NoTranscriptionFault
    /\ UNCHANGED <<row, lastRow>>

\* Mutant: an exception of the call is logged and no more.
IgnoreException(i) ==
    /\ Transcribes(i, "calling", "over")
    /\ NoTranscriptionFault
    /\ UNCHANGED audioVars

\* The call raises.
RaiseInCall(i) ==
    /\ Transcribes(i, "calling", "except")
    /\ NoTranscriptionFault
    /\ UNCHANGED audioVars

NotifyRoom(i) ==
    /\ \E telling \in {"telling_done", "telling_failed", "retelling"} :
          Transcribes(i, telling, "over")
    /\ NoTranscriptionFault
    /\ UNCHANGED audioVars

TranscriptionFault ==
    /\ transcriptionFaults < MaxTranscriptionFaults
    /\ transcriptionFaults' = transcriptionFaults + 1

\* The notification raises inside the try: the exception handler goes on.
FailNotification(i) ==
    /\ TranscriptionFault
    /\ \E telling \in {"telling_done", "telling_failed"} : Transcribes(i, telling, "except")
    /\ UNCHANGED <<audioVars, lostRequests>>

\* update_status raises when the row has been deleted meanwhile.
HandleException(i) ==
    /\ Transcribes(i, "except", IF row = i THEN "retelling" ELSE "over")
    /\ SaveRow(i, "FAILED", transcribed)
    /\ NoTranscriptionFault
    /\ UNCHANGED <<row, lastRow>>

KillAsker(a) ==
    /\ TranscriptionFault
    /\ asking[a] # "idle"
    /\ asking' = [asking EXCEPT ![a] = "idle"]
    /\ foundRow' = [foundRow EXCEPT ![a] = 0]
    /\ lostRequests' = TRUE
    /\ UNCHANGED <<audioVars, transcribing>>

KillTranscription(i) ==
    /\ TranscriptionFault
    /\ transcribing[i] \notin {"none", "over"}
    /\ Transcribes(i, transcribing[i], "over")
    /\ lostRequests' = TRUE
    /\ UNCHANGED audioVars

AskStep(a) ==
    DeleteFailed(a) \/ CreateRow(a) \/ CollideOnRow(a) \/ SendTranscription(a)

TranscribeStep(i) ==
    \/ CallFunction(i) \/ ReceiveTranscription(i) \/ ReceiveError(i) \/ RaiseInCall(i)
    \/ NotifyRoom(i) \/ HandleException(i)

TranscriptionNext ==
    \/ \E a \in Askers : FindNone(a) \/ FindFailed(a) \/ AskStep(a) \/ KillAsker(a)
    \/ \E i \in Rows : TranscribeStep(i) \/ FailNotification(i) \/ KillTranscription(i)

TranscriptionSpec == TranscriptionInit /\ [][TranscriptionNext]_transcriptionVars

(***************************************************************************)
(* Requests go on, and the workers run the tasks.                          *)
(***************************************************************************)
TranscriptionFairness ==
    /\ \A a \in Askers : WF_transcriptionVars(AskStep(a))
    /\ \A i \in Rows : WF_transcriptionVars(TranscribeStep(i))

-----------------------------------------------------------------------------
(***************************************************************************)
(* The audio is not transcribed by two tasks at once, however many agents  *)
(* ask: a second request returns the status, or collides on the row.       *)
(***************************************************************************)
OneCall ==
    Cardinality({i \in Rows : transcribing[i] \in {"sent", "calling"}}) <= 1

(***************************************************************************)
(* A transcription that is done stays, unless its own notification raised  *)
(* and the exception handler marked it FAILED.                             *)
(***************************************************************************)
DoneStays ==
    [][transcription = "DONE"
       => transcription' = "DONE" \/ transcribing[row] = "except"]_transcriptionVars

IsQueued == transcription = "QUEUED"
HasEnded == transcription \in {"DONE", "FAILED"} \/ lostRequests

(***************************************************************************)
(* A queued transcription is done or failed in the end, unless a process   *)
(* is killed; then the row stays as it is, and no agent can ask again.     *)
(***************************************************************************)
TranscriptionEnds == IsQueued ~> HasEnded

(***************************************************************************)
(* One task at a time transcribes the audio, and what it has done stays    *)
(* (AudioTranscriptionView.post, transcribe).                              *)
(***************************************************************************)
TranscriptionHolds == []OneCall /\ DoneStays
=============================================================================
