---------------------------- MODULE ServiceProofs ----------------------------
(***************************************************************************)
(* Theorems about what goes on in other processes after a request: the     *)
(* answers to surveys and the flow that posts them (SurveySession),        *)
(* transcriptions and summaries (AIFeatures), the removal of an agent      *)
(* (AgentRemoval) and his connections (AgentPresence), for any posts,      *)
(* agents, rooms, connections, retries and faults; and so about the run of *)
(* MCServices.                                                             *)
(***************************************************************************)
EXTENDS MCServices, FiniteSetTheorems, SequenceTheorems, TLAPS

-----------------------------------------------------------------------------
(***************************************************************************)
(* Survey answers: type correctness.                                       *)
(***************************************************************************)
\* The steps of a post that was admitted, and the refusal of one that was not.
PostStep(p) == RefusePost(p) \/ FindSurvey(p) \/ CreateAnswer(p) \/ RejectAnswer(p) \/ UpdateAnswer(p)

LEMMA UpdatedSurvey ==
  ASSUME AnswersTypeOK, NEW p \in Posts, postAt[p] = "update"
  PROVE  \E old \in [rating : Ratings, comment : Texts \cup {Null}] :
            /\ copy[p] = {old}
            /\ [field \in {"rating", "comment"} |->
                  IF sent[p][field] = Missing THEN old[field] ELSE sent[p][field]]
               \in [rating : Ratings, comment : Texts \cup {Null}]
<1>1. PICK old \in [rating : Ratings, comment : Texts \cup {Null}] : copy[p] = {old}
  BY DEF AnswersTypeOK, Surveys
<1>2. sent[p] \in Payloads
  BY DEF AnswersTypeOK
<1> QED BY <1>1, <1>2 DEF Payloads

LEMMA PostStepType ==
  ASSUME AnswersTypeOK, NEW p \in Posts, PostStep(p)
  PROVE  AnswersTypeOK'
<1>1. CASE RefusePost(p)
  BY <1>1 DEF RefusePost, AnswersTypeOK
<1>2. CASE FindSurvey(p)
  BY <1>2 DEF FindSurvey, AnswersTypeOK
<1>3. CASE CreateAnswer(p)
  <2>1. [rating |-> sent[p].rating,
         comment |-> IF sent[p].comment = Missing THEN Null ELSE sent[p].comment]
        \in [rating : Ratings, comment : Texts \cup {Null}]
    BY <1>3 DEF CreateAnswer, Creatable, AnswersTypeOK, Payloads
  <2> QED BY <1>3, <2>1 DEF CreateAnswer, AnswersTypeOK, Surveys
<1>4. CASE RejectAnswer(p)
  BY <1>4 DEF RejectAnswer, AnswersTypeOK
<1>5. CASE UpdateAnswer(p)
  <2>1. survey' \in Surveys
    <3>1. PICK answer \in [rating : Ratings, comment : Texts \cup {Null}] : survey' = {answer}
      <4>1. PICK old \in [rating : Ratings, comment : Texts \cup {Null}] :
               /\ copy[p] = {old}
               /\ [field \in {"rating", "comment"} |->
                     IF sent[p][field] = Missing THEN old[field] ELSE sent[p][field]]
                  \in [rating : Ratings, comment : Texts \cup {Null}]
        BY <1>5, UpdatedSurvey DEF UpdateAnswer
      <4>2. survey' = {[field \in {"rating", "comment"} |->
                          IF sent[p][field] = Missing THEN old[field] ELSE sent[p][field]]}
        BY <1>5, <4>1 DEF UpdateAnswer
      <4> QED BY <4>1, <4>2
    <3> QED BY <3>1 DEF Surveys
  <2>2. {} \in Surveys
    BY DEF Surveys
  <2> QED BY <1>5, <2>1, <2>2 DEF UpdateAnswer, AnswersTypeOK
<1> QED BY <1>1, <1>2, <1>3, <1>4, <1>5 DEF PostStep

(***************************************************************************)
(* The survey of a room is one row with a rating, or none, and a post      *)
(* holds an instance of it exactly while it is about to update it.         *)
(***************************************************************************)
THEOREM AnswersType == AnswersSpec => []AnswersTypeOK
<1>1. AnswersInit => AnswersTypeOK
  BY DEF AnswersInit, AnswersTypeOK, Surveys, Payloads, Blank
<1>2. AnswersTypeOK /\ [AnswersNext]_answerVars => AnswersTypeOK'
  <2> SUFFICES ASSUME AnswersTypeOK, [AnswersNext]_answerVars PROVE AnswersTypeOK'
    OBVIOUS
  <2>1. CASE UNCHANGED answerVars
    BY <2>1 DEF answerVars, AnswersTypeOK
  <2>2. ASSUME NEW p \in Posts, NEW payload \in Payloads, AdmitPost(p, payload)
        PROVE  AnswersTypeOK'
    BY <2>2 DEF AdmitPost, Arrive, UnderWay, AnswersTypeOK
  <2> QED BY <2>1, <2>2, PostStepType DEF AnswersNext, PostStep
<1> QED BY <1>1, <1>2, PTL DEF AnswersSpec

(***************************************************************************)
(* Answers are kept.  A post that met no other is alone while it is under  *)
(* way; once its comment is in the row, no post is admitted any more.      *)
(***************************************************************************)
IsKept(p) ==
    \E answer \in survey :
        /\ answer.comment = sent[p].comment
        /\ answer.rating = sent[p].rating \/ sent[p].rating = Missing

Alone ==
    \A p \in Posts \ together :
        /\ p \in UnderWay => UnderWay = {p}
        /\ postAt[p] = "done" /\ sent[p].comment \in Texts => UnderWay = {} /\ IsKept(p)

LEMMA AloneStep ==
  ASSUME AnswersTypeOK, Alone, [AnswersNext]_answerVars
  PROVE  Alone'
<1>1. CASE UNCHANGED answerVars
  BY <1>1 DEF answerVars, Alone, UnderWay, IsKept
<1>2. ASSUME NEW p \in Posts, NEW payload \in Payloads, AdmitPost(p, payload)
      PROVE  Alone'
  <2>1. /\ ~Completed /\ postAt[p] = "none" /\ postAt' = [postAt EXCEPT ![p] = "admitted"]
        /\ sent' = [sent EXCEPT ![p] = payload]
        /\ together' = IF UnderWay = {} THEN together ELSE together \cup UnderWay \cup {p}
        /\ survey' = survey
    BY <1>2 DEF AdmitPost, Arrive
  <2>2. UnderWay' = UnderWay \cup {p} /\ p \notin UnderWay
    BY <2>1 DEF UnderWay, AnswersTypeOK
  <2>3. ASSUME NEW q \in Posts \ together', q \in UnderWay' PROVE UnderWay' = {q}
    BY <2>1, <2>2, <2>3
  <2>4. ASSUME NEW q \in Posts \ together', postAt'[q] = "done", sent'[q].comment \in Texts
        PROVE  FALSE
    <3>1. q # p /\ postAt[q] = "done" /\ sent[q] = sent'[q] /\ q \notin together
      BY <2>1, <2>4 DEF AnswersTypeOK
    <3>2. IsKept(q)
      BY <2>4, <3>1 DEF Alone
    <3> QED BY <2>1, <2>4, <3>1, <3>2, AnswerAssumption DEF IsKept, Completed
  <2> QED BY <2>3, <2>4 DEF Alone
<1>3. ASSUME NEW p \in Posts, PostStep(p)
      PROVE  Alone'
  <2>1. together' = together /\ sent' = sent /\ \E at : postAt' = [postAt EXCEPT ![p] = at]
    BY <1>3 DEF PostStep, RefusePost, FindSurvey, CreateAnswer, RejectAnswer, UpdateAnswer
  <2>2. UnderWay' \subseteq UnderWay /\ UnderWay \ {p} \subseteq UnderWay'
    BY <1>3 DEF PostStep, RefusePost, FindSurvey, CreateAnswer, RejectAnswer, UpdateAnswer, UnderWay,
           AnswersTypeOK
  <2>3. \/ p \in UnderWay
        \/ survey' = survey /\ UnderWay' = UnderWay /\ postAt'[p] # "done"
    BY <1>3 DEF PostStep, RefusePost, FindSurvey, CreateAnswer, RejectAnswer, UpdateAnswer, UnderWay,
           AnswersTypeOK
  <2>4. postAt'[p] = "done" /\ sent[p].comment \in Texts => IsKept(p)' /\ p \notin UnderWay'
    <3>1. CASE CreateAnswer(p)
      BY <3>1, AnswerAssumption DEF CreateAnswer, IsKept, UnderWay, AnswersTypeOK
    <3>2. CASE UpdateAnswer(p)
      <4>1. PICK old \in [rating : Ratings, comment : Texts \cup {Null}] : copy[p] = {old}
        BY <3>2, UpdatedSurvey DEF UpdateAnswer
      <4>2. survey' = {[field \in {"rating", "comment"} |->
                          IF sent[p][field] = Missing THEN old[field] ELSE sent[p][field]]}
        BY <3>2, <4>1 DEF UpdateAnswer
      <4>3. sent' = sent /\ p \notin UnderWay'
        BY <3>2 DEF UpdateAnswer, UnderWay, AnswersTypeOK
      <4>4. sent[p].comment \in Texts => IsKept(p)'
        BY <4>2, <4>3, AnswerAssumption DEF IsKept
      <4> QED BY <4>3, <4>4
    <3>3. CASE RefusePost(p) \/ FindSurvey(p) \/ RejectAnswer(p)
      BY <3>3 DEF RefusePost, FindSurvey, RejectAnswer, AnswersTypeOK
    <3> QED BY <1>3, <3>1, <3>2, <3>3 DEF PostStep
  <2>5. ASSUME NEW q \in Posts \ together' PROVE q \in UnderWay' => UnderWay' = {q}
    BY <2>1, <2>2 DEF Alone
  <2>6. ASSUME NEW q \in Posts \ together', postAt'[q] = "done", sent'[q].comment \in Texts
        PROVE  UnderWay' = {} /\ IsKept(q)'
    <3>1. CASE q = p
      BY <2>1, <2>2, <2>3, <2>4, <2>6, <3>1 DEF Alone
    <3>2. CASE q # p
      <4>1. postAt[q] = "done" /\ q \notin together
        BY <2>1, <2>6, <3>2 DEF AnswersTypeOK
      <4>2. UnderWay = {} /\ IsKept(q)
        BY <2>1, <2>6, <4>1 DEF Alone
      <4> QED BY <2>1, <2>2, <2>3, <4>2 DEF IsKept
    <3> QED BY <3>1, <3>2
  <2> QED BY <2>5, <2>6 DEF Alone
<1> QED BY <1>1, <1>2, <1>3 DEF AnswersNext, PostStep

(***************************************************************************)
(* A comment that was accepted is what the survey keeps: a completed       *)
(* survey admits no post (CSATWebhookPermission), and only posts that were *)
(* under way together overwrite each other.                                *)
(***************************************************************************)
THEOREM AnswersAreKept == AnswersSpec => []AnswerIsKept
<1>1. AnswersInit => Alone
  BY DEF AnswersInit, Alone, UnderWay
<1>2. AnswersTypeOK /\ Alone /\ [AnswersNext]_answerVars => Alone'
  BY AloneStep
<1>3. Alone => AnswerIsKept
  BY DEF Alone, AnswerIsKept, IsKept
<1> QED BY <1>1, <1>2, <1>3, AnswersType, PTL DEF AnswersSpec

-----------------------------------------------------------------------------
(***************************************************************************)
(* Transcriptions: type correctness, and where a task is by its row.  A    *)
(* row is deleted only when it has failed, and then its task has returned  *)
(* from the function: whoever is about to call it holds the present row.   *)
(***************************************************************************)
TaskFitsRow ==
    \A i \in Rows :
        /\ transcribing[i] = "sent" => row = i /\ transcription = "QUEUED"
        /\ transcribing[i] = "calling" => row = i /\ transcription = "PROCESSING"

SenderFitsRow ==
    \A a \in Askers :
        asking[a] = "send" =>
            /\ row # 0 /\ transcription = "QUEUED" /\ transcribing[row] = "none"
            /\ \A b \in Askers \ {a} : asking[b] # "send"

FinderFitsRow ==
    \A a \in Askers :
        asking[a] = "delete" => foundRow[a] # 0 /\ (foundRow[a] = row => transcription = "FAILED")

TranscriptionFits == TranscriptionTypeOK /\ TaskFitsRow /\ SenderFitsRow /\ FinderFitsRow

\* The steps of a task.
TaskStep(i) == TranscribeStep(i) \/ FailNotification(i) \/ KillTranscription(i)

\* A task saves its own row, and moves nothing but itself.
LEMMA TaskStepMoves ==
  ASSUME TranscriptionTypeOK, NEW i \in Rows, TaskStep(i)
  PROVE  /\ UNCHANGED <<row, lastRow, asking, foundRow>>
         /\ transcribing[i] # "none"
         /\ \E to \in {"calling", "telling_done", "telling_failed", "except", "retelling", "over"} :
               transcribing' = [transcribing EXCEPT ![i] = to]
         /\ transcribing'[i] = "calling" => transcribing[i] = "sent"
         /\ \/ transcription' = transcription /\ (row = i => transcribing'[i] # "calling")
            \/ row = i /\ transcription' = "PROCESSING" /\ transcribing[i] = "sent"
            \/ row # i /\ transcription' = transcription
            \/ /\ row = i /\ transcription' = "DONE" /\ transcribing[i] = "calling"
               /\ transcribing'[i] # "calling"
            \/ /\ row = i /\ transcription' = "FAILED" /\ transcribing[i] \in {"calling", "except"}
               /\ transcribing'[i] # "calling"
         /\ transcribed' \in BOOLEAN
<1> USE DEF SaveRow, audioVars, askVars, Transcribes, TranscriptionTypeOK
<1>1. CASE CallFunction(i)
  BY <1>1 DEF CallFunction
<1>2. CASE ReceiveTranscription(i)
  BY <1>2 DEF ReceiveTranscription
<1>3. CASE ReceiveError(i)
  BY <1>3 DEF ReceiveError
<1>4. CASE RaiseInCall(i)
  BY <1>4 DEF RaiseInCall
<1>5. CASE NotifyRoom(i)
  BY <1>5 DEF NotifyRoom
<1>6. CASE HandleException(i)
  BY <1>6 DEF HandleException
<1>7. CASE FailNotification(i)
  BY <1>7 DEF FailNotification
<1>8. CASE KillTranscription(i)
  BY <1>8 DEF KillTranscription
<1> QED BY <1>1, <1>2, <1>3, <1>4, <1>5, <1>6, <1>7, <1>8 DEF TaskStep, TranscribeStep

LEMMA TaskStepFaults ==
  ASSUME TranscriptionTypeOK, NEW i \in Rows, TaskStep(i)
  PROVE  lostRequests' \in BOOLEAN /\ transcriptionFaults' \in 0..MaxTranscriptionFaults
<1>1. \/ UNCHANGED <<lostRequests, transcriptionFaults>>
      \/ /\ TranscriptionFault
         /\ lostRequests' = lostRequests \/ lostRequests' = TRUE
  BY DEF TaskStep, TranscribeStep, CallFunction, ReceiveTranscription, ReceiveError, RaiseInCall, NotifyRoom,
         HandleException, FailNotification, KillTranscription, NoTranscriptionFault
<1>2. lostRequests' \in BOOLEAN
  BY <1>1 DEF TranscriptionTypeOK
<1>3. transcriptionFaults' \in 0..MaxTranscriptionFaults
  BY <1>1, TranscriptionAssumption DEF TranscriptionTypeOK, TranscriptionFault
<1> QED BY <1>2, <1>3

LEMMA TaskStepFits ==
  ASSUME TranscriptionFits, NEW i \in Rows, TaskStep(i)
  PROVE  TranscriptionFits'
<1> USE DEF TranscriptionFits
<1>1. TranscriptionTypeOK'
  <2>1. /\ transcription' \in RowStatuses \cup {"none"}
        /\ row' = 0 <=> transcription' = "none"
    BY TaskStepMoves DEF TranscriptionTypeOK, RowStatuses, Rows
  <2>2. /\ transcribing' \in [Rows -> {"none", "sent", "calling", "telling_done", "telling_failed",
                                     "except", "retelling", "over"}]
        /\ \A j \in Rows : j > lastRow => transcribing'[j] = "none"
    BY TaskStepMoves DEF TranscriptionTypeOK
  <2> QED BY <2>1, <2>2, TaskStepMoves, TaskStepFaults DEF TranscriptionTypeOK
<1>2. TaskFitsRow'
  BY TaskStepMoves DEF TranscriptionTypeOK, TaskFitsRow
<1>3. SenderFitsRow'
  <2> SUFFICES ASSUME NEW a \in Askers, asking[a] = "send"
               PROVE  transcription' = "QUEUED" /\ transcribing'[row] = "none"
    BY TaskStepMoves DEF SenderFitsRow
  <2>1. row # i /\ transcribing[row] = "none" /\ transcription = "QUEUED"
    BY TaskStepMoves DEF SenderFitsRow
  <2>2. row \in Rows
    BY TranscriptionAssumption DEF TranscriptionTypeOK, SenderFitsRow, Rows
  <2> QED BY <2>1, <2>2, TaskStepMoves DEF TranscriptionTypeOK
<1>4. FinderFitsRow'
  BY TaskStepMoves DEF TaskFitsRow, FinderFitsRow
<1> QED BY <1>1, <1>2, <1>3, <1>4

\* The steps of a request.
AskerStep(a) == FindNone(a) \/ FindFailed(a) \/ AskStep(a) \/ KillAsker(a)

LEMMA RequestStepFits ==
  ASSUME TranscriptionFits, NEW a \in Askers, AskerStep(a)
  PROVE  TranscriptionFits'
<1> USE DEF TranscriptionFits, Asks, audioVars
<1>1. CASE FindNone(a)
  BY <1>1 DEF FindNone, TranscriptionTypeOK, TaskFitsRow, SenderFitsRow, FinderFitsRow
<1>2. CASE FindFailed(a)
  BY <1>2 DEF FindFailed, TranscriptionTypeOK, TaskFitsRow, SenderFitsRow, FinderFitsRow
<1>3. CASE DeleteFailed(a)
  <2>1. TranscriptionTypeOK'
    <3>1. /\ row' \in 0..lastRow /\ row' = 0 <=> transcription' = "none"
          /\ transcription' \in RowStatuses \cup {"none"}
      BY <1>3 DEF DeleteFailed, TranscriptionTypeOK
    <3>2. transcribed' \in BOOLEAN
      BY <1>3 DEF DeleteFailed, TranscriptionTypeOK
    <3>3. /\ asking' \in [Askers -> {"idle", "delete", "create", "send"}]
          /\ foundRow' \in [Askers -> 0..lastRow]
      BY <1>3 DEF DeleteFailed, TranscriptionTypeOK
    <3> QED BY <1>3, <3>1, <3>2, <3>3 DEF DeleteFailed, TranscriptionTypeOK
  <2>2. TaskFitsRow'
    BY <1>3 DEF DeleteFailed, TaskFitsRow, FinderFitsRow, Rows
  <2>3. SenderFitsRow'
    BY <1>3 DEF DeleteFailed, TranscriptionTypeOK, SenderFitsRow, FinderFitsRow
  <2>4. FinderFitsRow'
    BY <1>3 DEF DeleteFailed, TranscriptionTypeOK, FinderFitsRow
  <2> QED BY <2>1, <2>2, <2>3, <2>4
<1>4. CASE CreateRow(a)
  <2>1. /\ asking[a] = "create" /\ asking' = [asking EXCEPT ![a] = "send"]
        /\ row = 0 /\ lastRow < LastRow /\ lastRow' = lastRow + 1 /\ row' = lastRow + 1
        /\ transcription' = "QUEUED" /\ transcribed' = FALSE
        /\ UNCHANGED <<foundRow, transcribing, lostRequests, transcriptionFaults>>
    BY <1>4 DEF CreateRow
  <2>2. lastRow \in Nat /\ lastRow + 1 \in Rows
    BY <2>1, TranscriptionAssumption DEF TranscriptionTypeOK, Rows
  <2>3. TranscriptionTypeOK'
    <3>1. /\ row' \in 0..lastRow' /\ lastRow' \in 0..LastRow
          /\ row' # 0 /\ transcription' \in RowStatuses
      BY <2>1, <2>2, TranscriptionAssumption DEF RowStatuses, Rows
    <3>2. /\ asking' \in [Askers -> {"idle", "delete", "create", "send"}]
          /\ foundRow' \in [Askers -> 0..lastRow']
      BY <2>1, <2>2 DEF TranscriptionTypeOK
    <3>3. \A i \in Rows : i > lastRow' => transcribing'[i] = "none"
      BY <2>1, <2>2 DEF TranscriptionTypeOK, Rows
    <3>4. transcription' # "none"
      BY <2>1
    <3> QED BY <2>1, <3>1, <3>2, <3>3, <3>4 DEF TranscriptionTypeOK
  <2>4. TaskFitsRow'
    BY <2>1, <2>2 DEF TaskFitsRow, Rows
  <2>5. SenderFitsRow'
    BY <2>1, <2>2 DEF TranscriptionTypeOK, SenderFitsRow, Rows
  <2>6. FinderFitsRow'
    BY <2>1, <2>2 DEF TranscriptionTypeOK, FinderFitsRow
  <2> QED BY <2>3, <2>4, <2>5, <2>6
<1>5. CASE CollideOnRow(a)
  BY <1>5 DEF CollideOnRow, TranscriptionTypeOK, TaskFitsRow, SenderFitsRow, FinderFitsRow
<1>6. CASE SendTranscription(a)
  <2>1. row \in Rows /\ transcription = "QUEUED" /\ row <= lastRow
    BY <1>6, TranscriptionAssumption DEF SendTranscription, TranscriptionTypeOK, SenderFitsRow, Rows
  <2>2. /\ asking[a] = "send" /\ asking' = [asking EXCEPT ![a] = "idle"]
        /\ transcribing' = [transcribing EXCEPT ![row] = "sent"]
        /\ UNCHANGED <<row, lastRow, transcription, transcribed, foundRow, lostRequests,
                       transcriptionFaults>>
    BY <1>6 DEF SendTranscription
  <2>3. TranscriptionTypeOK'
    BY <2>1, <2>2 DEF TranscriptionTypeOK, Rows
  <2>4. TaskFitsRow'
    BY <2>1, <2>2 DEF TranscriptionTypeOK, TaskFitsRow
  <2>5. SenderFitsRow' /\ FinderFitsRow'
    BY <2>1, <2>2 DEF TranscriptionTypeOK, SenderFitsRow, FinderFitsRow
  <2> QED BY <2>3, <2>4, <2>5
<1>7. CASE KillAsker(a)
  <2>1. TranscriptionTypeOK'
    BY <1>7, TranscriptionAssumption DEF KillAsker, TranscriptionFault, TranscriptionTypeOK
  <2>2. TaskFitsRow' /\ SenderFitsRow' /\ FinderFitsRow'
    BY <1>7 DEF KillAsker, TranscriptionTypeOK, TaskFitsRow, SenderFitsRow, FinderFitsRow
  <2> QED BY <2>1, <2>2
<1> QED BY <1>1, <1>2, <1>3, <1>4, <1>5, <1>6, <1>7 DEF AskerStep, AskStep

LEMMA TranscriptionStepFits ==
  ASSUME TranscriptionFits, [TranscriptionNext]_transcriptionVars
  PROVE  TranscriptionFits'
<1>1. CASE UNCHANGED transcriptionVars
  BY <1>1 DEF transcriptionVars, audioVars, askVars, TranscriptionFits, TranscriptionTypeOK, TaskFitsRow,
         SenderFitsRow, FinderFitsRow
<1>2. CASE \E a \in Askers : AskerStep(a)
  BY <1>2, RequestStepFits
<1>3. CASE \E i \in Rows : TaskStep(i)
  BY <1>3, TaskStepFits
<1> QED BY <1>1, <1>2, <1>3 DEF TranscriptionNext, AskerStep, TaskStep

(***************************************************************************)
(* The row of the audio, the requests and the tasks always fit together    *)
(* (AudioTranscriptionView.post and transcribe_audio).                    *)
(***************************************************************************)
THEOREM TranscriptionInvariant == TranscriptionSpec => []TranscriptionFits
<1>1. TranscriptionInit => TranscriptionFits
  <2> SUFFICES ASSUME TranscriptionInit PROVE TranscriptionFits
    OBVIOUS
  <2>1. /\ row = 0 /\ lastRow = 0 /\ transcription = "none" /\ transcribed = FALSE
        /\ lostRequests = FALSE /\ transcriptionFaults = 0
    BY DEF TranscriptionInit
  <2>2. /\ asking = [a \in Askers |-> "idle"] /\ foundRow = [a \in Askers |-> 0]
        /\ transcribing = [i \in Rows |-> "none"]
    BY DEF TranscriptionInit
  <2>3. transcriptionFaults \in 0..MaxTranscriptionFaults /\ lastRow \in 0..LastRow
    BY <2>1, TranscriptionAssumption
  <2>4. foundRow \in [Askers -> 0..lastRow] /\ row \in 0..lastRow
    BY <2>1, <2>2
  <2>5. TranscriptionTypeOK
    BY <2>1, <2>2, <2>3, <2>4 DEF TranscriptionTypeOK
  <2>6. TaskFitsRow /\ SenderFitsRow /\ FinderFitsRow
    BY <2>2 DEF TaskFitsRow, SenderFitsRow, FinderFitsRow
  <2> QED BY <2>5, <2>6 DEF TranscriptionFits
<1>2. TranscriptionFits /\ [TranscriptionNext]_transcriptionVars => TranscriptionFits'
  BY TranscriptionStepFits
<1> QED BY <1>1, <1>2, PTL DEF TranscriptionSpec

(***************************************************************************)
(* The row, the requests and the tasks stay within the values the code     *)
(* gives them.                                                             *)
(***************************************************************************)
THEOREM TranscriptionType == TranscriptionSpec => []TranscriptionTypeOK
<1>1. TranscriptionFits => TranscriptionTypeOK
  BY DEF TranscriptionFits
<1> QED BY <1>1, TranscriptionInvariant, PTL

(***************************************************************************)
(* However many agents ask, retry or give up, one task at most is about to *)
(* call the function for the audio: the unique row of the audio keeps the  *)
(* others away (AudioTranscriptionView.post).                                 *)
(***************************************************************************)
THEOREM OneCallAtATime == TranscriptionSpec => []OneCall
<1>1. TranscriptionFits => OneCall
  <2> SUFFICES ASSUME TranscriptionFits
               PROVE  Cardinality({i \in Rows : transcribing[i] \in {"sent", "calling"}}) <= 1
    BY DEF OneCall
  <2>1. {i \in Rows : transcribing[i] \in {"sent", "calling"}} \subseteq {row}
    BY DEF TranscriptionFits, TaskFitsRow
  <2>2. IsFiniteSet({row}) /\ Cardinality({row}) = 1
    BY FS_Singleton
  <2> QED BY <2>1, <2>2, FS_Subset, FS_CardinalityType
<1> QED BY <1>1, TranscriptionInvariant, PTL

(***************************************************************************)
(* A transcription that is done stays done: nobody deletes its row, and    *)
(* only the exception handler of its own task may still mark it FAILED.    *)
(***************************************************************************)
THEOREM DoneIsKept == TranscriptionSpec => DoneStays
<1>1. ASSUME TranscriptionFits, [TranscriptionNext]_transcriptionVars, transcription = "DONE"
      PROVE  transcription' = "DONE" \/ transcribing[row] = "except"
  <2>1. CASE UNCHANGED transcriptionVars
    BY <1>1, <2>1 DEF transcriptionVars, audioVars
  <2>2. ASSUME NEW a \in Askers, AskerStep(a) PROVE transcription' = "DONE"
    BY <1>1, <2>2
    DEF AskerStep, FindNone, FindFailed, AskStep, DeleteFailed, CreateRow, CollideOnRow,
        SendTranscription, KillAsker, Asks, audioVars, TranscriptionFits, TranscriptionTypeOK,
        FinderFitsRow
  <2>3. ASSUME NEW i \in Rows, TaskStep(i)
        PROVE  transcription' = "DONE" \/ transcribing[row] = "except"
    BY <1>1, <2>3, TaskStepMoves DEF TranscriptionFits, TaskFitsRow
  <2> QED BY <1>1, <2>1, <2>2, <2>3 DEF TranscriptionNext, AskerStep, TaskStep
<1>2. TranscriptionFits /\ [TranscriptionNext]_transcriptionVars
      => [transcription = "DONE" => transcription' = "DONE" \/ transcribing[row] = "except"]_transcriptionVars
  BY <1>1
<1> QED BY <1>2, TranscriptionInvariant, PTL DEF TranscriptionSpec, DoneStays

(***************************************************************************)
(* One task at a time transcribes the audio, and what it has done stays,   *)
(* for any number of agents, retries and faults                            *)
(* (AudioTranscriptionView.post, transcribe).                              *)
(***************************************************************************)
THEOREM TranscriptionIsKept == TranscriptionSpec => TranscriptionHolds
BY OneCallAtATime, DoneIsKept DEF TranscriptionHolds

-----------------------------------------------------------------------------
(***************************************************************************)
(* The removal of an agent.  The orders that wait end with the last one    *)
(* sent, and the consumer's place says what was done of the first.         *)
(***************************************************************************)
LEMMA OrdersAre ==
  ASSUME orders \in Seq({"remove", "restore"}), orders # <<>>
  PROVE  /\ Len(orders) \in Nat \ {0} /\ Head(orders) = orders[1]
         /\ Head(orders) \in {"remove", "restore"}
         /\ Tail(orders) \in Seq({"remove", "restore"}) /\ Len(Tail(orders)) = Len(orders) - 1
         /\ Tail(orders) = <<>> => Len(orders) = 1
         /\ \A n \in 1..Len(orders) - 1 : Tail(orders)[n] = orders[n + 1]
<1>1. /\ Head(orders) \in {"remove", "restore"} /\ Tail(orders) \in Seq({"remove", "restore"})
      /\ Len(Tail(orders)) = Len(orders) - 1
      /\ \A n \in 1..Len(Tail(orders)) : Tail(orders)[n] = orders[n + 1]
  BY HeadTailProperties
<1>2. Len(orders) \in Nat \ {0} /\ Head(orders) = orders[1]
  BY EmptySeq DEF Head
<1>3. QED
  BY <1>1, <1>2, EmptySeq

\* The steps of the consumer that take the first order off, and those that leave it.
Takes == RefuseRemoval \/ Acknowledge \/ FailOrder
Leaves == ReceiveOrder \/ RemoveAgent \/ SendRequeue \/ Unauthorize \/ RestoreAgent \/ KillConsumer

(***************************************************************************)
(* The orders, the consumer, the task and the rooms keep their types.      *)
(***************************************************************************)
THEOREM RemovalType == RemovalSpec => []RemovalTypeOK
<1>1. RemovalInit => RemovalTypeOK
  <2> SUFFICES ASSUME RemovalInit PROVE RemovalTypeOK
    OBVIOUS
  <2>1. orders \in Seq({"remove", "restore"}) /\ Len(orders) = 0
    BY EmptySeq DEF RemovalInit
  <2>2. ordersSent \in 0..MaxOrders /\ Len(orders) <= ordersSent /\ removalFaults \in 0..MaxRemovalFaults
    BY <2>1, RemovalAssumption DEF RemovalInit, RemovalAssumption
  <2>3. QED
    BY <2>1, <2>2 DEF RemovalInit, RemovalTypeOK, ConsumerStages
<1>2. RemovalTypeOK /\ [RemovalNext]_removalVars => RemovalTypeOK'
  <2> SUFFICES ASSUME RemovalTypeOK, [RemovalNext]_removalVars PROVE RemovalTypeOK'
    OBVIOUS
  <2> USE DEF RemovalTypeOK, orderVars, roomVars, taskVars, passVars, handlerVars,
             managerVars
  <2>0. removalFaults < MaxRemovalFaults => removalFaults + 1 \in 0..MaxRemovalFaults
    BY RemovalAssumption DEF RemovalAssumption
  <2>1. CASE SendOrder
    <3>1. lastOrder' \in {"remove", "restore"}
      BY <2>1 DEF SendOrder
    <3>2. orders' \in Seq({"remove", "restore"}) /\ Len(orders') = Len(orders) + 1
          /\ orders' # <<>> /\ Len(orders) \in Nat
      BY <2>1, <3>1 DEF SendOrder
    <3>3. ordersSent' \in 0..MaxOrders /\ Len(orders') <= ordersSent'
      BY <2>1, <3>2, RemovalAssumption DEF SendOrder, RemovalAssumption
    <3>4. QED
      BY <2>1, <3>1, <3>2, <3>3 DEF SendOrder
  <2>2. CASE Takes
    <3>1. /\ orders # <<>> /\ orders' = Tail(orders) /\ consumer' = "idle"
          /\ removalFaults' \in 0..MaxRemovalFaults
          /\ cutAt' \subseteq ConsumerStages /\ removed' = removed /\ authorized' = authorized
          /\ requeueTasks' = requeueTasks
      BY <2>0, <2>2
         DEF Takes, RefuseRemoval, Acknowledge, FailOrder, Handle, NoFault, RemovalFault
    <3>2. /\ orders' \in Seq({"remove", "restore"})
          /\ Len(orders') <= Len(orders) /\ Len(orders) \in Nat /\ Len(orders') \in Nat
      BY <3>1, OrdersAre
    <3>3. Len(orders') <= ordersSent
      BY <3>2
    <3>4. QED
      BY <2>2, <3>1, <3>2, <3>3
         DEF Takes, RefuseRemoval, Acknowledge, FailOrder, Handle, ConsumerStages
  <2>3. CASE Leaves
    <3>1. /\ orders # <<>> /\ orders' = orders /\ consumer' \in ConsumerStages
          /\ removed' \in BOOLEAN /\ authorized' \in BOOLEAN /\ requeueTasks' \in Nat
      <4>1. CASE ReceiveOrder \/ RemoveAgent \/ RestoreAgent
        BY <4>1 DEF ReceiveOrder, RemoveAgent, RestoreAgent, Handle, ConsumerStages
      <4>2. CASE SendRequeue
        BY <4>2 DEF SendRequeue, Handle, ConsumerStages
      <4>3. CASE Unauthorize \/ KillConsumer
        BY <4>3 DEF Unauthorize, KillConsumer, Handle, ConsumerStages
      <4>4. QED
        BY <2>3, <4>1, <4>2, <4>3 DEF Leaves
    <3>2. removalFaults' \in 0..MaxRemovalFaults /\ cutAt' \subseteq ConsumerStages
      BY <2>0, <2>3
         DEF Leaves, ReceiveOrder, RemoveAgent, SendRequeue, Unauthorize, RestoreAgent,
             KillConsumer, NoFault, RemovalFault
    <3>3. QED
      BY <2>3, <3>1, <3>2
         DEF Leaves, ReceiveOrder, RemoveAgent, SendRequeue, Unauthorize, RestoreAgent,
             KillConsumer, Handle
  <2>4. CASE CheckAuthorization \/ Authorize \/ ReadStatus \/ SaveStatus
    BY <2>4 DEF CheckAuthorization, Authorize, ReadStatus, SaveStatus
  <2>5. CASE RunRequeue \/ KillRequeue
    <3>1. CASE ReadRooms
      BY <3>1 DEF ReadRooms, RequeueStep
    <3>2. CASE RequeueRoom
      BY <3>2 DEF RequeueRoom, RequeueStep
    <3>3. CASE RefuseRequeue \/ EndRequeue
      BY <3>3 DEF RefuseRequeue, EndRequeue, StopRequeue, RequeueStep
    <3>4. CASE AskForRouting
      BY <3>4 DEF AskForRouting, RequeueStep
    <3>5. CASE KillRequeue
      BY <2>0, <3>5 DEF KillRequeue, StopRequeue, RequeueStep, RemovalFault
    <3>6. QED
      BY <2>5, <3>1, <3>2, <3>3, <3>4, <3>5 DEF RunRequeue
  <2>6. CASE AssignRoom \/ RefuseAssignment
    BY <2>6, RemovalAssumption DEF AssignRoom, RefuseAssignment, PassStep, RemovalAssumption
  <2>7. ASSUME NEW r \in AgentRooms, CloseAgentRoom(r) \/ ChooseFor(r) \/ LeaveWaiting(r)
        PROVE  RemovalTypeOK'
    BY <2>7 DEF CloseAgentRoom, ChooseFor, LeaveWaiting, PassStep
  <2>8. CASE UNCHANGED removalVars
    BY <2>8 DEF removalVars
  <2>9. QED
    BY <2>1, <2>2, <2>3, <2>4, <2>5, <2>6, <2>7, <2>8
       DEF RemovalNext, HandleOrder, Takes, Leaves
<1>3. QED
  BY <1>1, <1>2, PTL DEF RemovalSpec

\* What was handled of the orders, where no order failed and no row was saved over it.
OrdersAreFollowed ==
    /\ orders # <<>> => orders[Len(orders)] = lastOrder
    /\ consumer \in {"removed", "sent"} => Head(orders) = "remove"
    /\ "received" \notin cutAt /\ ~resurrected =>
          /\ orders = <<>> => (removed <=> lastOrder = "remove")
          /\ consumer \in {"removed", "sent"} => removed
          /\ consumer = "handled" => (removed <=> Head(orders) = "remove")

LEMMA OrdersStayFollowed ==
  ASSUME RemovalTypeOK, RemovalTypeOK', OrdersAreFollowed, [RemovalNext]_removalVars
  PROVE  OrdersAreFollowed'
<1> USE DEF OrdersAreFollowed
<1>1. CASE SendOrder
  <2>1. /\ orders' = Append(orders, lastOrder') /\ consumer' = consumer /\ removed' = removed
        /\ cutAt' = cutAt /\ resurrected' = resurrected
    BY <1>1 DEF SendOrder, handlerVars
  <2>2. /\ orders' # <<>> /\ orders'[Len(orders')] = lastOrder'
        /\ orders # <<>> => Head(orders') = Head(orders)
    BY <1>1, <2>1 DEF RemovalTypeOK
  <2>3. QED
    BY <2>1, <2>2 DEF RemovalTypeOK
<1>2. CASE Takes
  <2>1. /\ orders # <<>> /\ orders' = Tail(orders) /\ consumer' = "idle"
        /\ lastOrder' = lastOrder /\ removed' = removed /\ resurrected' = resurrected
        /\ cutAt \subseteq cutAt' /\ (consumer = "received" /\ FailOrder => "received" \in cutAt')
    BY <1>2
       DEF Takes, RefuseRemoval, Acknowledge, FailOrder, Handle, NoFault, RemovalTypeOK,
           handlerVars
  <2>2. "received" \notin cutAt' /\ ~resurrected => (removed <=> Head(orders) = "remove")
    <3>1. CASE RefuseRemoval
      BY <3>1 DEF RefuseRemoval
    <3>2. CASE Acknowledge
      BY <2>1, <3>2 DEF Acknowledge, Handle
    <3>3. CASE FailOrder
      BY <2>1, <3>3 DEF FailOrder, Handle, RemovalTypeOK, ConsumerStages
    <3>4. QED
      BY <1>2, <3>1, <3>2, <3>3 DEF Takes
  <2>3. /\ orders' = <<>> => Head(orders) = lastOrder
        /\ orders' # <<>> => orders'[Len(orders')] = lastOrder
    <3>1. /\ Len(orders) \in Nat \ {0} /\ Head(orders) = orders[1]
          /\ orders' \in Seq({"remove", "restore"}) /\ Len(orders') = Len(orders) - 1
          /\ orders' = <<>> => Len(orders) = 1
          /\ \A n \in 1..Len(orders) - 1 : orders'[n] = orders[n + 1]
      BY <2>1, OrdersAre DEF RemovalTypeOK
    <3>2. orders' # <<>> => Len(orders') \in 1..Len(orders) - 1
      BY <3>1
    <3>3. QED
      BY <2>1, <3>1, <3>2
  <2>4. QED
    BY <2>1, <2>2, <2>3
<1>3. CASE Leaves
  <2>1. orders # <<>> /\ orders' = orders /\ lastOrder' = lastOrder /\ resurrected' = resurrected
    BY <1>3
       DEF Leaves, ReceiveOrder, RemoveAgent, SendRequeue, Unauthorize, RestoreAgent,
           KillConsumer, Handle, RemovalTypeOK, handlerVars
  <2>2. Head(orders) \in {"remove", "restore"}
    BY <2>1, OrdersAre DEF RemovalTypeOK
  <2>3. QED
    BY <1>3, <2>1, <2>2
       DEF Leaves, ReceiveOrder, RemoveAgent, SendRequeue, Unauthorize, RestoreAgent,
           KillConsumer, Handle, NoFault
<1>4. CASE CheckAuthorization \/ Authorize \/ ReadStatus \/ SaveStatus
  BY <1>4 DEF CheckAuthorization, Authorize, ReadStatus, SaveStatus, orderVars, handlerVars,
              RemovalTypeOK
<1>5. CASE UNCHANGED <<orderVars, removed, consumer, cutAt, resurrected>>
  BY <1>5 DEF orderVars
<1>6. CASE RunRequeue \/ KillRequeue
  BY <1>5, <1>6
     DEF RunRequeue, ReadRooms, RequeueRoom, RefuseRequeue, AskForRouting, EndRequeue,
         KillRequeue, RequeueStep, handlerVars
<1>7. CASE AssignRoom \/ RefuseAssignment
  BY <1>5, <1>7 DEF AssignRoom, RefuseAssignment, PassStep, handlerVars
<1>8. ASSUME NEW r \in AgentRooms, CloseAgentRoom(r) \/ ChooseFor(r) \/ LeaveWaiting(r)
      PROVE  OrdersAreFollowed'
  BY <1>5, <1>8 DEF CloseAgentRoom, ChooseFor, LeaveWaiting, PassStep, handlerVars
<1>9. QED
  BY <1>1, <1>2, <1>3, <1>4, <1>5, <1>6, <1>7, <1>8
     DEF RemovalNext, HandleOrder, Takes, Leaves, removalVars, handlerVars

\* Where a removed agent still has rooms or authorizations, somebody will see to them.
RemovalGoesOn ==
    /\ /\ removed /\ consumer \notin {"removed", "sent"}
       /\ cutAt \cap {"removed", "sent"} = {} /\ ~straying
       => ~authorized
    /\ removed /\ "removed" \notin cutAt /\ ~abortedRequeue =>
           consumer = "removed" \/ requeueTasks > 0 \/ held \subseteq late \cup remaining

LEMMA RemovalStillGoesOn ==
  ASSUME RemovalTypeOK, RemovalTypeOK', RemovalGoesOn, [RemovalNext]_removalVars
  PROVE  RemovalGoesOn'
<1> USE DEF RemovalGoesOn
<1>1. CASE Takes \/ Leaves
  <2>1. /\ held' = held /\ late' = late /\ remaining' = remaining
        /\ abortedRequeue' = abortedRequeue /\ straying' = straying
    BY <1>1
       DEF Takes, Leaves, RefuseRemoval, Acknowledge, FailOrder, ReceiveOrder, RemoveAgent,
           SendRequeue, Unauthorize, RestoreAgent, KillConsumer, Handle, roomVars, passVars,
           handlerVars, managerVars
  <2>2. CASE RefuseRemoval \/ Acknowledge \/ ReceiveOrder
    BY <2>1, <2>2 DEF RefuseRemoval, Acknowledge, ReceiveOrder, Handle, NoFault
  <2>3. CASE FailOrder \/ KillConsumer
    <3>1. /\ consumer' = "idle" /\ removed' = removed /\ authorized' = authorized
          /\ requeueTasks' = requeueTasks /\ cutAt \subseteq cutAt'
          /\ consumer \in {"removed", "sent"} => consumer \in cutAt'
      <4>1. CASE FailOrder
        BY <4>1 DEF FailOrder, Handle
      <4>2. CASE KillConsumer
        BY <4>2 DEF KillConsumer, Handle
      <4>3. QED
        BY <2>3, <4>1, <4>2
    <3>2. QED
      BY <2>1, <3>1
  <2>4. CASE RemoveAgent
    BY <2>1, <2>4 DEF RemoveAgent, Handle, NoFault
  <2>5. CASE SendRequeue
    BY <2>1, <2>5 DEF SendRequeue, Handle, NoFault, RemovalTypeOK
  <2>6. CASE Unauthorize \/ RestoreAgent
    BY <2>1, <2>6 DEF Unauthorize, RestoreAgent, Handle, NoFault
  <2>7. QED
    BY <1>1, <2>2, <2>3, <2>4, <2>5, <2>6 DEF Takes, Leaves
<1>2. CASE SendOrder \/ CheckAuthorization \/ Authorize \/ ReadStatus \/ SaveStatus
  <2>1. CASE SendOrder \/ CheckAuthorization \/ ReadStatus \/ SaveStatus
    BY <2>1 DEF SendOrder, CheckAuthorization, ReadStatus, SaveStatus, roomVars, taskVars,
                passVars, handlerVars, managerVars
  <2>2. CASE Authorize
    <3>1. removed' /\ consumer' \notin {"removed", "sent"} => straying'
      BY <2>2 DEF Authorize
    <3>2. UNCHANGED <<removed, consumer, cutAt, abortedRequeue, requeueTasks, held, late, remaining>>
      BY <2>2 DEF Authorize, roomVars, taskVars, passVars
    <3> QED BY <3>1, <3>2
  <2> QED BY <1>2, <2>1, <2>2
<1>3. CASE RunRequeue \/ KillRequeue
  <2>1. /\ removed' = removed /\ consumer' = consumer /\ cutAt' = cutAt /\ late' = late
        /\ authorized' = authorized /\ straying' = straying
    BY <1>3
       DEF RunRequeue, ReadRooms, RequeueRoom, RefuseRequeue, AskForRouting, EndRequeue,
           KillRequeue, RequeueStep, passVars, handlerVars, managerVars
  <2>2. CASE ReadRooms
    BY <2>1, <2>2 DEF ReadRooms
  <2>3. CASE RequeueRoom
    BY <2>1, <2>3 DEF RequeueRoom
  <2>4. CASE RefuseRequeue \/ KillRequeue
    BY <2>1, <2>4 DEF RefuseRequeue, KillRequeue
  <2>5. CASE AskForRouting \/ EndRequeue
    BY <2>1, <2>5 DEF AskForRouting, EndRequeue, StopRequeue
  <2>6. QED
    BY <1>3, <2>2, <2>3, <2>4, <2>5 DEF RunRequeue
<1>4. CASE AssignRoom
  BY <1>4 DEF AssignRoom, PassStep, taskVars, handlerVars, managerVars, RemovalTypeOK
<1>5. CASE RefuseAssignment
  BY <1>5 DEF RefuseAssignment, PassStep, taskVars, handlerVars, managerVars
<1>6. ASSUME NEW r \in AgentRooms, CloseAgentRoom(r) \/ ChooseFor(r) \/ LeaveWaiting(r)
      PROVE  RemovalGoesOn'
  BY <1>6 DEF CloseAgentRoom, ChooseFor, LeaveWaiting, PassStep, taskVars, passVars, handlerVars,
              managerVars
<1>7. CASE UNCHANGED removalVars
  BY <1>7 DEF removalVars, roomVars, taskVars, passVars, handlerVars, managerVars
<1>8. QED
  BY <1>1, <1>2, <1>3, <1>4, <1>5, <1>6, <1>7 DEF RemovalNext, HandleOrder, Takes, Leaves

(***************************************************************************)
(* The last order wins and a removed agent is left with no room and no     *)
(* authorization, for any number of orders, rooms, redeliveries and        *)
(* overlapping routing and requests, but for what was read before the      *)
(* removal and written after it (permission_consumer,                      *)
(* handle_permission_soft_delete).                                         *)
(***************************************************************************)
THEOREM RemovalIsWhole == RemovalSpec => []RemovalHolds
<1>1. RemovalInit => OrdersAreFollowed /\ RemovalGoesOn
  BY DEF RemovalInit, OrdersAreFollowed, RemovalGoesOn
<1>2. RemovalTypeOK /\ OrdersAreFollowed /\ RemovalGoesOn => RemovalHolds
  BY DEF RemovalTypeOK, OrdersAreFollowed, RemovalGoesOn, RemovalHolds, RemovedHoldsNothing,
         RemovedIsUnauthorized, LastOrderWins, Settled
<1>3. QED
  BY <1>1, <1>2, RemovalType, OrdersStayFollowed, RemovalStillGoesOn, PTL DEF RemovalSpec

-----------------------------------------------------------------------------
(***************************************************************************)
(* Summaries.  What a task or a request does concerns one row; a row that  *)
(* is being generated is not pending, and one that is given up was.        *)
(***************************************************************************)
Generating(s) == generation[s] \in {"processing", "saving_text", "saving_none"}

SummaryFits(s) ==
    /\ summaryStatus[s] = "none" <=> request[s] \in {"none", "create"}
    /\ generation[s] = "none" =>
           summaryStatus[s] \in {"none", "PENDING"} /\ cancellation[s] = "none"
    /\ request[s] \in {"none", "create", "generate"} => generation[s] = "none"
    /\ request[s] = "cancel" => generation[s] # "none" /\ cancellation[s] = "none"
    /\ Generating(s) => summaryStatus[s] # "PENDING"
    /\ hasText[s] => generation[s] = "over"
    /\ cancellation[s] = "read" /\ s \notin raced => summaryStatus[s] # "DONE" /\ ~Generating(s)

\* Of all rows but s nothing changes.
OtherRowsStay(s) ==
    \A t \in Summaries \ {s} :
        /\ summaryStatus'[t] = summaryStatus[t] /\ hasText'[t] = hasText[t]
        /\ request'[t] = request[t] /\ generation'[t] = generation[t]
        /\ cancellation'[t] = cancellation[t] /\ (t \in raced' <=> t \in raced)

\* A row that is generated or given up: what changes of it and of the others.
LEMMA GenerateSteps ==
  ASSUME SummariesTypeOK, NEW s \in Summaries, GenerateStep(s) \/ KillSummary(s)
  PROVE  /\ OtherRowsStay(s) /\ request' = request /\ cancellation' = cancellation
         /\ committed' = committed /\ overlapping' = overlapping
         /\ generation[s] \notin {"none", "over"} /\ generation'[s] \notin {"none", "sent"}
         /\ generation' = [generation EXCEPT ![s] = generation'[s]]
         /\ summaryStatus'[s] = summaryStatus[s]
            \/ summaryStatus'[s] \in {"PROCESSING"} \cup Finals
<1> DEFINE Fact == /\ OtherRowsStay(s) /\ request' = request /\ cancellation' = cancellation
                   /\ committed' = committed /\ overlapping' = overlapping
                   /\ generation[s] \notin {"none", "over"}
                   /\ generation'[s] \notin {"none", "sent"}
                   /\ generation' = [generation EXCEPT ![s] = generation'[s]]
                   /\ summaryStatus'[s] = summaryStatus[s]
                      \/ summaryStatus'[s] \in {"PROCESSING"} \cup Finals
<1> USE DEF Generates, SetSummary, OtherRowsStay, creationVars, SummariesTypeOK
<1>1. CASE MissRow(s) \/ ReadRow(s) \/ LackPrompt(s)
  BY <1>1 DEF MissRow, ReadRow, LackPrompt
<1>2. CASE RefusePrompt(s) \/ BeginSummary(s)
  BY <1>2 DEF RefusePrompt, BeginSummary, Finals
<1>3. CASE ReceiveText(s) \/ ReceiveNone(s)
  BY <1>3 DEF ReceiveText, ReceiveNone, Finals
<1>4. CASE SaveText(s) \/ SaveNone(s)
  BY <1>4 DEF SaveText, SaveNone, Finals
<1>5. CASE FailSummary(s)
  BY <1>5 DEF FailSummary, Finals
<1>6. CASE KillSummary(s)
  BY <1>6 DEF KillSummary
<1>7. QED
  BY <1>1, <1>2, <1>3, <1>4, <1>5, <1>6 DEF GenerateStep

\* And of the requests and the task that gives a summary up.
LEMMA OtherSteps ==
  ASSUME SummariesTypeOK, NEW s \in Summaries,
         CheckPending(s) \/ RequestStep(s) \/ KillRequest(s) \/ CancelStep(s)
  PROVE  OtherRowsStay(s) /\ raced' = raced /\ committed' = committed
<1> USE DEF SetSummary, OtherRowsStay, creationVars, SummariesTypeOK
<1>1. CASE CheckPending(s) \/ KillRequest(s)
  BY <1>1 DEF CheckPending, KillRequest
<1>2. CASE RequestStep(s)
  BY <1>2 DEF RequestStep, CreateSummary, SendGenerate, SendCancel
<1>3. CASE CancelStep(s)
  BY <1>3 DEF CancelStep, LeaveSummary, ReadPending, SaveGivenUp, Cancels
<1>4. QED
  BY <1>1, <1>2, <1>3

LEMMA SummariesStillFit ==
  ASSUME SummariesTypeOK, \A s \in Summaries : SummaryFits(s), [SummariesNext]_summaryVars
  PROVE  \A s \in Summaries : SummaryFits(s)'
<1> DEFINE Goal == \A s \in Summaries : SummaryFits(s)'
<1>1. ASSUME NEW s \in Summaries, OtherRowsStay(s), SummaryFits(s)' PROVE Goal
  BY <1>1 DEF OtherRowsStay, SummaryFits, Generating
<1>2. ASSUME NEW s \in Summaries, GenerateStep(s) \/ KillSummary(s) PROVE Goal
  <2>1. SummaryFits(s)'
    <3> USE DEF SummaryFits, Generating, Generates, SetSummary, SummariesTypeOK, creationVars
    <3>1. CASE MissRow(s) \/ ReadRow(s) \/ LackPrompt(s)
      BY <3>1 DEF MissRow, ReadRow, LackPrompt
    <3>2. CASE RefusePrompt(s)
      BY <3>2 DEF RefusePrompt
    <3>3. CASE BeginSummary(s)
      BY <3>3 DEF BeginSummary
    <3>4. CASE ReceiveText(s) \/ ReceiveNone(s)
      BY <3>4 DEF ReceiveText, ReceiveNone
    <3>5. CASE SaveText(s) \/ SaveNone(s)
      BY <3>5 DEF SaveText, SaveNone
    <3>6. CASE FailSummary(s)
      BY <3>6 DEF FailSummary
    <3>7. CASE KillSummary(s)
      BY <3>7 DEF KillSummary
    <3>8. QED
      BY <1>2, <3>1, <3>2, <3>3, <3>4, <3>5, <3>6, <3>7 DEF GenerateStep
  <2>2. QED
    BY <1>1, <1>2, <2>1, GenerateSteps
<1>3. ASSUME NEW s \in Summaries,
             CheckPending(s) \/ RequestStep(s) \/ KillRequest(s) \/ CancelStep(s)
      PROVE  Goal
  <2>1. SummaryFits(s)'
    <3> USE DEF SummaryFits, Generating, SetSummary, SummariesTypeOK, creationVars
    <3>1. CASE CheckPending(s) \/ KillRequest(s)
      BY <3>1 DEF CheckPending, KillRequest
    <3>2. CASE RequestStep(s)
      BY <3>2 DEF RequestStep, CreateSummary, SendGenerate, SendCancel
    <3>3. CASE CancelStep(s)
      BY <3>3 DEF CancelStep, LeaveSummary, ReadPending, SaveGivenUp, Cancels, GiveUpDue
    <3>4. QED
      BY <1>3, <3>1, <3>2, <3>3
  <2>2. QED
    BY <1>1, <1>3, <2>1, OtherSteps
<1>4. CASE CreateRoom
  <2>1. 1 \in Summaries
    BY SummaryAssumption DEF Summaries, SummaryAssumption
  <2>2. OtherRowsStay(1) /\ SummaryFits(1)'
    BY <1>4, <2>1 DEF CreateRoom, OtherRowsStay, SummaryFits, Generating, SummariesTypeOK
  <2>3. QED
    BY <1>1, <2>1, <2>2
<1>5. CASE CommitRoom \/ UNCHANGED summaryVars
  BY <1>5 DEF CommitRoom, summaryVars, creationVars, SummaryFits, Generating
<1>6. QED
  BY <1>2, <1>3, <1>4, <1>5 DEF SummariesNext

(***************************************************************************)
(* The order of modified_on.  It is a total order of the rows there are;   *)
(* what saves a whole row puts that row last.                              *)
(***************************************************************************)
Created(s) == summaryStatus[s] # "none"

OrderIsTotal ==
    /\ newer \in [Summaries -> SUBSET {s \in Summaries : Created(s)}]
    /\ \A s, t \in Summaries :
          Created(s) /\ Created(t) /\ s # t => (t \in newer[s] <=> s \notin newer[t])
    /\ \A s \in Summaries : s \notin newer[s]

\* The other conjuncts of the type invariant.
RowsAreTyped ==
    /\ summaryStatus \in [Summaries -> {"none", "PENDING", "PROCESSING"} \cup Finals]
    /\ hasText \in [Summaries -> BOOLEAN]
    /\ committed \in BOOLEAN
    /\ request \in [Summaries -> {"none", "create", "generate", "cancel", "over"}]
    /\ generation \in [Summaries -> {"none", "sent", "read", "processing", "saving_text",
                                     "saving_none", "over"}]
    /\ cancellation \in [Summaries -> {"none", "sent", "read", "over"}]
    /\ raced \subseteq Summaries
    /\ overlapping \in BOOLEAN
    /\ summaryFaults \in 0..MaxSummaryFaults

LEMMA TypeOfSummaries ==
  ASSUME RowsAreTyped, OrderIsTotal PROVE SummariesTypeOK
BY DEF RowsAreTyped, OrderIsTotal, SummariesTypeOK, Created

\* A row is put last, whether it was created now or before.
LEMMA TouchedIsLast ==
  ASSUME SummariesTypeOK, OrderIsTotal, NEW s \in Summaries, Touch(s),
         summaryStatus' \in [Summaries -> {"none", "PENDING", "PROCESSING"} \cup Finals],
         Created(s)', \A t \in Summaries \ {s} : Created(t)' <=> Created(t)
  PROVE  /\ OrderIsTotal'
         /\ newer'[s] = {}
         /\ \A t \in Summaries \ {s} : Created(t) => newer'[t] = newer[t] \cup {s}
<1>1. newer' = [t \in Summaries |-> IF t = s \/ summaryStatus[t] = "none" THEN {}
                                    ELSE newer[t] \cup {s}]
  BY DEF Touch
<1>2. newer' \in [Summaries -> SUBSET {t \in Summaries : Created(t)'}]
  BY <1>1 DEF OrderIsTotal, Created
<1>3. ASSUME NEW t \in Summaries, NEW u \in Summaries, Created(t)', Created(u)', t # u
      PROVE  u \in newer'[t] <=> t \notin newer'[u]
  BY <1>1, <1>3 DEF OrderIsTotal, Created
<1>4. \A t \in Summaries : t \notin newer'[t]
  BY <1>1 DEF OrderIsTotal
<1>5. QED
  BY <1>1, <1>2, <1>3, <1>4 DEF OrderIsTotal, Created

\* No row is lost, and none but the one a request creates is new.
LEMMA OrderStaysTotal ==
  ASSUME SummariesTypeOK, OrderIsTotal, \A s \in Summaries : SummaryFits(s),
         RowsAreTyped', [SummariesNext]_summaryVars
  PROVE  OrderIsTotal'
<1> DEFINE Same == \A s \in Summaries : Created(s)' <=> Created(s)
<1>1. ASSUME newer' = newer, Same PROVE OrderIsTotal'
  BY <1>1 DEF OrderIsTotal
<1>2. ASSUME NEW s \in Summaries, Touch(s), Created(s)',
             \A t \in Summaries \ {s} : Created(t)' <=> Created(t)
      PROVE  OrderIsTotal'
  BY <1>2, TouchedIsLast DEF RowsAreTyped
<1>3. ASSUME NEW s \in Summaries, GenerateStep(s) \/ KillSummary(s) PROVE OrderIsTotal'
  <2>1. /\ Created(s) /\ Created(s)'
        /\ \A t \in Summaries \ {s} : Created(t)' <=> Created(t)
    BY <1>3, GenerateSteps DEF SummaryFits, Created, OtherRowsStay, Finals
  <2>2. newer' = newer \/ Touch(s)
    BY <1>3 DEF GenerateStep, MissRow, ReadRow, LackPrompt, RefusePrompt, BeginSummary,
                ReceiveText, ReceiveNone, SaveText, SaveNone, FailSummary, KillSummary
  <2>3. QED
    BY <1>1, <1>2, <2>1, <2>2
<1>4. ASSUME NEW s \in Summaries, CheckPending(s) \/ RequestStep(s) \/ KillRequest(s) \/ CancelStep(s)
      PROVE  OrderIsTotal'
  <2>1. \A t \in Summaries \ {s} : Created(t)' <=> Created(t)
    BY <1>4, OtherSteps DEF Created, OtherRowsStay
  <2>2. CASE CreateSummary(s) \/ SaveGivenUp(s)
    <3>1. Created(s)' /\ Touch(s)
      BY <2>2 DEF CreateSummary, SaveGivenUp, SetSummary, SummariesTypeOK, Created
    <3>2. QED
      BY <1>2, <2>1, <3>1
  <2>3. CASE ~(CreateSummary(s) \/ SaveGivenUp(s))
    <3>1. newer' = newer /\ summaryStatus' = summaryStatus
      BY <1>4, <2>3 DEF CheckPending, RequestStep, KillRequest, CancelStep, SendGenerate,
                        SendCancel, LeaveSummary, ReadPending
    <3>2. QED
      BY <1>1, <3>1 DEF Created
  <2>4. QED
    BY <2>2, <2>3
<1>5. CASE CreateRoom \/ CommitRoom \/ UNCHANGED summaryVars
  BY <1>1, <1>5 DEF CreateRoom, CommitRoom, summaryVars, creationVars, Created
<1>6. QED
  BY <1>3, <1>4, <1>5 DEF SummariesNext

LEMMA RowsStayTyped ==
  ASSUME SummariesTypeOK, [SummariesNext]_summaryVars PROVE RowsAreTyped'
<1> USE DEF SummariesTypeOK, RowsAreTyped, SetSummary, creationVars, Finals
<1>1. ASSUME NEW s \in Summaries, MissRow(s) \/ ReadRow(s) \/ LackPrompt(s) PROVE RowsAreTyped'
  BY <1>1 DEF MissRow, ReadRow, LackPrompt, Generates
<1>2. ASSUME NEW s \in Summaries, RefusePrompt(s) \/ BeginSummary(s) PROVE RowsAreTyped'
  BY <1>2 DEF RefusePrompt, BeginSummary, Generates
<1>3. ASSUME NEW s \in Summaries, ReceiveText(s) \/ ReceiveNone(s) PROVE RowsAreTyped'
  BY <1>3 DEF ReceiveText, ReceiveNone, Generates
<1>4. ASSUME NEW s \in Summaries, SaveText(s) \/ SaveNone(s) PROVE RowsAreTyped'
  BY <1>4 DEF SaveText, SaveNone, Generates
<1>5. ASSUME NEW s \in Summaries, FailSummary(s) \/ KillSummary(s) PROVE RowsAreTyped'
  BY <1>5, SummaryAssumption DEF FailSummary, KillSummary, Generates, SummaryFault, SummaryAssumption
<1>6. ASSUME NEW s \in Summaries, CheckPending(s) \/ KillRequest(s) PROVE RowsAreTyped'
  BY <1>6, SummaryAssumption DEF CheckPending, KillRequest, SummaryFault, SummaryAssumption
<1>7. ASSUME NEW s \in Summaries, RequestStep(s) PROVE RowsAreTyped'
  BY <1>7 DEF RequestStep, CreateSummary, SendGenerate, SendCancel
<1>8. ASSUME NEW s \in Summaries, CancelStep(s) PROVE RowsAreTyped'
  BY <1>8 DEF CancelStep, LeaveSummary, ReadPending, SaveGivenUp, Cancels
<1>9. CASE CreateRoom \/ CommitRoom \/ UNCHANGED summaryVars
  BY <1>9 DEF CreateRoom, CommitRoom, summaryVars
<1>10. QED
  BY <1>1, <1>2, <1>3, <1>4, <1>5, <1>6, <1>7, <1>8, <1>9 DEF SummariesNext, GenerateStep

SummariesInv == SummariesTypeOK /\ OrderIsTotal /\ \A s \in Summaries : SummaryFits(s)

LEMMA SummariesBegin ==
  ASSUME SummariesInit PROVE SummariesInv
<1>0. 0 \in 0..MaxSummaryFaults
  BY SummaryAssumption DEF SummaryAssumption
<1>1. RowsAreTyped
  BY <1>0 DEF SummariesInit, RowsAreTyped
<1>2. OrderIsTotal
  BY DEF SummariesInit, OrderIsTotal, Created
<1>3. \A s \in Summaries : SummaryFits(s)
  BY DEF SummariesInit, SummaryFits, Generating
<1>4. QED
  BY <1>1, <1>2, <1>3, TypeOfSummaries DEF SummariesInv

LEMMA SummariesGoOn ==
  ASSUME SummariesInv, [SummariesNext]_summaryVars PROVE SummariesInv'
<1>1. RowsAreTyped'
  BY RowsStayTyped DEF SummariesInv
<1>2. OrderIsTotal'
  BY <1>1, OrderStaysTotal DEF SummariesInv
<1>3. SummariesTypeOK'
  BY <1>1, <1>2 DEF RowsAreTyped, OrderIsTotal, SummariesTypeOK, Created
<1>4. \A s \in Summaries : SummaryFits(s)'
  BY SummariesStillFit DEF SummariesInv
<1>5. QED
  BY <1>2, <1>3, <1>4 DEF SummariesInv

(***************************************************************************)
(* The variables of the summaries keep their types, and of every two rows  *)
(* one was modified later, whatever requests and tasks overlap or die      *)
(* (HistorySummary, generate_history_summary).                             *)
(***************************************************************************)
THEOREM SummariesType == SummariesSpec => [](SummariesTypeOK /\ OrderIsTotal)
<1>1. SummariesInit => SummariesInv
  BY SummariesBegin
<1>2. SummariesInv /\ [SummariesNext]_summaryVars => SummariesInv'
  BY SummariesGoOn
<1>3. SummariesInv => SummariesTypeOK /\ OrderIsTotal
  BY DEF SummariesInv
<1>4. QED
  BY <1>1, <1>2, <1>3, PTL DEF SummariesSpec

(***************************************************************************)
(* The rows of a room follow on each other.  Unless one was created while  *)
(* another was unsettled, every row but the last is settled for good, and  *)
(* the last was modified after each that was written.                      *)
(***************************************************************************)
RowSettled(t) == summaryStatus[t] \in Finals /\ generation[t] = "over"

RowsInOrder ==
    \A s, t \in Summaries : Created(s) /\ t < s => Created(t)

LastOfRows ==
    (\A s \in Summaries : ~Created(s)) \/ \E s \in Summaries :
        Created(s) /\ \A t \in Summaries : Created(t) => t <= s

EarlierAreSettled ==
    \A s, t \in Summaries :
        Created(s) /\ t < s => RowSettled(t) /\ (Written(t) => s \in newer[t])

RowsFollow ==
    /\ committed => Created(1)
    /\ RowsInOrder
    /\ LastOfRows
    /\ ~overlapping => EarlierAreSettled

LEMMA RowsStillFollow ==
  ASSUME SummariesInv, RowsFollow, [SummariesNext]_summaryVars
  PROVE  RowsFollow'
<1>0. /\ SummariesTypeOK /\ OrderIsTotal /\ SummariesInv'
      /\ 1 \in Summaries /\ Summaries \subseteq Int
  BY SummariesGoOn, SummaryAssumption DEF SummariesInv, Summaries, SummaryAssumption
<1> DEFINE Same == \A s \in Summaries : Created(s)' <=> Created(s)
<1>1. ASSUME Same, committed' = committed PROVE committed' => Created(1)'
  BY <1>0, <1>1 DEF RowsFollow
<1>2. ASSUME Same PROVE RowsInOrder' /\ LastOfRows'
  BY <1>2 DEF RowsFollow, RowsInOrder, LastOfRows
<1>3. ASSUME NEW s \in Summaries, Touch(s), Created(s), Same, OtherRowsStay(s),
             RowSettled(s) => RowSettled(s)' /\ ~Written(s)', overlapping' = overlapping
      PROVE  ~overlapping' => EarlierAreSettled'
  <2> SUFFICES ASSUME ~overlapping, NEW u \in Summaries, NEW t \in Summaries, Created(u)', t < u
               PROVE  (RowSettled(t) /\ (Written(t) => u \in newer[t]))'
    BY <1>3 DEF EarlierAreSettled
  <2>1. RowSettled(t) /\ (Written(t) => u \in newer[t]) /\ Created(u) /\ Created(t)
    BY <1>3, <1>0 DEF RowsFollow, EarlierAreSettled, RowsInOrder
  <2>2. \A v \in Summaries \ {s} : Created(v) => newer'[v] = newer[v] \cup {s}
    BY <1>0, <1>3 DEF Touch, Created, SummariesTypeOK
  <2>3. CASE t = s
    BY <1>3, <2>1, <2>3
  <2>4. CASE t # s
    BY <1>3, <2>1, <2>2, <2>4 DEF OtherRowsStay, RowSettled, Written
  <2>5. QED
    BY <2>3, <2>4
<1>4. ASSUME NEW s \in Summaries, newer' = newer, Same, OtherRowsStay(s),
             RowSettled(s) => RowSettled(s)' /\ (Written(s)' => Written(s)), overlapping' = overlapping
      PROVE  ~overlapping' => EarlierAreSettled'
  BY <1>0, <1>4 DEF EarlierAreSettled, RowsFollow, OtherRowsStay, RowSettled, Written
<1>5. ASSUME NEW s \in Summaries, GenerateStep(s) \/ KillSummary(s) PROVE RowsFollow'
  <2>1. /\ Same /\ OtherRowsStay(s) /\ ~RowSettled(s) /\ Created(s)
        /\ committed' = committed /\ overlapping' = overlapping
    BY <1>0, <1>5, GenerateSteps DEF SummariesInv, SummaryFits, Created, OtherRowsStay, Finals, RowSettled
  <2>2. newer' = newer \/ Touch(s)
    BY <1>5 DEF GenerateStep, MissRow, ReadRow, LackPrompt, RefusePrompt, BeginSummary,
                ReceiveText, ReceiveNone, SaveText, SaveNone, FailSummary, KillSummary
  <2>3. QED
    BY <1>1, <1>2, <1>3, <1>4, <2>1, <2>2 DEF RowsFollow
<1>6. ASSUME NEW s \in Summaries,
             CheckPending(s) \/ KillRequest(s) \/ SendGenerate(s) \/ SendCancel(s)
             \/ LeaveSummary(s) \/ ReadPending(s)
      PROVE  RowsFollow'
  <2>1. /\ summaryStatus' = summaryStatus /\ hasText' = hasText /\ newer' = newer
        /\ committed' = committed /\ overlapping' = overlapping
    BY <1>6 DEF CheckPending, KillRequest, SendGenerate, SendCancel, LeaveSummary, ReadPending,
                Cancels, creationVars
  <2>2. OtherRowsStay(s) /\ (RowSettled(s) => RowSettled(s)')
    <3>1. CASE SendGenerate(s)
      BY <1>0, <2>1, <3>1, OtherSteps
         DEF SendGenerate, RowSettled, SummariesInv, SummaryFits, RequestStep
    <3>2. CASE ~SendGenerate(s)
      <4>1. generation' = generation
        BY <1>6, <3>2 DEF CheckPending, KillRequest, SendCancel, LeaveSummary, ReadPending, Cancels
      <4>2. QED
        BY <1>0, <1>6, <2>1, <4>1, OtherSteps DEF RowSettled, RequestStep, CancelStep
    <3>3. QED
      BY <3>1, <3>2
  <2>3. Same /\ (Written(s)' => Written(s))
    BY <2>1 DEF Created, Written
  <2>4. QED
    BY <1>1, <1>2, <1>4, <2>1, <2>2, <2>3 DEF RowsFollow
<1>7. ASSUME NEW s \in Summaries, SaveGivenUp(s) PROVE RowsFollow'
  <2>1. /\ summaryStatus' = [summaryStatus EXCEPT ![s] = "UNAVAILABLE"]
        /\ hasText' = [hasText EXCEPT ![s] = FALSE] /\ Touch(s) /\ generation' = generation
        /\ committed' = committed /\ overlapping' = overlapping
    BY <1>7 DEF SaveGivenUp, SetSummary, creationVars
  <2>2. Created(s) /\ OtherRowsStay(s)
    BY <1>0, <1>7, OtherSteps DEF SaveGivenUp, CancelStep, SummariesInv, SummaryFits, Created
  <2>3. Same
    BY <1>0, <2>1, <2>2 DEF Created, SummariesTypeOK
  <2>4. (RowSettled(s) => RowSettled(s)') /\ ~Written(s)'
    BY <1>0, <2>1 DEF RowSettled, Written, SummariesTypeOK, Finals
  <2>5. QED
    BY <1>1, <1>2, <1>3, <2>1, <2>2, <2>3, <2>4 DEF RowsFollow
<1>8. ASSUME NEW s \in Summaries, CreateSummary(s) PROVE RowsFollow'
  <2>1. /\ summaryStatus' = [summaryStatus EXCEPT ![s] = "PENDING"] /\ hasText' = hasText
        /\ Touch(s) /\ generation' = generation /\ committed' = committed
        /\ overlapping' = (overlapping \/ \E t \in 1..(s - 1) : Unsettled(t))
        /\ request[s] = "create" /\ \A t \in 1..(s - 1) : summaryStatus[t] # "none"
    BY <1>8 DEF CreateSummary, SetSummary
  <2>2. ~Created(s) /\ \A t \in Summaries : Created(t) <=> t < s
    BY <1>0, <2>1 DEF SummariesInv, SummaryFits, Created, RowsFollow, RowsInOrder, Summaries
  <2>3. \A t \in Summaries : Created(t)' <=> t <= s
    BY <1>0, <2>1, <2>2 DEF Created, SummariesTypeOK
  <2>4. (committed' => Created(1)') /\ RowsInOrder' /\ LastOfRows'
    <3>1. committed' => Created(1)'
      BY <1>0, <2>1, <2>2, <2>3 DEF RowsFollow
    <3>2. RowsInOrder'
      BY <1>0, <2>3 DEF RowsInOrder
    <3>3. LastOfRows'
      BY <1>0, <2>3 DEF LastOfRows
    <3>4. QED
      BY <3>1, <3>2, <3>3
  <2>5. ASSUME ~overlapping', NEW u \in Summaries, NEW t \in Summaries, Created(u)', t < u
        PROVE  (RowSettled(t) /\ (Written(t) => u \in newer[t]))'
    <3>1. t < s /\ t \in 1..(s - 1) /\ Created(t)
      BY <1>0, <2>2, <2>3, <2>5, SummaryAssumption DEF Summaries, SummaryAssumption
    <3>2. ~overlapping /\ ~Unsettled(t)
      BY <2>1, <2>5, <3>1
    <3>8. RowSettled(t)
      <4>1. summaryStatus[t] \in Finals /\ generation[t] \in {"none", "over"}
        BY <1>0, <3>1, <3>2 DEF Unsettled, Created, SummariesTypeOK
      <4>2. generation[t] # "none"
        BY <1>0, <4>1 DEF SummariesInv, SummaryFits, Finals
      <4>3. QED
        BY <4>1, <4>2 DEF RowSettled
    <3>3. newer'[t] = newer[t] \cup {s}
      BY <2>1, <3>1 DEF Touch, Created
    <3>4. u = s \/ (Created(u) /\ u < s)
      BY <1>0, <2>2, <2>3, <2>5
    <3>5. Created(u) => (Written(t) => u \in newer[t])
      BY <2>5, <3>2 DEF RowsFollow, EarlierAreSettled
    <3>6. summaryStatus'[t] = summaryStatus[t] /\ hasText'[t] = hasText[t]
      BY <1>0, <2>1, <3>1 DEF SummariesTypeOK
    <3>7. QED
      BY <2>1, <3>3, <3>4, <3>5, <3>6, <3>8 DEF RowSettled, Written
  <2>6. QED
    BY <2>4, <2>5 DEF RowsFollow, EarlierAreSettled
<1>9. CASE CreateRoom \/ UNCHANGED summaryVars
  BY <1>9 DEF CreateRoom, summaryVars, creationVars, RowsFollow, RowsInOrder, LastOfRows,
              EarlierAreSettled, Created, RowSettled, Written
<1>10. CASE CommitRoom
  <2>1. Created(1)
    BY <1>0, <1>10 DEF CommitRoom, SummariesInv, SummaryFits, Created
  <2>2. QED
    BY <1>10, <2>1 DEF CommitRoom, RowsFollow, RowsInOrder, LastOfRows, EarlierAreSettled,
                       Created, RowSettled, Written
<1>11. QED
  BY <1>5, <1>6, <1>7, <1>8, <1>9, <1>10 DEF SummariesNext, RequestStep, CancelStep

\* When every earlier row is settled, the last one is shown if it is written.
LEMMA LastIsShown ==
  ASSUME SummariesInv, RowsFollow, committed, ~overlapping, Written(Rated)
  PROVE  Shown = Rated
<1>0. SummariesTypeOK /\ OrderIsTotal /\ 1 \in Summaries /\ Summaries \subseteq Int
  BY SummaryAssumption DEF SummariesInv, Summaries, SummaryAssumption
<1> DEFINE Last(s) == Created(s) /\ \A t \in Summaries : Created(t) => t <= s
<1>1. PICK m \in Summaries : Last(m)
  BY <1>0 DEF RowsFollow, LastOfRows
<1>2. \A s \in Summaries : Last(s) => s = m
  BY <1>0, <1>1
<1>3. Rated = m
  <2>1. Rated = CHOOSE s \in Summaries : Last(s)
    BY DEF Rated, Created
  <2>2. QED
    BY <1>1, <1>2, <2>1
<1>4. \A t \in Summaries : Created(t) /\ t # m => t < m
  BY <1>0, <1>1
<1>5. \A t \in Summaries : t # m /\ Created(t) => RowSettled(t) /\ (Written(t) => m \in newer[t])
  BY <1>1, <1>4 DEF RowsFollow, EarlierAreSettled
<1> DEFINE awaited == {s \in Summaries : summaryStatus[s] \in {"PENDING", "PROCESSING"}}
           written == {s \in Summaries : Written(s)}
<1>6. awaited = {}
  BY <1>3, <1>5 DEF RowSettled, Finals, Written, Created
<1>7. m \in written /\ written \cap newer[m] = {}
  <2>1. ASSUME NEW t \in Summaries, Written(t), t \in newer[m] PROVE FALSE
    BY <1>0, <1>1, <1>5, <2>1 DEF OrderIsTotal, Created, Written
  <2>2. QED
    BY <1>3, <2>1
<1>8. \A t \in written : written \cap newer[t] = {} => t = m
  BY <1>3, <1>5 DEF Written, Created
<1>9. LatestOf(written) = m
  BY <1>7, <1>8 DEF LatestOf
<1>10. QED
  <2>1. Shown = LatestOf(written)
    BY <1>6, <1>7 DEF Shown
  <2>2. QED
    BY <1>3, <1>9, <2>1

\* A row that is written is not written over.
LEMMA WrittenStays ==
  ASSUME SummariesInv, [SummariesNext]_summaryVars, NEW s \in Summaries \ raced, Written(s)
  PROVE  Written(s)'
<1>0. SummariesTypeOK /\ SummaryFits(s) /\ s \in Summaries
  BY DEF SummariesInv
<1>1. generation[s] = "over" /\ cancellation[s] # "read" /\ request[s] \notin {"none", "create"}
  BY <1>0 DEF SummaryFits, Written, Generating
<1>2. ASSUME NEW t \in Summaries, GenerateStep(t) \/ KillSummary(t) PROVE Written(s)'
  BY <1>0, <1>1, <1>2, GenerateSteps DEF OtherRowsStay, Written
<1>3. ASSUME NEW t \in Summaries \ {s},
             CheckPending(t) \/ RequestStep(t) \/ KillRequest(t) \/ CancelStep(t)
      PROVE  Written(s)'
  BY <1>0, <1>3, OtherSteps DEF OtherRowsStay, Written
<1>4. CASE CheckPending(s) \/ RequestStep(s) \/ KillRequest(s) \/ CancelStep(s)
  <2>1. summaryStatus' = summaryStatus /\ hasText' = hasText
    BY <1>1, <1>4 DEF CheckPending, RequestStep, CreateSummary, SendGenerate, SendCancel,
                      KillRequest, CancelStep, LeaveSummary, ReadPending, SaveGivenUp, Cancels
  <2>2. QED
    BY <2>1 DEF Written
<1>5. CASE CreateRoom \/ CommitRoom \/ UNCHANGED summaryVars
  BY <1>5 DEF CreateRoom, CommitRoom, summaryVars, Written
<1>6. QED
  BY <1>2, <1>3, <1>4, <1>5 DEF SummariesNext

(***************************************************************************)
(* A summary that was written is kept, and it is the one the agent sees    *)
(* and rates, for any number of summaries and processes killed             *)
(* (cancel_history_summary_generation, chats_summary).                     *)
(***************************************************************************)
THEOREM SummariesAreKept == SummariesSpec => SummariesHold
<1> DEFINE Inv == SummariesInv /\ RowsFollow
<1>1. SummariesInit => Inv
  <2>1. SummariesInit => RowsFollow
    BY DEF SummariesInit, RowsFollow, RowsInOrder, LastOfRows, EarlierAreSettled, Created
  <2>2. QED
    BY <2>1, SummariesBegin
<1>2. Inv /\ [SummariesNext]_summaryVars => Inv'
  BY SummariesGoOn, RowsStillFollow
<1>3. Inv => ShownIsRated
  BY LastIsShown DEF ShownIsRated
<1>4. Inv /\ [SummariesNext]_summaryVars
      => [\A s \in Summaries \ raced : Written(s) => Written(s)']_summaryVars
  BY WrittenStays
<1>5. QED
  BY <1>1, <1>2, <1>3, <1>4, PTL DEF SummariesSpec, SummariesHold, SummaryKept

-----------------------------------------------------------------------------
(***************************************************************************)
(* SurveySession.  A title of the list meets the case of its own phrase    *)
(* before any case of words.                                               *)
(***************************************************************************)
LEMMA LeastIsMin ==
  ASSUME NEW S, NEW m \in S, S \subseteq Int, \A n \in S : m <= n
  PROVE  Min(S) = m
<1>1. \A k \in S : (\A n \in S : k <= n) => k = m
  OBVIOUS
<1>2. QED
  BY <1>1 DEF Min

LEMMA LeastExists ==
  ASSUME NEW S, S \subseteq 1..11, S # {}
  PROVE  \E m \in S : \A n \in S : m <= n
<1> SUFFICES ASSUME \A m \in S : \E n \in S : n < m PROVE FALSE
  OBVIOUS
<1>1. 1 \notin S
  OBVIOUS
<1>2. 2 \notin S
  BY <1>1
<1>3. 3 \notin S /\ 4 \notin S
  BY <1>1, <1>2
<1>4. 5 \notin S /\ 6 \notin S
  BY <1>1, <1>2, <1>3
<1>5. 7 \notin S /\ 8 \notin S
  BY <1>1, <1>2, <1>3, <1>4
<1>6. 9 \notin S /\ 10 \notin S /\ 11 \notin S
  BY <1>1, <1>2, <1>3, <1>4, <1>5
<1>7. 1..11 = (1..2) \cup (3..8) \cup (9..11)
  OBVIOUS
<1>8. (1..2) \cap S = {} /\ (3..8) \cap S = {} /\ (9..11) \cap S = {}
  <2>1. 1..2 = {1, 2} /\ 3..8 = {3, 4, 5, 6, 7, 8} /\ 9..11 = {9, 10, 11}
    OBVIOUS
  <2>2. QED
    BY <1>1, <1>2, <1>3, <1>4, <1>5, <1>6, <2>1
<1>9. QED
  BY <1>7, <1>8

LEMMA CasesAre ==
  /\ DOMAIN Cases = 1..11
  /\ \A n \in 1..5 : Cases[n].only /\ Cases[n].words = Titles[6 - n] /\ Cases[n].rating = 6 - n
  /\ \A n \in 1..11 : Cases[n].rating \in 1..5
  /\ \A i, j \in 1..5 : i # j => Titles[i] # Titles[j]
<1>1. DOMAIN Cases = 1..11
  BY DEF Cases
<1>2. /\ Cases[1] = Phrase(Titles[5], 5) /\ Cases[2] = Phrase(Titles[4], 4)
      /\ Cases[3] = Phrase(Titles[3], 3) /\ Cases[4] = Phrase(Titles[2], 2)
      /\ Cases[5] = Phrase(Titles[1], 1)
  BY DEF Cases
<1>3. \A n \in 6..11 : Cases[n].rating \in 1..5
  <2>1. /\ Cases[6].rating = 5 /\ Cases[7].rating = 4 /\ Cases[8].rating = 3
        /\ Cases[9].rating = 2 /\ Cases[10].rating = 1 /\ Cases[11].rating = 4
    BY DEF Cases, AnyWord
  <2>2. QED
    BY <2>1
<1>4. \A n \in 1..5 : Cases[n].only /\ Cases[n].words = Titles[6 - n] /\ Cases[n].rating = 6 - n
  <2>1. \A n \in 1..5 : Cases[n] = Phrase(Titles[6 - n], 6 - n)
    BY <1>2
  <2>2. QED
    BY <2>1 DEF Phrase
<1>5. \A n \in 1..11 : Cases[n].rating \in 1..5
  BY <1>3, <1>4
<1>6. \A i, j \in 1..5 : i # j => Titles[i] # Titles[j]
  <2>1. /\ "cry" \in Titles[1] /\ "frown" \in Titles[2] /\ "blank" \in Titles[3]
        /\ "smile" \in Titles[4] /\ "grin" \in Titles[5]
    BY DEF Titles
  <2>2. /\ \A i \in {2, 3, 4, 5} : "cry" \notin Titles[i]
        /\ \A i \in {3, 4, 5} : "frown" \notin Titles[i]
        /\ \A i \in {4, 5} : "blank" \notin Titles[i]
        /\ "smile" \notin Titles[5]
    BY DEF Titles
  <2>3. QED
    BY <2>1, <2>2
<1>7. QED
  BY <1>1, <1>4, <1>5, <1>6

LEMMA RatedAsMeant ==
  /\ \A i \in 1..5 : RatingOf(Titles[i]) = i
  /\ \A reply \in Replies : Met(reply) # {} => RatingOf(reply) \in 1..5
<1>1. ASSUME NEW i \in 1..5 PROVE RatingOf(Titles[i]) = i
  <2>1. 6 - i \in Met(Titles[i])
    BY CasesAre DEF Met
  <2>2. \A n \in Met(Titles[i]) : 6 - i <= n
    <3>1. SUFFICES ASSUME NEW n \in 1..11, n \in Met(Titles[i]), n < 6 - i PROVE FALSE
      BY CasesAre DEF Met
    <3>2. n \in 1..5 /\ 6 - n \in 1..5 /\ 6 - n # i
      BY <3>1
    <3>3. Titles[i] = Titles[6 - n]
      BY <3>1, <3>2, CasesAre DEF Met
    <3>4. QED
      BY <3>2, <3>3, CasesAre
  <2>3. Met(Titles[i]) \subseteq Int
    BY CasesAre DEF Met
  <2>4. Min(Met(Titles[i])) = 6 - i
    BY <2>1, <2>2, <2>3, LeastIsMin
  <2>5. QED
    BY <2>4, CasesAre DEF RatingOf
<1>2. ASSUME NEW reply \in Replies, Met(reply) # {} PROVE RatingOf(reply) \in 1..5
  <2>1. Met(reply) \subseteq 1..11
    BY CasesAre DEF Met
  <2>2. \E m \in Met(reply) : \A n \in Met(reply) : m <= n
    BY <1>2, <2>1, LeastExists
  <2>3. PICK m \in Met(reply) : \A n \in Met(reply) : m <= n
    BY <2>2
  <2>4. Min(Met(reply)) = m
    BY <2>1, <2>3, LeastIsMin
  <2>5. QED
    BY <2>1, <2>3, <2>4, CasesAre DEF RatingOf
<1>3. QED
  BY <1>1, <1>2

(***************************************************************************)
(* Until the rating is the contact's field nothing was posted; what is     *)
(* posted, written and read of the survey afterwards has that rating, and  *)
(* a comment only from the last post.                                      *)
(***************************************************************************)
NothingPosted == survey = {} /\ \A p \in Posts : postAt[p] = "none"

\* Nodes before the contact has rated, and those between the rating and the end.
Early == {"asleep", "start", "ask", "rating", "attempt"}
Later == {"postRating", "askComment", "comment", "postBoth"}

RunFits ==
    /\ node \in Early => avaliacao = Missing /\ NothingPosted
    /\ node = "field" => avaliacao \in Ratings /\ NothingPosted
    /\ node \in Later => avaliacao \in Ratings /\ contactField = avaliacao
    /\ node = "ended" =>
           \/ avaliacao = Missing /\ NothingPosted
           \/ avaliacao \in Ratings /\ contactField = avaliacao
    /\ avaliacao # Missing => \A i \in 1..5 : replied = Titles[i] => avaliacao = i
    /\ node \notin {"postBoth", "ended"} \/ avaliacao = Missing => comentario = Missing
    /\ node \in {"postBoth", "ended"} /\ avaliacao # Missing => comentario # Missing
    /\ ~Posting => posting = {}
    /\ node \in {"asleep", "start"} => timesAsked = 0 /\ tentativa = 0
    /\ node = "ask" => timesAsked = tentativa
    /\ node \in {"rating", "attempt"} => timesAsked = tentativa + 1

Commented == \E q \in Posts : sent[q].comment # Missing

\* What is in the survey, or was read from it.
AnswerFits(answer) ==
    /\ avaliacao # Missing /\ answer.rating = avaliacao
    /\ answer.comment \in {Null, comentario}
    /\ answer.comment # Null => Commented

\* What a post brings, and what was made of it.
PostsFit ==
    /\ \A p \in Posts : postAt[p] = "none" => sent[p] = Blank
    /\ \A p \in Posts : postAt[p] \notin {"none", "refused"} =>
           avaliacao # Missing /\ sent[p].rating = avaliacao
    /\ \A p \in Posts : sent[p].comment \in {Missing, comentario} \ {Null}
    /\ \A answer \in survey : AnswerFits(answer)
    /\ \A p \in Posts : \A answer \in copy[p] : AnswerFits(answer)
    /\ node \notin {"postBoth", "ended"} \/ (node = "postBoth" /\ posting = {}) => ~Commented

\* The post that creates the survey finds none, unless it met another.
FreshIsAlone == \A p \in Posts \ together : postAt[p] = "create" => survey = {}

\* The last post brings the comment and is not refused, unless it met another.
LastPostFits ==
    comentario # Null /\ together = {} =>
        /\ node = "postBoth" =>
               \A p \in posting :
                   /\ sent[p].comment = comentario
                   /\ postAt[p] \in {"admitted", "create", "update", "done"}
        /\ node = "ended" /\ avaliacao # Missing /\ "postBoth" \notin unheard =>
               \E p \in Posts : postAt[p] = "done" /\ sent[p].comment = comentario

SessionFits == RunFits /\ PostsFit /\ FreshIsAlone /\ LastPostFits

SurveyTyped == AnswersTypeOK /\ SessionTypeOK /\ Alone

LEMMA AnswersStep ==
  ASSUME AnswersTypeOK, Alone, [AnswersNext]_answerVars
  PROVE  AnswersTypeOK' /\ Alone'
<1>1. CASE UNCHANGED answerVars
  BY <1>1, AloneStep DEF answerVars, AnswersTypeOK
<1>2. ASSUME NEW p \in Posts, NEW payload \in Payloads, AdmitPost(p, payload)
      PROVE  AnswersTypeOK'
  BY <1>2 DEF AdmitPost, Arrive, UnderWay, AnswersTypeOK
<1>3. QED
  BY <1>1, <1>2, PostStepType, AloneStep DEF AnswersNext, PostStep

\* A post of the flow is admitted with what the run has.
LEMMA CallIsAdmission ==
  ASSUME SessionTypeOK, NEW p \in Posts, CallWebhook(p)
  PROVE  Body \in Payloads /\ [AnswersNext]_answerVars
<1>1. Body \in Payloads
  BY DEF Body, Payloads, SessionTypeOK
<1>2. QED
  BY <1>1 DEF CallWebhook, AnswersNext

\* The serializer refuses a blank comment before the survey is looked for.
LEMMA BlankIsRefused ==
  ASSUME AnswersTypeOK, Alone, NEW p \in Posts, postAt[p] = "none",
         postAt' = [postAt EXCEPT ![p] = "refused"],
         survey' = survey /\ sent' = sent /\ copy' = copy /\ together' = together
  PROVE  AnswersTypeOK' /\ Alone'
<1>1. AnswersTypeOK'
  BY DEF AnswersTypeOK
<1>2. UnderWay' = UnderWay
  BY DEF UnderWay, AnswersTypeOK
<1>3. Alone'
  BY <1>2 DEF Alone, IsKept, AnswersTypeOK
<1>4. QED
  BY <1>1, <1>3

SessionWalks ==
    \/ StartSession \/ Greet \/ AskRating \/ MissRating \/ AskAgain \/ GiveUpRating \/ SetField
    \/ HearAnswer \/ MissAnswer \/ AskComment \/ MissComment
    \/ \E reply \in Replies : ReplyRating(reply)
    \/ \E text \in (Texts \ {NonRespondent}) \cup {Null} : ReplyComment(text)

\* A step that only the flow takes.
LEMMA WalkFits ==
  ASSUME SurveyTyped, SessionFits, SessionWalks
  PROVE  SessionTypeOK' /\ SessionFits' /\ UNCHANGED answerVars
<1>0. /\ Missing \notin Ratings \cup Texts \cup {Null} /\ Null \notin Texts
      /\ NonRespondent \in Texts /\ Ratings = 1..5
  BY AnswerAssumption, SessionAssumption DEF AnswerAssumption, SessionAssumption
<1>1. UNCHANGED answerVars
  BY DEF SessionWalks, StartSession, Greet, AskRating, MissRating, AskAgain, GiveUpRating,
         SetField, HearAnswer, MissAnswer, AskComment, MissComment, ReplyRating, ReplyComment
<1>2. UnderWay' = UnderWay /\ Commented' = Commented /\ NothingPosted' = NothingPosted
  BY <1>1 DEF answerVars, UnderWay, Commented, NothingPosted
<1> USE DEF Walks, resultVars, SurveyTyped, SessionTypeOK, Nodes, RunFits, Early, Later, Posting
<1>3. ASSUME avaliacao' = avaliacao, comentario' = comentario,
             node' \notin {"postBoth", "ended"} => ~Commented
      PROVE  PostsFit' /\ FreshIsAlone'
  <2>1. ASSUME NEW answer, AnswerFits(answer) PROVE AnswerFits(answer)'
    BY <1>2, <1>3, <2>1 DEF AnswerFits
  <2>2. node' = "postBoth" /\ posting' = {} => ~Commented
    <3>1. node' = "postBoth" => node = "comment"
      BY DEF SessionWalks, StartSession, Greet, AskRating, MissRating, AskAgain, GiveUpRating,
             SetField, HearAnswer, MissAnswer, AskComment, MissComment, ReplyRating,
             ReplyComment, AfterPost
    <3>2. QED
      BY <3>1 DEF SessionFits, PostsFit
  <2>3. QED
    BY <1>1, <1>2, <1>3, <2>1, <2>2 DEF SessionFits, PostsFit, FreshIsAlone, answerVars
<1>4. CASE StartSession \/ AskRating \/ MissRating \/ Greet \/ AskAgain \/ SetField \/ AskComment
  <2>1. SessionTypeOK' /\ RunFits'
    <3>1. CASE StartSession
      BY <1>0, <1>2, <3>1 DEF StartSession, SessionFits
    <3>5. CASE AskRating
      BY <1>0, <1>2, <3>5 DEF AskRating, SessionFits
    <3>2. CASE MissRating
      BY <1>0, <1>2, <3>2 DEF MissRating, SessionFits
    <3>6. CASE Greet
      BY <1>0, <1>2, <3>6 DEF Greet, SessionFits
    <3>3. CASE AskAgain
      BY <1>0, <1>2, <3>3 DEF AskAgain, SessionFits
    <3>4. CASE SetField \/ AskComment
      BY <1>0, <1>2, <3>4 DEF SetField, AskComment, SessionFits
    <3>7. QED
      BY <1>4, <3>1, <3>2, <3>3, <3>4, <3>5, <3>6
  <2>2. /\ avaliacao' = avaliacao /\ comentario' = comentario
        /\ node \notin {"postBoth", "ended"} /\ node' \notin {"postBoth", "ended"}
    BY <1>4 DEF StartSession, AskRating, MissRating, Greet, AskAgain, SetField, AskComment
  <2>3. ~Commented
    BY <2>2 DEF SessionFits, PostsFit
  <2>4. LastPostFits'
    BY <2>2 DEF LastPostFits
  <2>5. QED
    BY <1>1, <1>3, <2>1, <2>2, <2>3, <2>4 DEF SessionFits
<1>5. CASE GiveUpRating
  <2>1. SessionTypeOK' /\ RunFits'
    BY <1>0, <1>2, <1>5 DEF GiveUpRating, SessionFits
  <2>2. LastPostFits'
    BY <1>5 DEF GiveUpRating, LastPostFits, SessionFits
  <2>3. QED
    BY <1>1, <1>3, <1>5, <2>1, <2>2 DEF SessionFits, GiveUpRating
<1>6. CASE HearAnswer \/ MissAnswer
  <2>1. /\ Posting /\ node' = AfterPost /\ posting' = {}
        /\ avaliacao' = avaliacao /\ comentario' = comentario /\ tentativa' = tentativa
        /\ contactField' = contactField /\ replied' = replied /\ timesAsked' = timesAsked
        /\ unheard' = unheard \/ unheard' = unheard \cup {node}
    BY <1>6 DEF HearAnswer, MissAnswer
  <2>2. SessionTypeOK' /\ RunFits'
    BY <1>0, <1>2, <2>1 DEF AfterPost, SessionFits
  <2>3. PostsFit' /\ FreshIsAlone'
    BY <1>3, <2>1 DEF AfterPost, SessionFits, PostsFit
  <2>4. ASSUME comentario # Null, together = {}, node = "postBoth", "postBoth" \notin unheard'
        PROVE  \E p \in Posts : postAt[p] = "done" /\ sent[p].comment = comentario
    <3>1. HearAnswer
      BY <1>6, <2>4 DEF MissAnswer
    <3>2. PICK p \in posting : postAt[p] \in {"done", "refused"}
      BY <3>1 DEF HearAnswer
    <3>3. QED
      BY <2>4, <3>2 DEF SessionFits, LastPostFits
  <2>5. LastPostFits'
    BY <1>1, <2>1, <2>4 DEF LastPostFits, AfterPost, answerVars
  <2>6. QED
    BY <1>1, <2>2, <2>3, <2>5 DEF SessionFits
<1>7. CASE MissComment \/ \E text \in (Texts \ {NonRespondent}) \cup {Null} : ReplyComment(text)
  <2>1. /\ node = "comment" /\ node' = "postBoth" /\ comentario' \in Texts \cup {Null}
        /\ avaliacao' = avaliacao /\ tentativa' = tentativa /\ contactField' = contactField
        /\ posting' = posting /\ replied' = replied /\ timesAsked' = timesAsked
        /\ unheard' = unheard
    BY <1>0, <1>7 DEF MissComment, ReplyComment
  <2>2. SessionTypeOK' /\ RunFits'
    BY <1>0, <1>2, <2>1 DEF SessionFits
  <2>3. ~Commented
    BY <2>1 DEF SessionFits, PostsFit
  <2>4. ASSUME NEW answer, AnswerFits(answer) PROVE AnswerFits(answer)'
    BY <1>2, <2>1, <2>3, <2>4 DEF AnswerFits
  <2>5. \A p \in Posts : sent[p].comment = Missing
    BY <2>3 DEF Commented
  <2>6. PostsFit'
    BY <1>0, <1>1, <1>2, <2>1, <2>3, <2>4, <2>5 DEF SessionFits, PostsFit, answerVars
  <2>7. FreshIsAlone' /\ LastPostFits'
    BY <1>1, <2>1 DEF SessionFits, FreshIsAlone, LastPostFits, answerVars
  <2>8. QED
    BY <1>1, <2>2, <2>6, <2>7 DEF SessionFits
<1>8. ASSUME NEW reply \in Replies, ReplyRating(reply)
      PROVE  SessionTypeOK' /\ SessionFits' /\ UNCHANGED answerVars
  <2>1. /\ node = "rating" /\ node' = "field" /\ avaliacao' = RatingOf(reply) /\ replied' = reply
        /\ comentario' = comentario /\ tentativa' = tentativa /\ contactField' = contactField
        /\ posting' = posting /\ timesAsked' = timesAsked /\ unheard' = unheard
        /\ avaliacao' \in Ratings
    BY <1>0, <1>8, RatedAsMeant DEF ReplyRating
  <2>2. \A i \in 1..5 : replied' = Titles[i] => avaliacao' = i
    BY <2>1, RatedAsMeant
  <2>3. SessionTypeOK' /\ RunFits'
    BY <1>0, <1>2, <2>1, <2>2 DEF SessionFits
  <2>4. NothingPosted /\ ~Commented /\ comentario = Missing
    BY <2>1 DEF SessionFits, PostsFit
  <2>5. \A p \in Posts : copy[p] = {}
    BY <2>4 DEF NothingPosted, AnswersTypeOK
  <2>6. PostsFit' /\ FreshIsAlone' /\ LastPostFits'
    BY <1>0, <1>1, <1>2, <2>1, <2>4, <2>5
       DEF SessionFits, PostsFit, FreshIsAlone, LastPostFits, NothingPosted, answerVars
  <2>7. QED
    BY <1>1, <2>3, <2>6 DEF SessionFits
<1>9. QED
  BY <1>4, <1>5, <1>6, <1>7, <1>8 DEF SessionWalks

\* A post is admitted with the rating, and with the comment if it is the last.
LEMMA CallFits ==
  ASSUME SurveyTyped, SessionFits, NEW p \in Posts, CallWebhook(p)
  PROVE  SessionTypeOK' /\ SessionFits'
<1>0. /\ Missing \notin Ratings \cup Texts \cup {Null} /\ Null \notin Texts
  BY AnswerAssumption DEF AnswerAssumption
<1>1. /\ Posting /\ posting = {} /\ posting' = {p} /\ comentario # Null
      /\ postAt[p] = "none" /\ ~Completed
      /\ sent' = [sent EXCEPT ![p] = Body] /\ postAt' = [postAt EXCEPT ![p] = "admitted"]
      /\ together' = (IF UnderWay = {} THEN together ELSE together \cup UnderWay \cup {p})
      /\ survey' = survey /\ copy' = copy
      /\ node' = node /\ tentativa' = tentativa /\ avaliacao' = avaliacao
      /\ comentario' = comentario /\ contactField' = contactField /\ unheard' = unheard
      /\ replied' = replied /\ timesAsked' = timesAsked
  BY DEF CallWebhook, AdmitPost, Arrive, resultVars
<1>2. node \in {"postRating", "postBoth"} /\ avaliacao \in Ratings /\ contactField = avaliacao
  BY <1>1 DEF Posting, SessionFits, RunFits, Later
<1>3. SessionTypeOK'
  BY <1>1 DEF SurveyTyped, SessionTypeOK
<1>4. RunFits'
  BY <1>1, <1>2 DEF SessionFits, RunFits, Early, Later, Posting, NothingPosted
<1>5. /\ ~Commented /\ Body.rating = avaliacao
      /\ Body.comment = (IF node = "postBoth" THEN comentario ELSE Missing)
  BY <1>1, <1>2 DEF SessionFits, PostsFit, Body
<1>6. sent'[p] = Body /\ \A q \in Posts \ {p} : sent'[q] = sent[q]
  BY <1>1 DEF SurveyTyped, AnswersTypeOK
<1>7. postAt'[p] = "admitted" /\ \A q \in Posts \ {p} : postAt'[q] = postAt[q]
  BY <1>1 DEF SurveyTyped, AnswersTypeOK
<1>8. PostsFit'
  <2>1. ASSUME NEW answer, AnswerFits(answer) PROVE AnswerFits(answer)'
    BY <1>1, <1>5, <2>1 DEF AnswerFits
  <2>2. (\A answer \in survey : AnswerFits(answer))'
        /\ (\A q \in Posts : \A answer \in copy[q] : AnswerFits(answer))'
    BY <1>1, <2>1 DEF SessionFits, PostsFit
  <2>3. (\A q \in Posts : postAt[q] = "none" => sent[q] = Blank)'
        /\ (\A q \in Posts : postAt[q] \notin {"none", "refused"} =>
               avaliacao # Missing /\ sent[q].rating = avaliacao)'
    BY <1>0, <1>1, <1>2, <1>5, <1>6, <1>7 DEF SessionFits, PostsFit
  <2>4. (\A q \in Posts : sent[q].comment \in {Missing, comentario} \ {Null})'
    BY <1>0, <1>1, <1>5, <1>6 DEF SessionFits, PostsFit
  <2>5. node = "postRating" => ~Commented'
    BY <1>5, <1>6 DEF Commented
  <2>6. QED
    BY <1>1, <1>2, <2>2, <2>3, <2>4, <2>5 DEF PostsFit
<1>9. FreshIsAlone'
  BY <1>1, <1>7 DEF SessionFits, FreshIsAlone
<1>10. LastPostFits'
  BY <1>1, <1>2, <1>5, <1>6, <1>7 DEF LastPostFits
<1>11. QED
  BY <1>3, <1>4, <1>8, <1>9, <1>10 DEF SessionFits

\* No survey is complete before the comment is posted.
LEMMA RefusalFits ==
  ASSUME SurveyTyped, SessionFits, NEW p \in Posts, CallInVain(p)
  PROVE  SessionTypeOK' /\ SessionFits' /\ AnswersTypeOK' /\ Alone'
<1>1. /\ Posting /\ posting = {} /\ posting' = {p} /\ postAt[p] = "none"
      /\ postAt' = [postAt EXCEPT ![p] = "refused"]
      /\ survey' = survey /\ sent' = sent /\ copy' = copy /\ together' = together
      /\ node' = node /\ tentativa' = tentativa /\ avaliacao' = avaliacao
      /\ comentario' = comentario /\ contactField' = contactField /\ unheard' = unheard
      /\ replied' = replied /\ timesAsked' = timesAsked
      /\ Completed \/ comentario = Null
  BY DEF CallInVain, RefusePost, resultVars
<1>2. node \in {"postRating", "postBoth"} /\ avaliacao \in Ratings /\ contactField = avaliacao
  BY <1>1 DEF Posting, SessionFits, RunFits, Later
<1>3. ~Commented /\ ~Completed
  BY <1>1, <1>2 DEF SessionFits, PostsFit, AnswerFits, Completed
<1>4. SessionTypeOK'
  BY <1>1 DEF SurveyTyped, SessionTypeOK
<1>5. RunFits'
  BY <1>1, <1>2 DEF SessionFits, RunFits, Early, Later, Posting, NothingPosted
<1>6. postAt'[p] = "refused" /\ \A q \in Posts \ {p} : postAt'[q] = postAt[q]
  BY <1>1 DEF SurveyTyped, AnswersTypeOK
<1>7. PostsFit'
  <2>1. \A answer : AnswerFits(answer)' <=> AnswerFits(answer)
    BY <1>1 DEF AnswerFits, Commented
  <2>2. QED
    BY <1>1, <1>3, <1>6, <2>1 DEF SessionFits, PostsFit, Commented
<1>8. FreshIsAlone'
  BY <1>1, <1>6 DEF SessionFits, FreshIsAlone
<1>9. LastPostFits'
  BY <1>1, <1>3 DEF LastPostFits
<1>10. AnswersTypeOK' /\ Alone'
  BY <1>1, BlankIsRefused DEF SurveyTyped
<1>11. QED
  BY <1>4, <1>5, <1>7, <1>8, <1>9, <1>10 DEF SessionFits

\* What the server does with a post that was admitted.
LEMMA ServeFits ==
  ASSUME SurveyTyped, SessionFits, NEW p \in Posts, Serve(p)
  PROVE  SessionTypeOK' /\ SessionFits'
<1>0. /\ Missing \notin Ratings \cup Texts \cup {Null} /\ Null \notin Texts
  BY AnswerAssumption DEF AnswerAssumption
<1>1. /\ node' = node /\ tentativa' = tentativa /\ avaliacao' = avaliacao
      /\ comentario' = comentario /\ contactField' = contactField /\ unheard' = unheard
      /\ replied' = replied /\ timesAsked' = timesAsked /\ posting' = posting
      /\ sent' = sent /\ together' = together
      /\ postAt[p] \in {"admitted", "create", "update"}
  BY DEF Serve, sessionVars, resultVars, FindSurvey, CreateAnswer, RejectAnswer, UpdateAnswer
<1>2. SessionTypeOK'
  BY <1>1 DEF SurveyTyped, SessionTypeOK
<1>3. ~NothingPosted /\ avaliacao # Missing /\ sent[p].rating = avaliacao
  BY <1>1 DEF SessionFits, PostsFit, NothingPosted
<1>4. RunFits'
  BY <1>1, <1>3 DEF SessionFits, RunFits, Early, Later, Posting, NothingPosted
<1>5. \A q \in Posts \ {p} : postAt'[q] = postAt[q] /\ copy'[q] = copy[q]
  BY DEF Serve, FindSurvey, CreateAnswer, RejectAnswer, UpdateAnswer, SurveyTyped, AnswersTypeOK
<1>6. \A answer : AnswerFits(answer)' <=> AnswerFits(answer)
  BY <1>1 DEF AnswerFits, Commented
<1>7. /\ postAt'[p] \in {"create", "update", "done", "refused"}
      /\ \A answer \in survey' : AnswerFits(answer)
      /\ \A answer \in copy'[p] : AnswerFits(answer)
  <2>1. CASE FindSurvey(p) \/ RejectAnswer(p)
    BY <2>1 DEF FindSurvey, RejectAnswer, SessionFits, PostsFit, SurveyTyped, AnswersTypeOK
  <2>2. CASE CreateAnswer(p)
    <3>1. PICK answer : survey' = {answer} /\ answer.rating = avaliacao
             /\ answer.comment = (IF sent[p].comment = Missing THEN Null ELSE sent[p].comment)
      <4> DEFINE new == [rating |-> sent[p].rating,
                         comment |-> IF sent[p].comment = Missing THEN Null ELSE sent[p].comment]
      <4>1. survey' = {new} /\ new.rating = avaliacao
        BY <1>3, <2>2 DEF CreateAnswer
      <4>2. new.comment = (IF sent[p].comment = Missing THEN Null ELSE sent[p].comment)
        OBVIOUS
      <4> HIDE DEF new
      <4>3. QED
        BY <4>1, <4>2
    <3>2. AnswerFits(answer)
      BY <1>3, <3>1 DEF AnswerFits, Commented, SessionFits, PostsFit
    <3>3. QED
      BY <2>2, <3>1, <3>2 DEF CreateAnswer, SessionFits, PostsFit, SurveyTyped, AnswersTypeOK
  <2>3. CASE UpdateAnswer(p)
    <3>1. PICK old : copy[p] = {old} /\ AnswerFits(old)
      BY <2>3, UpdatedSurvey DEF UpdateAnswer, SessionFits, PostsFit, SurveyTyped
    <3>2. PICK answer : survey' = {answer} /\ answer.rating = avaliacao
             /\ answer.comment = (IF sent[p].comment = Missing THEN old.comment
                                  ELSE sent[p].comment)
      <4>1. survey' = {[field \in {"rating", "comment"} |->
                          IF sent[p][field] = Missing THEN old[field] ELSE sent[p][field]]}
        BY <2>3, <3>1 DEF UpdateAnswer
      <4>2. QED
        BY <1>3, <3>1, <4>1 DEF AnswerFits
    <3>3. AnswerFits(answer)
      BY <1>3, <3>1, <3>2 DEF AnswerFits, Commented, SessionFits, PostsFit
    <3>4. QED
      BY <2>3, <3>2, <3>3 DEF UpdateAnswer, SurveyTyped, AnswersTypeOK
  <2>4. QED
    BY <2>1, <2>2, <2>3 DEF Serve
<1>8. PostsFit'
  BY <1>1, <1>3, <1>5, <1>6, <1>7 DEF SessionFits, PostsFit, Commented
<1>9. p \notin together => UnderWay = {p}
  BY <1>1 DEF SurveyTyped, Alone, UnderWay
<1>10. FreshIsAlone'
  <2>1. ASSUME NEW q \in Posts \ together, postAt'[q] = "create" PROVE survey' = {}
    <3>1. q = p
      BY <1>1, <1>5, <2>1 DEF SurveyTyped, Alone, UnderWay
    <3>2. FindSurvey(p)
      BY <2>1, <3>1 DEF Serve, FindSurvey, CreateAnswer, RejectAnswer, UpdateAnswer, SurveyTyped,
                        AnswersTypeOK
    <3>3. QED
      BY <2>1, <3>1, <3>2 DEF FindSurvey, SurveyTyped, AnswersTypeOK
  <2>2. QED
    BY <1>1, <2>1 DEF FreshIsAlone
<1>11. LastPostFits'
  <2>1. together = {} => postAt'[p] # "refused"
    <3>1. together = {} => ~RejectAnswer(p)
      BY <1>0, <1>3 DEF RejectAnswer, Creatable, SessionFits, FreshIsAlone
    <3>2. ~RejectAnswer(p) => postAt'[p] # "refused"
      BY DEF Serve, FindSurvey, CreateAnswer, UpdateAnswer, SurveyTyped, AnswersTypeOK
    <3>3. QED
      BY <3>1, <3>2
  <2>2. \A q \in Posts : postAt[q] = "done" => postAt'[q] = "done"
    BY <1>1, <1>5
  <2>3. together = {} =>
            \A q \in Posts : postAt[q] \in {"admitted", "create", "update", "done"}
                => postAt'[q] \in {"admitted", "create", "update", "done"}
    BY <1>5, <1>7, <2>1
  <2>4. posting \subseteq Posts
    BY DEF SurveyTyped, SessionTypeOK
  <2>5. QED
    BY <1>1, <2>2, <2>3, <2>4 DEF SessionFits, LastPostFits
<1>12. QED
  BY <1>2, <1>4, <1>8, <1>10, <1>11 DEF SessionFits

SurveyInv == SurveyTyped /\ SessionFits

LEMMA SurveyBegins ==
  ASSUME AnswersInit, SessionInit PROVE SurveyInv
<1>1. AnswersTypeOK
  BY DEF AnswersInit, AnswersTypeOK, Surveys, Payloads, Blank
<1>2. SessionTypeOK
  BY DEF SessionInit, SessionTypeOK, Nodes
<1>3. Alone
  BY DEF AnswersInit, Alone, UnderWay
<1>4. SessionFits
  BY AnswerAssumption
     DEF AnswersInit, SessionInit, SessionFits, RunFits, PostsFit, FreshIsAlone, LastPostFits,
         NothingPosted, Commented, Early, Later, Posting, Blank, AnswerAssumption
<1>5. QED
  BY <1>1, <1>2, <1>3, <1>4 DEF SurveyInv, SurveyTyped

LEMMA SurveyGoesOn ==
  ASSUME SurveyInv, [SessionNext]_<<answerVars, sessionVars>> PROVE SurveyInv'
<1>1. CASE SessionWalks
  BY <1>1, WalkFits, AnswersStep DEF SurveyInv, SurveyTyped
<1>2. ASSUME NEW p \in Posts, CallWebhook(p) PROVE SurveyInv'
  BY <1>2, CallFits, CallIsAdmission, AnswersStep DEF SurveyInv, SurveyTyped
<1>3. ASSUME NEW p \in Posts, CallInVain(p) PROVE SurveyInv'
  BY <1>3, RefusalFits DEF SurveyInv, SurveyTyped
<1>4. ASSUME NEW p \in Posts, Serve(p) PROVE SurveyInv'
  <2>1. AnswersNext
    BY <1>4 DEF Serve, AnswersNext
  <2>2. QED
    BY <1>4, <2>1, ServeFits, AnswersStep DEF SurveyInv, SurveyTyped
<1>5. CASE UNCHANGED <<answerVars, sessionVars>>
  <2>1. SurveyTyped'
    BY <1>5, AnswersStep DEF SurveyInv, SurveyTyped, sessionVars, resultVars, SessionTypeOK
  <2>2. SessionFits'
    BY <1>5 DEF answerVars, sessionVars, resultVars, SurveyInv, SessionFits, RunFits, PostsFit,
                FreshIsAlone, LastPostFits, NothingPosted, Commented, AnswerFits, Posting
  <2>3. QED
    BY <2>1, <2>2 DEF SurveyInv
<1>6. QED
  BY <1>1, <1>2, <1>3, <1>4, <1>5 DEF SessionNext, SessionStep, SessionWalks

\* What was heard is recorded.
LEMMA HeardIsRecorded ==
  ASSUME SurveyInv PROVE SessionHolds
<1>0. /\ Missing \notin Ratings \cup Texts \cup {Null} /\ Null \notin Texts
  BY AnswerAssumption DEF AnswerAssumption
<1>1. RatingIsMeant
  <2>1. SUFFICES ASSUME NEW answer \in survey
                 PROVE  /\ answer.rating = contactField
                        /\ \A i \in 1..5 : replied = Titles[i] => answer.rating = i
    BY DEF RatingIsMeant
  <2>2. avaliacao # Missing /\ answer.rating = avaliacao /\ ~NothingPosted
    BY DEF SurveyInv, SessionFits, PostsFit, AnswerFits, NothingPosted
  <2>3. contactField = avaliacao
    BY <2>2 DEF SurveyInv, SurveyTyped, SessionTypeOK, Nodes, SessionFits, RunFits, Early, Later
  <2>4. QED
    BY <2>2, <2>3 DEF SurveyInv, SessionFits, RunFits
<1>2. ASSUME node = "ended", avaliacao = Missing PROVE survey = {}
  BY <1>0, <1>2 DEF SurveyInv, SessionFits, RunFits, NothingPosted
<1>3. ASSUME node = "ended", avaliacao # Missing, comentario # Null, "postBoth" \notin unheard,
             together = {}
      PROVE  survey = {[rating |-> avaliacao, comment |-> comentario]}
  <2>1. PICK p \in Posts : postAt[p] = "done" /\ sent[p].comment = comentario
    BY <1>3 DEF SurveyInv, SessionFits, LastPostFits
  <2>2. comentario \in Texts
    BY <1>3 DEF SurveyInv, SurveyTyped, SessionTypeOK, SessionFits, RunFits
  <2>3. IsKept(p)
    BY <1>3, <2>1, <2>2 DEF SurveyInv, SurveyTyped, Alone
  <2>4. PICK answer \in survey : answer.comment = comentario /\ answer.rating = avaliacao
    BY <2>1, <2>3 DEF IsKept, SurveyInv, SessionFits, PostsFit, AnswerFits
  <2>5. PICK kept \in [rating : Ratings, comment : Texts \cup {Null}] : survey = {kept}
    BY <2>4 DEF SurveyInv, SurveyTyped, AnswersTypeOK, Surveys
  <2>6. kept = [rating |-> avaliacao, comment |-> comentario]
    BY <2>4, <2>5
  <2>7. QED
    BY <2>5, <2>6
<1>4. QED
  BY <1>1, <1>2, <1>3 DEF SessionHolds, AnswersAreRecorded

(***************************************************************************)
(* What a contact tells the flow is what the survey keeps: whatever he     *)
(* replies, however often a post is lost, late or doubled                  *)
(* (csat/flows/definitions/flow.py, CSATWebhookView).                      *)
(***************************************************************************)
THEOREM ToldIsKept ==
  SessionSpec => [](AnswersTypeOK /\ SessionTypeOK /\ AnswerIsKept /\ SessionHolds)
<1>1. AnswersInit /\ SessionInit => SurveyInv
  BY SurveyBegins
<1>2. SurveyInv /\ [SessionNext]_<<answerVars, sessionVars>> => SurveyInv'
  BY SurveyGoesOn
<1>3. SurveyInv => AnswersTypeOK /\ SessionTypeOK /\ AnswerIsKept /\ SessionHolds
  BY HeardIsRecorded DEF SurveyInv, SurveyTyped, Alone, AnswerIsKept, IsKept
<1>4. QED
  BY <1>1, <1>2, <1>3, PTL DEF SessionSpec

-----------------------------------------------------------------------------
(* AgentPresence.  GoneIsOffline is not inductive: it is carried by the    *)
(* connection that left last, which nobody can answer.                     *)

\* Nobody will answer the check of c, and nobody has.
Unanswerable(c) ==
    /\ c \notin answered
    /\ \A d \in Conns : Check(c) \notin mailbox[d] /\ Response(c) \notin mailbox[d]

\* Events and answers are about connections that have asked.
OnlyAskedChecks ==
    \A c \in Conns : conn[c] \in {"new", "accepted", "joined", "expired", "left"} => Unanswerable(c)

\* c will set the status to OFFLINE, or will have to ask first, or has crashed.
WillGoOffline(c) ==
    \/ conn[c] \in {"accepted", "joined", "expired", "left", "crashed"}
    \/ conn[c] = "asked" /\ Unanswerable(c)

SomeoneIsLeft == presence = "ONLINE" /\ ~orphan => \E c \in Conns : WillGoOffline(c)


(***************************************************************************)
(* The variables keep their types (AgentRoomConsumer and the permission's  *)
(* columns), and a connection outside the group holds no events.           *)
(***************************************************************************)
THEOREM PresenceTypeCorrect == PresenceSpec => []PresenceTypeOK
<1> USE PresenceAssumption DEF PresenceAssumption, PresenceTypeOK, Places, Events, Check,
        Response, Group
<1>1. PresenceInit => PresenceTypeOK
  <2> SUFFICES ASSUME PresenceInit PROVE PresenceTypeOK
    OBVIOUS
  <2>1. conn \in [Conns -> Places] /\ mailbox \in [Conns -> SUBSET Events]
    BY DEF PresenceInit
  <2>2. crashes \in 0..MaxCrashes
    BY DEF PresenceInit
  <2>3. QED
    BY <2>1, <2>2 DEF PresenceInit
<1>2. PresenceTypeOK /\ [PresenceNext]_presenceVars => PresenceTypeOK'
  <2> SUFFICES ASSUME PresenceTypeOK, [PresenceNext]_presenceVars PROVE PresenceTypeOK'
    OBVIOUS
  <2>1. ASSUME NEW c \in Conns, Accept(c) \/ Join(c) \/ Ping(c) \/ Vanish(c) PROVE PresenceTypeOK'
    BY <2>1 DEF Accept, Join, Ping, Vanish, Active, Moves
  <2>2. ASSUME NEW c \in Conns, ExpirePing(c) PROVE PresenceTypeOK'
    BY <2>2 DEF ExpirePing, Moves
  <2>3. ASSUME NEW c \in Conns, Leave(c) PROVE PresenceTypeOK'
    BY <2>3 DEF Leave, Moves
  <2>4. ASSUME NEW c \in Conns, LeaveOffline(c) \/ StayOnline(c) \/ GoOffline(c)
        PROVE  PresenceTypeOK'
    BY <2>4 DEF LeaveOffline, StayOnline, GoOffline, Moves
  <2>5. ASSUME NEW c \in Conns, Ask(c) PROVE PresenceTypeOK'
    BY <2>5 DEF Ask, Moves, GroupSend
  <2>6. ASSUME NEW c \in Conns, Crash(c) PROVE PresenceTypeOK'
    BY <2>6 DEF Crash, Moves
  <2>7. ASSUME NEW c \in Conns, NEW d \in Conns, Answer(d, c) PROVE PresenceTypeOK'
    BY <2>7 DEF Answer, GroupSend
  <2>8. ASSUME NEW c \in Conns, NEW d \in Conns, Record(d, c) PROVE PresenceTypeOK'
    BY <2>8 DEF Record
  <2>9. CASE RequestOnline \/ RequestOffline \/ GrowStale
    BY <2>9 DEF RequestOnline, RequestOffline, GrowStale
  <2>10. CASE UNCHANGED presenceVars
    BY <2>10 DEF presenceVars
  <2>11. QED
    BY <2>1, <2>2, <2>3, <2>4, <2>5, <2>6, <2>7, <2>8, <2>9, <2>10 DEF PresenceNext, Disconnect
<1>3. QED
  BY <1>1, <1>2, PTL DEF PresenceSpec

\* Only connections in their disconnect handler are asked about.
LEMMA ChecksAreAsked ==
  ASSUME PresenceTypeOK, OnlyAskedChecks, [PresenceNext]_presenceVars PROVE OnlyAskedChecks'
<1> USE DEF PresenceTypeOK, OnlyAskedChecks, Unanswerable, Check, Response
<1>1. ASSUME NEW c \in Conns,
             Accept(c) \/ Join(c) \/ Ping(c) \/ Vanish(c) \/ ExpirePing(c)
      PROVE  OnlyAskedChecks'
  BY <1>1 DEF Accept, Join, Ping, Vanish, ExpirePing, Moves
<1>2. ASSUME NEW c \in Conns, Leave(c) \/ Crash(c) PROVE OnlyAskedChecks'
  BY <1>2 DEF Leave, Crash, Group, Moves
<1>3. ASSUME NEW c \in Conns, LeaveOffline(c) \/ StayOnline(c) \/ GoOffline(c)
      PROVE  OnlyAskedChecks'
  BY <1>3 DEF LeaveOffline, StayOnline, GoOffline, Moves
<1>4. ASSUME NEW c \in Conns, Ask(c) PROVE OnlyAskedChecks'
  BY <1>4 DEF Ask, Moves, GroupSend
<1>5. ASSUME NEW c \in Conns, NEW d \in Conns, Answer(d, c) PROVE OnlyAskedChecks'
  BY <1>5 DEF Answer, GroupSend
<1>6. ASSUME NEW c \in Conns, NEW d \in Conns, Record(d, c) PROVE OnlyAskedChecks'
  BY <1>6 DEF Record
<1>7. CASE RequestOnline \/ RequestOffline \/ GrowStale \/ UNCHANGED presenceVars
  BY <1>7 DEF RequestOnline, RequestOffline, GrowStale, presenceVars
<1>8. QED
  BY <1>1, <1>2, <1>3, <1>4, <1>5, <1>6, <1>7 DEF PresenceNext, Disconnect

\* As long as the status is ONLINE, some connection is still to end it.
LEMMA SomeoneStaysLeft ==
  ASSUME PresenceTypeOK, OnlyAskedChecks, SomeoneIsLeft, [PresenceNext]_presenceVars
  PROVE  SomeoneIsLeft'
<1> USE DEF PresenceTypeOK, SomeoneIsLeft
<1>1. ASSUME NEW c \in Conns, Accept(c) \/ Join(c) \/ Ping(c) \/ Vanish(c)
      PROVE  SomeoneIsLeft'
  BY <1>1 DEF Accept, Join, Ping, Vanish, Moves, WillGoOffline, Unanswerable
<1>2. ASSUME NEW c \in Conns, ExpirePing(c) \/ LeaveOffline(c) \/ GoOffline(c)
      PROVE  SomeoneIsLeft'
  BY <1>2 DEF ExpirePing, LeaveOffline, GoOffline
<1>3. ASSUME NEW c \in Conns, Leave(c) \/ Crash(c) PROVE SomeoneIsLeft'
  <2>1. conn'[c] \in {"left", "crashed"}
    BY <1>3 DEF Leave, Crash, Moves
  <2>2. QED
    BY <2>1 DEF WillGoOffline
<1>4. ASSUME NEW c \in Conns, StayOnline(c) PROVE SomeoneIsLeft'
  BY <1>4 DEF StayOnline, Moves, WillGoOffline, Unanswerable
<1>5. ASSUME NEW c \in Conns, Ask(c) PROVE SomeoneIsLeft'
  <2>1. CASE Group = {}
    <3>1. conn'[c] = "asked" /\ mailbox' = mailbox /\ answered' = answered
      BY <1>5, <2>1 DEF Ask, Moves, GroupSend
    <3>2. Unanswerable(c)'
      BY <1>5, <3>1 DEF Ask, OnlyAskedChecks, Unanswerable
    <3>3. QED
      BY <3>1, <3>2 DEF WillGoOffline
  <2>2. CASE Group # {}
    <3>1. PICK d \in Conns : conn[d] \in {"joined", "expired"}
      BY <2>2 DEF Group
    <3>2. conn'[d] = conn[d]
      BY <1>5, <3>1 DEF Ask, Moves
    <3>3. QED
      BY <3>1, <3>2 DEF WillGoOffline
  <2>3. QED
    BY <2>1, <2>2
<1>6. ASSUME NEW c \in Conns, NEW d \in Conns, Answer(d, c) \/ Record(d, c)
      PROVE  SomeoneIsLeft'
  \* The member d of the group is still to leave.
  <2>1. conn'[d] \in {"joined", "expired"}
    BY <1>6 DEF Answer, Record, Group
  <2>2. QED
    BY <2>1 DEF WillGoOffline
<1>7. CASE RequestOnline
  BY <1>7 DEF RequestOnline, WillGoOffline
<1>8. CASE RequestOffline
  BY <1>8 DEF RequestOffline
<1>9. CASE GrowStale \/ UNCHANGED presenceVars
  BY <1>9 DEF GrowStale, presenceVars, WillGoOffline, Unanswerable
<1>10. QED
  BY <1>1, <1>2, <1>3, <1>4, <1>5, <1>6, <1>7, <1>8, <1>9 DEF PresenceNext, Disconnect

(***************************************************************************)
(* GoneIsOffline holds for any number of connections, with or without the  *)
(* connection check, however late the answers (disconnect in agent.py).    *)
(***************************************************************************)
THEOREM GoneAreOffline == PresenceSpec => []GoneIsOffline
<1>1. PresenceInit => OnlyAskedChecks /\ SomeoneIsLeft
  BY DEF PresenceInit, OnlyAskedChecks, SomeoneIsLeft, Unanswerable
<1>2. PresenceTypeOK /\ OnlyAskedChecks /\ SomeoneIsLeft /\ [PresenceNext]_presenceVars
      => (OnlyAskedChecks /\ SomeoneIsLeft)'
  BY ChecksAreAsked, SomeoneStaysLeft
<1>3. SomeoneIsLeft => GoneIsOffline
  BY DEF SomeoneIsLeft, WillGoOffline, GoneIsOffline
<1>4. QED
  BY <1>1, <1>2, <1>3, PresenceTypeCorrect, PTL DEF PresenceSpec

-----------------------------------------------------------------------------
(***************************************************************************)
(* The run of MCServices.  Each component starts as in its own             *)
(* specification and takes its own steps or none; the survey's posts are   *)
(* taken by its flow, or come from anywhere.                               *)
(***************************************************************************)
LEMMA ServicesAreComponents ==
  ServicesSpec => RemovalSpec /\ SummariesSpec /\ TranscriptionSpec /\ PresenceSpec
<1>1. ServicesInit => RemovalInit /\ SummariesInit /\ TranscriptionInit /\ PresenceInit
  BY DEF ServicesInit
<1>2. ASSUME [ServicesNext]_<<component, serviceVars>>
      PROVE  /\ [RemovalNext]_removalVars /\ [SummariesNext]_summaryVars
             /\ [TranscriptionNext]_transcriptionVars /\ [PresenceNext]_presenceVars
  BY <1>2 DEF ServicesNext, serviceVars
<1>3. QED
  BY <1>1, <1>2, PTL
     DEF ServicesSpec, RemovalSpec, SummariesSpec, TranscriptionSpec, PresenceSpec

AnySurveyInv == SurveyTyped /\ (component = "answers" \/ SessionFits)

LEMMA AnySurveyKeeps == ServicesSpec => []AnySurveyInv
<1>1. ServicesInit => AnySurveyInv
  BY SurveyBegins DEF ServicesInit, AnySurveyInv, SurveyInv
<1>2. ASSUME AnySurveyInv, [ServicesNext]_<<component, serviceVars>> PROVE AnySurveyInv'
  <2>1. CASE component = "answers"
    <3>1. component' = component /\ [AnswersNext]_answerVars /\ sessionVars' = sessionVars
      BY <1>2, <2>1 DEF ServicesNext, serviceVars
    <3>2. AnswersTypeOK' /\ Alone'
      BY <1>2, <3>1, AnswersStep DEF AnySurveyInv, SurveyTyped
    <3>3. SessionTypeOK'
      BY <1>2, <3>1 DEF AnySurveyInv, SurveyTyped, SessionTypeOK, sessionVars, resultVars
    <3>4. QED
      BY <2>1, <3>1, <3>2, <3>3 DEF AnySurveyInv, SurveyTyped
  <2>2. CASE component # "answers"
    <3>1. component' = component /\ [SessionNext]_<<answerVars, sessionVars>>
      BY <1>2, <2>2 DEF ServicesNext, serviceVars
    <3>2. QED
      BY <1>2, <2>2, <3>1, SurveyGoesOn DEF AnySurveyInv, SurveyInv
  <2>3. QED
    BY <2>1, <2>2
<1>3. QED
  BY <1>1, <1>2, PTL DEF ServicesSpec

(***************************************************************************)
(* The state of every service keeps its types.                             *)
(***************************************************************************)
THEOREM ServicesTypeCorrect == ServicesSpec => []ServicesTypeOK
<1>1. AnySurveyInv => AnswersTypeOK /\ SessionTypeOK
  BY DEF AnySurveyInv, SurveyTyped
<1>2. QED
  BY <1>1, ServicesAreComponents, AnySurveyKeeps, RemovalType, SummariesType,
     TranscriptionType, PresenceTypeCorrect, PTL DEF ServicesTypeOK

(***************************************************************************)
(* What a request started is done once, in the run of all services: the    *)
(* last order about an agent wins and leaves him whole or with nothing, an *)
(* accepted comment is kept, and the survey has what its contact said      *)
(* (handle_permission_soft_delete, CSATWebhookView).                       *)
(***************************************************************************)
THEOREM RequestedIsDone == ServicesSpec => []RequestedHolds
<1>1. AnySurveyInv => AnswerIsKept /\ (component = "session" => SessionHolds)
  BY HeardIsRecorded DEF AnySurveyInv, SurveyInv, SurveyTyped, Alone, AnswerIsKept, IsKept
<1>2. QED
  BY <1>1, ServicesAreComponents, AnySurveyKeeps, RemovalIsWhole, PTL DEF RequestedHolds

(***************************************************************************)
(* Summaries and transcriptions that were written are kept, in the run of  *)
(* all services (chats_summary, transcribe), and the last connection to    *)
(* leave puts its agent OFFLINE (disconnect in agent.py).                  *)
(***************************************************************************)
THEOREM WrittenIsKept ==
  ServicesSpec => SummariesHold /\ TranscriptionHolds /\ []GoneIsOffline
BY ServicesAreComponents, SummariesAreKept, TranscriptionIsKept, GoneAreOffline
=============================================================================
