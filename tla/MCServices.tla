----------------------------- MODULE MCServices -----------------------------
(***************************************************************************)
(* What goes on in other processes after a request, in one run: the        *)
(* removal of an agent, summaries, transcriptions, the answers to surveys  *)
(* and the survey's flow with its posts; and beside it: the connections of *)
(* an agent.  They share no state, so a behaviour picks one of them in its *)
(* initial state and takes the steps of that one, as in MCBackground; the  *)
(* flow posts answers too.                                                 *)
(***************************************************************************)
EXTENDS AgentRemoval, AIFeatures, SurveySession, AgentPresence

VARIABLE component

Components == {"removal", "summary", "audio", "answers", "session", "presence"}

serviceVars ==
    <<removalVars, summaryVars, transcriptionVars, answerVars, sessionVars, presenceVars>>

\* Posts that overlap bring the one rating and the one comment, or leave them out.
RatedAlike ==
    \A p \in Posts : sent[p].rating \in {1, Missing} /\ sent[p].comment # NonRespondent

\* The rooms of the agent are alike, and one of them is the first to be closed.
FirstRoom == CHOOSE r \in AgentRooms : TRUE
FirstIsClosedFirst == closed' # {} => FirstRoom \in closed'

ServicesInit ==
    /\ component \in Components
    /\ RemovalInit /\ SummariesInit /\ TranscriptionInit /\ AnswersInit /\ SessionInit
    /\ PresenceInit

ServicesNext ==
    /\ UNCHANGED component
    /\ \/ /\ component = "removal"
          /\ RemovalNext /\ FirstIsClosedFirst
          /\ UNCHANGED <<summaryVars, transcriptionVars, answerVars, sessionVars, presenceVars>>
       \/ /\ component = "summary"
          /\ SummariesNext
          /\ UNCHANGED <<removalVars, transcriptionVars, answerVars, sessionVars, presenceVars>>
       \/ /\ component = "audio"
          /\ TranscriptionNext
          /\ UNCHANGED <<removalVars, summaryVars, answerVars, sessionVars, presenceVars>>
       \/ /\ component = "answers"
          /\ AnswersNext /\ RatedAlike'
          /\ UNCHANGED <<removalVars, summaryVars, transcriptionVars, sessionVars, presenceVars>>
       \/ /\ component = "session"
          /\ SessionNext
          /\ UNCHANGED <<removalVars, summaryVars, transcriptionVars, presenceVars>>
       \/ /\ component = "presence"
          /\ PresenceNext
          /\ UNCHANGED <<removalVars, summaryVars, transcriptionVars, answerVars, sessionVars>>

\* A component at rest has no fair action enabled.
ServicesFairness ==
    RemovalFairness /\ SummariesFairness /\ TranscriptionFairness /\ SessionFairness
    /\ PresenceFairness

ServicesSpec ==
    ServicesInit /\ [][ServicesNext]_<<component, serviceVars>> /\ ServicesFairness

(***************************************************************************)
(* Types of the state of every service; what is idle is as it is where its *)
(* own behaviours begin.                                                   *)
(***************************************************************************)
ServicesTypeOK ==
    /\ component = "removal"  => RemovalTypeOK
    /\ component = "summary"  => SummariesTypeOK
    /\ component = "audio"    => TranscriptionTypeOK
    /\ component = "answers"  => AnswersTypeOK
    /\ component = "session"  => (SessionTypeOK /\ AnswersTypeOK)
    /\ component = "presence" => PresenceTypeOK

(***************************************************************************)
(* What a request started is done once: the removal of an agent, and the   *)
(* posts of a contact's survey, which keep what the contact said.          *)
(***************************************************************************)
RequestedHolds ==
    /\ component = "removal" => RemovalHolds
    /\ component = "answers" => AnswerIsKept
    /\ component = "session" => (AnswerIsKept /\ SessionHolds)

\* What is awaited of the component that runs, two things at most, and what ends the wait.
Awaited(n) ==
    CASE component = "removal"  -> RoutingIsDue(n)
      [] component = "summary"  -> IsAwaited(n)
      [] component = "audio"    -> IsQueued
      [] component = "session"  -> node = "start"
      [] component = "presence" -> TRUE
      [] OTHER                  -> FALSE

HasCome(n) ==
    CASE component = "removal"  -> RoutingIsAsked(n)
      [] component = "summary"  -> HasSettled(n)
      [] component = "audio"    -> HasEnded
      [] component = "session"  -> node = "ended"
      [] component = "presence" -> Active # {} \/ ~Routable
      [] OTHER                  -> TRUE

(***************************************************************************)
(* What somebody waits for comes: routing for the rooms of a removed       *)
(* agent, summaries and transcriptions, the end of a survey, and again and *)
(* again an agent who is there or gets no rooms.  It is RequeuedIsRouted,  *)
(* SummarySettles, TranscriptionEnds, SessionEnds and NoGhostAgents, of    *)
(* which the others are idle while one component runs.                     *)
(***************************************************************************)
AnswersCome == \A n \in AgentRooms \cup Summaries : Awaited(n) ~> HasCome(n)
=============================================================================
