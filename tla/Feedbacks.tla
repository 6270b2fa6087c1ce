------------------------------ MODULE Feedbacks ------------------------------
(***************************************************************************)
(* When a user is asked what they think of the product, and what they      *)
(* answer: UserFeedbackService (chats/apps/feedbacks/services.py) behind   *)
(* FeedbackViewSet.  Nothing is locked: what a request read of the counter *)
(* of the day, of the dates of the survey and of the last showing may have *)
(* changed when it writes.  A moment is the number of rooms the user had   *)
(* ended by then and of surveys that had begun; the dates of a survey are  *)
(* in a feature flag, and in Redis for ten seconds.                        *)
(***************************************************************************)
EXTENDS FiniteSets, Integers

CONSTANTS
    Prompts,        \* requests of the user
    LastSurvey,     \* bound on surveys
    EnoughRooms,    \* 15 in the code
    ShowingsADay,   \* 2 in the code
    MaxEnded        \* bound on rooms that end

ASSUME FeedbacksAssumption ==
    /\ LastSurvey \in Nat /\ MaxEnded \in Nat
    /\ EnoughRooms \in Nat \ {0} /\ ShowingsADay \in Nat \ {0}

VARIABLES
    endedRooms,
    surveysBegun,   \* the last of them is in the rules of the flag
    startedAt,      \* the rooms ended when each survey began
    inDates,        \* surveys whose dates it is within
    cachedDates,    \* the survey in user_feedback_survey_date_range, or 0
    lastShown,      \* LastFeedbackShownToUser: survey 0 if there is no row
    shownCount,     \* feedback_form_shown_count of today
    feedbacks,      \* rows of UserFeedback, by the survey that had begun last
    asking,         \* what each request has read
    shownToday,     \* history: how often the user was asked today
    unearned,       \* history: they were asked too soon or after they had answered
    feedbackCrossed \* history: a request wrote that had read before another one's write

feedbackVars ==
    <<endedRooms, surveysBegun, startedAt, inDates, cachedDates, lastShown,
      shownCount, feedbacks, asking, shownToday, unearned, feedbackCrossed>>
feedbackRows == <<lastShown, shownCount, feedbacks, shownToday, unearned, feedbackCrossed>>
surveyVars == <<endedRooms, surveysBegun, startedAt, inDates>>

Surveys == 1..LastSurvey
Showings == [survey: 0..LastSurvey, ended: Nat]
NeverShown == [survey |-> 0, ended |-> 0]
NoPrompt == [at |-> "idle", dates |-> 0, last |-> NeverShown, count |-> 0, late |-> FALSE]

FeedbacksTypeOK ==
    /\ endedRooms \in 0..MaxEnded /\ surveysBegun \in 0..LastSurvey
    /\ startedAt \in [Surveys -> 0..MaxEnded]
    /\ inDates \subseteq Surveys
    /\ cachedDates \in 0..LastSurvey
    /\ lastShown \in Showings /\ shownCount \in Nat
    /\ feedbacks \in [Surveys -> Nat]
    /\ asking \in [Prompts ->
          [at: {"idle", "answered", "rooms", "show", "count", "tell", "check", "create"},
           dates: 0..LastSurvey, last: Showings, count: Nat, late: BOOLEAN]]
    /\ shownToday \in Nat /\ unearned \in BOOLEAN /\ feedbackCrossed \in BOOLEAN

FeedbacksInit ==
    /\ endedRooms = 0 /\ surveysBegun = 0 /\ startedAt = [s \in Surveys |-> 0]
    /\ inDates = {} /\ cachedDates = 0
    /\ lastShown = NeverShown /\ shownCount = 0 /\ feedbacks = [s \in Surveys |-> 0]
    /\ asking = [p \in Prompts |-> NoPrompt]
    /\ shownToday = 0 /\ unearned = FALSE /\ feedbackCrossed = FALSE

-----------------------------------------------------------------------------
(* What goes on around the requests. *)

EndRoom ==
    /\ endedRooms < MaxEnded
    /\ endedRooms' = endedRooms + 1
    /\ UNCHANGED <<surveysBegun, startedAt, inDates, cachedDates, asking, feedbackRows>>

\* The flag gets the dates of another survey; the one before may not be over by its own.
BeginSurvey ==
    /\ surveysBegun < LastSurvey
    /\ surveysBegun' = surveysBegun + 1
    /\ startedAt' = [startedAt EXCEPT ![surveysBegun + 1] = endedRooms]
    /\ inDates' = inDates \cup {surveysBegun + 1}
    /\ UNCHANGED <<endedRooms, cachedDates, asking, feedbackRows>>

EndSurvey(s) ==
    /\ s \in inDates
    /\ inDates' = inDates \ {s}
    /\ UNCHANGED <<endedRooms, surveysBegun, startedAt, cachedDates, asking, feedbackRows>>

DatesExpire ==
    /\ cachedDates # 0 /\ cachedDates' = 0
    /\ UNCHANGED <<surveyVars, asking, feedbackRows>>

\* The key of the counter has the date in it.
NextDay ==
    /\ shownCount' = 0 /\ shownToday' = 0
    /\ UNCHANGED <<surveyVars, cachedDates, asking, lastShown, feedbacks, unearned,
                   feedbackCrossed>>

-----------------------------------------------------------------------------
(* A request that asks whether to show the form, or creates a feedback. *)

Move(p, step) == asking' = [asking EXCEPT ![p] = step]

\* Another request that is under way has read what is not so any more.
MoveAndWrite(p, step) ==
    /\ asking' = [q \in Prompts |->
          IF q = p THEN step
          ELSE IF asking[q].at = "idle" THEN asking[q] ELSE [asking[q] EXCEPT !.late = TRUE]]
    /\ feedbackCrossed' = (feedbackCrossed \/ asking[p].late)

\* get_survey_date_range, which may have the dates of the survey before.
SurveyRead == IF cachedDates # 0 THEN cachedDates ELSE surveysBegun

\* The request goes on to its next step within the dates of a survey, which are cached
\* whatever they are.
BeginWithin(p, next) ==
    /\ asking[p].at = "idle" /\ ~feedbackCrossed  \* a bound: none after a crossing
    /\ SurveyRead # 0
    /\ cachedDates' = SurveyRead
    /\ Move(p, IF SurveyRead \in inDates
               THEN [NoPrompt EXCEPT !.at = next, !.dates = SurveyRead] ELSE NoPrompt)
    /\ UNCHANGED <<surveyVars, feedbackRows>>

\* Those given before the survey began do not count.
AnsweredSince(s) == \E later \in Surveys : later >= s /\ feedbacks[later] > 0

CheckAnswered(p, next) ==
    /\ Move(p, IF AnsweredSince(asking[p].dates) THEN NoPrompt
               ELSE [asking[p] EXCEPT !.at = next])
    /\ UNCHANGED <<surveyVars, cachedDates, feedbackRows>>

AskWhetherToShow(p) == shownCount < ShowingsADay /\ BeginWithin(p, "answered")
CheckShowAnswered(p) == asking[p].at = "answered" /\ CheckAnswered(p, "rooms")

\* Mutant: the rooms of the whole survey count.
EndedInSurvey(survey, last) == endedRooms - startedAt[survey]

\* Rooms that ended since the last showing, or since the survey began after it.
EndedSince(survey, last) ==
    endedRooms - (IF last.survey >= survey THEN last.ended ELSE startedAt[survey])

CountEnded(p) ==
    /\ asking[p].at = "rooms"
    /\ Move(p, IF EndedSince(asking[p].dates, lastShown) >= EnoughRooms
               THEN [asking[p] EXCEPT !.at = "show", !.last = lastShown] ELSE NoPrompt)
    /\ UNCHANGED <<surveyVars, cachedDates, feedbackRows>>

\* The row is created or saved.  It is unique to the user: who is late to create it fails.
Show(p) ==
    /\ asking[p].at = "show"
    /\ ~(asking[p].last = NeverShown /\ lastShown # NeverShown)
    /\ MoveAndWrite(p, [asking[p] EXCEPT !.at = "count"])
    /\ lastShown' = [survey |-> surveysBegun, ended |-> endedRooms]
    /\ unearned' = \/ unearned
                   \/ lastShown # NeverShown /\ endedRooms - lastShown.ended < EnoughRooms
                   \/ AnsweredSince(asking[p].dates)
    /\ UNCHANGED <<surveyVars, cachedDates, shownCount, feedbacks, shownToday>>

FailToShow(p) ==
    /\ asking[p].at = "show" /\ asking[p].last = NeverShown /\ lastShown # NeverShown
    /\ Move(p, NoPrompt)
    /\ UNCHANGED <<surveyVars, cachedDates, feedbackRows>>

ReadCount(p) ==
    /\ asking[p].at = "count"
    /\ Move(p, [asking[p] EXCEPT !.at = "tell", !.count = shownCount])
    /\ UNCHANGED <<surveyVars, cachedDates, feedbackRows>>

\* Mutant: the count is written back as it was.
TellUncounted(p) ==
    /\ asking[p].at = "tell"
    /\ MoveAndWrite(p, NoPrompt)
    /\ shownCount' = asking[p].count /\ shownToday' = shownToday + 1
    /\ UNCHANGED <<surveyVars, cachedDates, lastShown, feedbacks, unearned>>

\* The count is that of the key it was read from, which may have been yesterday's.
Tell(p) ==
    /\ asking[p].at = "tell"
    /\ MoveAndWrite(p, NoPrompt)
    /\ shownCount' = asking[p].count + 1 /\ shownToday' = shownToday + 1
    /\ UNCHANGED <<surveyVars, cachedDates, lastShown, feedbacks, unearned>>

AskToCreate(p) == BeginWithin(p, "check")

\* Mutant: whether the user may give feedback depends on the dates only.
CheckDatesOnly(p) ==
    /\ asking[p].at = "check" /\ Move(p, [asking[p] EXCEPT !.at = "create"])
    /\ UNCHANGED <<surveyVars, cachedDates, feedbackRows>>

CheckCreate(p) == asking[p].at = "check" /\ CheckAnswered(p, "create")

CreateFeedback(p) ==
    /\ asking[p].at = "create"
    /\ MoveAndWrite(p, NoPrompt)
    /\ feedbacks' = [feedbacks EXCEPT ![surveysBegun] = @ + 1]
    /\ UNCHANGED <<surveyVars, cachedDates, lastShown, shownCount, shownToday, unearned>>

FeedbacksNext ==
    \/ EndRoom \/ BeginSurvey \/ DatesExpire \/ NextDay
    \/ \E s \in Surveys : EndSurvey(s)
    \/ \E p \in Prompts :
          \/ AskWhetherToShow(p) \/ CheckShowAnswered(p) \/ CountEnded(p)
          \/ Show(p) \/ FailToShow(p) \/ ReadCount(p) \/ Tell(p)
          \/ AskToCreate(p) \/ CheckCreate(p) \/ CreateFeedback(p)

FeedbacksSpec == FeedbacksInit /\ [][FeedbacksNext]_feedbackVars

-----------------------------------------------------------------------------
(***************************************************************************)
(* Unless a request was crossed by another one's write, a user is asked at *)
(* most twice a day, never before enough rooms ended since the last time   *)
(* and never after they answered, and they answer a survey once: whenever  *)
(* days pass, rooms end and surveys come and go between two steps of a     *)
(* request.                                                                *)
(***************************************************************************)
FeedbacksHold ==
    feedbackCrossed \/ /\ shownToday <= ShowingsADay /\ ~unearned
                       /\ \A s \in Surveys : feedbacks[s] <= 1
=============================================================================
