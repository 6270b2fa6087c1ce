---------------------------- MODULE SurveySession -----------------------------
(***************************************************************************)
(* The answers of a contact to the satisfaction survey of a closed room    *)
(* (chats/apps/api/v1/internal/csat).  The flow posts them one by one, and *)
(* again when a post timed out.  A post is refused once the survey has a   *)
(* rating and a comment; otherwise it creates the row, or writes what it   *)
(* brings into an instance it read a moment before and saves all of that.  *)
(***************************************************************************)
EXTENDS Naturals, Sequences, FiniteSetsExt

CONSTANTS
    Posts,       \* posts of the flow
    Ratings,     \* ratings a contact may give
    Texts,       \* comments
    Null,        \* a comment of NULL
    Missing      \* a field that is not in the request

ASSUME AnswerAssumption ==
    /\ Null \notin Texts
    /\ Missing \notin Ratings \cup Texts \cup {Null}

VARIABLES
    survey,      \* the row of CSATSurvey for the room: none, or one
    sent,        \* what each post brings
    postAt,      \* where each post is
    copy,        \* the row it read: none, or one
    together     \* posts that were under way together with another

answerVars == <<survey, sent, postAt, copy, together>>

Surveys == {{}} \cup {{answer} : answer \in [rating : Ratings, comment : Texts \cup {Null}]}
Payloads == [rating : Ratings \cup {Missing}, comment : Texts \cup {Null, Missing}]

AnswersTypeOK ==
    /\ survey \in Surveys
    /\ sent \in [Posts -> Payloads]
    /\ postAt \in [Posts -> {"none", "admitted", "create", "update", "done", "refused"}]
    /\ copy \in [Posts -> Surveys]
    /\ \A p \in Posts : (copy[p] # {}) = (postAt[p] = "update")
    /\ together \subseteq Posts

Blank == [rating |-> Missing, comment |-> Missing]

AnswersInit ==
    /\ survey = {}
    /\ sent = [p \in Posts |-> Blank]
    /\ postAt = [p \in Posts |-> "none"]
    /\ copy = [p \in Posts |-> {}]
    /\ together = {}

UnderWay == {p \in Posts : postAt[p] \in {"admitted", "create", "update"}}

\* is_completed
Completed == \E answer \in survey : answer.comment # Null

Arrive(p, payload) ==
    /\ postAt[p] = "none"
    /\ sent' = [sent EXCEPT ![p] = payload]
    /\ postAt' = [postAt EXCEPT ![p] = "admitted"]
    /\ together' = IF UnderWay = {} THEN together ELSE together \cup UnderWay \cup {p}
    /\ UNCHANGED <<survey, copy>>

\* Mutant: completed surveys are not looked for.
AdmitAnyPost(p, payload) == Arrive(p, payload)

\* CSATWebhookPermission
AdmitPost(p, payload) == ~Completed /\ Arrive(p, payload)

RefusePost(p) ==
    /\ postAt[p] = "none"
    /\ Completed
    /\ postAt' = [postAt EXCEPT ![p] = "refused"]
    /\ UNCHANGED <<survey, sent, copy, together>>

FindSurvey(p) ==
    /\ postAt[p] = "admitted"
    /\ copy' = [copy EXCEPT ![p] = survey]
    /\ postAt' = [postAt EXCEPT ![p] = IF survey = {} THEN "create" ELSE "update"]
    /\ UNCHANGED <<survey, sent, together>>

\* A survey begins with a rating, and full_clean refuses a second row.
Creatable(p) == sent[p].rating # Missing /\ survey = {}

CreateAnswer(p) ==
    /\ postAt[p] = "create"
    /\ Creatable(p)
    /\ survey' = {[rating |-> sent[p].rating,
                   comment |-> IF sent[p].comment = Missing THEN Null ELSE sent[p].comment]}
    /\ postAt' = [postAt EXCEPT ![p] = "done"]
    /\ UNCHANGED <<sent, copy, together>>

RejectAnswer(p) ==
    /\ postAt[p] = "create"
    /\ ~Creatable(p)
    /\ postAt' = [postAt EXCEPT ![p] = "refused"]
    /\ UNCHANGED <<survey, sent, copy, together>>

\* The instance takes the fields of the request and is saved whole.
UpdateAnswer(p) ==
    /\ postAt[p] = "update"
    /\ survey' = {[field \in {"rating", "comment"} |->
                      IF sent[p][field] = Missing THEN old[field] ELSE sent[p][field]]
                  : old \in copy[p]}
    /\ copy' = [copy EXCEPT ![p] = {}]
    /\ postAt' = [postAt EXCEPT ![p] = "done"]
    /\ UNCHANGED <<sent, together>>

AnswersNext ==
    \E p \in Posts :
        \/ RefusePost(p) \/ FindSurvey(p) \/ CreateAnswer(p) \/ RejectAnswer(p) \/ UpdateAnswer(p)
        \/ \E payload \in Payloads : AdmitPost(p, payload)

AnswersSpec == AnswersInit /\ [][AnswersNext]_answerVars

-----------------------------------------------------------------------------
(***************************************************************************)
(* An answer with a comment that was accepted is what the survey keeps,    *)
(* whatever is posted later, unless another post was under way with it.    *)
(***************************************************************************)
AnswerIsKept ==
    \A p \in Posts \ together :
        postAt[p] = "done" /\ sent[p].comment \in Texts =>
            \E answer \in survey :
                /\ answer.comment = sent[p].comment
                /\ answer.rating = sent[p].rating \/ sent[p].rating = Missing

-----------------------------------------------------------------------------
(***************************************************************************)
(* One contact in the survey's flow                                        *)
(* (chats/apps/csat/flows/definitions/flow.py): the question, a reply that *)
(* is sorted by ordered cases, a second attempt, the comment, and the      *)
(* posts to the webhook, which is above.  The flow waits ten minutes for a *)
(* reply and goes on after a post whether it succeeded, failed or is still *)
(* under way.                                                              *)
(***************************************************************************)
CONSTANT NonRespondent   \* the comment "Nao respondente"

ASSUME SessionAssumption == Ratings = 1..5 /\ NonRespondent \in Texts

VARIABLES
    node,           \* where the run of the flow is
    tentativa,      \* its result of that name
    avaliacao,      \* and the rating, Missing before it has one
    comentario,     \* and the comment, Missing before it has one
    contactField,   \* nota_pesquisa_atendimento_humano of the contact
    posting,        \* the post the run waits for, in a set
    unheard,        \* posts whose answer did not come in time, by their node
    replied,        \* history: the words of the reply that was rated
    timesAsked      \* history: how often the contact was asked to rate

resultVars == <<tentativa, avaliacao, comentario, contactField>>
sessionVars == <<node, resultVars, posting, unheard, replied, timesAsked>>

\* Titles of the list and of the quick replies, word by word; index is rating.
Titles ==
    << {"muito", "insatisfeito", "cry"}, {"insatisfeito", "frown"}, {"neutro", "blank"},
       {"satisfeito", "smile"}, {"muito", "satisfeito", "grin"} >>
Replies ==
    {Titles[i] : i \in 1..5}
    \cup { {"muito", "satisfeito"}, {"muito", "ruim"}, {"bom"}, {"oi"} }

Nodes ==
    {"asleep", "start", "ask", "rating", "attempt", "field", "postRating", "askComment",
     "comment", "postBoth", "ended"}

SessionTypeOK ==
    /\ node \in Nodes
    /\ tentativa \in 0..1
    /\ avaliacao \in Ratings \cup {Missing}
    /\ comentario \in Texts \cup {Missing, Null}
    /\ contactField \in Ratings \cup {Missing}
    /\ posting \subseteq Posts
    /\ unheard \subseteq {"postRating", "postBoth"}
    /\ replied \in Replies \cup {{}}
    /\ timesAsked \in 0..2

SessionInit ==
    /\ node = "asleep"
    /\ tentativa = 0 /\ avaliacao = Missing /\ comentario = Missing /\ contactField = Missing
    /\ posting = {} /\ unheard = {} /\ replied = {} /\ timesAsked = 0

-----------------------------------------------------------------------------
Phrase(words, rating) == [only |-> TRUE, words |-> words, rating |-> rating]
AnyWord(words, rating) == [only |-> FALSE, words |-> words, rating |-> rating]

\* Mutant: the words are looked for before the phrases.
WordsFirst ==
    << AnyWord({"otimo"}, 5), AnyWord({"bom", "boa"}, 4),
       AnyWord({"neutro", "neutra", "normal"}, 3), AnyWord({"ruim", "rum"}, 2),
       AnyWord({"pessimo", "pesimo"}, 1), AnyWord({"satisfeito", "satisfeita"}, 4),
       Phrase(Titles[5], 5), Phrase(Titles[4], 4), Phrase(Titles[3], 3), Phrase(Titles[2], 2),
       Phrase(Titles[1], 1) >>

\* The cases of the switch, in their order.
Cases ==
    << Phrase(Titles[5], 5), Phrase(Titles[4], 4), Phrase(Titles[3], 3), Phrase(Titles[2], 2),
       Phrase(Titles[1], 1), AnyWord({"otimo"}, 5), AnyWord({"bom", "boa"}, 4),
       AnyWord({"neutro", "neutra", "normal"}, 3), AnyWord({"ruim", "rum"}, 2),
       AnyWord({"pessimo", "pesimo"}, 1), AnyWord({"satisfeito", "satisfeita"}, 4) >>

\* The cases a reply meets; the first of them decides.
Met(reply) ==
    {i \in DOMAIN Cases :
        IF Cases[i].only THEN reply = Cases[i].words ELSE reply \cap Cases[i].words # {}}
RatingOf(reply) == Cases[Min(Met(reply))].rating

Walks(from, to) == node = from /\ node' = to

\* start_csat_flow of a room that was closed.
StartSession ==
    /\ Walks("asleep", "start")
    /\ UNCHANGED <<answerVars, resultVars, posting, unheard, replied, timesAsked>>

\* set_run_result, the split by channel and the greeting: both channels are
\* asked the same.
Greet ==
    /\ Walks("start", "ask")
    /\ tentativa' = 0
    /\ UNCHANGED <<answerVars, avaliacao, comentario, contactField, posting, unheard,
                   replied, timesAsked>>

AskRating ==
    /\ Walks("ask", "rating")
    /\ timesAsked' = timesAsked + 1
    /\ UNCHANGED <<answerVars, resultVars, posting, unheard, replied>>

ReplyRating(reply) ==
    /\ Walks("rating", "field")
    /\ Met(reply) # {}
    /\ avaliacao' = RatingOf(reply)
    /\ replied' = reply
    /\ UNCHANGED <<answerVars, tentativa, comentario, contactField, posting, unheard, timesAsked>>

\* Other and No Response
MissRating ==
    /\ Walks("rating", "attempt")
    /\ UNCHANGED <<answerVars, resultVars, posting, unheard, replied, timesAsked>>

\* Mutant: the attempts are not counted up to one.
AskAgainStill ==
    /\ Walks("attempt", "ask")
    /\ tentativa = 0 /\ timesAsked < 3
    /\ UNCHANGED <<answerVars, resultVars, posting, unheard, replied, timesAsked>>

\* The second attempt insists, and asks again.
AskAgain ==
    /\ Walks("attempt", "ask")
    /\ tentativa = 0
    /\ tentativa' = tentativa + 1
    /\ UNCHANGED <<answerVars, avaliacao, comentario, contactField, posting, unheard,
                   replied, timesAsked>>

GiveUpRating ==
    /\ Walks("attempt", "ended")
    /\ tentativa = 1
    /\ UNCHANGED <<answerVars, resultVars, posting, unheard, replied, timesAsked>>

\* The field of the contact, and the category as the result.
SetField ==
    /\ Walks("field", "postRating")
    /\ contactField' = avaliacao
    /\ UNCHANGED <<answerVars, tentativa, avaliacao, comentario, posting, unheard,
                   replied, timesAsked>>

-----------------------------------------------------------------------------
Posting == node \in {"postRating", "postBoth"}
AfterPost == IF node = "postRating" THEN "askComment" ELSE "ended"
\* Mutant: the last post brings the comment alone.
CommentOnly ==
    IF node = "postBoth" THEN [rating |-> Missing, comment |-> comentario]
    ELSE [rating |-> avaliacao, comment |-> Missing]

Body ==
    [rating |-> avaliacao, comment |-> IF node = "postBoth" THEN comentario ELSE Missing]

\* call_webhook: the post is admitted.
CallWebhook(p) ==
    /\ Posting /\ posting = {} /\ comentario # Null
    /\ AdmitPost(p, Body)
    /\ posting' = {p}
    /\ UNCHANGED <<node, resultVars, unheard, replied, timesAsked>>

\* It is refused, as the survey is complete, or as the comment is blank.
CallInVain(p) ==
    /\ Posting /\ posting = {}
    /\ \/ RefusePost(p)
       \/ /\ comentario = Null /\ ~Completed /\ postAt[p] = "none"
          /\ postAt' = [postAt EXCEPT ![p] = "refused"]
          /\ UNCHANGED <<survey, sent, copy, together>>
    /\ posting' = {p}
    /\ UNCHANGED <<node, resultVars, unheard, replied, timesAsked>>

\* Success and Failure lead to the same node.
HearAnswer ==
    /\ Posting
    /\ \E p \in posting : postAt[p] \in {"done", "refused"}
    /\ node' = AfterPost
    /\ posting' = {}
    /\ UNCHANGED <<answerVars, resultVars, unheard, replied, timesAsked>>

\* The post times out: it may be under way still, or is never made.
MissAnswer ==
    /\ Posting
    /\ unheard' = unheard \cup {node}
    /\ node' = AfterPost
    /\ posting' = {}
    /\ UNCHANGED <<answerVars, resultVars, replied, timesAsked>>

Serve(p) ==
    /\ FindSurvey(p) \/ CreateAnswer(p) \/ RejectAnswer(p) \/ UpdateAnswer(p)
    /\ UNCHANGED sessionVars

AskComment ==
    /\ Walks("askComment", "comment")
    /\ UNCHANGED <<answerVars, resultVars, posting, unheard, replied, timesAsked>>

\* Any message is the comment; Null stands for one without text, which the
\* serializer refuses.
ReplyComment(text) ==
    /\ Walks("comment", "postBoth")
    /\ comentario' = text
    /\ UNCHANGED <<answerVars, tentativa, avaliacao, contactField, posting, unheard,
                   replied, timesAsked>>

MissComment ==
    /\ Walks("comment", "postBoth")
    /\ comentario' = NonRespondent
    /\ UNCHANGED <<answerVars, tentativa, avaliacao, contactField, posting, unheard,
                   replied, timesAsked>>

\* What goes on without the contact: the waits end.
SessionStep ==
    \/ Greet \/ AskRating \/ MissRating \/ AskAgain \/ GiveUpRating \/ SetField
    \/ HearAnswer \/ AskComment \/ MissComment
    \/ \E p \in Posts : CallWebhook(p) \/ CallInVain(p)

SessionNext ==
    \/ StartSession \/ SessionStep \/ MissAnswer
    \/ \E reply \in Replies : ReplyRating(reply)
    \/ \E text \in (Texts \ {NonRespondent}) \cup {Null} : ReplyComment(text)
    \/ \E p \in Posts : Serve(p)

\* The flow goes on by itself, and the server answers.
SessionFairness ==
    /\ WF_<<answerVars, sessionVars>>(SessionStep)
    /\ WF_<<answerVars, sessionVars>>(node # "asleep" /\ \E p \in Posts : Serve(p))

SessionSpec ==
    /\ AnswersInit /\ SessionInit
    /\ [][SessionNext]_<<answerVars, sessionVars>>
    /\ SessionFairness

-----------------------------------------------------------------------------
(***************************************************************************)
(* The rating that is kept is what the contact meant who took a reply of   *)
(* the list, "Muito satisfeito" as much as "Satisfeito", and it is the     *)
(* field of the contact as well: no post, late or repeated, and no case    *)
(* further up changes it.                                                  *)
(***************************************************************************)
RatingIsMeant ==
    \A answer \in survey :
        /\ answer.rating = contactField
        /\ \A i \in 1..5 : replied = Titles[i] => answer.rating = i

(***************************************************************************)
(* A contact who was heard is on record: when the flow has ended, the      *)
(* survey has the comment he gave and his rating, unless the last post     *)
(* timed out, met the first one under way, or had a comment without text.  *)
(* A lost first post costs nothing.  Who gave no rating has no survey.     *)
(***************************************************************************)
AnswersAreRecorded ==
    node = "ended" =>
        /\ avaliacao = Missing => survey = {}
        /\ avaliacao # Missing /\ comentario # Null
           /\ "postBoth" \notin unheard /\ together = {} =>
               survey = {[rating |-> avaliacao, comment |-> comentario]}

(***************************************************************************)
(* What a contact tells the flow is what the survey keeps.                 *)
(***************************************************************************)
SessionHolds == RatingIsMeant /\ AnswersAreRecorded

(***************************************************************************)
(* A flow that was started ends, although the contact never replies.       *)
(***************************************************************************)
SessionEnds == node = "start" ~> node = "ended"
=============================================================================
