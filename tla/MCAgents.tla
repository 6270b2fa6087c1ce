------------------------------ MODULE MCAgents ------------------------------
(***************************************************************************)
(* Agents, the rooms they are handed and shown, and what others are told   *)
(* of them, in one run: the custom statuses of an agent, the metrics of a  *)
(* room that goes through several hands, the setup of a project and its    *)
(* permissions, the time told of an agent, the lists of rooms, what a user *)
(* is asked of the product, the groups agents belong to, and their         *)
(* messages with what WhatsApp reports of them.  They share no state, so a *)
(* behaviour takes the steps of one of them; what others write of a status *)
(* (as AgentPresence does) comes as a request at any time.                 *)
(***************************************************************************)
EXTENDS AgentStatus, RoomWaits, ProjectSetup, StatusTimes, RoomViews, Feedbacks,
        GroupSectors, AgentMessages, TLC

CONSTANTS
    TheFeature, TheUpdate,   \* the other messages announce the project
    Text                     \* the message that WhatsApp reports on

VARIABLE component

Components ==
    {"status", "waits", "setup", "times", "views", "feedback", "groups", "messages", "statuses"}

Subjects ==
    [e \in EventMessages |-> CASE e = TheFeature -> "feature" [] e = TheUpdate -> "update"
                        [] OTHER -> "project"]

OwnSector == [q \in ViewQueues |-> q]

\* Every queue of the group belongs to one of the sectors.
FirstSector == [q \in SectorQueues |-> CHOOSE s \in Sectors : TRUE]

\* One text is sent again and again; another has media, and so an id more.
SameText == [a \in Attempts |-> CHOOSE i \in RequestIds : TRUE]
TextAndMedia == [i \in WhatsAppIds |-> Text]

\* What a constant is given is computed once if it names what is defined, and at every use
\* of the constant if it is the definition itself.
GivenEventKind == Subjects
GivenSectorHas == OwnSector
GivenSectorOf == FirstSector
GivenRequestOf == SameText
GivenMessageOf == TextAndMedia

\* Alike are those who handle a status, who log one, who are asked and who change groups,
\* the messages that announce a project, and the ids that WhatsApp reports on, none of which
\* run together.
Alike == Permutations(Handlers)

agentsState ==
    <<vars, waitVars, setupVars, timesVars, viewVars, feedbackVars, groupVars, messageVars,
      statusVars>>

\* Rooms begin in one queue, users with one authorization of each kind at most, and the
\* agent with rooms.
AgentsInit ==
    /\ component \in Components
    /\ Init /\ WaitsInit /\ SetupInit
    /\ TimesInit /\ ViewsInit /\ FeedbacksInit
    /\ GroupInit /\ MessagesInit /\ StatusInit
    /\ component # "status" => rooms = [r \in Rooms |-> "waiting"]
    /\ attends
    /\ Cardinality(inQueue) <= 1 /\ Cardinality(inSector) <= 1
    /\ \A r \in ViewRooms : viewRow[r].queue = CHOOSE q \in ViewQueues : TRUE
    /\ component # "groups" => linked = {}
    /\ component # "views" => inQueue = {} /\ inSector = {}

\* A room whose handovers are over, or whose stays reach their bound, may stay as it is.
WaitsAtRest ==
    (HandoversDone \/ lastStay = MaxStays) /\ \A m \in Replies : reply[m] # "inserted"

\* And a project of which there is nothing more to be said.
SetupAtRest == \A e \in EventMessages : place[e] \in {"acked", "dropped"}

\* What is begun by requests, of which none has to come.
Asked == {"times", "views", "feedback", "groups", "messages", "statuses"}

\* Once a handover is cut, one is left that never begins.
CutLeavesOne == waitFaults' > 0 => \E p \in Handovers : step'[p] = "new"

AgentsNext ==
    /\ UNCHANGED component
    /\ \/ /\ component = "status"
          /\ Next
          /\ UNCHANGED <<waitVars, setupVars, timesVars, viewVars, feedbackVars, groupVars,
                         messageVars, statusVars>>
       \/ /\ component = "waits"
          /\ WaitsNext /\ CutLeavesOne
          /\ UNCHANGED <<vars, setupVars, timesVars, viewVars, feedbackVars, groupVars,
                         messageVars, statusVars>>
       \/ /\ component = "setup"
          /\ SetupNext
          /\ UNCHANGED <<vars, waitVars, timesVars, viewVars, feedbackVars, groupVars,
                         messageVars, statusVars>>
       \/ /\ component = "times"
          /\ TimesNext
          /\ UNCHANGED <<vars, waitVars, setupVars, viewVars, feedbackVars, groupVars,
                         messageVars, statusVars>>
       \/ /\ component = "views"
          /\ ViewsNext
          /\ UNCHANGED <<vars, waitVars, setupVars, timesVars, feedbackVars, groupVars,
                         messageVars, statusVars>>
       \/ /\ component = "feedback"
          /\ FeedbacksNext
          /\ UNCHANGED <<vars, waitVars, setupVars, timesVars, viewVars, groupVars, messageVars,
                         statusVars>>
       \/ /\ component = "groups"
          /\ GroupNext
          /\ UNCHANGED <<vars, waitVars, setupVars, timesVars, viewVars, feedbackVars,
                         messageVars, statusVars>>
       \/ /\ component = "messages"
          /\ MessagesNext
          /\ UNCHANGED <<vars, waitVars, setupVars, timesVars, viewVars, feedbackVars,
                         groupVars, statusVars>>
       \/ /\ component = "statuses"
          /\ StatusNext
          /\ UNCHANGED <<vars, waitVars, setupVars, timesVars, viewVars, feedbackVars,
                         groupVars, messageVars>>
       \/ /\ \/ component = "waits" /\ WaitsAtRest
             \/ component = "setup" /\ SetupAtRest
             \/ component \in Asked
          /\ UNCHANGED agentsState

AgentsSpec == AgentsInit /\ [][AgentsNext]_<<component, agentsState>>

(***************************************************************************)
(* Types of the state of everything that concerns agents; what is idle is  *)
(* as it is where its own behaviours begin.                                *)
(***************************************************************************)
AgentsTypeOK ==
    /\ component = "status"   => TypeOK
    /\ component = "waits"    => WaitsTypeOK
    /\ component = "setup"    => SetupTypeOK
    /\ component = "times"    => TimesTypeOK
    /\ component = "views"    => ViewsTypeOK
    /\ component = "feedback" => FeedbacksTypeOK
    /\ component = "groups"   => GroupTypeOK
    /\ component = "messages" => MessagesTypeOK
    /\ component = "statuses" => StatusTypeOK

(***************************************************************************)
(* The metrics of a room measure waits and answers, a project that was     *)
(* announced is set up whole, the rows that an agent's time is told from   *)
(* add up to the time spent, a user is asked what they think no more than  *)
(* is due, who belongs to a group has what the group has and nobody else   *)
(* does, and a text sent again is one message, whose statuses are kept.    *)
(***************************************************************************)
AgentsHold ==
    /\ component = "waits"    => WaitsHold
    /\ component = "setup"    => SetupHolds
    /\ component = "times"    => TimesHold
    /\ component = "feedback" => FeedbacksHold
    /\ component = "groups"   => GroupsHold
    /\ component = "messages" => MessagesHold
    /\ component = "statuses" => StatusHolds
=============================================================================
