---------------------------- MODULE MCRequests ----------------------------
(***************************************************************************)
(* Requests that meet on the same rows or keys, in one run: bulk requests, *)
(* working hours, pins, discussions, queues that are kept in the flows     *)
(* too, the settings of a sector, and the rows of users and projects with  *)
(* the keys that Redis keeps of them.                                      *)
(* They share no state, so a behaviour picks one of them in its initial    *)
(* state and takes the steps of that one, as in MCBackground.              *)
(***************************************************************************)
EXTENDS BulkRooms, SectorSettings, RoomPins, Discussions, TopicSync, CachedRows, TLC

CONSTANTS
    Everything,   \* the bulk request for every room
    HeldRoom      \* the room that has an agent, which the other requests name

VARIABLE component

Components ==
    {"bulkrooms", "hours", "pins", "discussion", "topics", "settings", "users", "configs"}

NamedRooms == [b \in BulkRequests |-> IF b = Everything THEN BulkRooms ELSE {HeldRoom}]

OneHeld ==
    [r \in BulkRooms |->
        [open |-> TRUE, queue |-> CHOOSE q \in BulkQueues : TRUE,
         agent |-> IF r = HeldRoom THEN CHOOSE a \in BulkAgents : TRUE ELSE Unassigned]]

\* What a constant is given is computed once if it names what is defined, and at every use
\* of the constant if it is the definition itself.
GivenNamed == NamedRooms

\* Requests about topics are alike, as are topics.  They stand for the requests, the rooms
\* and the projects of other components too.
Alike == Permutations(TopicRequests) \cup Permutations(Topics)

allRequestVars ==
    <<bulkRoomVars, hoursVars, pinVars, discussionVars, topicVars, settingVars,
      userCacheVars, configVars>>

RequestsInit ==
    /\ component \in Components
    /\ rows = OneHeld /\ BulkRoomsInit
    /\ HoursInit /\ PinsInit /\ DiscussionsInit
    /\ TopicInit
    /\ SettingsInit /\ UserCacheInit /\ ProjectConfigInit
    /\ component # "topics" => ~principal
    /\ component # "hours" => config = CHOOSE c \in Configs : TRUE
    /\ component # "pins" => roomAgent = [r \in PinRooms |-> NoAgent]
    /\ component # "settings" =>
          /\ setting.queueText = "" /\ setting.limit = CHOOSE n \in Limits : TRUE
          /\ liveTags = {} /\ \A d \in Dates : holidayOn[d] = "none"

RequestsNext ==
    /\ UNCHANGED component
    /\ \/ /\ component = "bulkrooms"
          /\ BulkRoomsNext
          /\ UNCHANGED <<hoursVars, pinVars, discussionVars, topicVars, settingVars,
                         userCacheVars, configVars>>
       \/ /\ component = "hours"
          /\ HoursNext
          /\ UNCHANGED <<bulkRoomVars, pinVars, discussionVars, topicVars, settingVars,
                         userCacheVars, configVars>>
       \/ /\ component = "pins"
          /\ PinsNext
          /\ UNCHANGED <<bulkRoomVars, hoursVars, discussionVars, topicVars, settingVars,
                         userCacheVars, configVars>>
       \/ /\ component = "discussion"
          /\ DiscussionsNext
          /\ UNCHANGED <<bulkRoomVars, hoursVars, pinVars, topicVars, settingVars,
                         userCacheVars, configVars>>
       \/ /\ component = "topics"
          /\ TopicNext
          /\ UNCHANGED <<bulkRoomVars, hoursVars, pinVars, discussionVars, settingVars,
                         userCacheVars, configVars>>
       \/ /\ component = "settings"
          /\ SettingsNext
          /\ UNCHANGED <<bulkRoomVars, hoursVars, pinVars, discussionVars, topicVars,
                         userCacheVars, configVars>>
       \/ /\ component = "users"
          /\ UserCacheNext
          /\ UNCHANGED <<bulkRoomVars, hoursVars, pinVars, discussionVars, topicVars,
                         settingVars, configVars>>
       \/ /\ component = "configs"
          /\ ProjectConfigNext
          /\ UNCHANGED <<bulkRoomVars, hoursVars, pinVars, discussionVars, topicVars,
                         settingVars, userCacheVars>>

RequestsSpec == RequestsInit /\ [][RequestsNext]_<<component, allRequestVars>>

(***************************************************************************)
(* Types of the state of every kind of request; what is idle is as it is   *)
(* where its own behaviours begin.                                         *)
(***************************************************************************)
RequestsTypeOK ==
    /\ component = "bulkrooms"  => BulkRoomsTypeOK
    /\ component = "hours"      => HoursTypeOK
    /\ component = "pins"       => PinsTypeOK
    /\ component = "discussion" => DiscussionsTypeOK
    /\ component = "topics"     => TopicTypeOK
    /\ component = "settings"   => SettingsTypeOK
    /\ component = "users"      => UserCacheTypeOK
    /\ component = "configs"    => ProjectConfigTypeOK

(***************************************************************************)
(* What overlapping requests may not break: bulk requests tell the truth   *)
(* and route what they change, the cached holidays follow the saved,       *)
(* queues come and go here and in the flows together, and what Redis keeps *)
(* of a user or a project follows the row, of which nothing is lost.       *)
(***************************************************************************)
RequestsHold ==
    /\ component = "bulkrooms" => BulkRoomsHold
    /\ component = "hours"     => HoursHold
    /\ component = "topics"    => TopicsHold
    /\ component = "users"     => UserCacheHolds
    /\ component = "configs"   => ProjectConfigHolds
=============================================================================
