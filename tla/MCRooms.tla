------------------------------- MODULE MCRooms -------------------------------
(***************************************************************************)
(* Rooms as requests find them, in one run: how they come in, how flows    *)
(* are started from them, what agents put on them, what the dashboards     *)
(* answer about them and how their reports are written.  They share no     *)
(* state, so a behaviour picks one of them in its initial state and takes  *)
(* the steps of that one.                                                  *)
(***************************************************************************)
EXTENDS RoomIntake, Dashboard, FlowStarts, RoomDetails, TLC

CONSTANTS
    FirstRoomIs, FirstQueueIs,  \* one room and one queue of the dashboard
    FirstTagIs, FirstSectorIs   \* one tag of the details, and its sector

VARIABLE component

Components == {"intake", "dashboard", "figures", "pages", "flows", "tags", "notes"}

OneWaitingEach == [q \in Queues |-> 1]

\* Queues apart: each is in a sector of its own, and each room in a queue of its own.
QueueApart ==
    [r \in DashRooms |-> CHOOSE q \in DashQueues : (q = FirstQueueIs) <=> (r = FirstRoomIs)]
SectorApart ==
    [q \in DashQueues |-> CHOOSE s \in DashSectors : (s = TagSector) <=> (q = FirstQueueIs)]

TagApart ==
    [t \in RoomTags |-> CHOOSE s \in RoomSectors : (s = FirstSectorIs) <=> (t = FirstTagIs)]

\* What a constant is given is computed once if it names what is defined, and at every use
\* of the constant if it is the definition itself.
GivenQueueLimit == OneWaitingEach
GivenQueueIn == QueueApart
GivenSectorWith == SectorApart
GivenSectorOf == TagApart

\* The threads make the requests about flows and details too, and stand for the agents of
\* the dashboards.
Alike == Permutations(Contacts) \cup Permutations(Threads)

\* What becomes of the tags of a room and of its notes is told apart: requests about the
\* one leave the other alone, and both are followed through closes and transfers.
Details == {"tags", "notes"}
TagsApart == \A p \in DetailRequests : detail'[p].is \notin NoteRequests
NotesApart ==
    \A p \in DetailRequests :
        /\ detail'[p].is \notin TagRequests
        /\ detail'[p].is = "close" => detail'[p].tags = {}
        /\ detail'[p].is = "transfer" => detail'[p].room.sector = FirstSectorIs

\* Lists and scores are of one moment and several rooms, figures that take several
\* moments of one room, whose tags and survey they do not look at.
OfOneMoment == UNCHANGED <<answer, seen>>
OfSeveralMoments ==
    /\ UNCHANGED [r \in DashRooms \ {FirstRoomIs} |-> dashRow[r]]
    /\ dashRow'[FirstRoomIs].tags = {} /\ ~dashRow'[FirstRoomIs].rated

RoomsInit ==
    /\ component \in Components
    /\ Init /\ DashInit /\ ReportPagesInit /\ FlowStartsInit /\ RoomDetailsInit
    /\ component # "tags" => tagged.sector = FirstSectorIs
    /\ component \notin Details => tagged.user = Unassigned
    /\ component # "pages" => matching = {}

RoomsNext ==
    /\ UNCHANGED component
    /\ \/ /\ component = "intake"
          /\ Next
          /\ UNCHANGED <<dashVars, pageVars, flowVars, detailVars>>
       \/ /\ component \in {"dashboard", "figures"}
          /\ DashNext
          /\ IF component = "dashboard" THEN OfOneMoment ELSE OfSeveralMoments
          /\ UNCHANGED <<vars, pageVars, flowVars, detailVars>>
       \/ /\ component = "pages"
          /\ ReportPagesNext
          /\ UNCHANGED <<vars, dashVars, flowVars, detailVars>>
       \/ /\ component = "flows"
          /\ FlowStartsNext
          /\ UNCHANGED <<vars, dashVars, pageVars, detailVars>>
       \/ /\ component \in Details
          /\ RoomDetailsNext
          /\ IF component = "tags" THEN TagsApart ELSE NotesApart
          /\ UNCHANGED <<vars, dashVars, pageVars, flowVars>>

roomsVars == <<component, vars, dashVars, pageVars, flowVars, detailVars>>

RoomsSpec == RoomsInit /\ [][RoomsNext]_roomsVars

(***************************************************************************)
(* Types of the state of everything about rooms; what is idle is as it is  *)
(* where its own behaviours begin.                                         *)
(***************************************************************************)
RoomsTypeOK ==
    /\ component = "intake"    => TypeOK
    /\ component \in {"dashboard", "figures"} => DashTypeOK
    /\ component = "pages"     => ReportPagesTypeOK
    /\ component = "flows"     => FlowStartsTypeOK
    /\ component \in Details   => RoomDetailsTypeOK

(***************************************************************************)
(* What is told and shown of rooms: the dashboards and the reports asked   *)
(* of them answer alike whatever changes under them, a report has its rows *)
(* once, and starts, tickets, the window of a room, its tags, its notes    *)
(* and their files agree whoever asks for them at once.                    *)
(***************************************************************************)
RoomsHold ==
    /\ component \in {"dashboard", "figures"} => DashboardHolds /\ ReportsFit
    /\ component = "pages" => ReportPagesHold
    /\ component = "flows" => FlowStartsHold
    /\ component \in Details => DetailsHold
=============================================================================
