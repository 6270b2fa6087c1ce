----------------------------- MODULE FlowStarts -----------------------------
(***************************************************************************)
(* One contact of a project, on WhatsApp: an agent may write to him for a  *)
(* day after his last message and starts a flow after that, which asks him *)
(* and opens a ticket with what he answers.  The window of a room is read  *)
(* through a key in Redis; a start waits for its transaction, with Flows   *)
(* asked inside; a ticket is attached to the room that waits for it, or    *)
(* closes that room and opens another (api/v1/projects/viewsets.py,        *)
(* api/v1/external/rooms/serializers.py, api/v1/external/msgs,             *)
(* rooms/models.py).                                                       *)
(***************************************************************************)
EXTENDS Naturals, FiniteSets

CONSTANTS
    FlowRooms,
    WhatsAppRooms, \* those with the urn of a channel that has a window
    Flows,
    NoFlow,        \* a ticket that names no flow
    FlowRequests,
    NotARoom,
    NoStart,
    MaxStarts      \* bound on the flows that are started

ASSUME FlowStartsAssumption ==
    /\ MaxStarts \in Nat
    /\ NoFlow \notin Flows
    /\ WhatsAppRooms \subseteq FlowRooms /\ NotARoom \notin FlowRooms
    /\ NoStart \notin Nat
    /\ NoStart \notin [flow: Flows, room: FlowRooms \cup {NotARoom}, deleted: BOOLEAN]

VARIABLES
    flowRoom,      \* the contact's rooms
    window,        \* WhatsApp rooms whose contact wrote, or that were opened, within a day
    windowKey,     \* room_24h_valid_cache:<room>
    starts,        \* the committed rows of FlowStart, in the order of created_on
    lastStart,
    flowAsk,       \* where each request is, and what it holds
    asked,         \* history: starts that Flows accepted
    attachedLate,  \* history: a ticket was attached to the room of a start that had ended
    shut,          \* history: agents' messages during which the window of their room was closed
    wronged,       \* history: a message was refused though the window was open throughout
    crossedStarts  \* history: rooms for which two starts were under way when one was committed

flowVars ==
    <<flowRoom, window, windowKey, starts, lastStart, flowAsk, asked, attachedLate, shut, wronged,
      crossedStarts>>
flowHistory == <<asked, attachedLate, shut, wronged, crossedStarts>>
flowRows == <<flowRoom, window, windowKey, starts, lastStart>>

StartIds == 1..MaxStarts

\* since: the starts before created_on, which the ticket tells; by: the one of them, if any, that
\* chose the agent.
FlowRoom ==
    [is: {"none", "open", "closed"}, waiting: BOOLEAN, since: 0..MaxStarts,
     by: StartIds \cup {NoStart}]
FlowStart == [flow: Flows, room: FlowRooms \cup {NotARoom}, deleted: BOOLEAN]

FlowPlaces ==
    {"idle", "key", "fill", "decide", "clear", "answered", "ask", "commit", "find",
     "attach", "open"}

FlowAsk ==
    [is: {"none", "message", "answer", "start", "ticket"}, at: FlowPlaces,
     room: FlowRooms \cup {NotARoom}, flow: Flows \cup {NoFlow}, start: StartIds \cup {NoStart},
     waiting: BOOLEAN, valid: BOOLEAN, ending: SUBSET StartIds]

NoAsk ==
    [is |-> "none", at |-> "idle", room |-> NotARoom, flow |-> NoFlow, start |-> NoStart,
     waiting |-> FALSE, valid |-> FALSE, ending |-> {}]

FlowStartsTypeOK ==
    /\ flowRoom \in [FlowRooms -> FlowRoom]
    /\ window \subseteq WhatsAppRooms
    /\ windowKey \in [WhatsAppRooms -> {"none", "valid", "over"}]
    /\ starts \in [StartIds -> FlowStart \cup {NoStart}]
    /\ lastStart \in 0..MaxStarts
    /\ flowAsk \in [FlowRequests -> FlowAsk]
    /\ asked \subseteq StartIds
    /\ shut \subseteq FlowRequests
    /\ {wronged, attachedLate} \subseteq BOOLEAN
    /\ crossedStarts \subseteq FlowRooms

FlowStartsInit ==
    /\ flowRoom = [r \in FlowRooms |->
                      [is |-> "none", waiting |-> FALSE, since |-> 0, by |-> NoStart]]
    /\ window = {}
    /\ windowKey = [r \in WhatsAppRooms |-> "none"]
    /\ starts = [n \in StartIds |-> NoStart]
    /\ lastStart = 0
    /\ flowAsk = [p \in FlowRequests |-> NoAsk]
    /\ asked = {} /\ shut = {} /\ crossedStarts = {}
    /\ wronged = FALSE /\ attachedLate = FALSE

-----------------------------------------------------------------------------
Committed == {n \in StartIds : starts[n] # NoStart}
Pending(r) == {n \in Committed : starts[n].room = r /\ ~starts[n].deleted}

\* A row that a transaction has written waits for its end.
RowHeldBy(o, r) ==
    \/ flowAsk[o].is = "start" /\ flowAsk[o].at \in {"ask", "commit"} /\ flowAsk[o].room = r
    \/ \E n \in flowAsk[o].ending : starts[n] # NoStart /\ starts[n].room = r
RowFree(p, r) == \A o \in FlowRequests \ {p} : ~RowHeldBy(o, r)

FlowGo(p, place) == flowAsk' = [flowAsk EXCEPT ![p].at = place]
FlowDone(p) == flowAsk' = [flowAsk EXCEPT ![p] = NoAsk]
IsAt(p, kind, place) == flowAsk[p].is = kind /\ flowAsk[p].at = place

BeginAsk(p, kind, place, r, f, waits) ==
    flowAsk' = [flowAsk EXCEPT ![p] = [NoAsk EXCEPT !.is = kind, !.at = place, !.room = r,
                                                    !.flow = f, !.waiting = waits]]

-----------------------------------------------------------------------------
\* Room.is_24h_valid.  A room of another channel is always valid: a message changes nothing of
\* it here, and a start from it is one for the contact alone.

\* Mutant: whatever the key says is taken.
TrustsAny(r) == windowKey[r] # "none"
Trusts(r) == windowKey[r] = "valid"

HitWindow(p) ==
    /\ flowAsk[p].at = "key" /\ Trusts(flowAsk[p].room)
    /\ flowAsk' = [flowAsk EXCEPT ![p].at = "decide",
                                  ![p].valid = (windowKey[flowAsk[p].room] = "valid")]
    /\ UNCHANGED <<flowRows, flowHistory>>

\* The key did not say so when it was read; it may be filled since.
QueryWindow(p) ==
    /\ flowAsk[p].at = "key"
    /\ flowAsk' = [flowAsk EXCEPT ![p].at = "fill", ![p].valid = (flowAsk[p].room \in window)]
    /\ UNCHANGED <<flowRows, flowHistory>>

FillWindow(p) ==
    /\ flowAsk[p].at = "fill"
    /\ windowKey' = [windowKey EXCEPT ![flowAsk[p].room] =
                        IF flowAsk[p].valid THEN "valid" ELSE "over"]
    /\ FlowGo(p, "decide")
    /\ UNCHANGED <<flowRoom, window, starts, lastStart, flowHistory>>

ExpireWindow(r) ==
    /\ windowKey[r] # "none"
    /\ windowKey' = [windowKey EXCEPT ![r] = "none"]
    /\ UNCHANGED <<flowRoom, window, starts, lastStart, flowAsk, flowHistory>>

\* A day has passed since the contact's last message in the room.
CloseDay(r) ==
    /\ r \in window
    /\ window' = window \ {r}
    /\ shut' = shut \cup {p \in FlowRequests : flowAsk[p].is = "message" /\ flowAsk[p].room = r}
    /\ UNCHANGED <<flowRoom, windowKey, starts, lastStart, flowAsk, asked, attachedLate, wronged,
                   crossedStarts>>

-----------------------------------------------------------------------------
\* An agent's message: the room is read with the request, and does not wait for the contact.
BeginMessage(p, r) ==
    /\ flowAsk[p].is = "none" /\ flowRoom[r].is = "open" /\ ~flowRoom[r].waiting
    /\ BeginAsk(p, "message", "key", r, NoFlow, FALSE)
    /\ shut' = IF r \in window THEN shut ELSE shut \cup {p}
    /\ UNCHANGED <<flowRows, asked, attachedLate, wronged, crossedStarts>>

SendInWindow(p) ==
    /\ IsAt(p, "message", "decide") /\ flowAsk[p].valid
    /\ windowKey' = [windowKey EXCEPT ![flowAsk[p].room] = "none"]
    /\ FlowDone(p)
    /\ shut' = shut \ {p}
    /\ UNCHANGED <<flowRoom, window, starts, lastStart, asked, attachedLate, wronged, crossedStarts>>

RefuseOutside(p) ==
    /\ IsAt(p, "message", "decide") /\ ~flowAsk[p].valid
    /\ FlowDone(p)
    /\ wronged' = (wronged \/ p \notin shut)
    /\ shut' = shut \ {p}
    /\ UNCHANGED <<flowRows, asked, attachedLate, crossedStarts>>

\* The contact's message, which Flows hand on.
BeginAnswer(p, r) ==
    /\ flowAsk[p].is = "none" /\ flowRoom[r].is = "open"
    /\ BeginAsk(p, "answer", "key", r, NoFlow, flowRoom[r].waiting \/ Pending(r) # {})
    /\ UNCHANGED <<flowRows, flowHistory>>

InsertAnswer(p) ==
    /\ IsAt(p, "answer", "decide")
    /\ window' = window \cup {flowAsk[p].room}
    /\ flowAsk' = [flowAsk EXCEPT ![p].at = "clear", ![p].valid = FALSE]
    /\ UNCHANGED <<flowRoom, windowKey, starts, lastStart, flowHistory>>

ClearWindow(p) ==
    /\ IsAt(p, "answer", "clear")
    /\ windowKey' = [windowKey EXCEPT ![flowAsk[p].room] = "none"]
    /\ IF flowAsk[p].waiting THEN FlowGo(p, "answered") ELSE FlowDone(p)
    /\ UNCHANGED <<flowRoom, window, starts, lastStart, flowHistory>>

\* The whole row is saved; of a room that was closed the save is refused.
SaveAnswered(p) ==
    LET r == flowAsk[p].room IN
    /\ IsAt(p, "answer", "answered") /\ RowFree(p, r)
    /\ flowRoom' = IF flowRoom[r].is = "open" THEN [flowRoom EXCEPT ![r].waiting = FALSE]
                   ELSE flowRoom
    /\ FlowDone(p)
    /\ UNCHANGED <<window, windowKey, starts, lastStart, flowHistory>>

-----------------------------------------------------------------------------
\* start_flow, for the open room it is asked from, or for the contact alone.

MayStart(r) == flowRoom[r].is = "open" /\ Pending(r) = {}

BeginStart(p, r, f) ==
    /\ flowAsk[p].is = "none" /\ MayStart(r)
    /\ BeginAsk(p, "start", "key", r, f, FALSE)
    /\ UNCHANGED <<flowRows, flowHistory>>

\* No room, or one whose window is open: the start names none.
StartAlone(p, f) ==
    /\ flowAsk[p].is = "none" /\ lastStart < MaxStarts
    /\ lastStart' = lastStart + 1
    /\ flowAsk' = [flowAsk EXCEPT ![p] = [NoAsk EXCEPT !.is = "start", !.at = "ask",
                                                       !.flow = f, !.start = lastStart + 1]]
    /\ UNCHANGED <<flowRoom, window, windowKey, starts, flowHistory>>

\* Mutant: no transaction around them.
AtOnce(p) ==
    [flowRoom EXCEPT ![flowAsk[p].room].waiting = TRUE]
Unseen(p) == flowRoom

InWindow(p) ==
    /\ IsAt(p, "start", "decide") /\ flowAsk[p].valid /\ lastStart < MaxStarts
    /\ lastStart' = lastStart + 1
    /\ flowAsk' = [flowAsk EXCEPT ![p].at = "ask", ![p].start = lastStart + 1,
                                  ![p].room = NotARoom, ![p].valid = FALSE]
    /\ UNCHANGED <<flowRoom, window, windowKey, starts, flowHistory>>

\* Outside it the room waits, unless its save is refused, which is passed over.
InsertStart(p) ==
    LET r == flowAsk[p].room IN
    /\ IsAt(p, "start", "decide") /\ ~flowAsk[p].valid /\ lastStart < MaxStarts
    /\ RowFree(p, r)
    /\ lastStart' = lastStart + 1
    /\ flowAsk' = [flowAsk EXCEPT ![p].at = "ask", ![p].start = lastStart + 1,
                                  ![p].waiting = (flowRoom[r].is = "open")]
    /\ flowRoom' = Unseen(p)
    /\ UNCHANGED <<window, windowKey, starts, flowHistory>>

AskFlows(p) ==
    /\ IsAt(p, "start", "ask")
    /\ asked' = asked \cup {flowAsk[p].start}
    /\ FlowGo(p, "commit")
    /\ UNCHANGED <<flowRows, attachedLate, shut, wronged, crossedStarts>>

\* Flows refuse or do not answer: everything is rolled back.  At the bound nothing is begun.
FailStart(p) ==
    /\ \/ IsAt(p, "start", "ask")
       \/ IsAt(p, "start", "decide") /\ lastStart = MaxStarts
    /\ FlowDone(p)
    /\ UNCHANGED <<flowRows, flowHistory>>

StartsFor(o, r) == flowAsk[o].is = "start" /\ flowAsk[o].room = r

CommitStart(p) ==
    LET ask == flowAsk[p] IN
    /\ IsAt(p, "start", "commit")
    /\ starts' = [starts EXCEPT ![ask.start] =
                     [flow |-> ask.flow, room |-> ask.room, deleted |-> FALSE]]
    /\ flowRoom' = IF ask.waiting THEN [flowRoom EXCEPT ![ask.room].waiting = TRUE]
                   ELSE flowRoom
    /\ crossedStarts' = crossedStarts \cup
           {r \in FlowRooms : r = ask.room /\ \E o \in FlowRequests \ {p} : StartsFor(o, r)}
    /\ FlowDone(p)
    /\ UNCHANGED <<window, windowKey, lastStart, asked, attachedLate, shut, wronged>>

-----------------------------------------------------------------------------
\* RoomFlowSerializer.create: the contact's row is locked to the end of the request.
HasContact(o) == flowAsk[o].is = "ticket"

ContactFree(p) == \A o \in FlowRequests \ {p} : ~HasContact(o)

BeginTicket(p, f) ==
    /\ flowAsk[p].is = "none" /\ ContactFree(p)
    /\ BeginAsk(p, "ticket", "find", NotARoom, f, FALSE)
    /\ UNCHANGED <<flowRows, flowHistory>>

\* Starts with a room that wait for a ticket, of its flow and of any.
Awaiting(f) == {n \in Committed : starts[n].flow = f /\ starts[n].room # NotARoom
                                     /\ ~starts[n].deleted}
AwaitingAny == UNION {Awaiting(f) : f \in Flows}
Newest(S) == {n \in S : \A m \in S : m <= n}

FindRoom(p) ==
    /\ IsAt(p, "ticket", "find")
    /\ \E n \in Newest(Awaiting(flowAsk[p].flow)) :
           IF flowRoom[starts[n].room].is = "open"
           THEN flowAsk' = [flowAsk EXCEPT ![p].at = "attach", ![p].start = n,
                                           ![p].room = starts[n].room]
           ELSE FlowGo(p, "open")
    /\ UNCHANGED <<flowRows, flowHistory>>

\* With none of its flow, the starts of other flows end and their rooms are closed,
\* unless the project is configured to leave them (ignore_close_rooms_on_flow_start).
EndOthers(p, ignores) ==
    /\ IsAt(p, "ticket", "find") /\ Awaiting(flowAsk[p].flow) = {}
    /\ \A n \in AwaitingAny : RowFree(p, starts[n].room)
    /\ flowAsk' = [flowAsk EXCEPT ![p].at = "open",
                                  ![p].ending = IF ignores THEN {} ELSE AwaitingAny]
    /\ UNCHANGED <<flowRows, flowHistory>>

\* The ticket's callback is saved with the room, and its history: what the contact answered.
AttachTicket(p, answers) ==
    LET ask == flowAsk[p]
        r == ask.room IN
    /\ IsAt(p, "ticket", "attach") /\ flowRoom[r].is = "open" /\ RowFree(p, r)
    /\ starts' = [starts EXCEPT ![ask.start].deleted = TRUE]
    /\ attachedLate' = (attachedLate \/ starts[ask.start].deleted)
    /\ flowRoom' = IF answers THEN [flowRoom EXCEPT ![r].waiting = FALSE] ELSE flowRoom
    /\ window' = IF answers THEN window \cup {r} ELSE window
    /\ FlowDone(p)
    /\ UNCHANGED <<windowKey, lastStart, asked, shut, wronged, crossedStarts>>

RefuseAttach(p) ==
    /\ IsAt(p, "ticket", "attach") /\ flowRoom[flowAsk[p].room].is = "closed"
    /\ FlowDone(p)
    /\ UNCHANGED <<flowRows, flowHistory>>

EndingRooms(p) == {starts[n].room : n \in flowAsk[p].ending}
OpenFlowRooms == {r \in FlowRooms : flowRoom[r].is = "open"}

\* The last start of the contact, ended or not, of the flow if the ticket names one.
LastOf(f) ==
    LET found == {n \in Committed : f = NoFlow \/ starts[n].flow = f}
    IN  IF found = {} THEN {NoStart} ELSE Newest(found)

\* Its agent has the room, if he is ONLINE and the contact got no room since.
Hands(n, online) ==
    n # NoStart /\ online /\ \A r \in FlowRooms : flowRoom[r].is = "none" \/ flowRoom[r].since < n

OpenTicket(p, new, since, online) ==
    /\ IsAt(p, "ticket", "open") /\ OpenFlowRooms \subseteq EndingRooms(p)
    /\ flowRoom[new].is = "none"
    /\ \E last \in LastOf(flowAsk[p].flow) :
           flowRoom' = [r \in FlowRooms |->
               IF r = new
               THEN [is |-> "open", waiting |-> FALSE, since |-> since,
                     by |-> IF Hands(last, online) /\ last <= since THEN last ELSE NoStart]
               ELSE IF r \in EndingRooms(p) /\ flowRoom[r].is = "open"
               THEN [flowRoom[r] EXCEPT !.is = "closed"]
               ELSE flowRoom[r]]
    /\ starts' = [n \in StartIds |->
            IF n \in flowAsk[p].ending THEN [starts[n] EXCEPT !.deleted = TRUE] ELSE starts[n]]
    /\ window' = window \cup ({new} \cap WhatsAppRooms)
    /\ FlowDone(p)
    /\ UNCHANGED <<windowKey, lastStart, flowHistory>>

\* Another room of the contact is open, and is given the ticket or refuses it; or the queue is
\* full, or closed: the request is rolled back.
RefuseTicket(p) ==
    /\ IsAt(p, "ticket", "open")
    /\ FlowDone(p)
    /\ UNCHANGED <<flowRows, flowHistory>>

\* The agent closes the room, whoever waits for it.
CloseFlowRoom(r) ==
    /\ flowRoom[r].is = "open" /\ \A o \in FlowRequests : ~RowHeldBy(o, r)
    /\ flowRoom' = [flowRoom EXCEPT ![r].is = "closed"]
    /\ UNCHANGED <<window, windowKey, starts, lastStart, flowAsk, flowHistory>>

-----------------------------------------------------------------------------
FlowStep(p) ==
    \/ HitWindow(p) \/ QueryWindow(p) \/ FillWindow(p)
    \/ \E r \in WhatsAppRooms : BeginMessage(p, r) \/ BeginAnswer(p, r)
    \/ SendInWindow(p) \/ RefuseOutside(p)
    \/ InsertAnswer(p) \/ ClearWindow(p) \/ SaveAnswered(p)
    \/ \E f \in Flows : StartAlone(p, f) \/ \E r \in WhatsAppRooms : BeginStart(p, r, f)
    \/ InWindow(p) \/ InsertStart(p) \/ AskFlows(p) \/ FailStart(p) \/ CommitStart(p)
    \/ \E f \in Flows \cup {NoFlow} : BeginTicket(p, f)
    \/ FindRoom(p)
    \/ \E yes \in BOOLEAN : EndOthers(p, yes) \/ AttachTicket(p, yes)
    \/ RefuseAttach(p) \/ RefuseTicket(p)
    \/ \E r \in FlowRooms, since \in 0..lastStart, online \in BOOLEAN :
           OpenTicket(p, r, since, online)

FlowStartsNext ==
    \/ \E p \in FlowRequests : FlowStep(p)
    \/ \E r \in WhatsAppRooms : ExpireWindow(r) \/ CloseDay(r)
    \/ \E r \in FlowRooms : CloseFlowRoom(r)

FlowStartsSpec == FlowStartsInit /\ [][FlowStartsNext]_flowVars

-----------------------------------------------------------------------------
(***************************************************************************)
(* An agent's message is refused for the window only if the window was     *)
(* closed at some moment of the request, whatever the key in Redis said    *)
(* and whoever filled it (Room.is_24h_valid).                              *)
(***************************************************************************)
RefusedRightly == ~wronged

(***************************************************************************)
(* A start hands one room to its agent: of the rooms it chose him for, at  *)
(* most one was opened after it (ResolveRoomUserUseCase).                  *)
(***************************************************************************)
HandedOnce ==
    \A r, s \in FlowRooms : flowRoom[r].by = flowRoom[s].by /\ flowRoom[r].by # NoStart => r = s

(***************************************************************************)
(* The room that waits for a start gets one ticket for it, and none once   *)
(* the wait was ended, whichever tickets Flows ask for at once             *)
(* (get_active_room_flow_start).                                           *)
(***************************************************************************)
AttachedOnce == ~attachedLate

(***************************************************************************)
(* An open room waits for its contact only if Flows were asked to write to *)
(* him: where they fail, nothing is left of the start (start_flow).        *)
(***************************************************************************)
WaitingWasAsked ==
    \A r \in FlowRooms : flowRoom[r].is = "open" /\ flowRoom[r].waiting =>
        \E n \in asked : starts[n] # NoStart /\ starts[n].room = r

(***************************************************************************)
(* A room has one start that waits for its ticket, unless two requests to  *)
(* start looked for one before either was committed.                       *)
(***************************************************************************)
OneStartPerRoom ==
    \A r \in FlowRooms \ crossedStarts : \A m, n \in Pending(r) : m = n

FlowStartsHold ==
    RefusedRightly /\ HandedOnce /\ AttachedOnce /\ WaitingWasAsked /\ OneStartPerRoom
=============================================================================
