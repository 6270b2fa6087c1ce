------------------------------ MODULE RoomPins ------------------------------
(***************************************************************************)
(* Pins: an agent pins a few of the rooms assigned to him                  *)
(* (chats/apps/rooms/models.py, Room.pin).  A pin is checked on an         *)
(* instance of the room that the request read before, and on a count of    *)
(* the agent's pins; a save that changes the room's agent deletes its pins *)
(* and writes the row afterwards, every column of it.                      *)
(***************************************************************************)
EXTENDS FiniteSets, Naturals

CONSTANTS
    PinRequests,   \* requests at work on rooms and pins
    PinRooms,      \* rooms of the project
    PinAgents,     \* agents
    NoAgent,       \* user_id of a room that waits
    NoRoom,        \* a request without a room
    PinLimit       \* MAX_ROOM_PINS_LIMIT

ASSUME PinAssumption ==
    /\ IsFiniteSet(PinRooms)
    /\ PinLimit \in Nat
    /\ NoAgent \notin PinAgents
    /\ NoRoom \notin PinRooms

VARIABLES
    roomAgent,    \* user_id
    roomOpen,     \* is_active
    pins,         \* rows of RoomPin: room and agent
    pinAt,        \* where each request is
    pinRoom,      \* the room it read
    pinBy,        \* the user who sent it
    copyAgent,    \* user_id of its instance
    copyOpen,     \* is_active of its instance
    wanted,       \* user_id it is about to save
    crossed,      \* rooms written while another request held an instance of them
    doubled         \* agents who had two pins checked at once

requestVars == <<pinAt, pinRoom, pinBy, copyAgent, copyOpen, wanted>>
pinVars == <<roomAgent, roomOpen, pins, requestVars, crossed, doubled>>

Holders == PinAgents \cup {NoAgent}
Resting == "none"

PinsTypeOK ==
    /\ roomAgent \in [PinRooms -> Holders]
    /\ roomOpen \in [PinRooms -> BOOLEAN]
    /\ pins \subseteq PinRooms \X PinAgents
    /\ pinAt \in [PinRequests -> {Resting, "held", "counted", "saving"}]
    /\ pinRoom \in [PinRequests -> PinRooms \cup {NoRoom}]
    /\ pinBy \in [PinRequests -> Holders]
    /\ \A q \in PinRequests : pinAt[q] # Resting => pinRoom[q] \in PinRooms /\ pinBy[q] \in PinAgents
    /\ copyAgent \in [PinRequests -> Holders]
    /\ copyOpen \in [PinRequests -> BOOLEAN]
    /\ wanted \in [PinRequests -> Holders]
    /\ \A q \in PinRequests : pinAt[q] = "counted" => copyOpen[q] /\ copyAgent[q] = pinBy[q]
    /\ crossed \subseteq PinRooms
    /\ doubled \subseteq PinAgents

PinsInit ==
    /\ roomAgent \in [PinRooms -> Holders]
    /\ roomOpen = [r \in PinRooms |-> TRUE]
    /\ pins = {}
    /\ pinAt = [q \in PinRequests |-> Resting]
    /\ pinRoom = [q \in PinRequests |-> NoRoom]
    /\ pinBy = [q \in PinRequests |-> NoAgent]
    /\ copyAgent = [q \in PinRequests |-> NoAgent]
    /\ copyOpen = [q \in PinRequests |-> FALSE]
    /\ wanted = [q \in PinRequests |-> NoAgent]
    /\ crossed = {} /\ doubled = {}

PinsOf(r) == {r} \X PinAgents
PinnedRooms(a) == {r \in PinRooms : <<r, a>> \in pins}
HeldByAnother(q) ==
    \E other \in PinRequests \ {q} : pinAt[other] # Resting /\ pinRoom[other] = pinRoom[q]

\* What a request writes crosses the others that hold an instance of the room.
Cross(q) == crossed' = IF HeldByAnother(q) THEN crossed \cup {pinRoom[q]} ELSE crossed

\* The request ends, and its instance with it.
EndRequest(q) ==
    /\ pinAt' = [pinAt EXCEPT ![q] = Resting]
    /\ copyAgent' = [copyAgent EXCEPT ![q] = NoAgent]
    /\ copyOpen' = [copyOpen EXCEPT ![q] = FALSE]
    /\ wanted' = [wanted EXCEPT ![q] = NoAgent]
    /\ pinRoom' = [pinRoom EXCEPT ![q] = NoRoom]
    /\ pinBy' = [pinBy EXCEPT ![q] = NoAgent]

\* get_object, or the SELECT of any handler that saves rooms.
GetRoom(q, r, a) ==
    /\ pinAt[q] = Resting
    /\ pinAt' = [pinAt EXCEPT ![q] = "held"]
    /\ pinRoom' = [pinRoom EXCEPT ![q] = r]
    /\ pinBy' = [pinBy EXCEPT ![q] = a]
    /\ copyAgent' = [copyAgent EXCEPT ![q] = roomAgent[r]]
    /\ copyOpen' = [copyOpen EXCEPT ![q] = roomOpen[r]]
    /\ UNCHANGED <<roomAgent, roomOpen, pins, wanted, crossed, doubled>>

\* Mutant: the comparison is off by one.
BelowOrAtPinLimit(a) == Cardinality({r \in PinnedRooms(a) : roomOpen[r]}) <= PinLimit

\* Pins of closed rooms do not count.
BelowPinLimit(a) == Cardinality({r \in PinnedRooms(a) : roomOpen[r]}) < PinLimit

MayPin(q) ==
    /\ <<pinRoom[q], pinBy[q]>> \notin pins
    /\ BelowPinLimit(pinBy[q])
    /\ copyAgent[q] = pinBy[q]
    /\ copyOpen[q]

\* Room.pin up to the INSERT.
CheckPin(q) ==
    /\ pinAt[q] = "held"
    /\ MayPin(q)
    /\ pinAt' = [pinAt EXCEPT ![q] = "counted"]
    /\ doubled' = IF \E other \in PinRequests : pinAt[other] = "counted" /\ pinBy[other] = pinBy[q]
                THEN doubled \cup {pinBy[q]} ELSE doubled
    /\ UNCHANGED <<roomAgent, roomOpen, pins, pinRoom, pinBy, copyAgent, copyOpen, wanted, crossed>>

\* Pinned already, at the limit, not the user's room, or closed.
RefusePin(q) ==
    /\ pinAt[q] = "held"
    /\ ~MayPin(q)
    /\ EndRequest(q)
    /\ UNCHANGED <<roomAgent, roomOpen, pins, crossed, doubled>>

\* A pin that exists by now violates the unique constraint and changes nothing.
CreatePin(q) ==
    /\ pinAt[q] = "counted"
    /\ pins' = pins \cup {<<pinRoom[q], pinBy[q]>>}
    /\ Cross(q)
    /\ EndRequest(q)
    /\ UNCHANGED <<roomAgent, roomOpen, doubled>>

Unpin(q) ==
    /\ pinAt[q] = "held"
    /\ copyAgent[q] = pinBy[q]
    /\ pins' = pins \ {<<pinRoom[q], pinBy[q]>>}
    /\ EndRequest(q)
    /\ UNCHANGED <<roomAgent, roomOpen, crossed, doubled>>

\* Mutant: the pins stay when the agent changes.
StartSaveOnly(q, a) ==
    /\ pinAt[q] = "held"
    /\ roomOpen[pinRoom[q]]
    /\ pinAt' = [pinAt EXCEPT ![q] = "saving"]
    /\ wanted' = [wanted EXCEPT ![q] = a]
    /\ UNCHANGED <<roomAgent, roomOpen, pins, pinRoom, pinBy, copyAgent, copyOpen, crossed, doubled>>

\* Room.save up to the UPDATE.  The agent has changed if the instance says so.
StartSave(q, a) ==
    /\ pinAt[q] = "held"
    /\ roomOpen[pinRoom[q]]
    /\ pinAt' = [pinAt EXCEPT ![q] = "saving"]
    /\ wanted' = [wanted EXCEPT ![q] = a]
    /\ pins' = IF a # copyAgent[q] THEN pins \ PinsOf(pinRoom[q]) ELSE pins
    /\ UNCHANGED <<roomAgent, roomOpen, pinRoom, pinBy, copyAgent, copyOpen, crossed, doubled>>

\* The UPDATE writes every column of the instance.
WriteRoom(q) ==
    /\ pinAt[q] = "saving"
    /\ roomAgent' = [roomAgent EXCEPT ![pinRoom[q]] = wanted[q]]
    /\ roomOpen' = [roomOpen EXCEPT ![pinRoom[q]] = copyOpen[q]]
    /\ Cross(q)
    /\ EndRequest(q)
    /\ UNCHANGED <<pins, doubled>>

\* Room.close: the pins go and the room closes in one transaction.
ClosePinned(q) ==
    /\ pinAt[q] = "held"
    /\ roomOpen[pinRoom[q]]
    /\ pins' = pins \ PinsOf(pinRoom[q])
    /\ roomAgent' = [roomAgent EXCEPT ![pinRoom[q]] = copyAgent[q]]
    /\ roomOpen' = [roomOpen EXCEPT ![pinRoom[q]] = FALSE]
    /\ Cross(q)
    /\ EndRequest(q)
    /\ UNCHANGED doubled

\* "Closed rooms can't receive updates"
RefuseSave(q) ==
    /\ pinAt[q] = "held"
    /\ ~roomOpen[pinRoom[q]]
    /\ EndRequest(q)
    /\ UNCHANGED <<roomAgent, roomOpen, pins, crossed, doubled>>

PinsNext ==
    \E q \in PinRequests :
        \/ CheckPin(q) \/ RefusePin(q) \/ CreatePin(q) \/ Unpin(q)
        \/ WriteRoom(q) \/ ClosePinned(q) \/ RefuseSave(q)
        \/ \E a \in PinAgents, r \in PinRooms : GetRoom(q, r, a)
        \/ \E a \in Holders : StartSave(q, a)

PinsSpec == PinsInit /\ [][PinsNext]_pinVars

-----------------------------------------------------------------------------
(***************************************************************************)
(* A pin belongs to the agent of an open room, unless the room was written *)
(* while another request held an instance of it.  In that case the former  *)
(* agent keeps a pin that counts against his limit, and unpin refuses him  *)
(* because the room is not his.                                            *)
(***************************************************************************)
PinsFollowAgent ==
    \A pin \in pins : pin[1] \in crossed \/ (roomOpen[pin[1]] /\ roomAgent[pin[1]] = pin[2])

(***************************************************************************)
(* An agent has at most MAX_ROOM_PINS_LIMIT pins, unless two of his pins   *)
(* were checked at once.  A room that was closed and written open again    *)
(* brings a pin back that was not counted, so crossed rooms are left out.  *)
(***************************************************************************)
PinLimitHolds ==
    \A a \in PinAgents :
        a \in doubled \/ Cardinality(PinnedRooms(a) \ crossed) <= PinLimit

(***************************************************************************)
(* Pins follow the agent of a room and stay within his limit, whatever     *)
(* pins, transfers and closures are under way (Room.pin, Room.save).       *)
(***************************************************************************)
PinsHold == PinsFollowAgent /\ PinLimitHolds
=============================================================================
