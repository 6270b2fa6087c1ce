----------------------------- MODULE AgentStatus -----------------------------
(***************************************************************************)
(* The custom statuses of one agent in one project: the breaks the agent   *)
(* starts and ends, and the In-Service status the system keeps while the   *)
(* agent attends rooms.  At most one CustomStatus row is active at a time  *)
(* (a partial unique index); CustomStatus.save deactivates the others      *)
(* before it inserts an active one.                                        *)
(*                                                                         *)
(* Every transaction is one action where its statements conflict with      *)
(* nobody's, and several where a check and the write that depends on it    *)
(* may be separated by another transaction's commit (READ COMMITTED).      *)
(***************************************************************************)
EXTENDS Naturals, FiniteSets

CONSTANTS
    Breaks,     \* CustomStatus rows of breaks; each is started once
    NoBreak,
    Rooms,
    NoRoom,
    Handlers    \* request threads and websocket consumers

ASSUME ConstantsAssumption ==
    /\ {"none", "service", NoBreak} \cap Breaks = {}
    /\ NoRoom \notin Rooms

VARIABLES
    status,     \* ProjectPermission.status
    active,     \* the active CustomStatus row: "none", "service" or a break
    started,    \* breaks started so far
    rooms,      \* "unborn", "waiting", "mine" or "closed"
    pc,         \* where each handler is
    break,      \* the break each close_status ends
    room,       \* the room each creation inserts
    exposed     \* history: the break began while someone was about to insert In-Service

handlerVars == <<pc, break, room>>
vars == <<status, active, started, rooms, pc, break, room, exposed>>

Locations ==
    {"idle", "closing", "online", "check", "insert", "offline", "finalize", "count", "end"}

TypeOK ==
    /\ status \in {"ONLINE", "OFFLINE"}
    /\ active \in {"none", "service"} \cup started
    /\ started \subseteq Breaks
    /\ rooms \in [Rooms -> {"unborn", "waiting", "mine", "closed"}]
    /\ pc \in [Handlers -> Locations]
    /\ break \in [Handlers -> started \cup {NoBreak}]
    /\ room \in [Handlers -> Rooms \cup {NoRoom}]
    /\ \A h \in Handlers :
          /\ pc[h] = "closing" => break[h] # NoBreak
          /\ break[h] # NoBreak => pc[h] \in {"closing", "insert"} /\ room[h] = NoRoom
          /\ room[h] # NoRoom => pc[h] = "insert" /\ rooms[room[h]] = "unborn"
          /\ \A g \in Handlers \ {h} : room[h] # NoRoom => room[g] # room[h]
    /\ exposed \in BOOLEAN

-----------------------------------------------------------------------------
OnBreak == active \in Breaks

\* Mutant: breaks are not looked at.
NoPriority(b) == FALSE

\* InServiceStatusService.has_priority_status, apart from the break b.
HasPriority(b) == OnBreak /\ active # b

Mine == {r \in Rooms : rooms[r] = "mine"}

Inserting == {h \in Handlers : pc[h] = "insert"}

Init ==
    /\ status = "OFFLINE"
    /\ active = "none"
    /\ started = {}
    /\ rooms \in [Rooms -> {"unborn", "waiting"}]
    /\ pc = [h \in Handlers |-> "idle"]
    /\ break = [h \in Handlers |-> NoBreak]
    /\ room = [h \in Handlers |-> NoRoom]
    /\ exposed = FALSE

GoTo(h, location) == pc' = [pc EXCEPT ![h] = location] /\ UNCHANGED <<break, room>>

Done(h) ==
    /\ pc' = [pc EXCEPT ![h] = "idle"]
    /\ break' = [break EXCEPT ![h] = NoBreak]
    /\ room' = [room EXCEPT ![h] = NoRoom]

-----------------------------------------------------------------------------
(***************************************************************************)
(* Rooms.  Room.save reads the room's previous agent after it has written  *)
(* the new one, and finds no change: only a room that is created with an   *)
(* agent calls room_assigned.                                              *)
(***************************************************************************)
AssignWaiting(r) ==
    /\ rooms[r] = "waiting"
    /\ rooms' = [rooms EXCEPT ![r] = "mine"]
    /\ UNCHANGED <<status, active, started, handlerVars, exposed>>

\* A transfer or a requeue takes the room from the agent.
Unassign(r) ==
    /\ rooms[r] = "mine"
    /\ rooms' = [rooms EXCEPT ![r] = "waiting"]
    /\ UNCHANGED <<status, active, started, handlerVars, exposed>>

\* room_assigned, for a room that is created: In-Service is to be inserted.
CreateAndCheck(h, r) ==
    /\ pc[h] = "idle"
    /\ rooms[r] = "unborn" /\ \A g \in Handlers : room[g] # r
    /\ status = "ONLINE" /\ active # "service" /\ ~HasPriority(NoBreak)
    /\ pc' = [pc EXCEPT ![h] = "insert"]
    /\ room' = [room EXCEPT ![h] = r]
    /\ UNCHANGED <<status, active, started, rooms, break, exposed>>

\* room_assigned has nothing to insert.
Create(h, r) ==
    /\ pc[h] = "idle"
    /\ rooms[r] = "unborn" /\ \A g \in Handlers : room[g] # r
    /\ status # "ONLINE" \/ active = "service" \/ HasPriority(NoBreak)
    /\ rooms' = [rooms EXCEPT ![r] = "mine"]
    /\ UNCHANGED <<status, active, started, handlerVars, exposed>>

\* Room.close, before it calls room_closed.
Close(h, r) ==
    /\ pc[h] = "idle"
    /\ rooms[r] = "mine"
    /\ rooms' = [rooms EXCEPT ![r] = "closed"]
    /\ GoTo(h, "count")
    /\ UNCHANGED <<status, active, started, exposed>>

\* room_closed: counts the agent's rooms ...
Count(h) ==
    /\ pc[h] = "count"
    /\ GoTo(h, IF Mine = {} THEN "end" ELSE "idle")
    /\ UNCHANGED <<status, active, started, rooms, exposed>>

\* ... and ends In-Service if there were none.
End(h) ==
    /\ pc[h] = "end"
    /\ active' = IF active = "service" THEN "none" ELSE active
    /\ GoTo(h, "idle")
    /\ UNCHANGED <<status, started, rooms, exposed>>

-----------------------------------------------------------------------------
(***************************************************************************)
(* Breaks.                                                                 *)
(***************************************************************************)

\* CustomStatusViewSet.perform_create: goes OFFLINE and replaces what is active.
StartBreak(b) ==
    /\ b \in Breaks \ started
    /\ status' = "OFFLINE"
    /\ active' = b
    /\ started' = started \cup {b}
    /\ exposed' = (Inserting # {})
    /\ UNCHANGED <<rooms, handlerVars>>

\* close_status: refuses a break that is not the last active status.
CheckLast(h, b) ==
    /\ pc[h] = "idle"
    /\ b \in started
    /\ active \in {"none", b}
    /\ pc' = [pc EXCEPT ![h] = "closing"]
    /\ break' = [break EXCEPT ![h] = b]
    /\ UNCHANGED <<status, active, started, rooms, room, exposed>>

\* The transaction of close_status, when the agent asks to be ONLINE again: it
\* holds the row of the permission, which StartBreak needs too.
EndBreakOnline(h) ==
    /\ pc[h] = "closing"
    /\ status' = "ONLINE"
    /\ active' = IF Mine # {} /\ ~HasPriority(break[h]) THEN "service"
                 ELSE IF active = break[h] THEN "none" ELSE active
    /\ Done(h)
    /\ UNCHANGED <<started, rooms, exposed>>

\* The same transaction without a change of status.
EndBreak(h) ==
    /\ pc[h] = "closing"
    /\ status # "ONLINE" \/ Mine = {} \/ HasPriority(break[h])
    /\ active' = IF active = break[h] THEN "none" ELSE active
    /\ Done(h)
    /\ UNCHANGED <<status, started, rooms, exposed>>

EndBreakAndCheck(h) ==
    /\ pc[h] = "closing"
    /\ status = "ONLINE" /\ Mine # {} /\ ~HasPriority(break[h])
    /\ GoTo(h, "insert")
    /\ UNCHANGED <<status, active, started, rooms, exposed>>

-----------------------------------------------------------------------------
(***************************************************************************)
(* The connection status; no transaction spans these requests.             *)
(***************************************************************************)

\* ONLINE: every break found is ended ...
EndBreaks(h) ==
    /\ pc[h] = "idle"
    /\ active' = IF OnBreak THEN "none" ELSE active
    /\ GoTo(h, "online")
    /\ UNCHANGED <<status, started, rooms, exposed>>

\* ... the status is saved ...
SaveOnline(h) ==
    /\ pc[h] = "online"
    /\ status' = "ONLINE"
    /\ GoTo(h, "check")
    /\ UNCHANGED <<active, started, rooms, exposed>>

\* ... and In-Service is inserted for an agent with rooms.
CheckService(h) ==
    /\ pc[h] = "check"
    /\ GoTo(h, IF Mine # {} /\ ~HasPriority(NoBreak) /\ active # "service"
               THEN "insert" ELSE "idle")
    /\ UNCHANGED <<status, active, started, rooms, exposed>>

SaveOffline(h) ==
    /\ pc[h] = "idle"
    /\ status' = "OFFLINE"
    /\ GoTo(h, "offline")
    /\ UNCHANGED <<active, started, rooms, exposed>>

EndService(h) ==
    /\ pc[h] = "offline"
    /\ active' = IF active = "service" THEN "none" ELSE active
    /\ GoTo(h, "idle")
    /\ UNCHANGED <<status, started, rooms, exposed>>

\* AgentDisconnectView: ends the break, or else goes OFFLINE.
DisconnectAgent ==
    /\ status # "OFFLINE" \/ active # "none"
    /\ active' = IF OnBreak THEN "none" ELSE active
    /\ status' = IF OnBreak THEN status ELSE "OFFLINE"
    /\ UNCHANGED <<started, rooms, handlerVars, exposed>>

\* A consumer disconnects or times out: set_user_status("OFFLINE") ...
LoseConnection(h) ==
    /\ pc[h] = "idle"
    /\ status' = "OFFLINE"
    /\ GoTo(h, "finalize")
    /\ UNCHANGED <<active, started, rooms, exposed>>

\* ... and finalize_in_service_if_needed, which looks at the status again.
Finalize(h) ==
    /\ pc[h] = "finalize"
    /\ GoTo(h, IF status = "ONLINE" THEN "count" ELSE "idle")
    /\ UNCHANGED <<status, active, started, rooms, exposed>>

-----------------------------------------------------------------------------
\* CustomStatus.save of In-Service: deactivates whatever is active by now.
InsertService(h) ==
    /\ pc[h] = "insert"
    /\ active' = "service"
    /\ rooms' = [r \in Rooms |-> IF r = room[h] THEN "mine" ELSE rooms[r]]
    /\ Done(h)
    /\ UNCHANGED <<status, started, exposed>>

\* Mutant: the room that failed to be inserted is kept.
CollideAndKeep(h) ==
    /\ pc[h] = "insert"
    /\ active \notin {"none", break[h]}
    /\ GoTo(h, "idle")
    /\ UNCHANGED <<status, active, started, rooms, exposed>>

\* The other row was inserted but not committed yet when this one looked for
\* rows to deactivate: IntegrityError.  A room that is being created is lost.
Collide(h) ==
    /\ pc[h] = "insert"
    /\ active \notin {"none", break[h]}
    /\ Done(h)
    /\ UNCHANGED <<status, active, started, rooms, exposed>>

Handle(h) ==
    \/ \E r \in Rooms : CreateAndCheck(h, r) \/ Create(h, r) \/ Close(h, r)
    \/ Count(h) \/ End(h)
    \/ \E b \in Breaks : CheckLast(h, b)
    \/ EndBreakOnline(h) \/ EndBreak(h) \/ EndBreakAndCheck(h)
    \/ EndBreaks(h) \/ SaveOnline(h) \/ CheckService(h)
    \/ SaveOffline(h) \/ EndService(h)
    \/ LoseConnection(h) \/ Finalize(h)
    \/ InsertService(h) \/ Collide(h)

Next ==
    \/ \E h \in Handlers : Handle(h)
    \/ \E r \in Rooms : AssignWaiting(r) \/ Unassign(r)
    \/ \E b \in Breaks : StartBreak(b)
    \/ DisconnectAgent

Spec == Init /\ [][Next]_vars

-----------------------------------------------------------------------------
\* h is ending the break b on request.
Ends(h, b) == break[h] = b /\ pc[h] # "idle"

(***************************************************************************)
(* A break that began while nobody was between the check and the insert of *)
(* In-Service is never replaced by In-Service, whatever rooms are created  *)
(* and whatever status requests cross, except by the close_status of that  *)
(* very break (has_priority_status).                                       *)
(***************************************************************************)
BreakHolds ==
    [][OnBreak /\ ~exposed /\ active' = "service"
       => \E h \in Handlers : Ends(h, active) /\ pc'[h] = "idle"]_vars

(***************************************************************************)
(* A consumer that went OFFLINE has finalized "any in-service status"      *)
(* (ping_timeout_checker).                                                 *)
(***************************************************************************)
ServiceFinalized ==
    [][\A h \in Handlers :
          pc[h] = "finalize" /\ pc'[h] = "idle" => active' # "service"]_vars
=============================================================================
