------------------------------ MODULE Inactivity ------------------------------
(***************************************************************************)
(* One assigned room of a sector that warns and closes inactive rooms: the *)
(* periodic task check_inactivity_rooms with its Redis lock, and the       *)
(* requests that create messages in the room or save its whole row.        *)
(*                                                                         *)
(* Each pass of the task evaluates one queryset, in which a room may wait  *)
(* behind hundreds of others, and decides on the rows it got.  A message   *)
(* is created first; its agent's callback URL is called; then the room's   *)
(* last_message columns are updated.  created_on is unique: the clock      *)
(* advances with every message.                                            *)
(***************************************************************************)
EXTENDS Naturals, FiniteSets

CONSTANTS
    Workers,      \* Celery workers that may run the task
    Handlers,     \* request threads
    Nobody,
    Warn,         \* message_timeout_time
    CloseAfter,   \* close_room_timeout_time
    LockLapses,   \* may a tick outlive INACTIVITY_TASK_LOCK_TIMEOUT?
    Outcomes,     \* what may become of an automatic message
    MaxTime,      \* bound on the clock
    MaxRequests,  \* bound on the requests
    MaxCrashes    \* bound on the workers killed

ASSUME ConstantsAssumption ==
    /\ Workers \cap Handlers = {} /\ Nobody \notin Workers \cup Handlers
    /\ Warn \in Nat \ {0} /\ CloseAfter \in Nat \ {0}
    /\ LockLapses \in BOOLEAN
    /\ Outcomes \subseteq {"sent", "no_text", "failed"}
    /\ MaxTime \in Nat /\ MaxRequests \in Nat /\ MaxCrashes \in Nat

VARIABLES
    now,
    row,       \* the room's row: is_active, is_inactive, last_interaction, who spoke last
    lock,      \* the worker whose token is in the Redis lock
    pc,        \* where each process is
    copy,      \* the Room instance in the memory of each process
    stamp,     \* created_on of the message each handler is working on
    requests,  \* requests so far
    crashes,   \* crashes so far
    latest,    \* history: the handler that created the latest message
    answered,  \* history: did the contact create it?
    exposed    \* history: may somebody still act on what the room was before it?

historyVars == <<latest, answered, exposed>>
handlerVars == <<stamp, requests>>
vars == <<now, row, lock, pc, copy, stamp, requests, crashes, historyVars>>

Procs == Workers \cup Handlers
Time == 0..MaxTime

\* last_message_user is set, or else the contact spoke last.
Row == [active : BOOLEAN, inactive : BOOLEAN, interaction : Time, agentLast : BOOLEAN]

WorkerLocations ==
    {"idle", "warn", "warning", "flag", "close", "closing", "refresh", "save", "write", "release"}
HandlerLocations == {"idle", "contact", "reset", "agent", "save", "write"}

TypeOK ==
    /\ now \in Time
    /\ row \in Row
    /\ lock \in Workers \cup {Nobody}
    /\ pc \in [Procs -> WorkerLocations \cup HandlerLocations]
    /\ \A w \in Workers : pc[w] \in WorkerLocations
    /\ \A h \in Handlers : pc[h] \in HandlerLocations
    /\ copy \in [Procs -> Row]
    /\ stamp \in [Handlers -> Time] /\ \A h \in Handlers : stamp[h] <= now
    /\ requests \in 0..MaxRequests
    /\ crashes \in 0..MaxCrashes
    /\ latest \in Handlers \cup {Nobody}
    /\ answered \in BOOLEAN /\ exposed \in BOOLEAN
    /\ row.interaction <= now

-----------------------------------------------------------------------------
Elapsed == now - row.interaction

\* _eligible_warn_queryset and the timeout, for the one room.
MustWarn == row.active /\ ~row.inactive /\ row.agentLast /\ Elapsed >= Warn

\* _eligible_close_queryset and the timeouts.
MustClose == row.active /\ row.inactive /\ row.agentLast /\ Elapsed >= Warn + CloseAfter

\* What is left of the row an idle process read; nothing looks at it.
Blank == [active |-> FALSE, inactive |-> FALSE, interaction |-> 0, agentLast |-> FALSE]

Init ==
    /\ now = 0
    /\ row = [active |-> TRUE, inactive |-> FALSE, interaction |-> 0, agentLast |-> FALSE]
    /\ lock = Nobody
    /\ pc = [p \in Procs |-> "idle"]
    /\ copy = [p \in Procs |-> Blank]
    /\ stamp = [h \in Handlers |-> 0]
    /\ requests = 0 /\ crashes = 0
    /\ latest = Nobody /\ answered = TRUE /\ exposed = FALSE

GoTo(p, location) == pc' = [pc EXCEPT ![p] = location] /\ UNCHANGED copy
Forget(p, location) ==
    pc' = [pc EXCEPT ![p] = location] /\ copy' = [copy EXCEPT ![p] = Blank]
Remember(p, location, r) ==
    pc' = [pc EXCEPT ![p] = location] /\ copy' = [copy EXCEPT ![p] = r]

\* Time passes while the room waits.
Tick ==
    /\ now < MaxTime
    /\ now' = now + 1
    /\ UNCHANGED <<row, lock, pc, copy, handlerVars, crashes, historyVars>>

-----------------------------------------------------------------------------
(***************************************************************************)
(* check_inactivity_rooms                                                  *)
(***************************************************************************)

\* Mutant: the lock is taken whoever holds it.
AcquireAnyway(w) ==
    /\ pc[w] = "idle"
    /\ lock' = w
    /\ GoTo(w, "warn")
    /\ UNCHANGED <<now, row, handlerVars, crashes, historyVars>>

\* A worker that does not get the lock skips the tick.
Acquire(w) ==
    /\ pc[w] = "idle"
    /\ lock = Nobody
    /\ lock' = w
    /\ GoTo(w, "warn")
    /\ UNCHANGED <<now, row, handlerVars, crashes, historyVars>>

ReadToWarn(w) ==
    /\ pc[w] = "warn"
    /\ IF MustWarn THEN Remember(w, "warning", row) ELSE GoTo(w, "close")
    /\ UNCHANGED <<now, row, lock, handlerVars, crashes, historyVars>>

\* _send_silent_automatic_message: once sent, the agent has the last word.
\* The sector may have no text for it; the 24 hours of Message.save may be over.
SendSilent(outcome) ==
    row' = IF outcome = "sent" THEN [row EXCEPT !.agentLast = TRUE] ELSE row

\* A room whose warning failed is not flagged.
SendWarning(w) ==
    /\ pc[w] = "warning"
    /\ \E outcome \in Outcomes :
           /\ SendSilent(outcome)
           /\ IF outcome = "failed" THEN Forget(w, "close") ELSE GoTo(w, "flag")
    /\ UNCHANGED <<now, lock, handlerVars, crashes, historyVars>>

\* Mutant: the flag is never set.
FlagNothing(w) ==
    /\ pc[w] = "flag"
    /\ Forget(w, "close")
    /\ UNCHANGED <<now, row, lock, handlerVars, crashes, historyVars>>

FlagInactive(w) ==
    /\ pc[w] = "flag"
    /\ row' = [row EXCEPT !.inactive = row.inactive \/ row.active]
    /\ Forget(w, "close")
    /\ UNCHANGED <<now, lock, handlerVars, crashes, historyVars>>

ReadToClose(w) ==
    /\ pc[w] = "close"
    /\ IF MustClose THEN Remember(w, "closing", row) ELSE GoTo(w, "release")
    /\ UNCHANGED <<now, row, lock, handlerVars, crashes, historyVars>>

\* A closing message that failed stops nothing.
SendClosing(w) ==
    /\ pc[w] = "closing"
    /\ \E outcome \in Outcomes : SendSilent(outcome)
    /\ GoTo(w, "refresh")
    /\ UNCHANGED <<now, lock, handlerVars, crashes, historyVars>>

\* refresh_from_db; what it reads is not looked at.
Refresh(w) ==
    /\ pc[w] = "refresh"
    /\ Remember(w, "save", [row EXCEPT !.active = FALSE])
    /\ UNCHANGED <<now, row, lock, handlerVars, crashes, historyVars>>

\* The worker's token is deleted unless the lock lapsed.
Release(w) ==
    /\ pc[w] = "release"
    /\ lock' = IF lock = w THEN Nobody ELSE lock
    /\ GoTo(w, "idle")
    /\ UNCHANGED <<now, row, handlerVars, crashes, historyVars>>

\* The TTL of the lock: its holder has died, or takes too long.
Lapse ==
    /\ lock # Nobody
    /\ LockLapses \/ pc[lock] = "idle"
    /\ lock' = Nobody
    /\ UNCHANGED <<now, row, pc, copy, handlerVars, crashes, historyVars>>

\* A worker is killed; its tick is not repeated.
Crash(w) ==
    /\ pc[w] # "idle"
    /\ crashes < MaxCrashes
    /\ crashes' = crashes + 1
    /\ Forget(w, "idle")
    /\ UNCHANGED <<now, row, lock, handlerVars, historyVars>>

\* The next tick of the schedule follows when this one has ended.
Work(w) ==
    \/ Acquire(w) \/ ReadToWarn(w) \/ SendWarning(w) \/ FlagInactive(w)
    \/ ReadToClose(w) \/ SendClosing(w) \/ Refresh(w) \/ Release(w)

-----------------------------------------------------------------------------
(***************************************************************************)
(* Room.save of a whole row, by the task and by requests.                  *)
(***************************************************************************)
After(p) == IF p \in Workers THEN "release" ELSE "idle"

\* "Closed rooms can't receive updates", or the way is free.
CheckActive(p) ==
    /\ pc[p] = "save"
    /\ IF row.active THEN GoTo(p, "write") ELSE Forget(p, After(p))
    /\ UNCHANGED <<now, row, lock, handlerVars, crashes, historyVars>>

Write(p) ==
    /\ pc[p] = "write"
    /\ row' = copy[p]
    /\ Forget(p, After(p))
    /\ UNCHANGED <<now, lock, handlerVars, crashes, historyVars>>

-----------------------------------------------------------------------------
(***************************************************************************)
(* Requests                                                                *)
(***************************************************************************)
NewRequest == requests < MaxRequests /\ requests' = requests + 1

\* Message.save, which looks at the instance of the room it has read.
CreateMessage(h, location, byContact) ==
    /\ pc[h] = "idle"
    /\ NewRequest
    /\ row.active
    /\ now < MaxTime
    /\ now' = now + 1
    /\ stamp' = [stamp EXCEPT ![h] = now + 1]
    /\ Remember(h, location, row)
    /\ latest' = h
    /\ answered' = byContact
    /\ exposed' = TRUE
    /\ UNCHANGED <<row, lock, crashes>>

ContactWrites(h) == CreateMessage(h, "contact", TRUE)
AgentWrites(h) == CreateMessage(h, "agent", FALSE)

\* Those who hold what the room was, or are about to say the agent spoke last.
Holding ==
    {w \in Workers : pc[w] \in {"warning", "closing", "refresh", "save", "write"}}
      \cup {h \in Handlers : pc[h] \in {"agent", "save", "write"}}

\* Mutant: the message does not count as the contact's answer.
UpdateInteractionOnly(h) ==
    /\ pc[h] = "contact"
    /\ row' = IF row.interaction < stamp[h] THEN [row EXCEPT !.interaction = stamp[h]] ELSE row
    /\ GoTo(h, "reset")
    /\ exposed' = IF latest = h THEN Holding # {} ELSE exposed
    /\ UNCHANGED <<now, lock, handlerVars, crashes, latest, answered>>

\* Room.on_new_message: "Only updates if message is newer than last_interaction".
OnNewMessage(h) ==
    /\ pc[h] = "contact"
    /\ row' = IF row.interaction < stamp[h]
              THEN [row EXCEPT !.interaction = stamp[h], !.agentLast = FALSE]
              ELSE row
    /\ GoTo(h, "reset")
    /\ exposed' = IF latest = h THEN Holding # {} ELSE exposed
    /\ UNCHANGED <<now, lock, handlerVars, crashes, latest, answered>>

\* reset_inactivity, if the instance was read after the warning.
ResetInactivity(h) ==
    /\ pc[h] = "reset"
    /\ row' = IF copy[h].inactive /\ row.active THEN [row EXCEPT !.inactive = FALSE] ELSE row
    /\ Forget(h, "idle")
    /\ UNCHANGED <<now, lock, handlerVars, crashes, historyVars>>

\* Mutant: the timestamp of the message in the making.
StampAhead(h) ==
    /\ pc[h] = "agent"
    /\ row' = [row EXCEPT !.interaction = now + 1, !.agentLast = TRUE]
    /\ Forget(h, "idle")
    /\ UNCHANGED <<now, lock, handlerVars, crashes, historyVars>>

\* Room.update_last_message, after the callback: whatever came in between.
UpdateLastMessage(h) ==
    /\ pc[h] = "agent"
    /\ row' = [row EXCEPT !.interaction = stamp[h], !.agentLast = TRUE]
    /\ Forget(h, "idle")
    /\ UNCHANGED <<now, lock, handlerVars, crashes, historyVars>>

\* Any request that saves the room: a transfer, custom fields, a closure.
SaveRoom(h, active) ==
    /\ pc[h] = "idle"
    /\ NewRequest
    /\ row.active
    /\ Remember(h, "save", [row EXCEPT !.active = active])
    /\ UNCHANGED <<now, row, lock, stamp, crashes, historyVars>>

Request(h) == ContactWrites(h) \/ AgentWrites(h) \/ SaveRoom(h, TRUE) \/ SaveRoom(h, FALSE)

Serve(h) == OnNewMessage(h) \/ ResetInactivity(h) \/ UpdateLastMessage(h)

Next ==
    \/ Tick
    \/ \E w \in Workers : Work(w) \/ Crash(w)
    \/ Lapse
    \/ \E p \in Procs : CheckActive(p) \/ Write(p)
    \/ \E h \in Handlers : Request(h) \/ Serve(h)

Spec == Init /\ [][Next]_vars

\* Beat keeps sending ticks and a worker that has begun one goes on; requests
\* that were begun end; the TTL of a lock runs out.  Nobody need make a request.
FairSpec ==
    /\ Spec
    /\ \A w \in Workers : WF_vars(Work(w))
    /\ \A p \in Procs : WF_vars(CheckActive(p) \/ Write(p))
    /\ \A h \in Handlers : WF_vars(Serve(h))
    /\ WF_vars(Lapse)

-----------------------------------------------------------------------------
Closes(w) == pc[w] = "write" /\ pc'[w] = "release" /\ row.active

(***************************************************************************)
(* "so two beats can never process the same eligible rooms in parallel"    *)
(* (check_inactivity_rooms): no two ticks overlap, even after a worker was *)
(* killed, as long as no tick outlives the lock.                           *)
(***************************************************************************)
TicksDoNotOverlap ==
    ~LockLapses => \A v, w \in Workers : pc[v] # "idle" /\ pc[w] # "idle" => v = w

(***************************************************************************)
(* A contact who spoke last keeps the room open: once the message has been *)
(* recorded while nobody held an older row of the room, no tick closes the *)
(* room before the agent writes again, whatever ticks overlap.             *)
(***************************************************************************)
ContactKeepsOpen ==
    [][answered /\ ~exposed => \A w \in Workers : ~Closes(w)]_vars

(***************************************************************************)
(* A room whose agent has waited for longer than both timeouts does not    *)
(* stay so: a tick closes it, even if workers are killed, unless somebody  *)
(* writes to it (check_inactivity_rooms and the TTL of its lock).          *)
(***************************************************************************)
Overdue == row.active /\ row.agentLast /\ Elapsed >= Warn + CloseAfter
OverdueIsClosed == []<>~Overdue
=============================================================================
