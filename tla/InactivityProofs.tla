--------------------------- MODULE InactivityProofs ---------------------------
(***************************************************************************)
(* Proofs about Inactivity.  ContactKeepsOpen rests on Kept: once the      *)
(* contact's answer is recorded and nobody holds an older row, the room    *)
(* and every copy of it that may be saved say the contact spoke last.      *)
(* Newest is what makes the recording of the latest message take effect.   *)
(***************************************************************************)
EXTENDS Inactivity, TLAPS

\* No copy of the room is ahead of the clock.
CopiesArePast == \A p \in Procs : copy[p].interaction <= now

Types == TypeOK /\ CopiesArePast

LEMMA TypesInit == Init => Types
<1> SUFFICES ASSUME Init PROVE Types
  OBVIOUS
<1> USE ConstantsAssumption DEF ConstantsAssumption, Init
<1>1. 0 \in Time /\ 0 \in 0..MaxRequests /\ 0 \in 0..MaxCrashes
  BY DEF Time
<1>2. row \in Row /\ Blank \in Row /\ row.interaction = 0 /\ Blank.interaction = 0
  BY <1>1 DEF Row, Blank
<1>3. \A p \in Procs : copy[p] = Blank
  OBVIOUS
<1>4. copy \in [Procs -> Row]
  BY <1>2
<1>5. CopiesArePast
  BY <1>2, <1>3 DEF CopiesArePast
<1>6. /\ pc \in [Procs -> WorkerLocations \cup HandlerLocations]
      /\ \A w \in Workers : pc[w] \in WorkerLocations
      /\ \A h \in Handlers : pc[h] \in HandlerLocations
  BY DEF Procs, WorkerLocations, HandlerLocations
<1>7. stamp \in [Handlers -> Time] /\ \A h \in Handlers : stamp[h] <= now
  BY <1>1
<1>8. /\ now \in Time /\ row.interaction <= now /\ lock \in Workers \cup {Nobody}
      /\ requests \in 0..MaxRequests /\ crashes \in 0..MaxCrashes
  BY <1>1, <1>2
<1>9. latest \in Handlers \cup {Nobody} /\ answered \in BOOLEAN /\ exposed \in BOOLEAN
  OBVIOUS
<1> HIDE DEF Init
<1>10. QED
  BY <1>2, <1>4, <1>5, <1>6, <1>7, <1>8, <1>9 DEF Types, TypeOK

\* A row with that last_interaction and last speaker.
IsRow(u, t, b) == u \in Row /\ u.interaction = t /\ u.agentLast = b

LEMMA BlankIsARow == 0 \in Time /\ IsRow(Blank, 0, FALSE)
BY ConstantsAssumption DEF ConstantsAssumption, Row, Blank, Time, IsRow

LEMMA RowUpdates ==
  ASSUME NEW r \in Row
  PROVE  /\ \A b \in BOOLEAN :
                /\ IsRow([r EXCEPT !.active = b], r.interaction, r.agentLast)
                /\ IsRow([r EXCEPT !.inactive = b], r.interaction, r.agentLast)
                /\ IsRow([r EXCEPT !.agentLast = b], r.interaction, b)
         /\ \A b \in BOOLEAN, t \in Time :
                IsRow([r EXCEPT !.interaction = t, !.agentLast = b], t, b)
<1>1. ASSUME NEW b \in BOOLEAN
      PROVE  /\ IsRow([r EXCEPT !.active = b], r.interaction, r.agentLast)
             /\ IsRow([r EXCEPT !.inactive = b], r.interaction, r.agentLast)
             /\ IsRow([r EXCEPT !.agentLast = b], r.interaction, b)
  BY DEF Row, IsRow
<1>2. ASSUME NEW b \in BOOLEAN, NEW t \in Time
      PROVE  IsRow([r EXCEPT !.interaction = t, !.agentLast = b], t, b)
  BY DEF Row, IsRow
<1>3. QED
  BY <1>1, <1>2

LEMMA TypesStep == Types /\ [Next]_vars => Types'
<1> SUFFICES ASSUME Types, [Next]_vars PROVE Types'
  OBVIOUS
<1> USE ConstantsAssumption
    DEF ConstantsAssumption, Types, TypeOK, CopiesArePast, Time, Procs, WorkerLocations,
        HandlerLocations, handlerVars, historyVars
<1>a. 0 \in Time /\ Blank \in Row /\ Blank.interaction = 0
  BY BlankIsARow DEF IsRow
<1>b. row.active \in BOOLEAN /\ row.inactive \in BOOLEAN /\ row.interaction \in Nat
  BY DEF Row
<1>c. \A b \in BOOLEAN :
         /\ IsRow([row EXCEPT !.active = b], row.interaction, row.agentLast)
         /\ IsRow([row EXCEPT !.inactive = b], row.interaction, row.agentLast)
         /\ IsRow([row EXCEPT !.agentLast = b], row.interaction, b)
         /\ \A t \in Time : IsRow([row EXCEPT !.interaction = t, !.agentLast = b], t, b)
  BY RowUpdates
<1>1. CASE Tick
  BY <1>1, <1>b DEF Tick, Row
<1>2. ASSUME NEW w \in Workers, Acquire(w) \/ Release(w) PROVE Types'
  BY <1>2 DEF Acquire, Release, GoTo
<1>3. ASSUME NEW w \in Workers, ReadToWarn(w) PROVE Types'
  BY <1>3 DEF ReadToWarn, GoTo, Remember
<1>4. ASSUME NEW w \in Workers, SendWarning(w) PROVE Types'
  <2>1. row' \in Row /\ row'.interaction = row.interaction
    BY <1>4, <1>c DEF IsRow, SendWarning, SendSilent
  <2>2. QED
    BY <1>4, <1>a, <2>1 DEF SendWarning, GoTo, Forget
<1>5. ASSUME NEW w \in Workers, FlagInactive(w) PROVE Types'
  <2>1. row' \in Row /\ row'.interaction = row.interaction
    BY <1>5, <1>b, <1>c DEF IsRow, FlagInactive
  <2>2. QED
    BY <1>5, <1>a, <2>1 DEF FlagInactive, Forget
<1>6. ASSUME NEW w \in Workers, ReadToClose(w) PROVE Types'
  BY <1>6 DEF ReadToClose, GoTo, Remember
<1>7. ASSUME NEW w \in Workers, SendClosing(w) PROVE Types'
  <2>1. row' \in Row /\ row'.interaction = row.interaction
    BY <1>7, <1>c DEF IsRow, SendClosing, SendSilent
  <2>2. QED
    BY <1>7, <2>1 DEF SendClosing, GoTo
<1>8. ASSUME NEW w \in Workers, Refresh(w) PROVE Types'
  BY <1>8, <1>c DEF IsRow, Refresh, Remember
<1>9. ASSUME NEW w \in Workers, Crash(w) PROVE Types'
  BY <1>9, <1>a DEF Crash, Forget
<1>10. CASE Lapse
  BY <1>10 DEF Lapse
<1>11. ASSUME NEW p \in Procs, CheckActive(p) PROVE Types'
  BY <1>11, <1>a DEF CheckActive, GoTo, Forget, After
<1>12. ASSUME NEW p \in Procs, Write(p) PROVE Types'
  BY <1>12, <1>a DEF Write, Forget, After
<1>13. ASSUME NEW h \in Handlers, NEW l \in {"contact", "agent"}, NEW b \in BOOLEAN,
              CreateMessage(h, l, b)
       PROVE  Types'
  <2>1. \A p \in Procs : copy[p].interaction \in Nat
    BY DEF Row
  <2>2. QED
    BY <1>13, <1>b, <2>1 DEF CreateMessage, NewRequest, Remember
<1>14. ASSUME NEW h \in Handlers, NEW a \in BOOLEAN, SaveRoom(h, a) PROVE Types'
  <2>1. copy' = [copy EXCEPT ![h] = [row EXCEPT !.active = a]]
    BY <1>14 DEF SaveRoom, Remember
  <2>2. copy' \in [Procs -> Row] /\ \A p \in Procs : copy'[p].interaction <= now
    BY <1>c, <2>1 DEF IsRow
  <2>3. QED
    BY <1>14, <2>2 DEF SaveRoom, NewRequest, Remember
<1>15. ASSUME NEW h \in Handlers, OnNewMessage(h) PROVE Types'
  <2>1. row' \in Row /\ row'.interaction <= now
    BY <1>15, <1>c, stamp[h] \in Time, stamp[h] <= now DEF IsRow, OnNewMessage
  <2>2. QED
    BY <1>15, <2>1 DEF OnNewMessage, GoTo
<1>16. ASSUME NEW h \in Handlers, ResetInactivity(h) PROVE Types'
  <2>1. row' \in Row /\ row'.interaction = row.interaction
    BY <1>16, <1>c DEF IsRow, ResetInactivity
  <2>2. QED
    BY <1>16, <1>a, <2>1 DEF ResetInactivity, Forget
<1>17. ASSUME NEW h \in Handlers, UpdateLastMessage(h) PROVE Types'
  <2>1. row' \in Row /\ row'.interaction = stamp[h]
    BY <1>17, <1>c DEF IsRow, UpdateLastMessage
  <2>2. QED
    BY <1>17, <1>a, <2>1 DEF UpdateLastMessage, Forget
<1>18. CASE UNCHANGED vars
  BY <1>18 DEF vars
<1>19. QED
  BY <1>1, <1>2, <1>3, <1>4, <1>5, <1>6, <1>7, <1>8, <1>9, <1>10, <1>11, <1>12, <1>13,
     <1>14, <1>15, <1>16, <1>17, <1>18
     DEF Next, Work, Request, Serve, ContactWrites, AgentWrites

(***************************************************************************)
(* The variables keep their types (check_inactivity_rooms, Room and the    *)
(* requests): in particular last_interaction never runs ahead of the clock.*)
(***************************************************************************)
THEOREM TypeCorrect == Spec => []TypeOK
BY TypesInit, TypesStep, PTL DEF Spec, Types

-----------------------------------------------------------------------------
\* Who works holds the lock, unless it may lapse under him.
WorkerHoldsLock == ~LockLapses => \A w \in Workers : pc[w] # "idle" => lock = w

LEMMA WorkerHoldsLockStep == Types /\ WorkerHoldsLock /\ [Next]_vars => WorkerHoldsLock'
<1> SUFFICES ASSUME Types, WorkerHoldsLock, [Next]_vars PROVE WorkerHoldsLock'
  OBVIOUS
<1> USE ConstantsAssumption
    DEF ConstantsAssumption, Types, TypeOK, WorkerHoldsLock, Procs, GoTo, Forget, Remember
<1>1. CASE Tick \/ UNCHANGED vars
  BY <1>1 DEF Tick, vars
<1>2. ASSUME NEW w \in Workers, Work(w) \/ Crash(w) PROVE WorkerHoldsLock'
  BY <1>2 DEF Work, Acquire, ReadToWarn, SendWarning, FlagInactive, ReadToClose, SendClosing,
              Refresh, Release, Crash
<1>3. CASE Lapse
  BY <1>3 DEF Lapse
<1>4. ASSUME NEW p \in Procs, CheckActive(p) \/ Write(p) PROVE WorkerHoldsLock'
  BY <1>4 DEF CheckActive, Write
<1>5. ASSUME NEW h \in Handlers, Request(h) \/ Serve(h) PROVE WorkerHoldsLock'
  BY <1>5 DEF Request, ContactWrites, AgentWrites, CreateMessage, SaveRoom, Serve,
              OnNewMessage, ResetInactivity, UpdateLastMessage
<1>6. QED
  BY <1>1, <1>2, <1>3, <1>4, <1>5 DEF Next

(***************************************************************************)
(* TicksDoNotOverlap, for any number of workers, requests and crashes      *)
(* (the Redis lock of check_inactivity_rooms).                             *)
(***************************************************************************)
THEOREM LockExcludesTicks == Spec => []TicksDoNotOverlap
<1>1. Init => WorkerHoldsLock
  BY DEF Init, WorkerHoldsLock, Procs
<1>2. WorkerHoldsLock => TicksDoNotOverlap
  BY DEF WorkerHoldsLock, TicksDoNotOverlap
<1>3. QED
  BY TypesInit, TypesStep, WorkerHoldsLockStep, <1>1, <1>2, PTL DEF Spec

-----------------------------------------------------------------------------
\* Until it is recorded, the latest message is newer than all that is recorded
\* and than what any other handler may record.
Newest ==
    latest \in Handlers =>
        /\ \A h \in Handlers \ {latest} : stamp[h] < stamp[latest]
        /\ pc[latest] = "contact" =>
               /\ row.interaction < stamp[latest]
               /\ \A p \in Procs : copy[p].interaction < stamp[latest]

LEMMA NewestStep == Types /\ Newest /\ [Next]_vars => Newest'
<1> SUFFICES ASSUME Types, Newest, [Next]_vars, latest' \in Handlers PROVE Newest'
  BY DEF Newest
<1> USE ConstantsAssumption DEF ConstantsAssumption, Procs, handlerVars, historyVars
<1>1. /\ stamp \in [Handlers -> Nat] /\ copy \in [Procs -> Row] /\ pc \in [Procs -> WorkerLocations \cup HandlerLocations]
      /\ row \in Row /\ row.interaction \in Nat /\ \A p \in Procs : copy[p].interaction \in Nat
  BY DEF Types, TypeOK, Time, Row
<1>2. \A b \in BOOLEAN :
         /\ IsRow([row EXCEPT !.active = b], row.interaction, row.agentLast)
         /\ IsRow([row EXCEPT !.inactive = b], row.interaction, row.agentLast)
         /\ IsRow([row EXCEPT !.agentLast = b], row.interaction, b)
         /\ \A t \in Time : IsRow([row EXCEPT !.interaction = t, !.agentLast = b], t, b)
  BY <1>1, RowUpdates
<1> USE BlankIsARow DEF IsRow
\* A step that records nothing, creates nothing and saves nothing.
<1>3. ASSUME UNCHANGED <<latest, stamp>>, row'.interaction = row.interaction,
             pc'[latest] = "contact" => pc[latest] = "contact",
             \A p \in Procs : copy'[p].interaction \in {0, copy[p].interaction, row.interaction}
      PROVE  Newest'
  BY <1>1, <1>3 DEF Newest
<1>4. ASSUME NEW h \in Handlers, NEW l \in {"contact", "agent"}, NEW b \in BOOLEAN,
             CreateMessage(h, l, b)
      PROVE  Newest'
  <2>1. latest' = h /\ stamp' = [stamp EXCEPT ![h] = now + 1] /\ now \in Nat
    BY <1>4 DEF CreateMessage, Types, TypeOK, Time
  <2>2. row' = row /\ copy' = [copy EXCEPT ![h] = row]
    BY <1>4 DEF CreateMessage, Remember
  <2>3. QED
    BY <1>1, <2>1, <2>2 DEF Newest, Types, TypeOK, CopiesArePast
<1>5. ASSUME NEW h \in Handlers, OnNewMessage(h) PROVE Newest'
  <2>1. CASE h = latest
    BY <1>1, <1>5, <2>1 DEF OnNewMessage, GoTo, Newest
  <2>2. CASE h # latest
    <3>1. row'.interaction \in {row.interaction, stamp[h]}
      BY <1>2, <1>5, stamp[h] \in Time DEF OnNewMessage, Types, TypeOK
    <3>2. QED
      BY <1>1, <1>5, <2>2, <3>1 DEF OnNewMessage, GoTo, Newest
  <2>3. QED
    BY <2>1, <2>2
<1>6. ASSUME NEW h \in Handlers, UpdateLastMessage(h) PROVE Newest'
  <2>1. row'.interaction = stamp[h]
    BY <1>2, <1>6, stamp[h] \in Time DEF UpdateLastMessage, Types, TypeOK
  <2>2. QED
    BY <1>1, <1>6, <2>1 DEF UpdateLastMessage, Forget, Newest
<1>7. ASSUME NEW p \in Procs, Write(p) PROVE Newest'
  BY <1>1, <1>7 DEF Write, Forget, After, Newest
<1>8. CASE Tick \/ Lapse \/ UNCHANGED vars
  BY <1>1, <1>3, <1>8 DEF Tick, Lapse, vars
<1>9. ASSUME NEW w \in Workers, Work(w) \/ Crash(w) PROVE Newest'
  <2>1. row'.interaction = row.interaction
    BY <1>2, <1>9 DEF Work, Acquire, ReadToWarn, SendWarning, SendSilent, FlagInactive,
                      ReadToClose, SendClosing, Refresh, Release, Crash
  <2>2. UNCHANGED <<latest, stamp>>
    BY <1>9 DEF Work, Acquire, ReadToWarn, SendWarning, FlagInactive, ReadToClose,
                SendClosing, Refresh, Release, Crash
  <2>3. \A p \in Procs \ {w} : pc'[p] = pc[p] /\ copy'[p] = copy[p]
    BY <1>1, <1>9 DEF Work, Acquire, ReadToWarn, SendWarning, FlagInactive, ReadToClose,
                      SendClosing, Refresh, Release, Crash, GoTo, Forget, Remember
  <2>4. copy'[w] \in {copy[w], row, Blank, [row EXCEPT !.active = FALSE]}
    BY <1>1, <1>9 DEF Work, Acquire, ReadToWarn, SendWarning, FlagInactive, ReadToClose,
                      SendClosing, Refresh, Release, Crash, GoTo, Forget, Remember
  <2>5. QED
    BY <1>2, <1>3, <2>1, <2>2, <2>3, <2>4
<1>10. ASSUME NEW p \in Procs, CheckActive(p) PROVE Newest'
  BY <1>1, <1>3, <1>10 DEF CheckActive, GoTo, Forget, After
<1>11. ASSUME NEW h \in Handlers, ResetInactivity(h) PROVE Newest'
  BY <1>1, <1>2, <1>3, <1>11 DEF ResetInactivity, Forget
<1>12. ASSUME NEW h \in Handlers, NEW a \in BOOLEAN, SaveRoom(h, a) PROVE Newest'
  BY <1>1, <1>2, <1>3, <1>12 DEF SaveRoom, Remember
<1>13. QED
  BY <1>4, <1>5, <1>6, <1>7, <1>8, <1>9, <1>10, <1>11, <1>12
     DEF Next, Request, Serve, ContactWrites, AgentWrites

\* An answer that is recorded stays the last word in the room and its copies.
Kept ==
    answered /\ ~exposed =>
        /\ ~row.agentLast
        /\ Holding \cap Workers = {}
        /\ \A h \in Handlers :
               /\ pc[h] # "agent"
               /\ pc[h] \in {"save", "write"} => ~copy[h].agentLast

\* While an answer is kept, no worker finds the room to warn or to close.
LEMMA KeptStep == Types /\ Newest /\ Kept /\ [Next]_vars => Kept'
<1> SUFFICES ASSUME Types, Newest, Kept, [Next]_vars, answered', ~exposed' PROVE Kept'
  BY DEF Kept
<1> USE ConstantsAssumption DEF ConstantsAssumption, Procs, handlerVars, historyVars
<1>1. /\ copy \in [Procs -> Row] /\ pc \in [Procs -> WorkerLocations \cup HandlerLocations]
      /\ row \in Row /\ row.interaction \in Nat /\ answered \in BOOLEAN /\ exposed \in BOOLEAN
      /\ row.agentLast \in BOOLEAN
      /\ stamp \in [Handlers -> Time] /\ \A h \in Handlers : stamp[h] \in Nat
  BY DEF Types, TypeOK, Time, Row
<1>2. \A b \in BOOLEAN :
         /\ IsRow([row EXCEPT !.active = b], row.interaction, row.agentLast)
         /\ IsRow([row EXCEPT !.inactive = b], row.interaction, row.agentLast)
         /\ \A t \in Time : IsRow([row EXCEPT !.interaction = t, !.agentLast = b], t, b)
  BY <1>1, RowUpdates
\* The answer is recorded: nobody holds an older row, and it takes effect.
<1>3. ASSUME NEW h \in Handlers, OnNewMessage(h), exposed PROVE Kept'
  <2>1. h = latest /\ Holding = {} /\ row.interaction < stamp[h]
    BY <1>3 DEF OnNewMessage, Newest
  <2>2. ~row'.agentLast
    BY <1>2, <1>3, <2>1, stamp[h] \in Time DEF OnNewMessage, IsRow, Types, TypeOK
  <2>3. \A p \in Procs : pc'[p] = IF p = h THEN "reset" ELSE pc[p]
    BY <1>1, <1>3 DEF OnNewMessage, GoTo
  <2>4. QED
    BY <2>1, <2>2, <2>3 DEF Kept, Holding
<1>4. ASSUME answered, ~exposed PROVE Kept'
  <2> USE DEF Kept, Holding
  <2>1. CASE Tick \/ Lapse \/ UNCHANGED vars
    BY <1>4, <2>1 DEF Tick, Lapse, vars
  <2>2. ASSUME NEW w \in Workers, Work(w) \/ Crash(w) PROVE Kept'
    <3>1. pc[w] \notin {"warning", "closing", "refresh"}
      BY <1>4
    <3>2. /\ ~SendWarning(w) /\ ~SendClosing(w) /\ ~Refresh(w)
          /\ ~MustWarn /\ ~MustClose
      BY <1>4, <3>1 DEF SendWarning, SendClosing, Refresh, MustWarn, MustClose
    <3>3. row'.agentLast = row.agentLast
      BY <1>1, <1>2, <2>2, <3>2 DEF Work, Acquire, ReadToWarn, FlagInactive, ReadToClose,
                                    Release, Crash, IsRow
    <3>4. \A p \in Procs \ {w} : pc'[p] = pc[p] /\ copy'[p] = copy[p]
      BY <1>1, <2>2, <3>2 DEF Work, Acquire, ReadToWarn, FlagInactive, ReadToClose,
                              Release, Crash, GoTo, Forget, Remember
    <3>5. pc'[w] \in {"warn", "close", "release", "idle"}
      BY <1>1, <2>2, <3>2 DEF Work, Acquire, ReadToWarn, FlagInactive, ReadToClose,
                              Release, Crash, GoTo, Forget, Remember
    <3>6. QED
      BY <1>4, <3>3, <3>4, <3>5
  <2>3. ASSUME NEW p \in Procs, CheckActive(p) \/ Write(p) PROVE Kept'
    <3>1. p \in Handlers /\ ~copy[p].agentLast
      BY <1>4, <2>3 DEF CheckActive, Write
    <3>2. QED
      BY <1>1, <1>4, <2>3, <3>1 DEF CheckActive, Write, GoTo, Forget, After
  <2>4. ASSUME NEW h \in Handlers, NEW a \in BOOLEAN, SaveRoom(h, a) PROVE Kept'
    <3>1. row' = row /\ copy' = [copy EXCEPT ![h] = [row EXCEPT !.active = a]]
          /\ pc' = [pc EXCEPT ![h] = "save"]
      BY <2>4 DEF SaveRoom, Remember
    <3>2. ~row.agentLast /\ ~copy'[h].agentLast
      BY <1>1, <1>2, <1>4, <3>1 DEF IsRow
    <3>3. QED
      BY <1>1, <1>4, <3>1, <3>2
  <2>5. ASSUME NEW h \in Handlers, OnNewMessage(h) PROVE Kept'
    <3>1. ~row'.agentLast
      BY <1>1, <1>2, <1>4, <2>5 DEF OnNewMessage, IsRow
    <3>2. QED
      BY <1>1, <1>4, <2>5, <3>1 DEF OnNewMessage, GoTo
  <2>6. ASSUME NEW h \in Handlers, ResetInactivity(h) PROVE Kept'
    <3>1. ~row'.agentLast
      BY <1>1, <1>2, <1>4, <2>6 DEF ResetInactivity, IsRow
    <3>2. QED
      BY <1>1, <1>4, <2>6, <3>1 DEF ResetInactivity, Forget
  <2>7. ASSUME NEW h \in Handlers, ContactWrites(h) \/ AgentWrites(h) \/ UpdateLastMessage(h)
        PROVE  FALSE
    BY <1>4, <2>7 DEF ContactWrites, AgentWrites, CreateMessage, UpdateLastMessage
  <2>8. QED
    BY <2>1, <2>2, <2>3, <2>4, <2>5, <2>6, <2>7 DEF Next, Request, Serve
<1>5. ASSUME NEW h \in Handlers, ContactWrites(h) \/ AgentWrites(h) PROVE FALSE
  BY <1>5 DEF ContactWrites, AgentWrites, CreateMessage
<1>6. (\E h \in Handlers : OnNewMessage(h)) \/ (answered /\ ~exposed)
  BY <1>1, <1>5 DEF Next, vars, Tick, Lapse, Work, Acquire, ReadToWarn, SendWarning,
         FlagInactive, ReadToClose, SendClosing, Refresh, Release, Crash, CheckActive, Write,
         Request, SaveRoom, Serve, ResetInactivity, UpdateLastMessage
<1>7. QED
  <2>1. CASE exposed
    BY <1>3, <1>6, <2>1
  <2>2. CASE ~exposed
    <3>1. answered
      BY <1>1, <1>5, <1>6 DEF OnNewMessage
    <3>2. QED
      BY <1>4, <2>2, <3>1
  <2>3. QED
    BY <2>1, <2>2

(***************************************************************************)
(* ContactKeepsOpen, for any number of workers and requests and whatever   *)
(* ticks overlap (Room.on_new_message against check_inactivity_rooms).     *)
(***************************************************************************)
THEOREM AnswersKeepOpen == Spec => ContactKeepsOpen
<1>1. Init => Newest /\ Kept
  <2> SUFFICES ASSUME Init PROVE Newest /\ Kept
    OBVIOUS
  <2>1. Newest
    BY ConstantsAssumption DEF ConstantsAssumption, Init, Newest
  <2>2. ~row.agentLast /\ \A p \in Procs : pc[p] = "idle"
    BY DEF Init
  <2>3. QED
    BY <2>1, <2>2 DEF Kept, Holding, Procs
<1>2. Kept => [answered /\ ~exposed => \A w \in Workers : ~Closes(w)]_vars
  BY DEF Kept, Holding, Closes
<1>3. QED
  BY TypesInit, TypesStep, NewestStep, KeptStep, <1>1, <1>2, PTL DEF Spec, ContactKeepsOpen
=============================================================================
