---------------------------- MODULE RequestProofs ----------------------------
(***************************************************************************)
(* Theorems about the requests that read a row, check it and write it a    *)
(* few statements later: pins (RoomPins), discussions (Discussions), the   *)
(* settings of a sector and its working hours (SectorSettings), bulk       *)
(* requests (BulkRooms), queues that the flows know (TopicSync), users and *)
(* the projects of an organisation (CachedRows), each by itself and then   *)
(* together, as MCRequests runs them; for any requests, rows and limits.   *)
(***************************************************************************)
EXTENDS MCRequests, FiniteSetTheorems, TLAPS

-----------------------------------------------------------------------------
(***************************************************************************)
(* Pins: type correctness.                                                 *)
(***************************************************************************)
\* The steps at which a request ends.
LastPinStep(q) ==
    RefusePin(q) \/ CreatePin(q) \/ Unpin(q) \/ WriteRoom(q) \/ ClosePinned(q) \/ RefuseSave(q)

LEMMA LastPinStepType ==
  ASSUME PinsTypeOK, NEW q \in PinRequests, LastPinStep(q)
  PROVE  PinsTypeOK'
<1>1. EndRequest(q) /\ doubled' = doubled
  BY DEF LastPinStep, RefusePin, CreatePin, Unpin, WriteRoom, ClosePinned, RefuseSave
<1>2. pinRoom[q] \in PinRooms /\ pinBy[q] \in PinAgents
  BY DEF LastPinStep, RefusePin, CreatePin, Unpin, WriteRoom, ClosePinned, RefuseSave, PinsTypeOK,
         Resting
<1>3. pins' \subseteq PinRooms \X PinAgents
  <2>1. pins' \subseteq pins \cup {<<pinRoom[q], pinBy[q]>>}
    BY DEF LastPinStep, RefusePin, CreatePin, Unpin, WriteRoom, ClosePinned, RefuseSave
  <2> QED BY <1>2, <2>1 DEF PinsTypeOK
<1>4. crossed' \subseteq PinRooms
  BY <1>2 DEF LastPinStep, RefusePin, CreatePin, Unpin, WriteRoom, ClosePinned, RefuseSave, PinsTypeOK,
         Cross
<1>5. roomAgent' \in [PinRooms -> Holders] /\ roomOpen' \in [PinRooms -> BOOLEAN]
  BY <1>2 DEF LastPinStep, RefusePin, CreatePin, Unpin, WriteRoom, ClosePinned, RefuseSave, PinsTypeOK
<1> QED BY <1>1, <1>3, <1>4, <1>5 DEF PinsTypeOK, EndRequest, Holders, Resting

(***************************************************************************)
(* Rows, pins and requests stay within the values the code gives them, and *)
(* a request passes Room.pin's checks only for the agent of an open room.  *)
(***************************************************************************)
THEOREM PinsType == PinsSpec => []PinsTypeOK
<1>1. PinsInit => PinsTypeOK
  BY DEF PinsInit, PinsTypeOK, Holders, Resting
<1>2. PinsTypeOK /\ [PinsNext]_pinVars => PinsTypeOK'
  <2> SUFFICES ASSUME PinsTypeOK, [PinsNext]_pinVars PROVE PinsTypeOK'
    OBVIOUS
  <2>1. CASE UNCHANGED pinVars
    BY <2>1 DEF pinVars, requestVars, PinsTypeOK
  <2>2. ASSUME NEW q \in PinRequests, NEW a \in PinAgents, NEW r \in PinRooms, GetRoom(q, r, a)
        PROVE  PinsTypeOK'
    BY <2>2 DEF GetRoom, PinsTypeOK, Holders, Resting
  <2>3. ASSUME NEW q \in PinRequests, NEW a \in Holders, StartSave(q, a)
        PROVE  PinsTypeOK'
    BY <2>3 DEF StartSave, PinsTypeOK, Resting
  <2>4. ASSUME NEW q \in PinRequests, CheckPin(q)
        PROVE  PinsTypeOK'
    BY <2>4 DEF CheckPin, MayPin, PinsTypeOK, Resting
  <2> QED BY <2>1, <2>2, <2>3, <2>4, LastPinStepType DEF PinsNext, LastPinStep
<1> QED BY <1>1, <1>2, PTL DEF PinsSpec

-----------------------------------------------------------------------------
(***************************************************************************)
(* Pins follow the agent.  As long as a room is not crossed, the instances *)
(* that requests hold of it say what the row says, and a save on its way   *)
(* has left only the pins of the agent it is about to write.               *)
(***************************************************************************)
InstanceIsFresh(q) ==
    pinAt[q] # Resting /\ pinRoom[q] \notin crossed =>
        /\ copyAgent[q] = roomAgent[pinRoom[q]]
        /\ copyOpen[q] = roomOpen[pinRoom[q]]
        /\ pinAt[q] = "saving" => \A pin \in pins : pin[1] = pinRoom[q] => pin[2] = wanted[q]

PinsSafe == (\A q \in PinRequests : InstanceIsFresh(q)) /\ PinsFollowAgent

\* A request that ends after it wrote its room alone, or wrote nothing.
LEMMA LastPinStepSafe ==
  ASSUME PinsTypeOK, PinsSafe, NEW q \in PinRequests, LastPinStep(q)
  PROVE  PinsSafe'
<1>1. PICK s \in PinRooms : pinRoom[q] = s /\ pinAt[q] # Resting
  BY DEF LastPinStep, RefusePin, CreatePin, Unpin, WriteRoom, ClosePinned, RefuseSave, PinsTypeOK,
         Resting
<1>2. /\ pinAt'[q] = Resting
      /\ \A p \in PinRequests \ {q} :
            /\ pinAt'[p] = pinAt[p] /\ pinRoom'[p] = pinRoom[p] /\ wanted'[p] = wanted[p]
            /\ copyAgent'[p] = copyAgent[p] /\ copyOpen'[p] = copyOpen[p]
  BY DEF LastPinStep, RefusePin, CreatePin, Unpin, WriteRoom, ClosePinned, RefuseSave, PinsTypeOK,
         EndRequest
<1>3. \/ UNCHANGED <<roomAgent, roomOpen, crossed>> /\ pins' \subseteq pins
      \/ /\ crossed \subseteq crossed'
         /\ \A p \in PinRequests \ {q} : pinAt[p] # Resting /\ pinRoom[p] = s => s \in crossed'
         /\ \A t \in PinRooms \ {s} : roomAgent'[t] = roomAgent[t] /\ roomOpen'[t] = roomOpen[t]
         /\ \A pin \in pins' : pin \in pins \/ pin[1] = s
         /\ \A pin \in pins' : pin[1] = s /\ s \notin crossed' =>
               roomOpen'[s] /\ roomAgent'[s] = pin[2]
  <2>1. CASE RefusePin(q) \/ Unpin(q) \/ RefuseSave(q)
    BY <2>1 DEF RefusePin, Unpin, RefuseSave
  <2>2. /\ InstanceIsFresh(q)
        /\ \A pin \in pins : pin[1] = s /\ s \notin crossed => roomOpen[s] /\ roomAgent[s] = pin[2]
    BY DEF PinsSafe, PinsFollowAgent
  <2>3. ASSUME Cross(q)
        PROVE  /\ crossed \subseteq crossed'
               /\ \A p \in PinRequests \ {q} : pinAt[p] # Resting /\ pinRoom[p] = s => s \in crossed'
    BY <2>3, <1>1 DEF Cross, HeldByAnother
  <2>4. CASE CreatePin(q)
    <3>1. s \notin crossed' => roomOpen[s] /\ roomAgent[s] = pinBy[q]
      BY <1>1, <2>2, <2>3, <2>4 DEF CreatePin, InstanceIsFresh, PinsTypeOK
    <3>2. /\ pins' = pins \cup {<<s, pinBy[q]>>}
          /\ roomAgent' = roomAgent /\ roomOpen' = roomOpen /\ Cross(q)
      BY <1>1, <2>4 DEF CreatePin
    <3> QED BY <2>2, <2>3, <3>1, <3>2
  <2>5. CASE WriteRoom(q)
    <3>1. s \notin crossed' => \A pin \in pins : pin[1] = s => copyOpen[q] /\ pin[2] = wanted[q]
      BY <1>1, <2>2, <2>3, <2>5 DEF WriteRoom, InstanceIsFresh
    <3>2. /\ roomAgent' = [roomAgent EXCEPT ![s] = wanted[q]]
          /\ roomOpen' = [roomOpen EXCEPT ![s] = copyOpen[q]]
          /\ pins' = pins /\ Cross(q)
      BY <1>1, <2>5 DEF WriteRoom
    <3> QED BY <2>3, <3>1, <3>2 DEF PinsTypeOK
  <2>6. CASE ClosePinned(q)
    <3>1. \A pin \in pins' : pin \in pins /\ pin[1] # s
      BY <1>1, <2>6 DEF ClosePinned, PinsOf, PinsTypeOK
    <3>2. /\ roomAgent' = [roomAgent EXCEPT ![s] = copyAgent[q]]
          /\ roomOpen' = [roomOpen EXCEPT ![s] = FALSE]
          /\ Cross(q)
      BY <1>1, <2>6 DEF ClosePinned
    <3> QED BY <2>3, <3>1, <3>2 DEF PinsTypeOK
  <2> QED BY <2>1, <2>4, <2>5, <2>6 DEF LastPinStep
<1>4. ASSUME NEW p \in PinRequests PROVE InstanceIsFresh(p)'
  <2>1. CASE p = q
    BY <2>1, <1>2 DEF InstanceIsFresh
  <2>2. CASE p # q
    BY <2>2, <1>2, <1>3 DEF PinsSafe, InstanceIsFresh, PinsTypeOK
  <2> QED BY <2>1, <2>2
<1>5. PinsFollowAgent'
  <2> SUFFICES ASSUME NEW pin \in pins', pin[1] \notin crossed'
               PROVE  roomOpen'[pin[1]] /\ roomAgent'[pin[1]] = pin[2]
    BY DEF PinsFollowAgent
  <2>1. CASE pin \in pins
    BY <2>1, <1>3 DEF PinsSafe, PinsFollowAgent, PinsTypeOK
  <2>2. CASE pin \notin pins
    BY <2>2, <1>3
  <2> QED BY <2>1, <2>2
<1> QED BY <1>4, <1>5 DEF PinsSafe

\* Nothing a request does before it ends disturbs what the others hold.
LEMMA PinsStepSafe ==
  ASSUME PinsTypeOK, PinsSafe, [PinsNext]_pinVars
  PROVE  PinsSafe'
<1>1. CASE UNCHANGED pinVars
  BY <1>1 DEF pinVars, requestVars, PinsSafe, InstanceIsFresh, PinsFollowAgent
<1>2. ASSUME NEW q \in PinRequests, NEW a \in PinAgents, NEW r \in PinRooms, GetRoom(q, r, a)
      PROVE  PinsSafe'
  BY <1>2 DEF GetRoom, PinsTypeOK, PinsSafe, InstanceIsFresh, PinsFollowAgent
<1>3. ASSUME NEW q \in PinRequests, NEW a \in Holders, StartSave(q, a)
      PROVE  PinsSafe'
  <2>1. PICK s \in PinRooms : pinRoom[q] = s
    BY <1>3 DEF StartSave, PinsTypeOK, Resting
  <2>2. /\ pinAt[q] = "held" /\ pinAt' = [pinAt EXCEPT ![q] = "saving"]
        /\ wanted' = [wanted EXCEPT ![q] = a]
        /\ pins' = IF a # copyAgent[q] THEN pins \ PinsOf(s) ELSE pins
        /\ UNCHANGED <<roomAgent, roomOpen, pinRoom, copyAgent, copyOpen, crossed>>
    BY <1>3, <2>1 DEF StartSave
  <2>3. /\ pins' \subseteq pins
        /\ a # copyAgent[q] => \A pin \in pins' : pin[1] # s
    BY <2>2 DEF PinsOf, PinsTypeOK
  <2>4. PinsFollowAgent'
    BY <2>2, <2>3 DEF PinsSafe, PinsFollowAgent
  <2>5. s \notin crossed => \A pin \in pins' : pin[1] = s => pin[2] = a
    BY <2>1, <2>2, <2>3 DEF PinsSafe, PinsFollowAgent, InstanceIsFresh, Resting
  <2>6. ASSUME NEW p \in PinRequests PROVE InstanceIsFresh(p)'
    <3>1. CASE p = q
      BY <2>1, <2>2, <2>5, <3>1 DEF PinsTypeOK, PinsSafe, InstanceIsFresh, Resting
    <3>2. CASE p # q
      BY <2>2, <2>3, <3>2 DEF PinsTypeOK, PinsSafe, InstanceIsFresh
    <3> QED BY <3>1, <3>2
  <2> QED BY <2>4, <2>6 DEF PinsSafe
<1>4. ASSUME NEW q \in PinRequests, CheckPin(q)
      PROVE  PinsSafe'
  BY <1>4 DEF CheckPin, PinsTypeOK, PinsSafe, InstanceIsFresh, PinsFollowAgent, Resting
<1> QED BY <1>1, <1>2, <1>3, <1>4, LastPinStepSafe DEF PinsNext, LastPinStep

(***************************************************************************)
(* A pin belongs to the agent of an open room: Room.save and Room.close    *)
(* delete the pins that would not, unless another request held an instance *)
(* of the room while it was written.                                       *)
(***************************************************************************)
THEOREM PinsFollow == PinsSpec => []PinsFollowAgent
<1>1. PinsInit => PinsSafe
  BY DEF PinsInit, PinsSafe, InstanceIsFresh, PinsFollowAgent
<1>2. PinsTypeOK /\ PinsSafe /\ [PinsNext]_pinVars => PinsSafe'
  BY PinsStepSafe
<1>3. PinsSafe => PinsFollowAgent
  BY DEF PinsSafe
<1> QED BY <1>1, <1>2, <1>3, PinsType, PTL DEF PinsSpec

-----------------------------------------------------------------------------
(***************************************************************************)
(* The limit of pins.  A request that has counted the pins of an agent     *)
(* finds one place left until it creates its own.                          *)
(***************************************************************************)
LivePins(a) == PinnedRooms(a) \ crossed

PlaceIsLeft ==
    /\ \A q \in PinRequests :
          pinAt[q] = "counted" /\ pinBy[q] \notin doubled => Cardinality(LivePins(pinBy[q])) < PinLimit
    /\ \A p, q \in PinRequests :
          p # q /\ pinAt[p] = "counted" /\ pinAt[q] = "counted" /\ pinBy[p] = pinBy[q]
             => pinBy[q] \in doubled
    /\ PinLimitHolds

LEMMA PinsAreFinite ==
  ASSUME NEW a \in PinAgents
  PROVE  /\ IsFiniteSet(PinnedRooms(a))
         /\ IsFiniteSet(LivePins(a)) /\ Cardinality(LivePins(a)) \in Nat
  BY PinAssumption, FS_Subset, FS_CardinalityType DEF LivePins, PinnedRooms

\* Fewer live pins of one agent are no more pins.
LEMMA FewerPins ==
  ASSUME NEW a \in PinAgents, LivePins(a)' \subseteq LivePins(a)
  PROVE  Cardinality(LivePins(a)') \in Nat /\ Cardinality(LivePins(a)') <= Cardinality(LivePins(a))
  BY PinsAreFinite, FS_Subset, FS_CardinalityType

LEMMA CreatePinLimit ==
  ASSUME PinsTypeOK, PlaceIsLeft, NEW q \in PinRequests, CreatePin(q)
  PROVE  PlaceIsLeft'
<1>1. PICK s \in PinRooms, b \in PinAgents : pinRoom[q] = s /\ pinBy[q] = b
  BY DEF CreatePin, PinsTypeOK, Resting
<1>2. /\ pinAt[q] = "counted" /\ pins' = pins \cup {<<s, b>>} /\ crossed \subseteq crossed'
      /\ doubled' = doubled
      /\ pinAt'[q] = Resting
      /\ \A p \in PinRequests \ {q} : pinAt'[p] = pinAt[p] /\ pinBy'[p] = pinBy[p]
  BY <1>1 DEF CreatePin, Cross, EndRequest, PinsTypeOK
<1>3. /\ LivePins(b)' \subseteq LivePins(b) \cup {s}
      /\ \A a \in PinAgents \ {b} : LivePins(a)' \subseteq LivePins(a)
  BY <1>2 DEF LivePins, PinnedRooms
<1>4. b \notin doubled => Cardinality(LivePins(b)') <= PinLimit
  <2>1. IsFiniteSet(LivePins(b)) /\ Cardinality(LivePins(b)) \in Nat
    BY PinsAreFinite
  <2>2. /\ IsFiniteSet(LivePins(b) \cup {s})
        /\ Cardinality(LivePins(b) \cup {s}) \in {Cardinality(LivePins(b)), Cardinality(LivePins(b)) + 1}
    BY <2>1, FS_AddElement
  <2>3. /\ Cardinality(LivePins(b)') \in Nat
        /\ Cardinality(LivePins(b)') <= Cardinality(LivePins(b) \cup {s})
    BY <1>3, <2>2, FS_Subset, FS_CardinalityType
  <2>4. b \notin doubled => Cardinality(LivePins(b)) < PinLimit
    BY <1>1, <1>2 DEF PlaceIsLeft
  <2> QED BY <2>1, <2>2, <2>3, <2>4, PinAssumption
<1>5. ASSUME NEW a \in PinAgents \ {b}
      PROVE  /\ Cardinality(LivePins(a)') \in Nat /\ Cardinality(LivePins(a)) \in Nat
             /\ Cardinality(LivePins(a)') <= Cardinality(LivePins(a))
  BY <1>3, FewerPins, PinsAreFinite
<1>6. PinLimitHolds'
  <2>1. ASSUME NEW a \in PinAgents, a \notin doubled PROVE Cardinality(LivePins(a)') <= PinLimit
    <3>1. Cardinality(LivePins(a)) <= PinLimit
      BY <2>1 DEF PlaceIsLeft, PinLimitHolds, LivePins
    <3> QED BY <1>4, <1>5, <2>1, <3>1, PinAssumption
  <2> QED BY <1>2, <2>1 DEF PinLimitHolds, LivePins
<1>7. ASSUME NEW p \in PinRequests, NEW a \in PinAgents, pinAt'[p] = "counted", pinBy'[p] = a,
             a \notin doubled'
      PROVE  Cardinality(LivePins(a)') < PinLimit
  <2>1. p # q /\ pinAt[p] = "counted" /\ pinBy[p] = a
    BY <1>2, <1>7 DEF Resting
  <2>2. a # b /\ Cardinality(LivePins(a)) < PinLimit
    BY <1>1, <1>2, <1>7, <2>1 DEF PlaceIsLeft
  <2> QED BY <1>5, <2>2, PinAssumption
<1>8. \A p \in PinRequests : pinAt'[p] = "counted" => pinBy'[p] \in PinAgents
  BY <1>2 DEF PinsTypeOK, Resting
<1>9. \A p, o \in PinRequests :
         p # o /\ pinAt'[p] = "counted" /\ pinAt'[o] = "counted" /\ pinBy'[p] = pinBy'[o]
            => pinBy'[o] \in doubled'
  BY <1>2 DEF PlaceIsLeft, Resting
<1> QED BY <1>6, <1>7, <1>8, <1>9 DEF PlaceIsLeft, LivePins

\* Steps that pin nothing take no place.
LEMMA OtherPinLimit ==
  ASSUME PinsTypeOK, PlaceIsLeft, pins' \subseteq pins, crossed \subseteq crossed', doubled' = doubled,
         \A p \in PinRequests :
            pinAt'[p] = "counted" => pinAt[p] = "counted" /\ pinBy'[p] = pinBy[p]
  PROVE  PlaceIsLeft'
<1>1. ASSUME NEW a \in PinAgents
      PROVE  /\ Cardinality(LivePins(a)') \in Nat /\ Cardinality(LivePins(a)) \in Nat
             /\ Cardinality(LivePins(a)') <= Cardinality(LivePins(a))
  <2>1. LivePins(a)' \subseteq LivePins(a)
    BY DEF LivePins, PinnedRooms
  <2> QED BY <2>1, FewerPins, PinsAreFinite
<1>2. PinLimitHolds'
  <2>1. ASSUME NEW a \in PinAgents, a \notin doubled PROVE Cardinality(LivePins(a)') <= PinLimit
    <3>1. Cardinality(LivePins(a)) <= PinLimit
      BY <2>1 DEF PlaceIsLeft, PinLimitHolds, LivePins
    <3> QED BY <1>1, <3>1, PinAssumption
  <2> QED BY <2>1 DEF PinLimitHolds, LivePins
<1>3. ASSUME NEW p \in PinRequests, NEW a \in PinAgents, pinAt'[p] = "counted", pinBy'[p] = a,
             a \notin doubled'
      PROVE  Cardinality(LivePins(a)') < PinLimit
  <2>1. Cardinality(LivePins(a)) < PinLimit
    BY <1>3 DEF PlaceIsLeft
  <2> QED BY <1>1, <2>1, PinAssumption
<1>4. \A p \in PinRequests : pinAt'[p] = "counted" => pinBy'[p] \in PinAgents
  BY DEF PinsTypeOK, Resting
<1>5. \A p, o \in PinRequests :
         p # o /\ pinAt'[p] = "counted" /\ pinAt'[o] = "counted" /\ pinBy'[p] = pinBy'[o]
            => pinBy'[o] \in doubled'
  BY DEF PlaceIsLeft
<1> QED BY <1>2, <1>3, <1>4, <1>5 DEF PlaceIsLeft, LivePins

\* A request that finds a place: the open pinned rooms are no fewer than the live pins.
LEMMA CheckPinLimit ==
  ASSUME PinsTypeOK, PinsSafe, PlaceIsLeft, NEW q \in PinRequests, CheckPin(q)
  PROVE  PlaceIsLeft'
<1>1. PICK b \in PinAgents : pinBy[q] = b
  BY DEF CheckPin, PinsTypeOK, Resting
<1>2. /\ pinAt[q] = "held" /\ pinAt' = [pinAt EXCEPT ![q] = "counted"]
      /\ doubled' = IF \E other \in PinRequests : pinAt[other] = "counted" /\ pinBy[other] = b
                    THEN doubled \cup {b} ELSE doubled
      /\ UNCHANGED <<pins, crossed, pinBy>>
      /\ Cardinality({r \in PinnedRooms(b) : roomOpen[r]}) < PinLimit
  BY <1>1 DEF CheckPin, MayPin, BelowPinLimit
<1>3. Cardinality(LivePins(b)) < PinLimit
  <2>1. LivePins(b) \subseteq {r \in PinnedRooms(b) : roomOpen[r]}
    BY DEF PinsSafe, PinsFollowAgent, LivePins, PinnedRooms
  <2>2. IsFiniteSet({r \in PinnedRooms(b) : roomOpen[r]})
    BY PinsAreFinite, FS_Subset
  <2> QED BY <1>2, <2>1, <2>2, FS_Subset, FS_CardinalityType, PinAssumption
<1>4. \A a : LivePins(a)' = LivePins(a)
  BY <1>2 DEF LivePins, PinnedRooms
<1>5. PinLimitHolds'
  BY <1>2 DEF PlaceIsLeft, PinLimitHolds, PinnedRooms
<1>6. ASSUME NEW p \in PinRequests, NEW a \in PinAgents, pinAt'[p] = "counted", pinBy'[p] = a,
             a \notin doubled'
      PROVE  Cardinality(LivePins(a)') < PinLimit
  BY <1>1, <1>2, <1>3, <1>4, <1>6 DEF PlaceIsLeft, PinsTypeOK
<1>7. \A p, o \in PinRequests :
         p # o /\ pinAt'[p] = "counted" /\ pinAt'[o] = "counted" /\ pinBy'[p] = pinBy'[o]
            => pinBy'[o] \in doubled'
  BY <1>1, <1>2 DEF PlaceIsLeft, PinsTypeOK
<1>8. \A p \in PinRequests : pinAt'[p] = "counted" => pinBy'[p] \in PinAgents
  BY <1>1, <1>2 DEF PinsTypeOK, Resting
<1> QED BY <1>5, <1>6, <1>7, <1>8 DEF PlaceIsLeft, LivePins

LEMMA PinsStepLimit ==
  ASSUME PinsTypeOK, PinsSafe, PlaceIsLeft, [PinsNext]_pinVars
  PROVE  PlaceIsLeft'
<1>1. CASE UNCHANGED pinVars
  BY <1>1, OtherPinLimit DEF pinVars, requestVars
<1>2. ASSUME NEW q \in PinRequests,
             \/ RefusePin(q) \/ Unpin(q) \/ WriteRoom(q) \/ ClosePinned(q) \/ RefuseSave(q)
             \/ \E a \in PinAgents, r \in PinRooms : GetRoom(q, r, a)
             \/ \E a \in Holders : StartSave(q, a)
      PROVE  PlaceIsLeft'
  <2>1. pins' \subseteq pins /\ crossed \subseteq crossed' /\ doubled' = doubled
    BY <1>2 DEF RefusePin, Unpin, WriteRoom, ClosePinned, RefuseSave, GetRoom, StartSave, Cross, PinsOf
  <2>2. \A p \in PinRequests :
           pinAt'[p] = "counted" => pinAt[p] = "counted" /\ pinBy'[p] = pinBy[p]
    BY <1>2 DEF RefusePin, Unpin, WriteRoom, ClosePinned, RefuseSave, GetRoom, StartSave, EndRequest,
           PinsTypeOK, Resting
  <2> QED BY <2>1, <2>2, OtherPinLimit
<1> QED BY <1>1, <1>2, CreatePinLimit, CheckPinLimit DEF PinsNext

(***************************************************************************)
(* No agent has more than MAX_ROOM_PINS_LIMIT pins, whatever is closed or  *)
(* transferred meanwhile, unless two of his pins were checked at once      *)
(* (Room.pin counts and creates in separate statements).                   *)
(***************************************************************************)
THEOREM PinLimitKept == PinsSpec => []PinLimitHolds
<1>1. PinsInit => PinsSafe /\ PlaceIsLeft
  <2> SUFFICES ASSUME PinsInit PROVE PinsSafe /\ PlaceIsLeft
    OBVIOUS
  <2>1. PinsSafe
    BY DEF PinsInit, PinsSafe, InstanceIsFresh, PinsFollowAgent
  <2>2. \A a \in PinAgents : PinnedRooms(a) \ crossed = {}
    BY DEF PinsInit, PinnedRooms
  <2>3. PinLimitHolds
    BY <2>2, FS_EmptySet, PinAssumption DEF PinLimitHolds
  <2> QED BY <2>1, <2>3 DEF PinsInit, PlaceIsLeft, Resting
<1>2. PinsTypeOK /\ (PinsSafe /\ PlaceIsLeft) /\ [PinsNext]_pinVars => (PinsSafe /\ PlaceIsLeft)'
  BY PinsStepSafe, PinsStepLimit
<1>3. PlaceIsLeft => PinLimitHolds
  BY DEF PlaceIsLeft
<1> QED BY <1>1, <1>2, <1>3, PinsType, PTL DEF PinsSpec

(***************************************************************************)
(* Pins follow the agent of a room and stay within his limit, whatever     *)
(* pins, transfers and closures are under way (Room.pin, Room.save).       *)
(***************************************************************************)
THEOREM PinsAreKept == PinsSpec => []PinsHold
<1>1. PinsFollowAgent /\ PinLimitHolds => PinsHold
  BY DEF PinsHold
<1> QED BY <1>1, PinsFollow, PinLimitKept, PTL

-----------------------------------------------------------------------------
(***************************************************************************)
(* Discussions: type correctness.                                          *)
(***************************************************************************)
\* Requests that begin.
FirstTalkStep(q) ==
    \E u \in Members :
        \/ CheckNoneOpen(q, u) \/ AskToClose(q, u) \/ AskToRewrite(q, u)
        \/ \E v \in Members : AskToAdd(q, u, v)

\* Requests that end.
LastTalkStep(q) ==
    \/ CreateOther(q) \/ RefuseDiscussion(q) \/ RefuseUser(q) \/ CollideOnUser(q)
    \/ LeaveQueue(q) \/ StayQueued(q) \/ CloseDiscussion(q) \/ RewriteDiscussion(q)
    \/ CollideOnActive(q) \/ CutTalk(q)

LEMMA TalkCases ==
  ASSUME [DiscussionsNext]_discussionVars
  PROVE  \/ CloseOther \/ UNCHANGED discussionVars
         \/ \E q \in TalkRequests :
               \/ FirstTalkStep(q) \/ LastTalkStep(q)
               \/ CreateDiscussion(q) \/ Admit(q) \/ AddUser(q)
  BY DEF DiscussionsNext, FirstTalkStep, LastTalkStep

\* How a request begins, and with which instance.
Begins(q, spot, v) ==
    /\ talkAt' = [talkAt EXCEPT ![q] = spot]
    /\ talkWith' = [talkWith EXCEPT ![q] = v]
    /\ spot # "free" => Created
    /\ spot \in {"join", "free"} => v \in Members
    /\ \/ spot = "free" /\ UNCHANGED <<copyActive, copyQueued>>
       \/ /\ copyActive' = [copyActive EXCEPT ![q] = active]
          /\ copyQueued' = [copyQueued EXCEPT ![q] = queued]

LEMMA FirstTalkStepBegins ==
  ASSUME NEW q \in TalkRequests, FirstTalkStep(q)
  PROVE  /\ UNCHANGED <<talkRows, talkHistory>>
         /\ talkAt[q] = "none"
         /\ \E spot \in {"free", "join", "close", "rewrite"}, v \in Members \cup {Nobody} : Begins(q, spot, v)
         /\ \E u : byManager' = [byManager EXCEPT ![q] = u \in Managers]
<1>1. ASSUME NEW u \in Members, CheckNoneOpen(q, u)
      PROVE  Begins(q, "free", u)
  BY <1>1 DEF CheckNoneOpen, BeginTalk, Begins
<1>2. ASSUME NEW u \in Members, AskToClose(q, u)
      PROVE  Begins(q, "close", Nobody)
  BY <1>2 DEF AskToClose, HoldDiscussion, BeginTalk, Begins
<1>3. ASSUME NEW u \in Members, AskToRewrite(q, u)
      PROVE  Begins(q, "rewrite", Nobody)
  BY <1>3 DEF AskToRewrite, HoldDiscussion, BeginTalk, Begins
<1>4. ASSUME NEW u \in Members, NEW v \in Members, AskToAdd(q, u, v)
      PROVE  Begins(q, "join", v)
  BY <1>4 DEF AskToAdd, HoldDiscussion, BeginTalk, Begins
<1>5. \E spot \in {"free", "join", "close", "rewrite"}, v \in Members \cup {Nobody} : Begins(q, spot, v)
  BY <1>1, <1>2, <1>3, <1>4 DEF FirstTalkStep
<1>6. UNCHANGED <<talkRows, talkHistory>> /\ talkAt[q] = "none"
  BY DEF FirstTalkStep, CheckNoneOpen, AskToClose, AskToRewrite, AskToAdd, HoldDiscussion, BeginTalk
<1>7. \E u : byManager' = [byManager EXCEPT ![q] = u \in Managers]
  BY Zenon DEF FirstTalkStep, CheckNoneOpen, AskToClose, AskToRewrite, AskToAdd, HoldDiscussion, BeginTalk
<1> QED BY <1>5, <1>6, <1>7

\* The types of the variables that hold truth values, and of the others.
TalkFlags ==
    /\ active \in BOOLEAN /\ otherActive \in BOOLEAN /\ queued \in BOOLEAN
    /\ requeued \in BOOLEAN /\ helped \in BOOLEAN /\ cut \in BOOLEAN

FlagsFit ==
    /\ ~(active /\ otherActive)
    /\ active \/ queued \/ added # {} => Created

TalkState ==
    /\ creator \in Members \cup {Nobody}
    /\ added \subseteq Members
    /\ talkAt \in [TalkRequests -> Joining \cup {"none", "free", "close", "rewrite"}]
    /\ \A q \in TalkRequests : talkAt[q] \notin {"none", "free"} => Created
    /\ talkWith \in [TalkRequests -> Members \cup {Nobody}]
    /\ \A q \in TalkRequests : talkAt[q] \in Joining \cup {"free"} => talkWith[q] \in Members
    /\ talkFaults \in 0..MaxTalkFaults

Copies ==
    /\ byManager \in [TalkRequests -> BOOLEAN]
    /\ copyActive \in [TalkRequests -> BOOLEAN]
    /\ copyQueued \in [TalkRequests -> BOOLEAN]

LEMMA TypeParts == DiscussionsTypeOK <=> TalkFlags /\ FlagsFit /\ TalkState /\ Copies
  BY Zenon DEF DiscussionsTypeOK, TalkFlags, FlagsFit, TalkState, Copies

LEMMA TypePartsAfter == TalkFlags' /\ FlagsFit' /\ TalkState' /\ Copies' => DiscussionsTypeOK'
  BY Zenon DEF DiscussionsTypeOK, TalkFlags, FlagsFit, TalkState, Copies

LEMMA LastTalkStepType ==
  ASSUME DiscussionsTypeOK, NEW q \in TalkRequests, LastTalkStep(q)
  PROVE  DiscussionsTypeOK'
<1>1. EndTalk(q) /\ UNCHANGED <<creator, added, helped>>
  BY DEF LastTalkStep, CreateOther, RefuseDiscussion, RefuseUser, CollideOnUser, LeaveQueue, StayQueued,
         CloseDiscussion, RewriteDiscussion, CollideOnActive, CutTalk, talkRows, talkHistory
<1>2. copyActive[q] \in BOOLEAN /\ copyQueued[q] \in BOOLEAN /\ TalkFlags
  BY TypeParts DEF Copies
<1>3. TalkFlags'
  BY Zenon, <1>1, <1>2
  DEF LastTalkStep, CreateOther, RefuseDiscussion, RefuseUser, CollideOnUser, LeaveQueue, StayQueued,
      CloseDiscussion, RewriteDiscussion, CollideOnActive, CutTalk, talkRows, talkHistory, TalkFlags
<1>4. FlagsFit'
  <2>1. FlagsFit /\ TalkState
    BY TypeParts
  <2>2. CASE CreateOther(q)
    BY <1>1, <2>1, <2>2 DEF CreateOther, FlagsFit, Created
  <2>3. CASE RefuseDiscussion(q) \/ RefuseUser(q) \/ CollideOnUser(q) \/ StayQueued(q) \/ CutTalk(q)
    BY <1>1, <2>1, <2>3 DEF RefuseDiscussion, RefuseUser, CollideOnUser, StayQueued, CutTalk, talkRows,
           FlagsFit, Created
  <2>4. CASE LeaveQueue(q)
    BY <1>1, <2>1, <2>4 DEF LeaveQueue, TalkState, FlagsFit, Created
  <2>5. CASE CloseDiscussion(q)
    BY <1>1, <2>1, <2>5 DEF CloseDiscussion, TalkState, FlagsFit, Created
  <2>6. CASE RewriteDiscussion(q)
    BY <1>1, <2>1, <2>6 DEF RewriteDiscussion, TalkState, FlagsFit, Created
  <2>7. CASE CollideOnActive(q)
    BY <1>1, <2>1, <2>7 DEF CollideOnActive, talkRows, FlagsFit, Created
  <2> QED BY <2>2, <2>3, <2>4, <2>5, <2>6, <2>7 DEF LastTalkStep
<1>5. talkFaults' \in 0..MaxTalkFaults
  <2>1. talkFaults' = talkFaults \/ (talkFaults < MaxTalkFaults /\ talkFaults' = talkFaults + 1)
    BY DEF LastTalkStep, CreateOther, RefuseDiscussion, RefuseUser, CollideOnUser, LeaveQueue, StayQueued,
           CloseDiscussion, RewriteDiscussion, CollideOnActive, CutTalk, talkHistory
  <2> QED BY <2>1, TypeParts, DiscussionAssumption DEF TalkState
<1>6. TalkState'
  BY <1>1, <1>5, TypeParts DEF TalkState, EndTalk, Created, Joining
<1>7. Copies'
  BY <1>1, TypeParts DEF Copies, EndTalk
<1> QED BY <1>3, <1>4, <1>6, <1>7, TypePartsAfter

(***************************************************************************)
(* The rows and the requests stay within the values the code gives them,   *)
(* and a room never has two active discussions.                            *)
(***************************************************************************)
THEOREM DiscussionsType == DiscussionsSpec => []DiscussionsTypeOK
<1>1. DiscussionsInit => DiscussionsTypeOK
  <2> SUFFICES ASSUME DiscussionsInit PROVE DiscussionsTypeOK
    OBVIOUS
  <2>1. TalkFlags /\ FlagsFit
    BY Zenon DEF DiscussionsInit, TalkFlags, FlagsFit
  <2>2. TalkState
    BY DiscussionAssumption DEF DiscussionsInit, TalkState, Joining
  <2>3. Copies
    BY DEF DiscussionsInit, Copies
  <2> QED BY <2>1, <2>2, <2>3, TypeParts
<1>2. DiscussionsTypeOK /\ [DiscussionsNext]_discussionVars => DiscussionsTypeOK'
  <2> SUFFICES ASSUME DiscussionsTypeOK, [DiscussionsNext]_discussionVars PROVE DiscussionsTypeOK'
    OBVIOUS
  <2> USE TypeParts, TypePartsAfter
  <2>1. CASE UNCHANGED discussionVars
    BY <2>1 DEF discussionVars, talkRows, talkRequestVars, talkHistory, DiscussionsTypeOK, Created
  <2>2. CASE CloseOther
    <3>1. TalkFlags'
      BY <2>2, Zenon DEF CloseOther, talkHistory, TalkFlags
    <3>2. FlagsFit' /\ TalkState' /\ Copies'
      BY <2>2 DEF CloseOther, talkRequestVars, talkHistory, FlagsFit, TalkState, Copies, Created
    <3> QED BY <3>1, <3>2
  <2>3. ASSUME NEW q \in TalkRequests, FirstTalkStep(q) PROVE DiscussionsTypeOK'
    <3>1. PICK spot \in {"free", "join", "close", "rewrite"}, v \in Members \cup {Nobody} : Begins(q, spot, v)
      BY <2>3, FirstTalkStepBegins
    <3>2. UNCHANGED <<talkRows, talkHistory>>
      BY <2>3, FirstTalkStepBegins
    <3>3. TalkFlags'
      BY <3>2 DEF talkRows, talkHistory, TalkFlags
    <3>4. FlagsFit'
      BY <3>2 DEF talkRows, FlagsFit, Created
    <3>5. TalkState'
      BY <3>1, <3>2 DEF talkRows, talkHistory, Begins, TalkState, Created, Joining
    <3>6. Copies'
      <4>1. active \in BOOLEAN /\ queued \in BOOLEAN
        BY DEF TalkFlags
      <4>2. PICK u : byManager' = [byManager EXCEPT ![q] = u \in Managers]
        BY <2>3, FirstTalkStepBegins
      <4>3. byManager' \in [TalkRequests -> BOOLEAN]
        BY <4>2 DEF Copies
      <4> QED BY <3>1, <4>1, <4>3 DEF Begins, Copies
    <3> QED BY <3>3, <3>4, <3>5, <3>6
  <2>4. ASSUME NEW q \in TalkRequests, CreateDiscussion(q) PROVE DiscussionsTypeOK'
    <3>1. TalkFlags'
      BY <2>4, Zenon DEF CreateDiscussion, talkHistory, TalkFlags
    <3>2. FlagsFit'
      <4>1. Created' /\ ~otherActive'
        BY <2>4, DiscussionAssumption DEF CreateDiscussion, TalkState, Created
      <4> QED BY <4>1 DEF FlagsFit
    <3>3. TalkState'
      BY <2>4, DiscussionAssumption DEF CreateDiscussion, talkHistory, TalkState, Created, Joining
    <3>4. Copies'
      BY <2>4 DEF CreateDiscussion, Copies
    <3> QED BY <3>1, <3>2, <3>3, <3>4
  <2>5. ASSUME NEW q \in TalkRequests, Admit(q) PROVE DiscussionsTypeOK'
    <3>1. TalkFlags'
      BY <2>5, Zenon DEF Admit, talkRows, TalkFlags
    <3>2. FlagsFit' /\ TalkState' /\ Copies'
      BY <2>5 DEF Admit, talkRows, FlagsFit, TalkState, Copies, Created, Joining
    <3> QED BY <3>1, <3>2
  <2>6. ASSUME NEW q \in TalkRequests, AddUser(q) PROVE DiscussionsTypeOK'
    <3>1. TalkFlags'
      BY <2>6, Zenon DEF AddUser, talkHistory, TalkFlags
    <3>2. FlagsFit' /\ TalkState' /\ Copies'
      BY <2>6 DEF AddUser, talkHistory, FlagsFit, TalkState, Copies, Created, Joining
    <3> QED BY <3>1, <3>2
  <2> QED BY <2>1, <2>2, <2>3, <2>4, <2>5, <2>6, LastTalkStepType, TalkCases
<1> QED BY <1>1, <1>2, PTL DEF DiscussionsSpec

-----------------------------------------------------------------------------
(***************************************************************************)
(* The limit of users.  As long as nobody was helped, the one request that *)
(* was admitted finds a place left.                                        *)
(***************************************************************************)
PlaceForOne ==
    \A q \in TalkRequests :
        talkAt[q] = "insert" =>
            /\ Cardinality(added) < TalkLimit
            /\ \A p \in TalkRequests \ {q} : talkAt[p] # "insert"

WithinLimit == helped \/ (Cardinality(added) <= TalkLimit /\ PlaceForOne)

LEMMA AddedIsFinite ==
  ASSUME DiscussionsTypeOK
  PROVE  IsFiniteSet(added) /\ Cardinality(added) \in Nat
  BY DiscussionAssumption, FS_Subset, FS_CardinalityType DEF DiscussionsTypeOK

LEMMA WithinLimitStep ==
  ASSUME DiscussionsTypeOK, WithinLimit, [DiscussionsNext]_discussionVars
  PROVE  WithinLimit'
<1>1. CASE UNCHANGED discussionVars \/ CloseOther
  BY <1>1 DEF discussionVars, talkRows, talkRequestVars, talkHistory, CloseOther, WithinLimit, PlaceForOne
<1>2. ASSUME NEW q \in TalkRequests, FirstTalkStep(q) PROVE WithinLimit'
  <2>1. UNCHANGED <<added, helped>> /\ \E spot : spot # "insert" /\ talkAt' = [talkAt EXCEPT ![q] = spot]
    BY <1>2, FirstTalkStepBegins DEF Begins, talkRows, talkHistory
  <2> QED BY <2>1 DEF DiscussionsTypeOK, WithinLimit, PlaceForOne
<1>3. ASSUME NEW q \in TalkRequests, LastTalkStep(q) PROVE WithinLimit'
  <2>1. UNCHANGED <<added, helped>> /\ talkAt' = [talkAt EXCEPT ![q] = "none"]
    BY <1>3 DEF LastTalkStep, CreateOther, RefuseDiscussion, RefuseUser, CollideOnUser, LeaveQueue,
           StayQueued, CloseDiscussion, RewriteDiscussion, CollideOnActive, CutTalk, EndTalk, talkRows,
           talkHistory
  <2> QED BY <2>1 DEF DiscussionsTypeOK, WithinLimit, PlaceForOne
<1>4. ASSUME NEW q \in TalkRequests, CreateDiscussion(q) PROVE WithinLimit'
  BY <1>4 DEF CreateDiscussion, talkHistory, DiscussionsTypeOK, WithinLimit, PlaceForOne
<1>5. ASSUME NEW q \in TalkRequests, Admit(q) PROVE WithinLimit'
  <2>1. /\ added' = added /\ talkAt' = [talkAt EXCEPT ![q] = "insert"]
        /\ byManager[q] \/ Cardinality(added) < TalkLimit
    BY <1>5 DEF Admit, talkRows, CanAddUser
  <2>2. \/ helped'
        \/ ~helped /\ ~byManager[q] /\ \A p \in TalkRequests : talkAt[p] # "insert"
    BY <1>5, Zenon DEF Admit
  <2> QED BY <2>1, <2>2 DEF DiscussionsTypeOK, WithinLimit, PlaceForOne
<1>6. ASSUME NEW q \in TalkRequests, AddUser(q) PROVE WithinLimit'
  <2>1. /\ talkAt[q] = "insert" /\ talkAt' = [talkAt EXCEPT ![q] = "joined"]
        /\ talkWith[q] \notin added /\ added' = added \cup {talkWith[q]} /\ helped' = helped
    BY <1>6 DEF AddUser, talkHistory
  <2>2. Cardinality(added') = Cardinality(added) + 1
    BY <2>1, AddedIsFinite, FS_AddElement
  <2>3. Cardinality(added) \in Nat /\ TalkLimit \in Nat
    BY AddedIsFinite, DiscussionAssumption
  <2> QED BY <2>1, <2>2, <2>3 DEF DiscussionsTypeOK, WithinLimit, PlaceForOne
<1> QED BY <1>1, <1>2, <1>3, <1>4, <1>5, <1>6, TalkCases

(***************************************************************************)
(* A discussion has at most DISCUSSION_AGENTS_LIMIT users, unless two were *)
(* admitted at once or a manager added one (can_add_user counts before the *)
(* row is created).                                                        *)
(***************************************************************************)
THEOREM TalkLimitKept == DiscussionsSpec => []TalkWithinLimit
<1>1. DiscussionsInit => WithinLimit
  BY FS_EmptySet, DiscussionAssumption DEF DiscussionsInit, WithinLimit, PlaceForOne
<1>2. DiscussionsTypeOK /\ WithinLimit /\ [DiscussionsNext]_discussionVars => WithinLimit'
  BY WithinLimitStep
<1>3. WithinLimit => TalkWithinLimit
  BY DEF WithinLimit, TalkWithinLimit
<1> QED BY <1>1, <1>2, <1>3, DiscussionsType, PTL DEF DiscussionsSpec

-----------------------------------------------------------------------------
(***************************************************************************)
(* The queue.  An instance that is not queued was read from a row that was *)
(* not, so the last request to join knows that it has to save.             *)
(***************************************************************************)
CopyIsQueued ==
    \A q \in TalkRequests : talkAt[q] \notin {"none", "free"} /\ queued => copyQueued[q] \/ requeued

QueueIsWatched ==
    queued =>
        \/ Cardinality(added) <= 1
        \/ cut \/ requeued
        \/ \E q \in TalkRequests : talkAt[q] = "joined"

LEMMA QueueStep ==
  ASSUME DiscussionsTypeOK, CopyIsQueued, QueueIsWatched, [DiscussionsNext]_discussionVars
  PROVE  CopyIsQueued' /\ QueueIsWatched'
<1>1. CASE UNCHANGED discussionVars \/ CloseOther
  BY <1>1
  DEF discussionVars, talkRows, talkRequestVars, talkHistory, CloseOther, CopyIsQueued, QueueIsWatched
<1>2. ASSUME NEW q \in TalkRequests, FirstTalkStep(q) PROVE CopyIsQueued' /\ QueueIsWatched'
  <2>1. PICK spot \in {"free", "join", "close", "rewrite"}, v \in Members \cup {Nobody} : Begins(q, spot, v)
    BY <1>2, FirstTalkStepBegins
  <2>2. UNCHANGED <<talkRows, talkHistory>> /\ talkAt[q] = "none"
    BY <1>2, FirstTalkStepBegins
  <2>3. CopyIsQueued'
    BY <2>1, <2>2 DEF Begins, talkRows, talkHistory, DiscussionsTypeOK, CopyIsQueued
  <2>4. QueueIsWatched'
    BY <2>1, <2>2 DEF Begins, talkRows, talkHistory, DiscussionsTypeOK, QueueIsWatched
  <2> QED BY <2>3, <2>4
<1>3. ASSUME NEW q \in TalkRequests, LastTalkStep(q) PROVE CopyIsQueued' /\ QueueIsWatched'
  <2>1. /\ added' = added
        /\ talkAt' = [talkAt EXCEPT ![q] = "none"]
        /\ copyQueued' = [copyQueued EXCEPT ![q] = FALSE]
    BY <1>3 DEF LastTalkStep, CreateOther, RefuseDiscussion, RefuseUser, CollideOnUser, LeaveQueue,
           StayQueued, CloseDiscussion, RewriteDiscussion, CollideOnActive, CutTalk, EndTalk, talkRows
  <2>2. /\ requeued => requeued'
        /\ cut => cut'
        /\ queued' => queued \/ requeued'
        /\ talkAt[q] = "joined" => cut' \/ ~queued' \/ StayQueued(q)
    <3>1. CASE CreateOther(q) \/ RefuseDiscussion(q) \/ RefuseUser(q) \/ CollideOnUser(q) \/ StayQueued(q)
      BY <3>1 DEF CreateOther, RefuseDiscussion, RefuseUser, CollideOnUser, StayQueued, talkRows, talkHistory
    <3>2. CASE LeaveQueue(q)
      BY <3>2 DEF LeaveQueue, talkHistory
    <3>3. CASE CloseDiscussion(q) \/ RewriteDiscussion(q)
      <4>1. talkAt[q] # "joined"
        BY <3>3 DEF CloseDiscussion, RewriteDiscussion
      <4>2. /\ requeued => requeued'
            /\ cut => cut'
            /\ queued' => queued \/ requeued'
        <5>1. /\ requeued' = (requeued \/ (copyQueued[q] /\ ~queued))
              /\ queued' = copyQueued[q] /\ cut' = cut
          BY <3>3 DEF CloseDiscussion, RewriteDiscussion, StaleQueued
        <5>2. requeued \in BOOLEAN /\ queued \in BOOLEAN /\ copyQueued[q] \in BOOLEAN
          BY TypeParts DEF TalkFlags, Copies
        <5> QED BY <5>1, <5>2
      <4> QED BY <4>1, <4>2
    <3>4. CASE CollideOnActive(q)
      BY <3>4, Zenon DEF CollideOnActive, talkRows
    <3>5. CASE CutTalk(q)
      BY <3>5 DEF CutTalk, talkRows
    <3> QED BY <1>3, <3>1, <3>2, <3>3, <3>4, <3>5 DEF LastTalkStep
  <2>3. CopyIsQueued'
    BY <2>1, <2>2 DEF DiscussionsTypeOK, CopyIsQueued
  <2>4. StayQueued(q) /\ queued => Cardinality(added) <= 1 \/ requeued
    <3>1. Cardinality(added) \in Nat
      BY AddedIsFinite
    <3> QED BY <3>1 DEF StayQueued, HasCompany, CopyIsQueued
  <2>5. QueueIsWatched'
    <3>1. CASE talkAt[q] = "joined"
      BY <2>1, <2>2, <2>4, <3>1 DEF QueueIsWatched
    <3>2. CASE talkAt[q] # "joined"
      BY <2>1, <2>2, <3>2 DEF DiscussionsTypeOK, QueueIsWatched
    <3> QED BY <3>1, <3>2
  <2> QED BY <2>3, <2>5
<1>4. ASSUME NEW q \in TalkRequests, CreateDiscussion(q) PROVE CopyIsQueued' /\ QueueIsWatched'
  <2>1. added = {} /\ \A p \in TalkRequests : talkAt[p] \in {"none", "free"}
    BY <1>4 DEF CreateDiscussion, DiscussionsTypeOK
  <2>2. /\ talkAt' = [talkAt EXCEPT ![q] = "join"] /\ added' = added
        /\ copyQueued' = [copyQueued EXCEPT ![q] = TRUE]
    BY <1>4 DEF CreateDiscussion
  <2>3. CopyIsQueued'
    BY <2>1, <2>2 DEF DiscussionsTypeOK, CopyIsQueued
  <2>4. Cardinality(added') <= 1
    BY <2>1, <2>2, FS_EmptySet
  <2> QED BY <2>3, <2>4 DEF QueueIsWatched
<1>5. ASSUME NEW q \in TalkRequests, Admit(q) PROVE CopyIsQueued' /\ QueueIsWatched'
  BY <1>5 DEF Admit, talkRows, DiscussionsTypeOK, CopyIsQueued, QueueIsWatched
<1>6. ASSUME NEW q \in TalkRequests, AddUser(q) PROVE CopyIsQueued' /\ QueueIsWatched'
  BY <1>6 DEF AddUser, talkHistory, DiscussionsTypeOK, CopyIsQueued, QueueIsWatched
<1> QED BY <1>1, <1>2, <1>3, <1>4, <1>5, <1>6, TalkCases

(***************************************************************************)
(* A discussion that is offered to its queue has one user at most, however *)
(* many join at once (check_queued counts after each row is created).      *)
(***************************************************************************)
THEOREM QueuedAlone == DiscussionsSpec => []QueuedIsAlone
<1>1. DiscussionsInit => CopyIsQueued /\ QueueIsWatched
  BY DEF DiscussionsInit, CopyIsQueued, QueueIsWatched
<1>2. DiscussionsTypeOK /\ (CopyIsQueued /\ QueueIsWatched) /\ [DiscussionsNext]_discussionVars
      => (CopyIsQueued /\ QueueIsWatched)'
  BY QueueStep
<1>3. QueueIsWatched => QueuedIsAlone
  BY DEF QueueIsWatched, QueuedIsAlone
<1> QED BY <1>1, <1>2, <1>3, DiscussionsType, PTL DEF DiscussionsSpec

(***************************************************************************)
(* A discussion keeps its limit, and only one with a lone user is offered  *)
(* to its queue (create_discussion_user, check_queued).                    *)
(***************************************************************************)
THEOREM TalkIsKept == DiscussionsSpec => []TalkHolds
<1>1. QueuedIsAlone /\ TalkWithinLimit => TalkHolds
  BY DEF TalkHolds
<1> QED BY <1>1, QueuedAlone, TalkLimitKept, PTL

-----------------------------------------------------------------------------
(***************************************************************************)
(* Settings of a sector: type correctness.                                 *)
(***************************************************************************)
UpdateEdits == [at: {"save", "config"}, row: Setting, patch: Patches]
TagEdits == [at: {"drop", "dropped"}, tag: SectorTags, required: BOOLEAN]
HolidayEdits ==
    [at: {"holidays", "create"}, left: Seq(Dates), closed: SUBSET Dates, import: BOOLEAN]

\* What a thread is at says what it holds.
LEMMA EditKinds ==
  ASSUME SettingsTypeOK, NEW e \in Editors
  PROVE  /\ edit[e] \in {NoEdit} \cup UpdateEdits \cup TagEdits \cup HolidayEdits
         /\ edit[e] = NoEdit => edit[e].at = "idle"
         /\ edit[e].at \in {"save", "config"} => edit[e] \in UpdateEdits
         /\ edit[e].at \in {"drop", "dropped"} => edit[e] \in TagEdits
         /\ edit[e].at \in {"holidays", "create"} => edit[e] \in HolidayEdits
<1>1. edit[e] \in {NoEdit} \cup UpdateEdits \cup TagEdits \cup HolidayEdits
  BY DEF SettingsTypeOK, Edits, UpdateEdits, TagEdits, HolidayEdits
<1>2. edit[e] = NoEdit => edit[e].at = "idle"
  BY DEF NoEdit
<1>3. edit[e] \in UpdateEdits => edit[e].at \in {"save", "config"}
  BY DEF UpdateEdits
<1>4. edit[e] \in TagEdits => edit[e].at \in {"drop", "dropped"}
  BY DEF TagEdits
<1>5. edit[e] \in HolidayEdits => edit[e].at \in {"holidays", "create"}
  BY DEF HolidayEdits
<1> QED BY <1>1, <1>2, <1>3, <1>4, <1>5

\* A patch leaves a row of settings.
LEMMA PatchedIsSetting ==
  ASSUME NEW row \in Setting, NEW patch \in Patches
  PROVE  /\ Patched(row, patch) \in Setting
         /\ WithConfig(row, patch) \in Setting
<1>1. CASE patch \in [field: {"required"}, on: BOOLEAN]
  BY <1>1 DEF Patched, WithConfig, Setting
<1>2. CASE patch \in [field: {"queue"}, on: BOOLEAN, text: {"", "text", "left out"}]
  BY <1>2 DEF Patched, WithConfig, Setting, TextOf
<1>3. CASE patch \in [field: {"inactivity"}, warn: BOOLEAN, close: BOOLEAN]
  BY <1>3 DEF Patched, WithConfig, Setting
<1>4. CASE patch \in [field: {"config"}, key: ConfigKeys]
  BY <1>4 DEF Patched, WithConfig, Setting
<1>5. CASE patch \in [field: {"limit"}, to: Limits]
  BY <1>5 DEF Patched, WithConfig, Setting
<1> QED BY <1>1, <1>2, <1>3, <1>4, <1>5 DEF Patches

\* What a step does to the other threads: nothing.
EditsGo(e, work) ==
    /\ edit' = [edit EXCEPT ![e] = work]
    /\ edits' \in 0..MaxEdits /\ interleaved' \in BOOLEAN

LEMMA BeginEditGoes ==
  ASSUME SettingsTypeOK, NEW e \in Editors, NEW work, BeginEdit(e, work)
  PROVE  EditsGo(e, work)
BY SettingsAssumption DEF SettingsTypeOK, BeginEdit, EditsGo, NobodyEdits

LEMMA GoEditGoes ==
  ASSUME SettingsTypeOK, NEW e \in Editors, NEW work, GoEdit(e, work)
  PROVE  EditsGo(e, work)
BY DEF SettingsTypeOK, GoEdit, EditsGo

LEMMA DatesAreSeqs ==
  ASSUME NEW dates \in SetToSeqs(Dates)
  PROVE  dates \in Seq(Dates)
<1>1. Cardinality(Dates) \in Nat
  BY FS_CardinalityType, SettingsAssumption
<1>2. dates \in [1..Cardinality(Dates) -> Dates]
  BY DEF SetToSeqs
<1> QED BY <1>1, <1>2

\* The rest of the state, in parts.
SettingRows ==
    /\ setting \in Setting /\ agreed \in Setting
    /\ liveTags \subseteq SectorTags
    /\ holidayOn \in [Dates -> Holiday]
    /\ unoffered \in BOOLEAN /\ tagTaken \in BOOLEAN

LEMMA SettingsTypeParts ==
  /\ SettingsTypeOK <=> /\ SettingRows
                        /\ edit \in [Editors -> Edits]
                        /\ edits \in 0..MaxEdits /\ interleaved \in BOOLEAN
  /\ SettingsTypeOK' <=> /\ SettingRows'
                         /\ edit' \in [Editors -> Edits]
                         /\ edits' \in 0..MaxEdits /\ interleaved' \in BOOLEAN
BY DEF SettingsTypeOK, SettingRows

LEMMA EditStepType ==
  ASSUME SettingsTypeOK, NEW e \in Editors, NEW work \in Edits, EditsGo(e, work), SettingRows'
  PROVE  SettingsTypeOK'
BY SettingsTypeParts DEF EditsGo

LEMMA UpdateStepType ==
  ASSUME SettingsTypeOK, NEW e \in Editors,
         (\E patch \in Patches : BeginUpdate(e, patch)) \/ SaveSector(e) \/ SaveConfig(e)
  PROVE  SettingsTypeOK'
<1>1. ASSUME NEW patch \in Patches, BeginUpdate(e, patch) PROVE SettingsTypeOK'
  <2>1. [at |-> "save", row |-> setting, patch |-> patch] \in Edits
    BY <1>1 DEF Edits, SettingsTypeOK
  <2>2. SettingRows'
    BY <1>1, SettingsTypeParts DEF BeginUpdate, SettingRows
  <2> QED BY <1>1, <2>1, <2>2, BeginEditGoes, EditStepType DEF BeginUpdate
<1>2. CASE SaveSector(e)
  <2>1. edit[e] \in UpdateEdits
    BY <1>2, EditKinds DEF SaveSector
  <2>2. PICK new : new = Patched(edit[e].row, edit[e].patch)
    OBVIOUS
  <2>3. new \in Setting
    BY <2>1, <2>2, PatchedIsSetting DEF UpdateEdits
  <2>4. PICK work : work = IF edit[e].patch.field = "config"
                           THEN [edit[e] EXCEPT !.at = "config", !.row = new] ELSE NoEdit
    OBVIOUS
  <2>5. work \in Edits
    BY <2>1, <2>3, <2>4 DEF UpdateEdits, Edits
  <2>6. GoEdit(e, work) /\ setting' = new
    BY <1>2, <2>2, <2>4 DEF SaveSector
  <2>7. agreed' \in Setting
    BY <1>2, <2>1, PatchedIsSetting DEF SaveSector, SettingsTypeOK, UpdateEdits
  <2>8. unoffered' \in BOOLEAN
    BY <1>2 DEF SaveSector, SettingsTypeOK
  <2>9. SettingRows'
    BY <1>2, <2>3, <2>6, <2>7, <2>8 DEF SaveSector, SettingsTypeOK, SettingRows
  <2> QED BY <2>5, <2>6, <2>9, GoEditGoes, EditStepType
<1>3. CASE SaveConfig(e)
  <2>1. edit[e] \in UpdateEdits
    BY <1>3, EditKinds DEF SaveConfig
  <2>2. WithConfig(edit[e].row, edit[e].patch).keys \subseteq ConfigKeys
    BY <2>1, PatchedIsSetting DEF UpdateEdits, Setting
  <2>3. SettingRows'
    BY <1>3, <2>2 DEF SaveConfig, SettingsTypeOK, SettingRows, Setting
  <2>4. NoEdit \in Edits
    BY DEF Edits
  <2> QED BY <1>3, <2>3, <2>4, GoEditGoes, EditStepType DEF SaveConfig
<1> QED BY <1>1, <1>2, <1>3

LEMMA TagStepType ==
  ASSUME SettingsTypeOK, NEW e \in Editors,
         \/ \E tag \in SectorTags : CreateTag(e, tag) \/ TakeTag(e, tag) \/ BeginDeleteTag(e, tag)
         \/ DeleteTag(e) \/ DisableRequired(e)
  PROVE  SettingsTypeOK'
<1>0. NoEdit \in Edits
  BY DEF Edits
<1>1. ASSUME NEW tag \in SectorTags, CreateTag(e, tag) \/ TakeTag(e, tag) PROVE SettingsTypeOK'
  <2>1. SettingRows' /\ BeginEdit(e, NoEdit)
    BY <1>1 DEF CreateTag, TakeTag, SettingsTypeOK, SettingRows
  <2> QED BY <1>0, <2>1, BeginEditGoes, EditStepType
<1>2. ASSUME NEW tag \in SectorTags, BeginDeleteTag(e, tag) PROVE SettingsTypeOK'
  <2>1. setting.required \in BOOLEAN
    BY DEF SettingsTypeOK, Setting
  <2>2. [at |-> "drop", tag |-> tag, required |-> setting.required] \in Edits
    BY <1>2, <2>1 DEF Edits
  <2>3. SettingRows'
    BY <1>2, SettingsTypeParts DEF BeginDeleteTag, SettingRows
  <2> QED BY <1>2, <2>2, <2>3, BeginEditGoes, EditStepType DEF BeginDeleteTag
<1>3. CASE DeleteTag(e)
  <2>1. edit[e] \in TagEdits
    BY <1>3, EditKinds DEF DeleteTag
  <2>2. [edit[e] EXCEPT !.at = "dropped"] \in Edits
    BY <2>1 DEF TagEdits, Edits
  <2>3. SettingRows'
    BY <1>3, SettingsTypeParts DEF DeleteTag, SettingRows
  <2> QED BY <1>3, <2>2, <2>3, GoEditGoes, EditStepType DEF DeleteTag
<1>4. CASE DisableRequired(e)
  <2>1. SettingRows'
    BY <1>4, SettingsTypeParts DEF DisableRequired, SettingRows, Setting
  <2> QED BY <1>0, <1>4, <2>1, GoEditGoes, EditStepType DEF DisableRequired
<1> QED BY <1>1, <1>2, <1>3, <1>4

\* A request for holidays that goes on has the date it is at.
LEMMA HeadOfDates ==
  ASSUME NEW left \in Seq(Dates), left # <<>>
  PROVE  Head(left) \in Dates /\ Tail(left) \in Seq(Dates)
OBVIOUS

LEMMA LookedIsEdit ==
  ASSUME NEW work \in HolidayEdits, work.left # <<>>
  PROVE  Looked(work) \in Edits
<1>1. Head(work.left) \in Dates /\ Tail(work.left) \in Seq(Dates)
  BY HeadOfDates DEF HolidayEdits
<1>2. [work EXCEPT !.at = "create"] \in HolidayEdits
  BY DEF HolidayEdits
<1>3. [work EXCEPT !.left = Tail(@)] \in HolidayEdits
  BY <1>1 DEF HolidayEdits
<1>4. [work EXCEPT !.left = Tail(@), !.closed = @ \cup {Head(work.left)}] \in HolidayEdits
  BY <1>1 DEF HolidayEdits
<1>5. HolidayEdits \subseteq Edits /\ NoEdit \in Edits
  BY DEF Edits, HolidayEdits
<1> QED BY <1>2, <1>3, <1>4, <1>5 DEF Looked

CreatesADate == \A e \in Editors : edit[e].at = "create" => edit[e].left # <<>>

LEMMA HolidayStepType ==
  ASSUME SettingsTypeOK, CreatesADate, NEW e \in Editors,
         \/ \E dates \in SetToSeqs(Dates), import \in BOOLEAN : BeginHolidays(e, dates, import)
         \/ EnableHoliday(e) \/ CreateHoliday(e) \/ EndHolidays(e)
         \/ \E date \in Dates : DisableHoliday(e, date)
  PROVE  SettingsTypeOK'
<1>0. NoEdit \in Edits
  BY DEF Edits
<1>1. ASSUME NEW dates \in SetToSeqs(Dates), NEW import \in BOOLEAN, BeginHolidays(e, dates, import)
      PROVE  SettingsTypeOK'
  <2>1. [at |-> "holidays", left |-> dates, closed |-> {}, import |-> import] \in Edits
    BY <1>1, DatesAreSeqs DEF Edits
  <2>2. SettingRows'
    BY <1>1, SettingsTypeParts DEF BeginHolidays, SettingRows
  <2> QED BY <1>1, <2>1, <2>2, BeginEditGoes, EditStepType DEF BeginHolidays
<1>2. CASE EnableHoliday(e)
  <2>1. Looked(edit[e]) \in Edits
    BY <1>2, EditKinds, LookedIsEdit DEF EnableHoliday
  <2>2. SettingRows'
    BY <1>2, SettingsTypeParts DEF EnableHoliday, SettingRows
  <2> QED BY <1>2, <2>1, <2>2, GoEditGoes, EditStepType DEF EnableHoliday
<1>3. CASE CreateHoliday(e)
  <2>1. PICK date : date = Head(edit[e].left)
    OBVIOUS
  <2>2. PICK next : next = [edit[e] EXCEPT !.at = "holidays", !.left = Tail(@)]
    OBVIOUS
  <2>3. edit[e] \in HolidayEdits /\ edit[e].left # <<>>
    BY <1>3, EditKinds DEF CreateHoliday, CreatesADate
  <2>4. date \in Dates /\ Tail(edit[e].left) \in Seq(Dates)
    BY <2>1, <2>3, HeadOfDates DEF HolidayEdits
  <2>5. next \in HolidayEdits /\ [next EXCEPT !.closed = @ \cup {date}] \in HolidayEdits
    BY <2>2, <2>3, <2>4 DEF HolidayEdits
  <2>6. next \in Edits /\ [next EXCEPT !.closed = @ \cup {date}] \in Edits
    BY <2>5 DEF Edits, HolidayEdits
  <2>7. \/ /\ holidayOn' = [holidayOn EXCEPT ![date] = "closed"]
           /\ GoEdit(e, [next EXCEPT !.closed = @ \cup {date}])
        \/ /\ GoEdit(e, IF edit[e].import THEN next ELSE NoEdit) /\ holidayOn' = holidayOn
    BY <1>3, <2>1, <2>2 DEF CreateHoliday
  <2>8. SettingRows'
    BY <1>3, <2>4, <2>7 DEF CreateHoliday, SettingsTypeOK, SettingRows, Holiday
  <2>9. CASE GoEdit(e, [next EXCEPT !.closed = @ \cup {date}])
    BY <2>6, <2>8, <2>9, GoEditGoes, EditStepType
  <2>10. CASE GoEdit(e, IF edit[e].import THEN next ELSE NoEdit)
    BY <1>0, <2>6, <2>8, <2>10, GoEditGoes, EditStepType
  <2> QED BY <2>7, <2>9, <2>10
<1>4. CASE EndHolidays(e)
  <2>1. SettingRows'
    BY <1>4, SettingsTypeParts DEF EndHolidays, SettingRows
  <2> QED BY <1>0, <1>4, <2>1, GoEditGoes, EditStepType DEF EndHolidays
<1>5. ASSUME NEW date \in Dates, DisableHoliday(e, date) PROVE SettingsTypeOK'
  <2>1. SettingRows'
    BY <1>5 DEF DisableHoliday, SettingsTypeOK, SettingRows, Holiday
  <2> QED BY <1>0, <1>5, <2>1, BeginEditGoes, EditStepType DEF DisableHoliday
<1> QED BY <1>1, <1>2, <1>3, <1>4, <1>5

\* Only a look at the next date leaves a thread at the creation of a holiday.
LEMMA CreatesADateStep ==
  ASSUME SettingsTypeOK, CreatesADate, SettingsNext
  PROVE  CreatesADate'
<1> SUFFICES ASSUME NEW f \in Editors, edit'[f].at = "create" PROVE edit'[f].left # <<>>
  BY DEF CreatesADate
<1>1. edit'[f] = edit[f] => edit'[f].left # <<>>
  BY DEF CreatesADate
<1>2. ASSUME NEW e \in Editors, EnableHoliday(e) PROVE edit'[f] = edit[f] \/ edit'[f].left # <<>>
  <2>1. edit' = [edit EXCEPT ![e] = Looked(edit[e])] /\ edit[e] \in HolidayEdits
        /\ edit[e].left # <<>> /\ edit[e].at = "holidays"
    BY <1>2, EditKinds DEF EnableHoliday, GoEdit
  <2>2. Looked(edit[e]).at = "create" => Looked(edit[e]).left = edit[e].left
    BY <2>1 DEF Looked, HolidayEdits, NoEdit
  <2> QED BY <2>1, <2>2 DEF SettingsTypeOK
<1>3. ASSUME NEW e \in Editors, NEW work, edit' = [edit EXCEPT ![e] = work], work.at # "create"
      PROVE  edit'[f] = edit[f]
  BY <1>3 DEF SettingsTypeOK
<1>4. NoEdit.at # "create"
  BY DEF NoEdit
<1>5. ASSUME NEW e \in Editors, (\E patch \in Patches : BeginUpdate(e, patch)) \/ SaveConfig(e)
      PROVE  edit'[f] = edit[f]
  BY <1>3, <1>4, <1>5 DEF BeginUpdate, SaveConfig, BeginEdit, GoEdit
<1>6. ASSUME NEW e \in Editors, SaveSector(e) PROVE edit'[f] = edit[f]
  <2>1. edit[e] \in UpdateEdits
    BY <1>6, EditKinds DEF SaveSector
  <2>2. PICK new : edit' = [edit EXCEPT ![e] =
                      IF edit[e].patch.field = "config"
                      THEN [edit[e] EXCEPT !.at = "config", !.row = new] ELSE NoEdit]
    BY <1>6 DEF SaveSector, GoEdit
  <2> QED BY <1>3, <1>4, <2>1, <2>2 DEF UpdateEdits
<1>7. ASSUME NEW e \in Editors,
             \/ \E tag \in SectorTags :
                   CreateTag(e, tag) \/ TakeTag(e, tag) \/ BeginDeleteTag(e, tag)
             \/ DisableRequired(e)
      PROVE  edit'[f] = edit[f]
  BY <1>3, <1>4, <1>7 DEF CreateTag, TakeTag, BeginDeleteTag, DisableRequired, BeginEdit, GoEdit
<1>8. ASSUME NEW e \in Editors, DeleteTag(e) PROVE edit'[f] = edit[f]
  BY <1>3, <1>8, EditKinds DEF DeleteTag, GoEdit, TagEdits
<1>9. ASSUME NEW e \in Editors,
             \/ \E dates \in SetToSeqs(Dates), import \in BOOLEAN : BeginHolidays(e, dates, import)
             \/ EndHolidays(e)
             \/ \E date \in Dates : DisableHoliday(e, date)
      PROVE  edit'[f] = edit[f]
  BY <1>3, <1>4, <1>9 DEF BeginHolidays, EndHolidays, DisableHoliday, BeginEdit, GoEdit
<1>10. ASSUME NEW e \in Editors, CreateHoliday(e) PROVE edit'[f] = edit[f]
  <2>1. edit[e] \in HolidayEdits
    BY <1>10, EditKinds DEF CreateHoliday
  <2>2. PICK next : next = [edit[e] EXCEPT !.at = "holidays", !.left = Tail(@)]
    OBVIOUS
  <2>3. next.at = "holidays" /\ [next EXCEPT !.closed = @ \cup {Head(edit[e].left)}].at = "holidays"
    BY <2>1, <2>2 DEF HolidayEdits
  <2>4. \/ edit' = [edit EXCEPT ![e] = [next EXCEPT !.closed = @ \cup {Head(edit[e].left)}]]
        \/ edit' = [edit EXCEPT ![e] = next]
        \/ edit' = [edit EXCEPT ![e] = NoEdit]
    BY <1>10, <2>2 DEF CreateHoliday, GoEdit
  <2> QED BY <1>3, <1>4, <2>3, <2>4
<1> QED BY <1>1, <1>2, <1>5, <1>6, <1>7, <1>8, <1>9, <1>10 DEF SettingsNext

(***************************************************************************)
(* The row of a sector, its tags, its holidays and the copies that         *)
(* requests hold keep the values the code gives them.                      *)
(***************************************************************************)
THEOREM SettingsType == SettingsSpec => []SettingsTypeOK
<1>1. SettingsInit => SettingsTypeOK /\ CreatesADate
  <2> SUFFICES ASSUME SettingsInit PROVE SettingsTypeOK /\ CreatesADate
    OBVIOUS
  <2>1. NoEdit \in Edits /\ NoEdit.at # "create" /\ 0 \in 0..MaxEdits
    BY SettingsAssumption DEF Edits, NoEdit
  <2> QED BY <2>1 DEF SettingsInit, SettingsTypeOK, CreatesADate, Holiday
<1>2. SettingsTypeOK /\ CreatesADate /\ [SettingsNext]_settingVars => SettingsTypeOK' /\ CreatesADate'
  <2> SUFFICES ASSUME SettingsTypeOK, CreatesADate, [SettingsNext]_settingVars
               PROVE  SettingsTypeOK' /\ CreatesADate'
    OBVIOUS
  <2>1. CASE UNCHANGED settingVars
    BY <2>1 DEF settingVars, settingHistory, SettingsTypeOK, CreatesADate
  <2>2. ASSUME SettingsNext PROVE SettingsTypeOK'
    BY <2>2, UpdateStepType, TagStepType, HolidayStepType DEF SettingsNext
  <2> QED BY <2>1, <2>2, CreatesADateStep
<1> QED BY <1>1, <1>2, PTL DEF SettingsSpec

-----------------------------------------------------------------------------
(***************************************************************************)
(* Settings of a sector: what every update may rely on.  A copy that is    *)
(* about to be saved, and the row with it, is valid whatever happened      *)
(* since it was read.                                                      *)
(***************************************************************************)
ValidRow(row) ==
    /\ row.close => row.warn
    /\ row.queueOn => row.queueText # ""

ValidPatch(row, patch) ==
    /\ patch.field = "queue" /\ patch.on => TextOf(row, patch) # ""
    /\ patch.field = "inactivity" /\ patch.close => patch.warn

CopiesAreValid ==
    \A e \in Editors :
        /\ edit[e].at \in {"save", "config"} => ValidRow(edit[e].row)
        /\ edit[e].at = "save" => ValidPatch(edit[e].row, edit[e].patch)

\* Where a request that is alone has come to, given what it holds: its copy is the row, the
\* row is the one agreed on but for a config that is not saved yet, and tags are required
\* without a tag only between their deletion and what follows it, or after a PATCH.
Suits(work) ==
    /\ work.at = "save" => work.row = setting /\ Accepts(setting, work.patch)
    /\ work.at = "config" => work.row = setting /\ agreed = WithConfig(setting, work.patch)
    /\ work.at # "config" => setting = agreed
    /\ work.at # "dropped" => (setting.required => liveTags # {} \/ tagTaken)
    /\ work.at \in {"drop", "dropped"} => work.required = setting.required
    /\ work.at \in {"holidays", "create"} => \A d \in work.closed : holidayOn[d] = "closed"

OneEdit ==
    ~interleaved =>
        /\ ~unoffered
        /\ \A e, f \in Editors : edit[e] # NoEdit /\ edit[f] # NoEdit => e = f
        /\ NobodyEdits => Suits(NoEdit)
        /\ \A e \in Editors : edit[e] # NoEdit => Suits(edit[e])

LEMMA EditsBegin ==
  ASSUME SettingsTypeOK, OneEdit, NEW e \in Editors, NEW work, BeginEdit(e, work), ~interleaved'
  PROVE  /\ \A f \in Editors : edit[f] = NoEdit
         /\ edit' = [edit EXCEPT ![e] = work]
         /\ Suits(NoEdit) /\ ~unoffered
<1>1. ~interleaved /\ NobodyEdits /\ edit' = [edit EXCEPT ![e] = work]
  BY DEF BeginEdit, SettingsTypeOK
<1> QED BY <1>1 DEF OneEdit, NobodyEdits

LEMMA EditsGoOn ==
  ASSUME SettingsTypeOK, OneEdit, NEW e \in Editors, NEW work, GoEdit(e, work), ~interleaved',
         edit[e] # NoEdit
  PROVE  /\ \A f \in Editors : f # e => edit[f] = NoEdit
         /\ edit' = [edit EXCEPT ![e] = work]
         /\ Suits(edit[e]) /\ ~unoffered
<1>1. ~interleaved /\ edit' = [edit EXCEPT ![e] = work]
  BY DEF GoEdit
<1> QED BY <1>1 DEF OneEdit

LEMMA OneEditStep ==
  ASSUME SettingsTypeOK, NEW e \in Editors, NEW work, edit' = [edit EXCEPT ![e] = work],
         \A f \in Editors : f # e => edit[f] = NoEdit,
         ~unoffered', Suits(work)'
  PROVE  OneEdit'
<1>1. edit'[e] = work /\ \A f \in Editors : f # e => edit'[f] = NoEdit
  BY DEF SettingsTypeOK
<1>2. NobodyEdits' => work = NoEdit
  BY <1>1 DEF NobodyEdits
<1>3. NobodyEdits' => Suits(NoEdit)'
  BY <1>2 DEF Suits
<1>4. \A f \in Editors : edit'[f] # NoEdit => f = e
  BY <1>1
<1>5. Suits(edit[e])'
  BY <1>1 DEF Suits
<1>6. \A f \in Editors : edit'[f] # NoEdit => Suits(edit[f])'
  BY <1>4, <1>5
<1> QED BY <1>3, <1>4, <1>6 DEF OneEdit

\* A thread that has something to do is not idle.
LEMMA BusyEdit ==
  ASSUME NEW e \in Editors, edit[e].at # "idle"
  PROVE  edit[e] # NoEdit
BY DEF NoEdit

LEMMA OneEditUpdates ==
  ASSUME SettingsTypeOK, OneEdit, NEW e \in Editors,
         (\E patch \in Patches : BeginUpdate(e, patch)) \/ SaveSector(e) \/ SaveConfig(e)
  PROVE  OneEdit'
<1> SUFFICES ASSUME ~interleaved' PROVE OneEdit'
  BY DEF OneEdit
<1>1. ASSUME NEW patch \in Patches, BeginUpdate(e, patch) PROVE OneEdit'
  <2>1. PICK work : work = [at |-> "save", row |-> setting, patch |-> patch]
    OBVIOUS
  <2>2. BeginEdit(e, work) /\ Accepts(setting, patch)
    BY <1>1, <2>1 DEF BeginUpdate
  <2>3. /\ \A f \in Editors : edit[f] = NoEdit
        /\ edit' = [edit EXCEPT ![e] = work] /\ Suits(NoEdit) /\ ~unoffered
    BY <2>2, EditsBegin
  <2>4. /\ setting' = setting /\ agreed' = agreed /\ liveTags' = liveTags
        /\ tagTaken' = tagTaken /\ holidayOn' = holidayOn /\ unoffered' = unoffered
    BY <1>1 DEF BeginUpdate
  <2>5. Accepts(setting, patch)'
    BY <2>2, <2>4 DEF Accepts, TextOf
  <2>6. Suits(work)'
    BY <2>1, <2>3, <2>4, <2>5 DEF Suits, NoEdit
  <2> QED BY <2>3, <2>4, <2>6, OneEditStep
<1>2. CASE SaveSector(e)
  <2>1. edit[e] \in UpdateEdits /\ edit[e] # NoEdit /\ edit[e].at = "save"
    BY <1>2, EditKinds, BusyEdit DEF SaveSector
  <2>2. PICK new : new = Patched(edit[e].row, edit[e].patch)
    OBVIOUS
  <2>3. PICK work : work = IF edit[e].patch.field = "config"
                           THEN [edit[e] EXCEPT !.at = "config", !.row = new] ELSE NoEdit
    OBVIOUS
  <2>4. GoEdit(e, work) /\ setting' = new
    BY <1>2, <2>2, <2>3 DEF SaveSector
  <2>5. /\ \A f \in Editors : f # e => edit[f] = NoEdit
        /\ edit' = [edit EXCEPT ![e] = work] /\ Suits(edit[e]) /\ ~unoffered
    BY <2>1, <2>4, EditsGoOn
  <2>6. /\ edit[e].row = setting /\ Accepts(setting, edit[e].patch) /\ setting = agreed
        /\ setting.required => liveTags # {} \/ tagTaken
    BY <2>1, <2>5 DEF Suits
  <2>7. /\ agreed' = WithConfig(new, edit[e].patch) /\ liveTags' = liveTags /\ tagTaken' = tagTaken
        /\ unoffered' = (unoffered \/ (new.limit > setting.limit /\ new.limit <= setting.limit))
    BY <1>2, <2>2, <2>6 DEF SaveSector
  <2>8. ~unoffered'
    <3>1. new.limit \in Nat /\ setting.limit \in Nat
      BY <2>1, <2>2, PatchedIsSetting, SettingsAssumption DEF UpdateEdits, Setting, SettingsTypeOK
    <3>2. ~(new.limit > setting.limit /\ new.limit <= setting.limit)
      BY <3>1
    <3> QED BY <2>5, <2>7, <3>2, Zenon
  <2>9. new.required => liveTags # {} \/ tagTaken
    <3>1. CASE edit[e].patch.field = "required"
      BY <2>1, <2>2, <2>6, <3>1 DEF Patched, Accepts, UpdateEdits, Setting
    <3>2. CASE edit[e].patch.field # "required"
      BY <2>1, <2>2, <2>6, <3>2 DEF Patched, UpdateEdits, Setting
    <3> QED BY <3>1, <3>2
  <2>10. Suits(work)'
    <3>1. CASE edit[e].patch.field = "config"
      <4>1. work.at = "config" /\ work.row = new /\ work.patch = edit[e].patch
        BY <2>1, <2>3, <3>1 DEF UpdateEdits
      <4> QED BY <2>4, <2>7, <2>9, <4>1 DEF Suits
    <3>2. CASE edit[e].patch.field # "config"
      <4>1. work.at = "idle" /\ agreed' = new
        BY <2>3, <2>7, <3>2 DEF NoEdit, WithConfig
      <4> QED BY <2>4, <2>7, <2>9, <4>1 DEF Suits
    <3> QED BY <3>1, <3>2
  <2> QED BY <2>5, <2>8, <2>10, OneEditStep
<1>3. CASE SaveConfig(e)
  <2>1. edit[e] \in UpdateEdits /\ edit[e] # NoEdit /\ edit[e].at = "config"
    BY <1>3, EditKinds, BusyEdit DEF SaveConfig
  <2>2. GoEdit(e, NoEdit)
    BY <1>3 DEF SaveConfig
  <2>3. /\ \A f \in Editors : f # e => edit[f] = NoEdit
        /\ edit' = [edit EXCEPT ![e] = NoEdit] /\ Suits(edit[e]) /\ ~unoffered
    BY <2>1, <2>2, EditsGoOn
  <2>4. /\ agreed = WithConfig(setting, edit[e].patch)
        /\ setting.required => liveTags # {} \/ tagTaken
        /\ setting' = [setting EXCEPT !.keys = WithConfig(setting, edit[e].patch).keys]
        /\ agreed' = agreed /\ liveTags' = liveTags /\ tagTaken' = tagTaken /\ unoffered' = unoffered
    BY <1>3, <2>1, <2>3 DEF Suits, SaveConfig
  <2>5. setting \in Setting
    BY DEF SettingsTypeOK
  <2>6. setting' = agreed' /\ setting'.required = setting.required
    BY <2>4, <2>5 DEF WithConfig, Setting
  <2>7. Suits(NoEdit)'
    BY <2>4, <2>6 DEF Suits, NoEdit
  <2> QED BY <2>3, <2>4, <2>7, OneEditStep
<1> QED BY <1>1, <1>2, <1>3

LEMMA OneEditTags ==
  ASSUME SettingsTypeOK, OneEdit, NEW e \in Editors,
         \/ \E tag \in SectorTags : CreateTag(e, tag) \/ TakeTag(e, tag) \/ BeginDeleteTag(e, tag)
         \/ DeleteTag(e) \/ DisableRequired(e)
  PROVE  OneEdit'
<1> SUFFICES ASSUME ~interleaved' PROVE OneEdit'
  BY DEF OneEdit
<1>1. ASSUME NEW tag \in SectorTags, CreateTag(e, tag) \/ TakeTag(e, tag) PROVE OneEdit'
  <2>1. /\ \A f \in Editors : edit[f] = NoEdit
        /\ edit' = [edit EXCEPT ![e] = NoEdit] /\ Suits(NoEdit) /\ ~unoffered
    BY <1>1, EditsBegin DEF CreateTag, TakeTag
  <2>2. /\ setting' = setting /\ agreed' = agreed /\ unoffered' = unoffered
        /\ liveTags' # {} \/ tagTaken'
    BY <1>1 DEF CreateTag, TakeTag
  <2>3. Suits(NoEdit)'
    BY <2>1, <2>2 DEF Suits, NoEdit
  <2> QED BY <2>1, <2>2, <2>3, OneEditStep
<1>2. ASSUME NEW tag \in SectorTags, BeginDeleteTag(e, tag) PROVE OneEdit'
  <2>1. PICK work : work = [at |-> "drop", tag |-> tag, required |-> setting.required]
    OBVIOUS
  <2>2. /\ \A f \in Editors : edit[f] = NoEdit
        /\ edit' = [edit EXCEPT ![e] = work] /\ Suits(NoEdit) /\ ~unoffered
    BY <1>2, <2>1, EditsBegin DEF BeginDeleteTag
  <2>3. Suits(work)'
    BY <1>2, <2>1, <2>2 DEF BeginDeleteTag, Suits, NoEdit
  <2> QED BY <1>2, <2>2, <2>3, OneEditStep DEF BeginDeleteTag
<1>3. CASE DeleteTag(e)
  <2>1. edit[e] \in TagEdits /\ edit[e] # NoEdit /\ edit[e].at = "drop"
    BY <1>3, EditKinds, BusyEdit DEF DeleteTag
  <2>2. PICK work : work = [edit[e] EXCEPT !.at = "dropped"]
    OBVIOUS
  <2>3. /\ \A f \in Editors : f # e => edit[f] = NoEdit
        /\ edit' = [edit EXCEPT ![e] = work] /\ Suits(edit[e]) /\ ~unoffered
    BY <1>3, <2>1, <2>2, EditsGoOn DEF DeleteTag
  <2>4. work.at = "dropped" /\ work.required = edit[e].required
    BY <2>1, <2>2 DEF TagEdits
  <2>5. Suits(work)'
    BY <1>3, <2>1, <2>3, <2>4 DEF DeleteTag, Suits
  <2> QED BY <1>3, <2>3, <2>5, OneEditStep DEF DeleteTag
<1>4. CASE DisableRequired(e)
  <2>1. edit[e] # NoEdit /\ edit[e].at = "dropped"
    BY <1>4, BusyEdit DEF DisableRequired
  <2>2. /\ \A f \in Editors : f # e => edit[f] = NoEdit
        /\ edit' = [edit EXCEPT ![e] = NoEdit] /\ Suits(edit[e]) /\ ~unoffered
    BY <1>4, <2>1, EditsGoOn DEF DisableRequired
  <2>3. edit[e].required = setting.required /\ setting = agreed /\ setting \in Setting
    BY <2>1, <2>2 DEF Suits, SettingsTypeOK
  <2>4. CASE edit[e].required /\ liveTags = {}
    <3>1. setting' = agreed' /\ ~setting'.required
      BY <1>4, <2>3, <2>4 DEF DisableRequired, Setting
    <3>2. Suits(NoEdit)'
      BY <3>1 DEF Suits, NoEdit
    <3> QED BY <1>4, <2>2, <3>2, OneEditStep DEF DisableRequired
  <2>5. CASE ~(edit[e].required /\ liveTags = {})
    <3>1. setting' = agreed' /\ (setting'.required => liveTags' # {} \/ tagTaken')
      BY <1>4, <2>3, <2>5 DEF DisableRequired
    <3>2. Suits(NoEdit)'
      BY <3>1 DEF Suits, NoEdit
    <3> QED BY <1>4, <2>2, <3>2, OneEditStep DEF DisableRequired
  <2> QED BY <2>4, <2>5
<1> QED BY <1>1, <1>2, <1>3, <1>4

LEMMA OneEditHolidays ==
  ASSUME SettingsTypeOK, CreatesADate, OneEdit, NEW e \in Editors,
         \/ \E dates \in SetToSeqs(Dates), import \in BOOLEAN : BeginHolidays(e, dates, import)
         \/ EnableHoliday(e) \/ CreateHoliday(e) \/ EndHolidays(e)
         \/ \E date \in Dates : DisableHoliday(e, date)
  PROVE  OneEdit'
<1> SUFFICES ASSUME ~interleaved' PROVE OneEdit'
  BY DEF OneEdit
<1>0. /\ setting' = setting /\ agreed' = agreed /\ unoffered' = unoffered
      /\ liveTags' = liveTags /\ tagTaken' = tagTaken
  BY DEF BeginHolidays, EnableHoliday, CreateHoliday, EndHolidays, DisableHoliday
<1>1. ASSUME NEW dates \in SetToSeqs(Dates), NEW import \in BOOLEAN, BeginHolidays(e, dates, import)
      PROVE  OneEdit'
  <2>1. PICK work : work = [at |-> "holidays", left |-> dates, closed |-> {}, import |-> import]
    OBVIOUS
  <2>2. /\ \A f \in Editors : edit[f] = NoEdit
        /\ edit' = [edit EXCEPT ![e] = work] /\ Suits(NoEdit) /\ ~unoffered
    BY <1>1, <2>1, EditsBegin DEF BeginHolidays
  <2>3. Suits(work)'
    BY <1>0, <2>1, <2>2 DEF Suits, NoEdit
  <2> QED BY <1>0, <2>2, <2>3, OneEditStep
<1>2. CASE EnableHoliday(e)
  <2>1. /\ edit[e] \in HolidayEdits /\ edit[e] # NoEdit /\ edit[e].at = "holidays"
        /\ holidayOn' = holidayOn
    BY <1>2, EditKinds, BusyEdit DEF EnableHoliday
  <2>2. PICK work : work = Looked(edit[e])
    OBVIOUS
  <2>3. /\ \A f \in Editors : f # e => edit[f] = NoEdit
        /\ edit' = [edit EXCEPT ![e] = work] /\ Suits(edit[e]) /\ ~unoffered
    BY <1>2, <2>1, <2>2, EditsGoOn DEF EnableHoliday
  <2>4. /\ work.at \in {"idle", "holidays", "create"}
        /\ work.at # "idle" => \A d \in work.closed : holidayOn[d] = "closed"
    <3>1. \A d \in edit[e].closed : holidayOn[d] = "closed"
      BY <2>1, <2>3 DEF Suits
    <3>2. CASE holidayOn[Head(edit[e].left)] = "none"
      BY <2>1, <2>2, <3>1, <3>2 DEF Looked, HolidayEdits
    <3>3. CASE holidayOn[Head(edit[e].left)] = "closed"
      BY <2>1, <2>2, <3>1, <3>3 DEF Looked, HolidayEdits
    <3>4. CASE holidayOn[Head(edit[e].left)] \notin {"none", "closed"}
      BY <2>1, <2>2, <3>1, <3>4 DEF Looked, HolidayEdits, NoEdit
    <3> QED BY <3>2, <3>3, <3>4
  <2>5. Suits(work)'
    BY <1>0, <2>1, <2>3, <2>4 DEF Suits
  <2> QED BY <1>0, <2>3, <2>5, OneEditStep
<1>3. CASE CreateHoliday(e)
  <2>1. PICK date : date = Head(edit[e].left)
    OBVIOUS
  <2>2. PICK next : next = [edit[e] EXCEPT !.at = "holidays", !.left = Tail(@)]
    OBVIOUS
  <2>3. /\ edit[e] \in HolidayEdits /\ edit[e] # NoEdit /\ edit[e].at = "create"
        /\ date \in Dates
    BY <1>3, <2>1, EditKinds, BusyEdit, HeadOfDates DEF CreateHoliday, CreatesADate, HolidayEdits
  <2>4. \/ /\ holidayOn[date] = "none"
           /\ holidayOn' = [holidayOn EXCEPT ![date] = "closed"]
           /\ GoEdit(e, [next EXCEPT !.closed = @ \cup {date}])
        \/ /\ GoEdit(e, IF edit[e].import THEN next ELSE NoEdit) /\ holidayOn' = holidayOn
    BY <1>3, <2>1, <2>2 DEF CreateHoliday
  <2>5. CASE /\ holidayOn' = [holidayOn EXCEPT ![date] = "closed"]
             /\ GoEdit(e, [next EXCEPT !.closed = @ \cup {date}])
    <3>1. PICK work : work = [next EXCEPT !.closed = @ \cup {date}]
      OBVIOUS
    <3>2. /\ \A f \in Editors : f # e => edit[f] = NoEdit
          /\ edit' = [edit EXCEPT ![e] = work] /\ Suits(edit[e]) /\ ~unoffered
      BY <2>3, <2>5, <3>1, EditsGoOn
    <3>3. /\ work.at = "holidays" /\ work.closed = edit[e].closed \cup {date}
          /\ edit[e].closed \subseteq Dates
      BY <2>2, <2>3, <3>1 DEF HolidayEdits
    <3>4. \A d \in work.closed : holidayOn'[d] = "closed"
      BY <2>3, <2>5, <3>2, <3>3 DEF Suits, SettingsTypeOK
    <3>5. Suits(work)'
      BY <1>0, <2>3, <3>2, <3>3, <3>4 DEF Suits
    <3> QED BY <1>0, <3>2, <3>5, OneEditStep
  <2>6. CASE GoEdit(e, IF edit[e].import THEN next ELSE NoEdit) /\ holidayOn' = holidayOn
    <3>1. PICK work : work = IF edit[e].import THEN next ELSE NoEdit
      OBVIOUS
    <3>2. /\ \A f \in Editors : f # e => edit[f] = NoEdit
          /\ edit' = [edit EXCEPT ![e] = work] /\ Suits(edit[e]) /\ ~unoffered
      BY <2>3, <2>6, <3>1, EditsGoOn
    <3>3. work.at = "idle" \/ (work.at = "holidays" /\ work.closed = edit[e].closed)
      BY <2>2, <2>3, <3>1 DEF HolidayEdits, NoEdit
    <3>4. Suits(work)'
      BY <1>0, <2>3, <2>6, <3>2, <3>3 DEF Suits
    <3> QED BY <1>0, <3>2, <3>4, OneEditStep
  <2> QED BY <2>4, <2>5, <2>6
<1>4. CASE EndHolidays(e)
  <2>1. edit[e] # NoEdit /\ edit[e].at = "holidays"
    BY <1>4, BusyEdit DEF EndHolidays
  <2>2. /\ \A f \in Editors : f # e => edit[f] = NoEdit
        /\ edit' = [edit EXCEPT ![e] = NoEdit] /\ Suits(edit[e]) /\ ~unoffered
    BY <1>4, <2>1, EditsGoOn DEF EndHolidays
  <2>3. Suits(NoEdit)'
    BY <1>0, <2>1, <2>2 DEF Suits, NoEdit
  <2> QED BY <1>0, <2>2, <2>3, OneEditStep
<1>5. ASSUME NEW date \in Dates, DisableHoliday(e, date) PROVE OneEdit'
  <2>1. /\ \A f \in Editors : edit[f] = NoEdit
        /\ edit' = [edit EXCEPT ![e] = NoEdit] /\ Suits(NoEdit) /\ ~unoffered
    BY <1>5, EditsBegin DEF DisableHoliday
  <2>2. Suits(NoEdit)'
    BY <1>0, <2>1 DEF Suits, NoEdit
  <2> QED BY <1>0, <2>1, <2>2, OneEditStep
<1> QED BY <1>1, <1>2, <1>3, <1>4, <1>5

\* A valid patch on a valid row leaves a valid row.
LEMMA PatchedIsValid ==
  ASSUME NEW row \in Setting, NEW patch \in Patches, ValidRow(row), ValidPatch(row, patch)
  PROVE  ValidRow(Patched(row, patch))
<1>1. CASE patch \in [field: {"required"}, on: BOOLEAN]
  BY <1>1 DEF Patched, Setting, ValidRow
<1>2. CASE patch \in [field: {"queue"}, on: BOOLEAN, text: {"", "text", "left out"}]
  BY <1>2 DEF Patched, Setting, ValidRow, ValidPatch
<1>3. CASE patch \in [field: {"inactivity"}, warn: BOOLEAN, close: BOOLEAN]
  BY <1>3 DEF Patched, Setting, ValidRow, ValidPatch
<1>4. CASE patch \in [field: {"config"}, key: ConfigKeys]
  BY <1>4 DEF Patched
<1>5. CASE patch \in [field: {"limit"}, to: Limits]
  BY <1>5 DEF Patched, Setting, ValidRow
<1> QED BY <1>1, <1>2, <1>3, <1>4, <1>5 DEF Patches

\* The copy of one thread.
CopyIsValid(work) ==
    /\ work.at \in {"save", "config"} => ValidRow(work.row)
    /\ work.at = "save" => ValidPatch(work.row, work.patch)

LEMMA CopiesStep ==
  ASSUME SettingsTypeOK, CopiesAreValid, NEW e \in Editors, NEW work,
         EditsGo(e, work), CopyIsValid(work)
  PROVE  CopiesAreValid'
<1> SUFFICES ASSUME NEW f \in Editors PROVE CopyIsValid(edit'[f])
  BY DEF CopiesAreValid, CopyIsValid
<1>1. CASE f = e
  BY <1>1 DEF EditsGo, SettingsTypeOK
<1>2. CASE f # e
  <2>1. edit'[f] = edit[f]
    BY <1>2 DEF EditsGo, SettingsTypeOK
  <2> QED BY <2>1 DEF CopiesAreValid, CopyIsValid
<1> QED BY <1>1, <1>2

LEMMA CopiesValidStep ==
  ASSUME SettingsTypeOK, CreatesADate, CopiesAreValid, ValidRow(setting), SettingsNext
  PROVE  CopiesAreValid' /\ ValidRow(setting')
<1>0. CopyIsValid(NoEdit)
  BY DEF CopyIsValid, NoEdit
<1>1. ASSUME NEW e \in Editors, NEW patch \in Patches, BeginUpdate(e, patch)
      PROVE  CopiesAreValid' /\ ValidRow(setting')
  <2>1. PICK work : work = [at |-> "save", row |-> setting, patch |-> patch]
    OBVIOUS
  <2>2. CopyIsValid(work)
    BY <1>1, <2>1 DEF CopyIsValid, BeginUpdate, Accepts, ValidPatch
  <2> QED BY <1>1, <2>1, <2>2, BeginEditGoes, CopiesStep DEF BeginUpdate
<1>2. ASSUME NEW e \in Editors, SaveSector(e)
      PROVE  CopiesAreValid' /\ ValidRow(setting')
  <2>1. edit[e] \in UpdateEdits /\ edit[e].at = "save"
    BY <1>2, EditKinds DEF SaveSector
  <2>2. PICK new : new = Patched(edit[e].row, edit[e].patch)
    OBVIOUS
  <2>3. PICK work : work = IF edit[e].patch.field = "config"
                           THEN [edit[e] EXCEPT !.at = "config", !.row = new] ELSE NoEdit
    OBVIOUS
  <2>4. GoEdit(e, work) /\ setting' = new
    BY <1>2, <2>2, <2>3 DEF SaveSector
  <2>5. ValidRow(new)
    BY <2>1, <2>2, PatchedIsValid DEF CopiesAreValid, UpdateEdits
  <2>6. work = NoEdit \/ (work.at = "config" /\ work.row = new)
    BY <2>1, <2>3 DEF UpdateEdits
  <2>7. CopyIsValid(work)
    BY <1>0, <2>5, <2>6 DEF CopyIsValid
  <2> QED BY <2>4, <2>5, <2>7, GoEditGoes, CopiesStep
<1>3. ASSUME NEW e \in Editors, SaveConfig(e)
      PROVE  CopiesAreValid' /\ ValidRow(setting')
  <2>1. ValidRow(setting')
    BY <1>3 DEF SaveConfig, ValidRow, SettingsTypeOK, Setting
  <2> QED BY <1>0, <1>3, <2>1, GoEditGoes, CopiesStep DEF SaveConfig
<1>4. ASSUME NEW e \in Editors,
             \/ \E tag \in SectorTags :
                   CreateTag(e, tag) \/ TakeTag(e, tag) \/ BeginDeleteTag(e, tag)
             \/ DeleteTag(e)
      PROVE  CopiesAreValid' /\ ValidRow(setting')
  <2>1. ASSUME NEW tag \in SectorTags, CreateTag(e, tag) \/ TakeTag(e, tag)
        PROVE  CopiesAreValid'
    BY <1>0, <2>1, BeginEditGoes, CopiesStep DEF CreateTag, TakeTag
  <2>2. ASSUME NEW tag \in SectorTags, BeginDeleteTag(e, tag) PROVE CopiesAreValid'
    <3>1. CopyIsValid([at |-> "drop", tag |-> tag, required |-> setting.required])
      BY DEF CopyIsValid
    <3> QED BY <2>2, <3>1, BeginEditGoes, CopiesStep DEF BeginDeleteTag
  <2>3. ASSUME DeleteTag(e) PROVE CopiesAreValid'
    <3>1. CopyIsValid([edit[e] EXCEPT !.at = "dropped"])
      BY <2>3, EditKinds DEF DeleteTag, TagEdits, CopyIsValid
    <3> QED BY <2>3, <3>1, GoEditGoes, CopiesStep DEF DeleteTag
  <2> QED BY <1>4, <2>1, <2>2, <2>3 DEF CreateTag, TakeTag, BeginDeleteTag, DeleteTag
<1>5. ASSUME NEW e \in Editors, DisableRequired(e)
      PROVE  CopiesAreValid' /\ ValidRow(setting')
  <2>1. ValidRow(setting')
    BY <1>5 DEF DisableRequired, ValidRow, SettingsTypeOK, Setting
  <2> QED BY <1>0, <1>5, <2>1, GoEditGoes, CopiesStep DEF DisableRequired
<1>6. ASSUME NEW e \in Editors,
             \/ \E dates \in SetToSeqs(Dates), import \in BOOLEAN : BeginHolidays(e, dates, import)
             \/ EndHolidays(e)
             \/ \E date \in Dates : DisableHoliday(e, date)
      PROVE  CopiesAreValid' /\ ValidRow(setting')
  <2>1. ASSUME NEW dates \in SetToSeqs(Dates), NEW import \in BOOLEAN,
               BeginHolidays(e, dates, import)
        PROVE  CopiesAreValid'
    <3>1. CopyIsValid([at |-> "holidays", left |-> dates, closed |-> {}, import |-> import])
      BY DEF CopyIsValid
    <3> QED BY <2>1, <3>1, BeginEditGoes, CopiesStep DEF BeginHolidays
  <2>2. ASSUME EndHolidays(e) PROVE CopiesAreValid'
    BY <1>0, <2>2, GoEditGoes, CopiesStep DEF EndHolidays
  <2>3. ASSUME NEW date \in Dates, DisableHoliday(e, date) PROVE CopiesAreValid'
    BY <1>0, <2>3, BeginEditGoes, CopiesStep DEF DisableHoliday
  <2> QED BY <1>6, <2>1, <2>2, <2>3 DEF BeginHolidays, EndHolidays, DisableHoliday
<1>7. ASSUME NEW e \in Editors, EnableHoliday(e)
      PROVE  CopiesAreValid' /\ ValidRow(setting')
  <2>1. edit[e] \in HolidayEdits /\ edit[e].at = "holidays"
    BY <1>7, EditKinds DEF EnableHoliday
  <2>2. CopyIsValid(Looked(edit[e]))
    BY <1>0, <2>1 DEF Looked, HolidayEdits, CopyIsValid
  <2> QED BY <1>7, <2>2, GoEditGoes, CopiesStep DEF EnableHoliday
<1>8. ASSUME NEW e \in Editors, CreateHoliday(e)
      PROVE  CopiesAreValid' /\ ValidRow(setting')
  <2>1. edit[e] \in HolidayEdits
    BY <1>8, EditKinds DEF CreateHoliday
  <2>2. PICK next : next = [edit[e] EXCEPT !.at = "holidays", !.left = Tail(@)]
    OBVIOUS
  <2>3. CopyIsValid(next) /\ CopyIsValid([next EXCEPT !.closed = @ \cup {Head(edit[e].left)}])
    BY <2>1, <2>2 DEF HolidayEdits, CopyIsValid
  <2>4. \/ GoEdit(e, [next EXCEPT !.closed = @ \cup {Head(edit[e].left)}])
        \/ GoEdit(e, next)
        \/ GoEdit(e, NoEdit)
    BY <1>8, <2>2 DEF CreateHoliday
  <2>5. setting' = setting
    BY <1>8 DEF CreateHoliday
  <2> QED BY <1>0, <2>3, <2>4, <2>5, GoEditGoes, CopiesStep
<1> QED BY <1>1, <1>2, <1>3, <1>4, <1>5, <1>6, <1>7, <1>8 DEF SettingsNext

(***************************************************************************)
(* However updates of a sector overlap, what is validated together stays   *)
(* together; requests that do not overlap leave what they asked for; and a *)
(* request for holidays has closed the dates it went through.              *)
(***************************************************************************)
THEOREM SettingsAreTrue == SettingsSpec => []SettingsHold
<1> DEFINE Inv == CreatesADate /\ CopiesAreValid /\ ValidRow(setting) /\ OneEdit
<1>1. SettingsInit => Inv
  <2> SUFFICES ASSUME SettingsInit PROVE Inv
    OBVIOUS
  <2>1. NoEdit.at = "idle"
    BY DEF NoEdit
  <2>2. CreatesADate /\ CopiesAreValid /\ ValidRow(setting)
    BY <2>1 DEF SettingsInit, CreatesADate, CopiesAreValid, ValidRow
  <2>3. Suits(NoEdit)
    BY <2>1 DEF SettingsInit, Suits
  <2> QED BY <2>2, <2>3 DEF SettingsInit, OneEdit
<1>2. SettingsTypeOK /\ Inv /\ [SettingsNext]_settingVars => Inv'
  <2> SUFFICES ASSUME SettingsTypeOK, Inv, [SettingsNext]_settingVars PROVE Inv'
    OBVIOUS
  <2>1. CASE UNCHANGED settingVars
    BY <2>1 DEF settingVars, settingHistory, CreatesADate, CopiesAreValid, ValidRow, OneEdit,
             Suits, NobodyEdits, ValidPatch, TextOf, Accepts
  <2>2. ASSUME SettingsNext PROVE OneEdit'
    BY <2>2, OneEditUpdates, OneEditTags, OneEditHolidays DEF SettingsNext
  <2>3. ASSUME SettingsNext PROVE (CopiesAreValid /\ ValidRow(setting))'
    <3>1. CopiesAreValid' /\ ValidRow(setting')
      BY <2>3, CopiesValidStep
    <3> QED BY <3>1 DEF ValidRow
  <2> QED BY <2>1, <2>2, <2>3, CreatesADateStep
<1>3. SettingsTypeOK /\ Inv => SettingsHold
  <2> SUFFICES ASSUME SettingsTypeOK, Inv PROVE SettingsHold
    OBVIOUS
  <2>1. SettingsStayValid
    BY DEF SettingsStayValid, ValidRow
  <2>2. ~interleaved /\ NobodyEdits =>
           setting = agreed /\ (setting.required => liveTags # {} \/ tagTaken)
    BY DEF OneEdit, Suits, NoEdit
  <2>3. SettingsAreKept
    BY <2>2 DEF SettingsAreKept, OneEdit
  <2>4. HolidaysAreClosed
    BY BusyEdit DEF HolidaysAreClosed, OneEdit, Suits
  <2> QED BY <2>1, <2>3, <2>4 DEF SettingsHold
<1> QED BY <1>1, <1>2, <1>3, SettingsType, PTL DEF SettingsSpec

-----------------------------------------------------------------------------
(***************************************************************************)
(* Working hours: type correctness.                                        *)
(***************************************************************************)
Found == Hours \cup {None}

LEMMA HoursAreNumbers ==
  /\ \A h \in Hours : h[1] \in Nat /\ h[2] \in Nat /\ h # None
  /\ Closed \in Hours /\ <<2, 2>> \in Hours
<1>1. \A h \in Intervals : h[1] \in Nat /\ h[2] \in Nat /\ h[1] >= 1
  BY HoursAssumption DEF Intervals, Times
<1>2. \A h \in Intervals : h # None
  BY <1>1 DEF None
<1>3. Closed[1] = 1 /\ Closed[2] = 0 /\ Closed # None
  BY DEF Closed, None
<1>4. <<2, 2>> \in Intervals
  BY HoursAssumption DEF Intervals, Times
<1> QED BY <1>1, <1>2, <1>3, <1>4 DEF Hours

LEMMA HolidayIsFound ==
  ASSUME HoursTypeOK, NEW d \in Days
  PROVE  HolidayOf(d) \in Found
BY HoursAreNumbers DEF HoursTypeOK, HolidayOf, HolidayRows, NoRow, Found

\* The days of a holiday are days.
LEMMA HolidayDays ==
  ASSUME HoursTypeOK
  PROVE  holiday.days \subseteq Days /\ holiday.deleted \in BOOLEAN
<1>1. 1 \in Days
  BY HoursAssumption DEF Days
<1>2. CASE holiday \in HolidayRows
  <2>1. holiday.days \in {{1}, Days} /\ holiday.deleted \in BOOLEAN
    BY <1>2 DEF HolidayRows
  <2> QED BY <1>1, <2>1
<1>3. CASE holiday = NoRow
  BY <1>3 DEF NoRow
<1> QED BY <1>2, <1>3 DEF HoursTypeOK

LEMMA ManagerStepType ==
  ASSUME HoursTypeOK,
         \/ SaveHoliday \/ DeleteHoliday \/ Invalidate \/ FailInvalidate
         \/ \E d \in Days : ExpireEntry(d)
  PROVE  HoursTypeOK'
<1>1. config' = config /\ contactVars' = contactVars
  BY DEF SaveHoliday, DeleteHoliday, Invalidate, FailInvalidate, ExpireEntry
<1>2. holiday' \in HolidayRows \cup {NoRow}
  <2>1. CASE DeleteHoliday
    <3>1. holiday \in HolidayRows \cup {NoRow} /\ ~holiday.deleted
      BY <2>1 DEF DeleteHoliday, HoursTypeOK
    <3>2. holiday \in HolidayRows
      BY <3>1 DEF NoRow
    <3> QED BY <2>1, <3>2 DEF DeleteHoliday, HolidayRows
  <2>2. CASE SaveHoliday
    BY <2>2 DEF SaveHoliday
  <2> QED BY <2>1, <2>2 DEF Invalidate, FailInvalidate, ExpireEntry, HoursTypeOK
<1>3. cached' \in [Days -> {{}} \cup {{h} : h \in Hours \cup {None}}]
  BY DEF SaveHoliday, DeleteHoliday, Invalidate, FailInvalidate, ExpireEntry, HoursTypeOK
<1>4. editing' \in BOOLEAN
  BY DEF SaveHoliday, DeleteHoliday, Invalidate, FailInvalidate, ExpireEntry, HoursTypeOK
<1>5. holidaySaves' \in 0..MaxHolidaySaves
  BY HoursAssumption
     DEF SaveHoliday, DeleteHoliday, Invalidate, FailInvalidate, ExpireEntry, HoursTypeOK
<1>6. missed' \subseteq Days /\ refilled' \subseteq Days
  BY HolidayDays DEF SaveHoliday, DeleteHoliday, Invalidate, FailInvalidate, ExpireEntry, HoursTypeOK
<1> QED BY <1>1, <1>2, <1>3, <1>4, <1>5, <1>6 DEF HoursTypeOK, contactVars

LEMMA ContactStepType ==
  ASSUME HoursTypeOK, NEW c \in Contacts, Ask(c) \/ CheckStep(c)
  PROVE  HoursTypeOK'
<1>0. /\ config' = config /\ holiday' = holiday /\ editing' = editing
      /\ holidaySaves' = holidaySaves /\ missed' = missed
  BY DEF Ask, CheckStep, RefuseWeekday, HitCache, QueryHoliday, FillCache, Decide, Answer, Checks
<1>1. ASSUME NEW from, NEW to \in {"idle", "missed", "queried", "decide", "admitted", "refused"},
             Checks(c, from, to),
             asksAt' \in [Contacts -> Days \X Times], found' \in [Contacts -> Found],
             cached' \in [Days -> {{}} \cup {{h} : h \in Found}], refilled' \subseteq Days,
             \A e \in Contacts : asksAt'[e][1] = asksAt[e][1] \/ e = c,
             to \in {"queried", "decide"} => asksAt'[c][1] \notin config.closedDays
      PROVE  HoursTypeOK'
  <2>1. checking' \in [Contacts ->
                         {"idle", "missed", "queried", "decide", "admitted", "refused"}]
    BY <1>1 DEF Checks, HoursTypeOK
  <2>2. \A e \in Contacts :
           checking'[e] \in {"queried", "decide"} => asksAt'[e][1] \notin config'.closedDays
    <3> SUFFICES ASSUME NEW e \in Contacts, checking'[e] \in {"queried", "decide"}
                 PROVE  asksAt'[e][1] \notin config'.closedDays
      OBVIOUS
    <3>1. CASE e = c
      BY <1>0, <1>1, <3>1 DEF Checks, HoursTypeOK
    <3>2. CASE e # c
      BY <1>0, <1>1, <3>2 DEF Checks, HoursTypeOK
    <3> QED BY <3>1, <3>2
  <2> QED BY <1>0, <1>1, <2>1, <2>2 DEF HoursTypeOK, Found
<1>2. /\ asksAt \in [Contacts -> Days \X Times] /\ found \in [Contacts -> Found]
      /\ cached \in [Days -> {{}} \cup {{h} : h \in Found}] /\ refilled \subseteq Days
      /\ asksAt[c][1] \in Days /\ 1 \in Days /\ 1 \in Times
  <2>1. 1 \in Days /\ 1 \in Times
    BY HoursAssumption DEF Days, Times
  <2> QED BY <2>1 DEF HoursTypeOK, Found
<1>3. CASE Ask(c)
  <2>1. Checks(c, "idle", "missed") /\ cached' = cached /\ refilled' = refilled /\ found' = found
    BY <1>3 DEF Ask
  <2>2. PICK d \in Days : asksAt' = [asksAt EXCEPT ![c] = <<d, 1>>]
    BY <1>3 DEF Ask
  <2>3. asksAt' \in [Contacts -> Days \X Times]
    BY <1>2, <2>2
  <2>4. \A e \in Contacts : asksAt'[e][1] = asksAt[e][1] \/ e = c
    BY <1>2, <2>2
  <2> QED BY <1>1, <1>2, <2>1, <2>3, <2>4
<1>4. CASE RefuseWeekday(c)
  BY <1>1, <1>2, <1>4 DEF RefuseWeekday
<1>5. CASE HitCache(c)
  <2>1. found' \in [Contacts -> Found]
    BY <1>2, <1>5 DEF HitCache
  <2> QED BY <1>1, <1>2, <1>5, <2>1 DEF HitCache
<1>6. CASE QueryHoliday(c)
  <2>1. found' \in [Contacts -> Found]
    BY <1>2, <1>6, HolidayIsFound DEF QueryHoliday
  <2> QED BY <1>1, <1>2, <1>6, <2>1 DEF QueryHoliday
<1>7. CASE FillCache(c)
  <2>1. cached' \in [Days -> {{}} \cup {{h} : h \in Found}] /\ refilled' \subseteq Days
    BY <1>2, <1>7 DEF FillCache
  <2>2. asksAt[c][1] \notin config.closedDays
    BY <1>7 DEF FillCache, Checks, HoursTypeOK
  <2> QED BY <1>1, <1>2, <1>7, <2>1, <2>2 DEF FillCache
<1>8. CASE Decide(c)
  <2>1. PICK t \in Times :
           /\ asksAt' = [asksAt EXCEPT ![c] = <<@[1], t>>]
           /\ Checks(c, "decide", IF Allows(found[c], t) THEN "admitted" ELSE "refused")
           /\ cached' = cached /\ refilled' = refilled /\ found' = found
    BY <1>8 DEF Decide
  <2>2. asksAt' \in [Contacts -> Days \X Times]
    BY <1>2, <2>1
  <2>3. \A e \in Contacts : asksAt'[e][1] = asksAt[e][1] \/ e = c
    BY <1>2, <2>1
  <2>4. PICK to : to = IF Allows(found[c], t) THEN "admitted" ELSE "refused"
    OBVIOUS
  <2>5. to \in {"admitted", "refused"} /\ Checks(c, "decide", to)
    BY <2>1, <2>4
  <2> QED BY <1>1, <1>2, <2>1, <2>2, <2>3, <2>5
<1>9. CASE Answer(c)
  <2>1. asksAt' = [asksAt EXCEPT ![c] = <<1, 1>>] /\ found' = [found EXCEPT ![c] = None]
        /\ cached' = cached /\ refilled' = refilled
    BY <1>9 DEF Answer
  <2>2. asksAt' \in [Contacts -> Days \X Times] /\ found' \in [Contacts -> Found]
    BY <1>2, <2>1 DEF Found
  <2>3. \A e \in Contacts : asksAt'[e][1] = asksAt[e][1] \/ e = c
    BY <1>2, <2>1
  <2> QED BY <1>1, <1>2, <1>9, <2>1, <2>2, <2>3 DEF Answer
<1> QED BY <1>3, <1>4, <1>5, <1>6, <1>7, <1>8, <1>9 DEF CheckStep

(***************************************************************************)
(* The holiday, its cache and the requests that look for it keep their     *)
(* values, and a request that got to the holiday asks for no closed        *)
(* weekday.                                                                *)
(***************************************************************************)
THEOREM HoursType == HoursSpec => []HoursTypeOK
<1>1. HoursInit => HoursTypeOK
  <2> SUFFICES ASSUME HoursInit PROVE HoursTypeOK
    OBVIOUS
  <2>1. <<1, 1>> \in Days \X Times /\ 0 \in 0..MaxHolidaySaves
    BY HoursAssumption DEF Days, Times
  <2> QED BY <2>1 DEF HoursInit, HoursTypeOK
<1>2. HoursTypeOK /\ [HoursNext]_hoursVars => HoursTypeOK'
  <2> SUFFICES ASSUME HoursTypeOK, [HoursNext]_hoursVars PROVE HoursTypeOK'
    OBVIOUS
  <2>1. CASE UNCHANGED hoursVars
    BY <2>1 DEF hoursVars, contactVars, HoursTypeOK
  <2> QED BY <2>1, ManagerStepType, ContactStepType DEF HoursNext
<1> QED BY <1>1, <1>2, PTL DEF HoursSpec

-----------------------------------------------------------------------------
(***************************************************************************)
(* The cached holiday.  While the manager has yet to invalidate, the days  *)
(* of the holiday may be out of date, and no others.                       *)
(***************************************************************************)
CacheFollows ==
    \A d \in Days :
        \/ cached[d] \in {{}, {HolidayOf(d)}}
        \/ d \in missed \cup refilled
        \/ editing /\ d \in holiday.days

LEMMA CacheManager ==
  ASSUME HoursTypeOK, CacheFollows,
         \/ SaveHoliday \/ DeleteHoliday \/ Invalidate \/ FailInvalidate
         \/ \E d \in Days : ExpireEntry(d)
  PROVE  CacheFollows'
<1> SUFFICES ASSUME NEW d \in Days
             PROVE  \/ cached'[d] \in {{}, {HolidayOf(d)'}}
                    \/ d \in missed' \cup refilled'
                    \/ editing' /\ d \in holiday'.days
  BY DEF CacheFollows
<1>1. CASE SaveHoliday
  <2>1. /\ ~editing /\ editing' /\ cached' = cached /\ refilled' = refilled
        /\ missed' = missed \cup {e \in Days : HolidayOf(e) # None /\ e \notin holiday'.days}
    BY <1>1 DEF SaveHoliday
  <2>2. CASE d \in holiday'.days
    BY <2>1, <2>2
  <2>3. CASE d \notin holiday'.days
    <3>1. HolidayOf(d)' = None
      BY <2>3 DEF HolidayOf
    <3> QED BY <2>1, <2>3, <3>1 DEF CacheFollows
  <2> QED BY <2>2, <2>3
<1>2. CASE DeleteHoliday
  <2>1. ~editing /\ editing' /\ cached' = cached /\ refilled' = refilled /\ missed' = missed
    BY <1>2 DEF DeleteHoliday
  <2>2. holiday'.days = holiday.days
    BY <1>2 DEF DeleteHoliday, HoursTypeOK, HolidayRows, NoRow
  <2>3. CASE d \notin holiday.days
    <3>1. HolidayOf(d)' = HolidayOf(d)
      BY <2>2, <2>3 DEF HolidayOf
    <3> QED BY <2>1, <3>1 DEF CacheFollows
  <2> QED BY <2>1, <2>2, <2>3
<1>3. CASE Invalidate
  <2>1. /\ holiday' = holiday /\ refilled' = refilled /\ missed' = missed \ holiday.days
        /\ cached'[d] = IF d \in holiday.days THEN {} ELSE cached[d]
    BY <1>3 DEF Invalidate
  <2>2. HolidayOf(d)' = HolidayOf(d)
    BY <2>1 DEF HolidayOf
  <2> QED BY <2>1, <2>2 DEF CacheFollows
<1>4. CASE FailInvalidate
  <2>1. /\ holiday' = holiday /\ refilled' = refilled /\ missed' = missed \cup holiday.days
        /\ cached' = cached
    BY <1>4 DEF FailInvalidate
  <2>2. HolidayOf(d)' = HolidayOf(d)
    BY <2>1 DEF HolidayOf
  <2> QED BY <2>1, <2>2 DEF CacheFollows
<1>5. ASSUME NEW e \in Days, ExpireEntry(e)
      PROVE  \/ cached'[d] \in {{}, {HolidayOf(d)'}}
             \/ d \in missed' \cup refilled'
             \/ editing' /\ d \in holiday'.days
  <2>1. /\ holiday' = holiday /\ editing' = editing /\ refilled' = refilled \ {e}
        /\ missed' = missed \ {e} /\ cached'[d] = IF d = e THEN {} ELSE cached[d]
    BY <1>5 DEF ExpireEntry, HoursTypeOK
  <2>2. HolidayOf(d)' = HolidayOf(d)
    BY <2>1 DEF HolidayOf
  <2> QED BY <2>1, <2>2 DEF CacheFollows
<1> QED BY <1>1, <1>2, <1>3, <1>4, <1>5

LEMMA CacheContact ==
  ASSUME HoursTypeOK, CacheFollows, NEW c \in Contacts, Ask(c) \/ CheckStep(c)
  PROVE  CacheFollows'
<1>1. holiday' = holiday /\ editing' = editing /\ missed' = missed
  BY DEF Ask, CheckStep, RefuseWeekday, HitCache, QueryHoliday, FillCache, Decide, Answer, Checks
<1>2. \A d \in Days : HolidayOf(d)' = HolidayOf(d)
  BY <1>1 DEF HolidayOf
<1>3. CASE FillCache(c)
  <2>1. asksAt[c][1] \in Days
    BY DEF HoursTypeOK
  <2> QED BY <1>1, <1>2, <1>3, <2>1 DEF FillCache, CacheFollows, HoursTypeOK
<1>4. CASE cached' = cached /\ refilled' = refilled
  BY <1>1, <1>2, <1>4 DEF CacheFollows
<1> QED BY <1>3, <1>4 DEF Ask, CheckStep, RefuseWeekday, HitCache, QueryHoliday, Decide, Answer

(***************************************************************************)
(* The times of a sector, as the validator finds them and as a set.        *)
(***************************************************************************)
LEMMA WithinIsMember ==
  ASSUME NEW h, h[1] \in Nat, h[2] \in Nat, NEW t \in Times
  PROVE  Within(t, h) <=> t \in h[1]..h[2]
BY HoursAssumption DEF Within, Times

LEMMA ScheduleIsRight ==
  ASSUME config \in Configs, NEW t \in Times
  PROVE  ScheduleAllows(t) <=>
            t \in UNION {hours[1]..hours[2] : hours \in config.schedule \ {None}}
<1>1. CASE config.schedule = {None}
  BY <1>1 DEF ScheduleAllows
<1>2. CASE config.schedule # {None}
  <2>1. /\ \A h \in config.schedule : h[1] \in Nat /\ h[2] \in Nat
        /\ None \notin config.schedule
    <3>1. config.schedule \in {{<<1, 1>>, <<LastTime, LastTime>>}, {<<1, 2>>}}
      BY <1>2 DEF Configs
    <3> QED BY <3>1, HoursAssumption DEF None
  <2>2. ScheduleAllows(t) <=> \E h \in config.schedule : t \in h[1]..h[2]
    BY <1>2, <2>1, WithinIsMember DEF ScheduleAllows
  <2>3. config.schedule \ {None} = config.schedule
    BY <2>1
  <2> QED BY <2>2, <2>3
<1> QED BY <1>1, <1>2

LEMMA StaticIsRight ==
  ASSUME config \in Configs, NEW t \in Times
  PROVE  (config.static # None => config.static # Closed /\ Within(t, config.static)) <=>
            t \in (IF config.static = None THEN Times ELSE config.static[1]..config.static[2])
<1>1. config.static \in {None, Closed, <<2, LastTime>>}
  BY DEF Configs
<1>2. CASE config.static = None
  BY <1>2
<1>3. CASE config.static = Closed
  <2>1. Closed # None /\ Closed[1]..Closed[2] = {}
    BY DEF Closed, None
  <2> QED BY <1>3, <2>1
<1>4. CASE config.static = <<2, LastTime>>
  <2>1. config.static # None /\ config.static # Closed
        /\ config.static[1] \in Nat /\ config.static[2] \in Nat
    BY <1>4, HoursAssumption DEF None, Closed
  <2> QED BY <2>1, WithinIsMember
<1> QED BY <1>1, <1>2, <1>3, <1>4

LEMMA AllowsIsRight ==
  ASSUME config \in Configs, NEW h \in Found, NEW t \in Times, NEW d, d \notin config.closedDays
  PROVE  Allows(h, t) <=> t \in OpenTimes(d, h)
<1>1. CASE h = None
  BY <1>1, ScheduleIsRight, StaticIsRight DEF Allows, StaticAllows, OpenTimes
<1>2. CASE h # None
  <2>1. h \in Hours /\ h[1] \in Nat /\ h[2] \in Nat
    BY <1>2, HoursAreNumbers DEF Found
  <2>2. h = Closed => h[1]..h[2] = {}
    BY DEF Closed
  <2> QED BY <1>2, <2>1, <2>2, WithinIsMember DEF Allows, OpenTimes
<1> QED BY <1>1, <1>2

LEMMA AdmittedStep ==
  ASSUME HoursTypeOK, AdmittedWhenOpen, HoursNext
  PROVE  AdmittedWhenOpen'
<1> SUFFICES ASSUME NEW c \in Contacts, checking'[c] \in {"admitted", "refused"}
             PROVE  (checking[c] = "admitted" <=>
                       asksAt[c][2] \in OpenTimes(asksAt[c][1], found[c]))'
  BY DEF AdmittedWhenOpen
<1>1. config' = config
  BY DEF HoursNext, SaveHoliday, DeleteHoliday, Invalidate, FailInvalidate, ExpireEntry, Ask, CheckStep,
         RefuseWeekday, HitCache, QueryHoliday, FillCache, Decide, Answer, Checks
<1>m. PICK d, h : d = asksAt'[c][1] /\ h = found'[c]
  OBVIOUS
<1>2. OpenTimes(asksAt[c][1], found[c])' = OpenTimes(d, h)
  BY <1>m, <1>1 DEF OpenTimes
<1>3. CASE checking'[c] = checking[c] /\ asksAt'[c] = asksAt[c] /\ found'[c] = found[c]
  BY <1>m, <1>2, <1>3 DEF AdmittedWhenOpen
<1>4. CASE SaveHoliday \/ DeleteHoliday \/ Invalidate \/ FailInvalidate \/ \E e \in Days : ExpireEntry(e)
  BY <1>3, <1>4
     DEF SaveHoliday, DeleteHoliday, Invalidate, FailInvalidate, ExpireEntry, contactVars
<1>5. ASSUME NEW e \in Contacts, e # c, Ask(e) \/ CheckStep(e)
      PROVE  checking'[c] = checking[c] /\ asksAt'[c] = asksAt[c] /\ found'[c] = found[c]
  BY <1>5 DEF Ask, CheckStep, RefuseWeekday, HitCache, QueryHoliday, FillCache, Decide, Answer, Checks,
              HoursTypeOK
<1>6. CASE RefuseWeekday(c)
  <2>1. /\ checking'[c] = "refused" /\ asksAt' = asksAt /\ found' = found
        /\ asksAt[c][1] \in config.closedDays
    BY <1>6 DEF RefuseWeekday, Checks, HoursTypeOK
  <2>2. OpenTimes(asksAt[c][1], found[c]) = {}
    BY <2>1 DEF OpenTimes
  <2> QED BY <1>m, <1>2, <2>1, <2>2
<1>7. CASE Decide(c)
  <2>1. PICK t \in Times :
           /\ asksAt' = [asksAt EXCEPT ![c] = <<@[1], t>>]
           /\ Checks(c, "decide", IF Allows(found[c], t) THEN "admitted" ELSE "refused")
           /\ found' = found
    BY <1>7 DEF Decide
  <2>2. asksAt'[c][1] = asksAt[c][1] /\ asksAt'[c][2] = t
    BY <2>1 DEF HoursTypeOK
  <2>3. asksAt[c][1] \notin config.closedDays /\ found[c] \in Found /\ config \in Configs
    BY <2>1 DEF Checks, HoursTypeOK, Found
  <2>4. Allows(found[c], t) <=> t \in OpenTimes(asksAt[c][1], found[c])
    BY <2>3, AllowsIsRight
  <2>5. checking'[c] = IF Allows(found[c], t) THEN "admitted" ELSE "refused"
    BY <2>1 DEF Checks, HoursTypeOK
  <2> QED BY <1>m, <1>2, <2>1, <2>2, <2>4, <2>5
<1>8. CASE Ask(c) \/ HitCache(c) \/ QueryHoliday(c) \/ FillCache(c) \/ Answer(c)
  <2>1. checking'[c] \in {"missed", "decide", "queried", "idle"}
    BY <1>8 DEF Ask, HitCache, QueryHoliday, FillCache, Answer, Checks, HoursTypeOK
  <2> QED BY <2>1
<1> QED BY <1>3, <1>4, <1>5, <1>6, <1>7, <1>8 DEF HoursNext, CheckStep

(***************************************************************************)
(* The cached holidays are those of the table but for the days that the    *)
(* invalidation misses, and a room is admitted just when the sector is     *)
(* open at that time.                                                      *)
(***************************************************************************)
THEOREM HoursAreRight == HoursSpec => []HoursHold
<1>1. HoursInit => CacheFollows /\ AdmittedWhenOpen
  BY DEF HoursInit, CacheFollows, AdmittedWhenOpen
<1>2. HoursTypeOK /\ CacheFollows /\ AdmittedWhenOpen /\ [HoursNext]_hoursVars
      => CacheFollows' /\ AdmittedWhenOpen'
  <2> SUFFICES ASSUME HoursTypeOK, CacheFollows, AdmittedWhenOpen, [HoursNext]_hoursVars
               PROVE  CacheFollows' /\ AdmittedWhenOpen'
    OBVIOUS
  <2>1. CASE UNCHANGED hoursVars
    BY <2>1 DEF hoursVars, contactVars, CacheFollows, AdmittedWhenOpen, OpenTimes, HolidayOf
  <2>2. ASSUME HoursNext PROVE CacheFollows'
    BY <2>2, CacheManager, CacheContact DEF HoursNext
  <2> QED BY <2>1, <2>2, AdmittedStep
<1>3. CacheFollows /\ AdmittedWhenOpen => HoursHold
  BY DEF CacheFollows, HolidayFresh, HoursHold
<1> QED BY <1>1, <1>2, <1>3, HoursType, PTL DEF HoursSpec

-----------------------------------------------------------------------------
(***************************************************************************)
(* Bulk requests over rooms.  A room a request names is ahead, in the      *)
(* batch, being worked on, done or failed, and in one of these only.       *)
(***************************************************************************)
RoomsApart(b) ==
    /\ ahead[b] \cap batch[b] = {} /\ ahead[b] \cap working[b] = {}
    /\ batch[b] \cap working[b] = {}
    /\ (ahead[b] \cup batch[b] \cup working[b]) \cap (succeeded[b] \cup failed[b]) = {}
    /\ succeeded[b] \cap failed[b] = {}

\* One room at a time, by then written or not.
OneRoom(b) ==
    /\ bulkAt[b] \in {"save", "write", "wrote"} => \E r \in BulkRooms : working[b] = {r}
    /\ bulkAt[b] \notin {"save", "write", "wrote"} => working[b] = {}
    /\ bulkAt[b] = "wrote" => asks[b].kind # "transfer" /\ working[b] \subseteq written[b]
    /\ bulkAt[b] = "counted" => asks[b].kind = "close"

DoneIsWritten(b) ==
    /\ succeeded[b] \subseteq written[b]
    /\ asks[b].kind = "transfer" =>
          written[b] \cap (ahead[b] \cup batch[b] \cup working[b] \cup failed[b]) = {}

NewIsEmpty(b) ==
    bulkAt[b] = "new" =>
        /\ ahead[b] = {} /\ batch[b] = {} /\ working[b] = {} /\ succeeded[b] = {} /\ failed[b] = {}
        /\ written[b] = {} /\ affectedQueues[b] = {} /\ asks[b] = NoOrder
ListedIsWhole(b) == bulkAt[b] = "listed" => batch[b] = {}

SetsFit(b) ==
    RoomsApart(b) /\ OneRoom(b) /\ DoneIsWritten(b) /\ NewIsEmpty(b) /\ ListedIsWhole(b)
BulkSets == \A b \in BulkRequests : SetsFit(b)

\* A row that nobody wrote meanwhile is what the request read.
InstanceIsRow ==
    \A b \in BulkRequests : \A r \in BulkRooms \ overlapped :
        HoldsRoom(b, r) /\ ~(bulkAt[b] = "wrote" /\ r \in working[b]) => instance[b][r] = rows[r]

\* A transfer to another queue that has told the flows and has not saved the room.
Told(b, r) == r \in working[b] /\ bulkAt[b] \in {"save", "write"} /\ asks[b].queue # NoQueue

TicketerIsTold ==
    \A r \in BulkRooms \ (split \cup overlapped) :
        /\ ticketer[r] = rows[r].queue \/ \E b \in BulkRequests : Told(b, r)
        /\ \A b \in BulkRequests : Told(b, r) =>
              ticketer[r] = asks[b].queue \/ \E c \in BulkRequests \ {b} : Told(c, r)

BulkRoomsInv == BulkSets /\ InstanceIsRow /\ TicketerIsTold /\ ChangesAreRouted

\* The steps of a request: between its rooms, at a room, in Room.save, when the room is
\* counted, and when its queues are routed.
ListSteps(b) == RefuseTransfer(b) \/ NextBatch(b) \/ EndBulk(b)
                \/ \E o \in BulkOrders : StartBulk(b, o)
RoomSteps(b) ==
    \E r \in BulkRooms :
        SkipTaken(b, r) \/ RefuseTicketer(b, r) \/ ChangeTicketer(b, r) \/ ChangeInstance(b, r)
SaveSteps(b) == CheckOpen(b) \/ CommitTransfer(b) \/ WriteInstance(b)
CountSteps(b) ==
    \/ RefuseClosed(b) \/ FailTransfer(b) \/ CountRoom(b) \/ FailWritten(b)
    \/ PostClose(b) \/ AbortClose(b)
QueueSteps(b) == \E q \in BulkQueues : RouteQueue(b, q) \/ FailRouting(b, q)

LEMMA BulkCases ==
  ASSUME NEW b \in BulkRequests, BulkRoomsStep(b)
  PROVE  ListSteps(b) \/ RoomSteps(b) \/ SaveSteps(b) \/ CountSteps(b) \/ QueueSteps(b)
BY DEF BulkRoomsStep, ListSteps, RoomSteps, SaveSteps, CountSteps, QueueSteps

LEMMA OrderFields ==
  \A o \in BulkOrders :
      /\ o.kind \in {"take", "close", "transfer"}
      /\ o.agent \in BulkAgents \cup {Unassigned}
      /\ o.queue \in BulkQueues \cup {NoQueue}
      /\ o.kind # "transfer" => o.queue = NoQueue
      /\ o # NoOrder
BY DEF BulkOrders, NoOrder

LEMMA DestinationFits ==
  ASSUME BulkRoomsTypeOK, NEW b \in BulkRequests, bulkAt[b] # "new", NEW held \in RoomRows
  PROVE  /\ DestinationOf(b, held) \in RoomRows
         /\ asks[b].queue = NoQueue => DestinationOf(b, held).queue = held.queue
         /\ asks[b].queue # NoQueue => DestinationOf(b, held).queue = asks[b].queue
<1>1. asks[b] \in BulkOrders
  BY DEF BulkRoomsTypeOK
<1>2. CASE asks[b].kind = "take"
  BY <1>1, <1>2, OrderFields DEF DestinationOf, RoomRows, BulkOrders
<1>3. CASE asks[b].kind = "close"
  BY <1>1, <1>3, OrderFields DEF DestinationOf, RoomRows
<1>4. CASE asks[b].kind = "transfer"
  BY <1>1, <1>4, OrderFields DEF DestinationOf, RoomRows
<1> QED BY <1>1, <1>2, <1>3, <1>4, OrderFields

\* What a step of one request leaves of the others.
SameRequest(c) ==
    /\ bulkAt'[c] = bulkAt[c] /\ asks'[c] = asks[c] /\ instance'[c] = instance[c]
    /\ ahead'[c] = ahead[c] /\ batch'[c] = batch[c] /\ working'[c] = working[c]
    /\ succeeded'[c] = succeeded[c] /\ failed'[c] = failed[c]
    /\ affectedQueues'[c] = affectedQueues[c] /\ written'[c] = written[c]

LEMMA OthersSame ==
  ASSUME BulkRoomsTypeOK, NEW b \in BulkRequests, NEW c \in BulkRequests, c # b, BulkRoomsStep(b)
  PROVE  SameRequest(c)
<1> USE BulkAssumption DEF BulkRoomsTypeOK, BulkGoes, BulkFault, progressVars, historyVars, SameRequest
<1>1. CASE ListSteps(b)
  BY <1>1 DEF ListSteps, RefuseTransfer, NextBatch, EndBulk, StartBulk, BatchDone
<1>2. CASE RoomSteps(b)
  BY <1>2 DEF RoomSteps, SkipTaken, RefuseTicketer, ChangeTicketer, ChangeInstance, PassesOver, GoesToSave, WorksOn
<1>3. CASE SaveSteps(b)
  BY <1>3 DEF SaveSteps, CheckOpen, CommitTransfer, WriteInstance, WritesRoom, AddsAffected, Counts
<1>4. CASE CountSteps(b)
  BY <1>4 DEF CountSteps, RefuseClosed, FailTransfer, CountRoom, FailWritten, PostClose, AbortClose, AddsAffected, Counts, SplitTicket
<1>5. CASE QueueSteps(b)
  BY <1>5 DEF QueueSteps, RouteQueue, FailRouting
<1> QED BY <1>1, <1>2, <1>3, <1>4, <1>5, BulkCases

LEMMA ApartStep ==
  ASSUME BulkRoomsTypeOK, NEW b \in BulkRequests, SetsFit(b), BulkRoomsStep(b)
  PROVE  RoomsApart(b)'
<1> USE BulkAssumption DEF BulkRoomsTypeOK, BulkGoes, BulkFault, progressVars, historyVars, SetsFit, RoomsApart, OneRoom, NewIsEmpty
<1>1. CASE ListSteps(b)
  BY <1>1 DEF ListSteps, RefuseTransfer, NextBatch, EndBulk, StartBulk, BatchDone
<1>2. CASE RoomSteps(b)
  BY <1>2 DEF RoomSteps, SkipTaken, RefuseTicketer, ChangeTicketer, ChangeInstance, PassesOver, GoesToSave, WorksOn
<1>3. CASE SaveSteps(b)
  BY <1>3 DEF SaveSteps, CheckOpen, CommitTransfer, WriteInstance, WritesRoom, AddsAffected, Counts
<1>4. CASE CountSteps(b)
  BY <1>4 DEF CountSteps, RefuseClosed, FailTransfer, CountRoom, FailWritten, PostClose, AbortClose, AddsAffected, Counts, SplitTicket
<1>5. CASE QueueSteps(b)
  BY <1>5 DEF QueueSteps, RouteQueue, FailRouting
<1> QED BY <1>1, <1>2, <1>3, <1>4, <1>5, BulkCases

LEMMA OneRoomStep ==
  ASSUME BulkRoomsTypeOK, NEW b \in BulkRequests, SetsFit(b), BulkRoomsStep(b)
  PROVE  OneRoom(b)'
<1> USE BulkAssumption DEF BulkRoomsTypeOK, BulkGoes, BulkFault, progressVars, historyVars, SetsFit, OneRoom, NewIsEmpty
<1>1. CASE ListSteps(b)
  BY <1>1 DEF ListSteps, RefuseTransfer, NextBatch, EndBulk, StartBulk, BatchDone
<1>2. CASE RoomSteps(b)
  BY <1>2 DEF RoomSteps, SkipTaken, RefuseTicketer, ChangeTicketer, ChangeInstance, PassesOver, GoesToSave, WorksOn
<1>3. CASE SaveSteps(b)
  <2>1. CASE CheckOpen(b)
    BY <2>1 DEF CheckOpen
  <2>2. CASE CommitTransfer(b)
    BY <2>2 DEF CommitTransfer, Counts
  <2>3. CASE WriteInstance(b)
    BY <2>3 DEF WriteInstance, WritesRoom
  <2> QED BY <1>3, <2>1, <2>2, <2>3 DEF SaveSteps
<1>4. CASE CountSteps(b)
  BY <1>4 DEF CountSteps, RefuseClosed, FailTransfer, CountRoom, FailWritten, PostClose, AbortClose, AddsAffected, Counts, SplitTicket
<1>5. CASE QueueSteps(b)
  BY <1>5 DEF QueueSteps, RouteQueue, FailRouting
<1> QED BY <1>1, <1>2, <1>3, <1>4, <1>5, BulkCases

LEMMA DoneStep ==
  ASSUME BulkRoomsTypeOK, NEW b \in BulkRequests, SetsFit(b), BulkRoomsStep(b)
  PROVE  DoneIsWritten(b)'
<1> USE BulkAssumption DEF BulkRoomsTypeOK, BulkGoes, BulkFault, progressVars, historyVars, SetsFit, RoomsApart, OneRoom, DoneIsWritten, NewIsEmpty
<1>1. CASE ListSteps(b)
  BY <1>1 DEF ListSteps, RefuseTransfer, NextBatch, EndBulk, StartBulk, BatchDone
<1>2. CASE RoomSteps(b)
  BY <1>2 DEF RoomSteps, SkipTaken, RefuseTicketer, ChangeTicketer, ChangeInstance, PassesOver, GoesToSave, WorksOn
<1>3. CASE SaveSteps(b)
  BY <1>3 DEF SaveSteps, CheckOpen, CommitTransfer, WriteInstance, WritesRoom, AddsAffected, Counts
<1>4. CASE CountSteps(b)
  BY <1>4 DEF CountSteps, RefuseClosed, FailTransfer, CountRoom, FailWritten, PostClose, AbortClose, AddsAffected, Counts, SplitTicket
<1>5. CASE QueueSteps(b)
  BY <1>5 DEF QueueSteps, RouteQueue, FailRouting
<1> QED BY <1>1, <1>2, <1>3, <1>4, <1>5, BulkCases

LEMMA NewStep ==
  ASSUME BulkRoomsTypeOK, NEW b \in BulkRequests, SetsFit(b), BulkRoomsStep(b)
  PROVE  NewIsEmpty(b)'
<1> USE BulkAssumption DEF BulkRoomsTypeOK, BulkGoes, BulkFault, progressVars, historyVars, SetsFit, NewIsEmpty
<1>1. CASE ListSteps(b)
  BY <1>1 DEF ListSteps, RefuseTransfer, NextBatch, EndBulk, StartBulk, BatchDone
<1>2. CASE RoomSteps(b)
  BY <1>2 DEF RoomSteps, SkipTaken, RefuseTicketer, ChangeTicketer, ChangeInstance, PassesOver, GoesToSave, WorksOn
<1>3. CASE SaveSteps(b)
  BY <1>3 DEF SaveSteps, CheckOpen, CommitTransfer, WriteInstance, WritesRoom, AddsAffected, Counts
<1>4. CASE CountSteps(b)
  BY <1>4 DEF CountSteps, RefuseClosed, FailTransfer, CountRoom, FailWritten, PostClose, AbortClose, AddsAffected, Counts, SplitTicket
<1>5. CASE QueueSteps(b)
  BY <1>5 DEF QueueSteps, RouteQueue, FailRouting
<1> QED BY <1>1, <1>2, <1>3, <1>4, <1>5, BulkCases

LEMMA ListedStep ==
  ASSUME BulkRoomsTypeOK, NEW b \in BulkRequests, SetsFit(b), BulkRoomsStep(b)
  PROVE  ListedIsWhole(b)'
<1> USE BulkAssumption DEF BulkRoomsTypeOK, BulkGoes, BulkFault, progressVars, historyVars, SetsFit, NewIsEmpty, ListedIsWhole
<1>1. CASE ListSteps(b)
  BY <1>1 DEF ListSteps, RefuseTransfer, NextBatch, EndBulk, StartBulk, BatchDone
<1>2. CASE RoomSteps(b)
  BY <1>2 DEF RoomSteps, SkipTaken, RefuseTicketer, ChangeTicketer, ChangeInstance, PassesOver, GoesToSave, WorksOn
<1>3. CASE SaveSteps(b)
  BY <1>3 DEF SaveSteps, CheckOpen, CommitTransfer, WriteInstance, WritesRoom, AddsAffected, Counts
<1>4. CASE CountSteps(b)
  BY <1>4 DEF CountSteps, RefuseClosed, FailTransfer, CountRoom, FailWritten, PostClose, AbortClose, AddsAffected, Counts, SplitTicket
<1>5. CASE QueueSteps(b)
  BY <1>5 DEF QueueSteps, RouteQueue, FailRouting
<1> QED BY <1>1, <1>2, <1>3, <1>4, <1>5, BulkCases

LEMMA BulkSetsStep ==
  ASSUME BulkRoomsTypeOK, BulkSets, NEW b \in BulkRequests, BulkRoomsStep(b)
  PROVE  BulkSets'
<1> SUFFICES ASSUME NEW c \in BulkRequests PROVE SetsFit(c)'
  BY DEF BulkSets
<1>1. SetsFit(c)
  BY DEF BulkSets
<1>2. CASE c = b
  BY <1>1, <1>2, ApartStep, OneRoomStep, DoneStep, NewStep, ListedStep DEF SetsFit
<1>3. CASE c # b
  <2>1. SameRequest(c)
    BY <1>3, OthersSame
  <2> QED BY <1>1, <2>1 DEF SameRequest, SetsFit, RoomsApart, OneRoom, DoneIsWritten, NewIsEmpty, ListedIsWhole
<1> QED BY <1>2, <1>3
-----------------------------------------------------------------------------
LEMMA BulkTypeLists ==
  ASSUME BulkRoomsTypeOK, NEW b \in BulkRequests, ListSteps(b) \/ RoomSteps(b) \/ QueueSteps(b)
  PROVE  BulkRoomsTypeOK'
<1>0. BlankRows \in [BulkRooms -> RoomRows]
  BY BulkAssumption DEF BlankRows, RoomRows
<1> USE BulkAssumption DEF BulkGoes, BulkFault, progressVars, historyVars, BulkRoomsTypeOK
<1>1. CASE RefuseTransfer(b)
  BY <1>1 DEF RefuseTransfer
<1>2. CASE NextBatch(b)
  BY <1>2 DEF NextBatch, BatchDone
<1>3. CASE EndBulk(b)
  BY <1>0, <1>3 DEF EndBulk, BatchDone
<1>4. ASSUME NEW o \in BulkOrders, StartBulk(b, o) PROVE BulkRoomsTypeOK'
  BY <1>4 DEF StartBulk
<1>5. ASSUME NEW r \in BulkRooms, SkipTaken(b, r) PROVE BulkRoomsTypeOK'
  BY <1>5 DEF SkipTaken, PassesOver, WorksOn
<1>6. ASSUME NEW r \in BulkRooms, RefuseTicketer(b, r) PROVE BulkRoomsTypeOK'
  <2>1. bulkFaults' \in 0..MaxBulkFaults
    BY <1>6 DEF RefuseTicketer
  <2> QED BY <1>6, <2>1 DEF RefuseTicketer, PassesOver, WorksOn
<1>7. ASSUME NEW r \in BulkRooms, ChangeTicketer(b, r) PROVE BulkRoomsTypeOK'
  <2>1. ticketer' \in [BulkRooms -> BulkQueues]
    BY <1>7, OrderFields DEF ChangeTicketer, GoesToSave
  <2> QED BY <1>7, <2>1 DEF ChangeTicketer, GoesToSave, WorksOn
<1>8. ASSUME NEW r \in BulkRooms, ChangeInstance(b, r) PROVE BulkRoomsTypeOK'
  BY <1>8 DEF ChangeInstance, GoesToSave, WorksOn
<1>9. ASSUME NEW q \in BulkQueues, RouteQueue(b, q) PROVE BulkRoomsTypeOK'
  BY <1>9 DEF RouteQueue
<1>10. ASSUME NEW q \in BulkQueues, FailRouting(b, q) PROVE BulkRoomsTypeOK'
  <2>1. bulkFaults' \in 0..MaxBulkFaults
    BY <1>10 DEF FailRouting
  <2> QED BY <1>10, <2>1 DEF FailRouting
<1> QED BY <1>1, <1>2, <1>3, <1>4, <1>5, <1>6, <1>7, <1>8, <1>9, <1>10 DEF ListSteps, RoomSteps, QueueSteps

\* What a write leaves within its type.
LEMMA WriteFits ==
  ASSUME BulkRoomsTypeOK, NEW b \in BulkRequests, bulkAt[b] # "new"
  PROVE  /\ WritesRoom(b) =>
               /\ rows' \in [BulkRooms -> RoomRows] /\ written' \in [BulkRequests -> SUBSET BulkRooms]
               /\ overlapped' \subseteq BulkRooms
               /\ owed' \subseteq BulkQueues /\ unrouted' \subseteq BulkQueues
         /\ AddsAffected(b) => affectedQueues' \in [BulkRequests -> SUBSET BulkQueues]
<1>1. ASSUME NEW r \in working[b]
      PROVE  /\ r \in BulkRooms /\ instance[b][r] \in RoomRows
             /\ DestinationOf(b, instance[b][r]) \in RoomRows
             /\ instance[b][r].queue \in BulkQueues
             /\ DestinationOf(b, instance[b][r]).queue \in BulkQueues
  <2>1. r \in BulkRooms /\ instance[b][r] \in RoomRows
    BY <1>1 DEF BulkRoomsTypeOK
  <2>2. DestinationOf(b, instance[b][r]) \in RoomRows
    BY <2>1, DestinationFits
  <2> QED BY <2>1, <2>2 DEF RoomRows
<1>2. \A old, new : Changed(old, new) \subseteq BulkQueues
  BY DEF Changed
<1>3. ASSUME WritesRoom(b)
      PROVE  /\ rows' \in [BulkRooms -> RoomRows] /\ written' \in [BulkRequests -> SUBSET BulkRooms]
             /\ overlapped' \subseteq BulkRooms
             /\ owed' \subseteq BulkQueues /\ unrouted' \subseteq BulkQueues
  <2>1. PICK r \in working[b] :
           /\ rows' = [rows EXCEPT ![r] = DestinationOf(b, instance[b][r])]
           /\ written' = [written EXCEPT ![b] = @ \cup {r}]
           /\ overlapped' \in {overlapped, overlapped \cup {r}}
           /\ owed' = owed \cup Changed(rows[r], DestinationOf(b, instance[b][r]))
           /\ unrouted' \subseteq unrouted \cup Changed(rows[r], DestinationOf(b, instance[b][r]))
    BY <1>3 DEF WritesRoom
  <2> QED BY <1>1, <1>2, <2>1 DEF BulkRoomsTypeOK
<1>4. ASSUME AddsAffected(b) PROVE affectedQueues' \in [BulkRequests -> SUBSET BulkQueues]
  BY <1>1, <1>4 DEF AddsAffected, BulkRoomsTypeOK
<1> QED BY <1>3, <1>4

LEMMA BulkTypeSaves ==
  ASSUME BulkRoomsTypeOK, NEW b \in BulkRequests, SaveSteps(b) \/ CountSteps(b)
  PROVE  BulkRoomsTypeOK'
<1>0. BlankRows \in [BulkRooms -> RoomRows]
  BY BulkAssumption DEF BlankRows, RoomRows
<1> USE BulkAssumption DEF BulkGoes, BulkFault, progressVars, historyVars, BulkRoomsTypeOK
<1>1. CASE CheckOpen(b)
  BY <1>1 DEF CheckOpen
<1>2. CASE CommitTransfer(b)
  BY <1>2, WriteFits DEF CommitTransfer, Counts
<1>3. CASE WriteInstance(b)
  BY <1>3, WriteFits DEF WriteInstance
<1>4. CASE RefuseClosed(b)
  BY <1>4 DEF RefuseClosed, Counts, SplitTicket
<1>5. CASE CountRoom(b)
  BY <1>5, WriteFits DEF CountRoom, Counts
<1>6. CASE FailWritten(b)
  <2>1. \A r \in working[b] : instance[b][r].queue \in BulkQueues
    BY DEF RoomRows
  <2> QED BY <1>6, <2>1 DEF FailWritten, Counts
<1>7. CASE PostClose(b)
  BY <1>7 DEF PostClose
<1>8. CASE AbortClose(b)
  BY <1>0, <1>8 DEF AbortClose
<1>9. CASE FailTransfer(b)
  <2>1. bulkFaults' \in 0..MaxBulkFaults
    BY <1>9 DEF FailTransfer
  <2> QED BY <1>9, <2>1 DEF FailTransfer, Counts, SplitTicket
<1> QED BY <1>1, <1>2, <1>3, <1>4, <1>5, <1>6, <1>7, <1>8, <1>9 DEF SaveSteps, CountSteps

-----------------------------------------------------------------------------
\* A request that will have the queue routed.
Routes(b, q) ==
    \/ q \in affectedQueues[b]
    \/ bulkAt[b] = "wrote" /\ \E r \in working[b] : instance[b][r].queue = q

LEMMA RoutesStep ==
  ASSUME BulkRoomsTypeOK, NEW b \in BulkRequests, SetsFit(b), BulkRoomsStep(b),
         NEW q \in owed' \ unrouted', q \in owed \ unrouted => Routes(b, q)
  PROVE  Routes(b, q)'
<1> USE BulkAssumption
        DEF BulkRoomsTypeOK, BulkGoes, BulkFault, progressVars, historyVars, Routes, SetsFit, OneRoom
<1>1. CASE ListSteps(b)
  BY <1>1 DEF ListSteps, RefuseTransfer, NextBatch, EndBulk, StartBulk, BatchDone, NewIsEmpty
<1>2. CASE RoomSteps(b)
  BY <1>2 DEF RoomSteps, SkipTaken, RefuseTicketer, ChangeTicketer, ChangeInstance, PassesOver,
              GoesToSave, WorksOn
<1>3. CASE SaveSteps(b)
  <2>1. CASE CheckOpen(b)
    BY <2>1 DEF CheckOpen
  <2>2. CASE CommitTransfer(b)
    BY <2>2 DEF CommitTransfer, WritesRoom, AddsAffected, Counts
  <2>3. CASE WriteInstance(b)
    <3>1. PICK r \in working[b] :
             /\ owed' = owed \cup Changed(rows[r], DestinationOf(b, instance[b][r]))
             /\ unrouted' = unrouted \cup
                   (Changed(rows[r], DestinationOf(b, instance[b][r]))
                       \ {instance[b][r].queue, DestinationOf(b, instance[b][r]).queue})
      BY <2>3 DEF WriteInstance, WritesRoom
    <3>2. DestinationOf(b, instance[b][r]).queue = instance[b][r].queue
      <4>1. bulkAt[b] = "write" /\ asks[b].kind # "transfer"
        BY <2>3 DEF WriteInstance
      <4>2. asks[b] \in BulkOrders /\ instance[b][r] \in RoomRows
        BY <3>1, <4>1
      <4>3. asks[b].queue = NoQueue
        BY <4>1, <4>2, OrderFields
      <4> QED BY <4>1, <4>2, <4>3, DestinationFits
    <3> QED BY <2>3, <3>1, <3>2 DEF WriteInstance
  <2> QED BY <1>3, <2>1, <2>2, <2>3 DEF SaveSteps
<1>4. CASE CountSteps(b)
  BY <1>4 DEF CountSteps, RefuseClosed, FailTransfer, CountRoom, FailWritten, PostClose, AbortClose,
              AddsAffected, Counts, SplitTicket
<1>5. CASE QueueSteps(b)
  BY <1>5 DEF QueueSteps, RouteQueue, FailRouting
<1> QED BY <1>1, <1>2, <1>3, <1>4, <1>5, BulkCases

LEMMA ChangesStep ==
  ASSUME BulkRoomsTypeOK, BulkSets, ChangesAreRouted, NEW b \in BulkRequests, BulkRoomsStep(b)
  PROVE  ChangesAreRouted'
<1> SUFFICES ASSUME NEW q \in owed' \ unrouted' PROVE \E c \in BulkRequests : Routes(c, q)'
  BY DEF ChangesAreRouted, Routes
<1>1. CASE q \in owed \ unrouted
  <2>1. PICK c \in BulkRequests : Routes(c, q)
    BY <1>1 DEF ChangesAreRouted, Routes
  <2>2. CASE c = b
    BY <2>1, <2>2, RoutesStep DEF BulkSets
  <2>3. CASE c # b
    BY <2>1, <2>3, OthersSame DEF SameRequest, Routes
  <2> QED BY <2>2, <2>3
<1>2. CASE q \notin owed \ unrouted
  BY <1>2, RoutesStep DEF BulkSets
<1> QED BY <1>1, <1>2

-----------------------------------------------------------------------------
\* A room is written by the request that works on it, and is only then changed.
LEMMA BulkRowStep ==
  ASSUME BulkRoomsTypeOK, NEW b \in BulkRequests, BulkRoomsStep(b),
         NEW r \in BulkRooms, r \notin overlapped'
  PROVE  /\ r \notin overlapped
         /\ \/ rows'[r] = rows[r]
            \/ /\ r \in working[b] /\ bulkAt[b] = "write" /\ (WriteInstance(b) \/ CommitTransfer(b))
               /\ \A other \in BulkRequests \ {b} : ~HoldsRoom(other, r)
<1> USE DEF BulkRoomsTypeOK, BulkGoes, progressVars, historyVars
<1>1. CASE ListSteps(b)
  BY <1>1 DEF ListSteps, RefuseTransfer, NextBatch, EndBulk, StartBulk
<1>2. CASE RoomSteps(b)
  BY <1>2 DEF RoomSteps, SkipTaken, RefuseTicketer, ChangeTicketer, ChangeInstance, PassesOver, GoesToSave
<1>3. CASE SaveSteps(b)
  <2>1. CASE CheckOpen(b)
    BY <2>1 DEF CheckOpen
  <2>2. CASE WriteInstance(b) \/ CommitTransfer(b)
    <3>1. bulkAt[b] = "write" /\ WritesRoom(b)
      BY <2>2 DEF WriteInstance, CommitTransfer
    <3>2. PICK s \in working[b] :
             /\ rows' = [rows EXCEPT ![s] = DestinationOf(b, instance[b][s])]
             /\ overlapped' = IF \E other \in BulkRequests \ {b} : HoldsRoom(other, s)
                              THEN overlapped \cup {s} ELSE overlapped
      BY <3>1 DEF WritesRoom
    <3>3. CASE r = s
      BY <2>2, <3>1, <3>2, <3>3
    <3>4. CASE r # s
      BY <3>2, <3>4
    <3> QED BY <3>3, <3>4
  <2> QED BY <1>3, <2>1, <2>2 DEF SaveSteps
<1>4. CASE CountSteps(b)
  BY <1>4 DEF CountSteps, RefuseClosed, FailTransfer, CountRoom, FailWritten, PostClose, AbortClose
<1>5. CASE QueueSteps(b)
  BY <1>5 DEF QueueSteps, RouteQueue, FailRouting
<1> QED BY <1>1, <1>2, <1>3, <1>4, <1>5, BulkCases

\* What the request read of a room is the room.
Kept(b, r) ==
    HoldsRoom(b, r) /\ ~(bulkAt[b] = "wrote" /\ r \in working[b]) => instance[b][r] = rows[r]

LEMMA KeptByOthers ==
  ASSUME BulkRoomsTypeOK, NEW b \in BulkRequests, NEW c \in BulkRequests, c # b, BulkRoomsStep(b),
         NEW r \in BulkRooms, r \notin overlapped', Kept(c, r)
  PROVE  Kept(c, r)'
<1>1. SameRequest(c)
  BY OthersSame
<1>2. CASE rows'[r] = rows[r]
  BY <1>1, <1>2 DEF Kept, HoldsRoom, SameRequest
<1>3. CASE ~HoldsRoom(c, r)
  BY <1>1, <1>3 DEF Kept, HoldsRoom, SameRequest
<1> QED BY <1>2, <1>3, BulkRowStep

LEMMA KeptByItself ==
  ASSUME BulkRoomsTypeOK, NEW b \in BulkRequests, SetsFit(b), BulkRoomsStep(b),
         NEW r \in BulkRooms, r \notin overlapped', Kept(b, r)
  PROVE  Kept(b, r)'
<1> USE DEF BulkRoomsTypeOK, BulkGoes, progressVars, historyVars, SetsFit, Kept, HoldsRoom
<1>1. CASE RefuseTransfer(b)
  BY <1>1 DEF RefuseTransfer
<1>2. CASE NextBatch(b)
  <2>1. working[b] = {}
    BY <1>2 DEF NextBatch, BatchDone, OneRoom
  <2>2. CASE asks[b].kind = "close"
    BY <1>2, <2>1, <2>2 DEF NextBatch, BatchDone
  <2>3. CASE asks[b].kind # "close"
    BY <1>2, <2>1, <2>3 DEF NextBatch, BatchDone
  <2> QED BY <2>2, <2>3
<1>3. CASE EndBulk(b)
  BY <1>3 DEF EndBulk, BatchDone, OneRoom, ListedIsWhole
<1>4. ASSUME NEW o \in BulkOrders, StartBulk(b, o) PROVE Kept(b, r)'
  <2>1. batch[b] = {} /\ working[b] = {}
    BY <1>4 DEF StartBulk, NewIsEmpty
  <2>2. batch' = batch /\ working' = working /\ rows' = rows /\ asks'[b] = o
    BY <1>4 DEF StartBulk
  <2>3. CASE o.kind = "close"
    BY <1>4, <2>2, <2>3 DEF StartBulk
  <2>4. CASE o.kind # "close"
    BY <2>1, <2>2, <2>4
  <2> QED BY <2>3, <2>4
<1>5. CASE RoomSteps(b)
  BY <1>5 DEF RoomSteps, SkipTaken, RefuseTicketer, ChangeTicketer, ChangeInstance, PassesOver,
              GoesToSave, WorksOn
<1>6. CASE CheckOpen(b)
  BY <1>6 DEF CheckOpen
<1>7. CASE WriteInstance(b)
  BY <1>7, BulkRowStep DEF WriteInstance
<1>8. CASE CommitTransfer(b)
  BY <1>8, BulkRowStep DEF CommitTransfer, Counts, RoomsApart
<1>9. CASE CountSteps(b)
  BY <1>9 DEF CountSteps, RefuseClosed, FailTransfer, CountRoom, FailWritten, PostClose, AbortClose,
              Counts, RoomsApart, OneRoom
<1>10. CASE QueueSteps(b)
  BY <1>10 DEF QueueSteps, RouteQueue, FailRouting
<1> QED BY <1>1, <1>2, <1>3, <1>4, <1>5, <1>6, <1>7, <1>8, <1>9, <1>10, BulkCases
        DEF ListSteps, SaveSteps

LEMMA InstanceStep ==
  ASSUME BulkRoomsTypeOK, BulkSets, InstanceIsRow, NEW b \in BulkRequests, BulkRoomsStep(b)
  PROVE  InstanceIsRow'
<1> SUFFICES ASSUME NEW c \in BulkRequests, NEW r \in BulkRooms \ overlapped' PROVE Kept(c, r)'
  BY DEF InstanceIsRow, Kept
<1>1. r \in BulkRooms \ overlapped
  BY BulkRowStep
<1>2. Kept(c, r)
  BY <1>1 DEF InstanceIsRow, Kept
<1> QED BY <1>2, KeptByOthers, KeptByItself DEF BulkSets

-----------------------------------------------------------------------------
TicketerAt(r) ==
    /\ ticketer[r] = rows[r].queue \/ \E b \in BulkRequests : Told(b, r)
    /\ \A b \in BulkRequests : Told(b, r) =>
          ticketer[r] = asks[b].queue \/ \E c \in BulkRequests \ {b} : Told(c, r)

LEMMA QuietTicketer ==
  ASSUME BulkRoomsTypeOK, NEW b \in BulkRequests, BulkRoomsStep(b), NEW r \in BulkRooms,
         TicketerAt(r), ticketer'[r] = ticketer[r], rows'[r] = rows[r],
         Told(b, r)' <=> Told(b, r), Told(b, r) => asks'[b] = asks[b]
  PROVE  TicketerAt(r)'
<1>1. \A c \in BulkRequests : (Told(c, r)' <=> Told(c, r)) /\ (Told(c, r) => asks'[c] = asks[c])
  <2> SUFFICES ASSUME NEW c \in BulkRequests, c # b
               PROVE  (Told(c, r)' <=> Told(c, r)) /\ (Told(c, r) => asks'[c] = asks[c])
    OBVIOUS
  <2> QED BY OthersSame DEF SameRequest, Told
<1> QED BY <1>1 DEF TicketerAt

\* A request tells the flows of the queue it transfers to.
LEMMA TellingStep ==
  ASSUME BulkRoomsTypeOK, NEW b \in BulkRequests, SetsFit(b), NEW s \in BulkRooms,
         ChangeTicketer(b, s), NEW r \in BulkRooms, TicketerAt(r)
  PROVE  TicketerAt(r)'
<1> USE DEF BulkRoomsTypeOK, BulkGoes, historyVars
<1>0. /\ BulkRoomsStep(b) /\ asks' = asks /\ rows' = rows /\ working[b] = {} /\ working'[b] = {s}
      /\ bulkAt'[b] = "save"
  BY DEF BulkRoomsStep, ChangeTicketer, GoesToSave, WorksOn, SetsFit, OneRoom
<1>1. CASE r = s /\ asks[b].queue # NoQueue
  <2>1. ticketer'[r] = asks[b].queue /\ Told(b, r)'
    BY <1>0, <1>1 DEF ChangeTicketer, Told
  <2> QED BY <1>0, <2>1 DEF TicketerAt
<1>2. CASE r # s \/ asks[b].queue = NoQueue
  <2>1. ~Told(b, r) /\ ~Told(b, r)' /\ ticketer'[r] = ticketer[r]
    BY <1>0, <1>2 DEF ChangeTicketer, Told
  <2> QED BY <1>0, <2>1, QuietTicketer
<1> QED BY <1>1, <1>2

\* The room is saved in the queue the flows were told, or where it was.
LEMMA SavingStep ==
  ASSUME BulkRoomsTypeOK, NEW b \in BulkRequests, SetsFit(b), InstanceIsRow,
         CommitTransfer(b) \/ WriteInstance(b),
         NEW r \in BulkRooms, r \notin overlapped', TicketerAt(r)
  PROVE  TicketerAt(r)'
<1> USE DEF BulkRoomsTypeOK, BulkGoes
<1>0. /\ BulkRoomsStep(b) /\ asks' = asks /\ ticketer' = ticketer /\ bulkAt[b] = "write"
      /\ bulkAt'[b] \in {"rooms", "wrote"} /\ WritesRoom(b) /\ r \notin overlapped
      /\ asks[b] \in BulkOrders
  BY BulkRowStep DEF BulkRoomsStep, CommitTransfer, WriteInstance
<1>1. PICK s \in working[b] : rows' = [rows EXCEPT ![s] = DestinationOf(b, instance[b][s])]
  BY <1>0 DEF WritesRoom
<1>2. working[b] = {s} /\ s \in BulkRooms
  BY <1>0, <1>1 DEF SetsFit, OneRoom
<1>3. ~Told(b, r)'
  BY <1>0 DEF Told
<1>4. CASE r # s
  <2>1. ~Told(b, r) /\ rows'[r] = rows[r]
    BY <1>1, <1>2, <1>4 DEF Told
  <2> QED BY <1>0, <1>3, <2>1, QuietTicketer
<1>5. CASE r = s
  <2>1. rows'[r] = DestinationOf(b, instance[b][r]) /\ instance[b][r] \in RoomRows
    BY <1>1, <1>2, <1>5
  <2>2. \A c \in BulkRequests \ {b} : ~HoldsRoom(c, r)
    BY <1>0, <1>1, <1>2, <1>5 DEF WritesRoom
  <2>3. \A c \in BulkRequests \ {b} : ~Told(c, r) /\ ~Told(c, r)'
    <3> SUFFICES ASSUME NEW c \in BulkRequests, c # b PROVE ~Told(c, r) /\ ~Told(c, r)'
      OBVIOUS
    <3> QED BY <1>0, <2>2, OthersSame DEF SameRequest, Told, HoldsRoom
  <2>4. \A c \in BulkRequests : ~Told(c, r)'
    BY <1>3, <2>3
  <2>5. ticketer[r] = rows'[r].queue
    <3>1. CASE asks[b].queue # NoQueue
      <4>1. Told(b, r)
        BY <1>0, <1>2, <1>5, <3>1 DEF Told
      <4>2. ticketer[r] = asks[b].queue
        BY <2>3, <4>1 DEF TicketerAt
      <4> QED BY <1>0, <2>1, <3>1, <4>2, DestinationFits
    <3>2. CASE asks[b].queue = NoQueue
      <4>1. ticketer[r] = rows[r].queue
        BY <2>3, <3>2 DEF TicketerAt, Told
      <4>2. instance[b][r] = rows[r]
        BY <1>0, <1>2, <1>5 DEF InstanceIsRow, HoldsRoom
      <4> QED BY <1>0, <2>1, <3>2, <4>1, <4>2, DestinationFits
    <3> QED BY <3>1, <3>2
  <2> QED BY <1>0, <2>4, <2>5 DEF TicketerAt
<1> QED BY <1>4, <1>5

\* A transfer that fails leaves the flows with what they were told.
LEMMA FailingStep ==
  ASSUME BulkRoomsTypeOK, NEW b \in BulkRequests, SetsFit(b), RefuseClosed(b) \/ FailTransfer(b),
         NEW r \in BulkRooms, r \notin split', TicketerAt(r)
  PROVE  TicketerAt(r)'
<1>1. /\ BulkRoomsStep(b) /\ asks' = asks /\ ticketer' = ticketer /\ rows' = rows
      /\ ~Told(b, r)'
  BY DEF BulkRoomsTypeOK, BulkRoomsStep, RefuseClosed, FailTransfer, BulkGoes, Told
<1>2. ~Told(b, r)
  BY DEF RefuseClosed, FailTransfer, SplitTicket, Told
<1> QED BY <1>1, <1>2, QuietTicketer

\* Steps at which the flows are told nothing, and no room is saved.
LEMMA OtherTicketerSteps ==
  ASSUME BulkRoomsTypeOK, NEW b \in BulkRequests, SetsFit(b), SetsFit(b)', BulkRoomsStep(b),
         \/ ListSteps(b) \/ QueueSteps(b) \/ CheckOpen(b)
         \/ CountRoom(b) \/ FailWritten(b) \/ PostClose(b) \/ AbortClose(b)
         \/ \E s \in BulkRooms :
               SkipTaken(b, s) \/ RefuseTicketer(b, s) \/ ChangeInstance(b, s),
         NEW r \in BulkRooms, TicketerAt(r)
  PROVE  TicketerAt(r)'
<1> USE DEF BulkRoomsTypeOK, BulkGoes, progressVars, historyVars, SetsFit, OneRoom, Told
<1> SUFFICES /\ ticketer' = ticketer /\ rows' = rows /\ (Told(b, r)' <=> Told(b, r))
             /\ (Told(b, r) => asks'[b] = asks[b])
  BY QuietTicketer
<1>1. CASE ListSteps(b)
  BY <1>1 DEF ListSteps, RefuseTransfer, NextBatch, EndBulk, StartBulk, BatchDone
<1>2. CASE QueueSteps(b)
  BY <1>2 DEF QueueSteps, RouteQueue, FailRouting
<1>3. CASE CheckOpen(b)
  BY <1>3 DEF CheckOpen
<1>4. CASE CountRoom(b) \/ FailWritten(b) \/ PostClose(b) \/ AbortClose(b)
  BY <1>4 DEF CountRoom, FailWritten, PostClose, AbortClose
<1>5. ASSUME NEW s \in BulkRooms, SkipTaken(b, s) \/ RefuseTicketer(b, s)
      PROVE  /\ ticketer' = ticketer /\ rows' = rows /\ (Told(b, r)' <=> Told(b, r))
             /\ (Told(b, r) => asks'[b] = asks[b])
  BY <1>5 DEF SkipTaken, RefuseTicketer, PassesOver, WorksOn
<1>6. ASSUME NEW s \in BulkRooms, ChangeInstance(b, s)
      PROVE  /\ ticketer' = ticketer /\ rows' = rows /\ (Told(b, r)' <=> Told(b, r))
             /\ (Told(b, r) => asks'[b] = asks[b])
  <2>1. ticketer' = ticketer /\ rows' = rows /\ asks' = asks /\ working[b] = {}
        /\ asks[b].kind # "transfer"
    BY <1>6 DEF ChangeInstance, GoesToSave, WorksOn
  <2>2. asks[b].queue = NoQueue
    BY <2>1, OrderFields DEF NoOrder
  <2> QED BY <2>1, <2>2
<1> QED BY <1>1, <1>2, <1>3, <1>4, <1>5, <1>6

LEMMA TicketerStep ==
  ASSUME BulkRoomsTypeOK, BulkSets, InstanceIsRow, TicketerIsTold,
         NEW b \in BulkRequests, BulkRoomsStep(b)
  PROVE  TicketerIsTold'
<1> SUFFICES ASSUME NEW r \in BulkRooms \ (split' \cup overlapped') PROVE TicketerAt(r)'
  BY DEF TicketerIsTold, TicketerAt
<1>1. split \subseteq split'
  BY DEF BulkRoomsStep, RefuseTransfer, NextBatch, EndBulk, CheckOpen, RefuseClosed, CommitTransfer,
         FailTransfer, WriteInstance, CountRoom, FailWritten, PostClose, AbortClose, SkipTaken,
         RefuseTicketer, ChangeTicketer, ChangeInstance, RouteQueue, FailRouting, StartBulk,
         PassesOver, GoesToSave, SplitTicket, historyVars
<1>2. TicketerAt(r) /\ r \in BulkRooms
  BY <1>1, BulkRowStep DEF TicketerIsTold, TicketerAt
<1>3. SetsFit(b) /\ SetsFit(b)'
  BY BulkSetsStep DEF BulkSets
<1>4. CASE \E s \in BulkRooms : ChangeTicketer(b, s)
  BY <1>2, <1>3, <1>4, TellingStep
<1>5. CASE CommitTransfer(b) \/ WriteInstance(b)
  BY <1>2, <1>3, <1>5, SavingStep
<1>6. CASE RefuseClosed(b) \/ FailTransfer(b)
  BY <1>2, <1>3, <1>6, FailingStep
<1> QED BY <1>2, <1>3, <1>4, <1>5, <1>6, OtherTicketerSteps, BulkCases
        DEF RoomSteps, SaveSteps, CountSteps

-----------------------------------------------------------------------------
LEMMA BulkInitially == BulkRoomsInit => BulkRoomsTypeOK /\ BulkRoomsInv
<1> SUFFICES ASSUME BulkRoomsInit PROVE BulkRoomsTypeOK /\ BulkRoomsInv
  OBVIOUS
<1> USE BulkAssumption DEF BulkRoomsInit, NoneYet
<1>1. BlankRows \in [BulkRooms -> RoomRows]
  BY DEF BlankRows, RoomRows
<1>2. BulkRoomsTypeOK
  BY <1>1 DEF BulkRoomsTypeOK, RoomRows
<1>3. BulkSets
  BY DEF BulkSets, SetsFit, RoomsApart, OneRoom, DoneIsWritten, NewIsEmpty, ListedIsWhole, NoOrder
<1>4. InstanceIsRow
  BY DEF InstanceIsRow, HoldsRoom, NoOrder
<1>5. TicketerIsTold /\ ChangesAreRouted
  BY DEF TicketerIsTold, ChangesAreRouted, Told
<1> QED BY <1>2, <1>3, <1>4, <1>5 DEF BulkRoomsInv

LEMMA BulkStep ==
  BulkRoomsTypeOK /\ BulkRoomsInv /\ [BulkRoomsNext]_bulkRoomVars
      => BulkRoomsTypeOK' /\ BulkRoomsInv'
<1> SUFFICES ASSUME BulkRoomsTypeOK, BulkRoomsInv, [BulkRoomsNext]_bulkRoomVars
             PROVE  BulkRoomsTypeOK' /\ BulkRoomsInv'
  OBVIOUS
<1>1. ASSUME NEW b \in BulkRequests, BulkRoomsStep(b) PROVE BulkRoomsTypeOK' /\ BulkRoomsInv'
  <2>1. BulkRoomsTypeOK'
    BY <1>1, BulkTypeLists, BulkTypeSaves, BulkCases
  <2>2. BulkSets' /\ ChangesAreRouted'
    BY <1>1, BulkSetsStep, ChangesStep DEF BulkRoomsInv
  <2>3. InstanceIsRow' /\ TicketerIsTold'
    BY <1>1, InstanceStep, TicketerStep DEF BulkRoomsInv
  <2> QED BY <2>1, <2>2, <2>3 DEF BulkRoomsInv
<1>2. CASE UNCHANGED bulkRoomVars
  <2> USE <1>2 DEF bulkRoomVars, progressVars, historyVars
  <2>1. BulkRoomsTypeOK'
    BY DEF BulkRoomsTypeOK
  <2>2. BulkSets' /\ ChangesAreRouted'
    BY DEF BulkRoomsInv, ChangesAreRouted, BulkSets, SetsFit, RoomsApart, OneRoom, DoneIsWritten,
           NewIsEmpty, ListedIsWhole
  <2>3. InstanceIsRow' /\ TicketerIsTold'
    BY DEF BulkRoomsInv, InstanceIsRow, TicketerIsTold, Told, HoldsRoom
  <2> QED BY <2>1, <2>2, <2>3 DEF BulkRoomsInv
<1> QED BY <1>1, <1>2 DEF BulkRoomsNext

LEMMA BulkHolds == BulkRoomsTypeOK /\ BulkRoomsInv => BulkRoomsHold
<1> SUFFICES ASSUME BulkRoomsTypeOK, BulkRoomsInv PROVE CountsAreTrue /\ TicketerFollows
  BY DEF BulkRoomsHold, BulkRoomsInv
<1>1. CountsAreTrue
  BY DEF BulkRoomsInv, BulkSets, SetsFit, RoomsApart, DoneIsWritten, CountsAreTrue
<1>2. TicketerFollows
  BY DEF BulkRoomsInv, TicketerIsTold, Told, TicketerFollows
<1> QED BY <1>1, <1>2

(***************************************************************************)
(* The state of bulk requests over rooms keeps its types                   *)
(* (chats/apps/api/v1/rooms/services).                                     *)
(***************************************************************************)
THEOREM BulkRoomsType == BulkRoomsSpec => []BulkRoomsTypeOK
<1> QED BY BulkInitially, BulkStep, PTL DEF BulkRoomsSpec

(***************************************************************************)
(* The answer of a bulk request is true, the flows keep the ticketer of    *)
(* the sector a room is in, and the queues it gave work are routed, as     *)
(* far as no other request wrote a room it held (_process_batch,           *)
(* _transfer_room, change_ticketer_for_room).                              *)
(***************************************************************************)
THEOREM BulkRoomsAreTrue == BulkRoomsSpec => []BulkRoomsHold
<1> QED BY BulkInitially, BulkStep, BulkHolds, PTL DEF BulkRoomsSpec
-----------------------------------------------------------------------------
(***************************************************************************)
(* Queues here and in the flows.  Where no two requests of which one posts *)
(* met over a queue, what the flows have of it follows from where the      *)
(* request that works on it is.                                            *)
(***************************************************************************)
\* Queues a request may come to work on.
Covers(t) ==
    IF Kind(t) = "integrate" \/ (principal /\ Kind(t) \in {"create", "bulk"})
    THEN Topics ELSE Queues(t)
Posts(t) == Kind(t) \in {"create", "bulk", "integrate"}
MakesTopic(t, q) == Kind(t) \in {"create", "bulk"} /\ q \in Queues(t)
Drops(t, q) == topicAt[t] = "delete" /\ q \in Queues(t)

AloneOn(t, u) ==
    Posts(t) => (Covers(t) \cap Covers(u)) \subseteq raced
PostsAlone == \A t, u \in TopicRequests : t # u => AloneOn(t, u)

\* Where a request of each kind can be.
TaskFits(t) ==
    /\ topicAt[t] = "idle" <=> Kind(t) = "none"
    /\ topicAt[t] \in {"post", "mark"} => Posts(t)
    /\ topicAt[t] = "undo" => Kind(t) = "create" /\ ~principal /\ Queues(t) \subseteq toPost[t]
    /\ topicAt[t] = "compensate" => Kind(t) = "bulk" /\ ~principal
    /\ topicAt[t] \in {"call", "delete"} => ~Posts(t)
    /\ topicAt[t] \in {"idle", "begun", "call", "delete"} => toPost[t] = {} /\ posted[t] = {}
    /\ topicAt[t] \in {"post", "undo"} => toPost[t] \cap posted[t] = {}
    /\ Kind(t) = "integrate" => principal
    /\ toPost[t] \cup posted[t] \subseteq Covers(t)

\* A queue that is integrated, or to be posted, has or had a row.
RowsAreKnown ==
    /\ \A q \in integrated : topicRow[q] # "none"
    /\ \A t \in TopicRequests : \A q \in toPost[t] \cup posted[t] :
          topicRow[q] # "none" \/ (Kind(t) = "bulk" /\ q \in Queues(t))

\* A queue that is being created.
MadeFits(t, q) ==
    /\ topicRow[q] = IF Kind(t) = "create" /\ topicAt[t] # "begun" THEN "live" ELSE "none"
    /\ q \in topics <=> q \in posted[t]
    /\ topicAt[t] \in {"post", "mark", "undo"} => q \in toPost[t] \cup posted[t]
    /\ q \in integrated => q \in posted[t]
    /\ principal /\ Kind(t) = "create" /\ q \in posted[t] /\ q \notin toPost[t] => q \in integrated

\* A queue that is not.
KeptFits(q) ==
    /\ q \in topics => topicRow[q] = "live"
    /\ topicRow[q] = "live" =>
          (principal => q \in integrated)
          /\ (q \in topics \/ \E t \in TopicRequests : Drops(t, q))
    /\ \A t \in TopicRequests :
          /\ Drops(t, q) => q \notin topics
          /\ q \notin posted[t] /\ (q \in toPost[t] => topicRow[q] = "live")

TopicFits(q) ==
    /\ \A t \in TopicRequests : MakesTopic(t, q) => MadeFits(t, q)
    /\ (\A t \in TopicRequests : ~MakesTopic(t, q)) => KeptFits(q)

SectorFits ==
    /\ sectorInFlows => sectorLive
    /\ \A t \in TopicRequests : DeletesSector(t) /\ topicAt[t] = "delete" => ~sectorInFlows
    /\ NoTopic \notin troubled /\ sectorLive /\ ~sectorInFlows =>
          \E t \in TopicRequests : DeletesSector(t) /\ topicAt[t] = "delete"

\* No room is left in a queue on its way out.
NoneLeft ==
    \A r \in FlowRooms \ slipped : roomState[r] = "open" /\ roomTopic[r] # NoTopic =>
        /\ topicRow[roomTopic[r]] # "deleted"
        /\ \A t \in TopicRequests : topicAt[t] \in {"call", "delete"} => roomTopic[r] \notin Queues(t)

TopicInv ==
    /\ \A t \in TopicRequests : TaskFits(t)
    /\ PostsAlone /\ RowsAreKnown /\ SectorFits /\ NoneLeft /\ PostedOnce
    /\ \A q \in Topics \ (troubled \cup raced) : TopicFits(q)

\* The steps of a request that posts queues, and of one that deletes them.
PostingSteps(t) ==
    \/ SaveTopic(t) \/ SaveInBulk(t) \/ ListTopics(t) \/ MarkPosted(t) \/ FailMark(t)
    \/ UndoTopic(t) \/ RollBack(t) \/ EndPosting(t)
    \/ \E q \in Topics :
          SkipIntegrated(t, q) \/ PostTopic(t, q) \/ RefuseTopic(t, q)
          \/ TakeBack(t, q) \/ FailTakeBack(t, q)
DeletingSteps(t) ==
    \/ LeaveRooms(t) \/ CloseRooms(t) \/ TransferRooms(t) \/ AbortDeletion(t)
    \/ DeleteInFlows(t) \/ RefuseDeletion(t) \/ DeleteRow(t) \/ KillTask(t)

LEMMA TopicCases ==
  ASSUME NEW t \in TopicRequests, TopicStep(t)
  PROVE  PostingSteps(t) \/ DeletingSteps(t)
BY DEF TopicStep, PostingSteps, DeletingSteps

LEMMA TaskFields ==
  \A task \in TopicTasks \cup {NoTask} :
      /\ task.queues \subseteq Topics
      /\ task.kind \in {"none", "create", "bulk", "integrate"} \cup QueueDeletions \cup SectorDeletions
      /\ task.kind = "none" => task.queues = {}
      /\ task.kind = "none" <=> task = NoTask
      /\ task.kind \in {"integrate"} => task.queues = {}
      /\ task.kind = "create" => \E q \in Topics : task.queues = {q}
      /\ task.kind \in SectorDeletions => task.queues = Topics
BY DEF TopicTasks, NoTask, QueueDeletions, SectorDeletions

\* What a step of one request leaves of the others, and never takes back.
SameTask(u) ==
    topicAt'[u] = topicAt[u] /\ topicTask'[u] = topicTask[u] /\ toPost'[u] = toPost[u]
    /\ posted'[u] = posted[u]

LEMMA OtherTasks ==
  ASSUME TopicTypeOK, NEW t \in TopicRequests, NEW u \in TopicRequests, u # t,
         TopicStep(t) \/ \E task \in TopicTasks : BeginTopicTask(t, task)
  PROVE  SameTask(u)
<1> USE DEF TopicTypeOK, TopicGoes, TaskEnds, TopicFault, taskState, SameTask
<1>1. CASE PostingSteps(t)
  BY <1>1 DEF PostingSteps, SaveTopic, SaveInBulk, ListTopics, MarkPosted, FailMark, UndoTopic, RollBack,
              EndPosting, SkipIntegrated, PostTopic, RefuseTopic, TakeBack, FailTakeBack
<1>2. CASE DeletingSteps(t)
  BY <1>2 DEF DeletingSteps, LeaveRooms, CloseRooms, TransferRooms, AbortDeletion, DeleteInFlows,
              RefuseDeletion, DeleteRow, KillTask
<1>3. CASE \E task \in TopicTasks : BeginTopicTask(t, task)
  BY <1>3 DEF BeginTopicTask
<1> QED BY <1>1, <1>2, <1>3, TopicCases

LEMMA TopicsOnly ==
  ASSUME NEW t \in TopicRequests, TopicStep(t)
  PROVE  /\ principal' = principal /\ raced' = raced /\ troubled \subseteq troubled'
         /\ slipped \subseteq slipped' /\ twice \subseteq twice'
         /\ topicTask' = topicTask \/ TaskEnds(t)
<1> USE DEF TopicGoes, TopicFault, taskState, flowsState, rowState, topicHistory
<1>1. CASE PostingSteps(t)
  BY <1>1 DEF PostingSteps, SaveTopic, SaveInBulk, ListTopics, MarkPosted, FailMark, UndoTopic, RollBack,
              EndPosting, SkipIntegrated, PostTopic, RefuseTopic, TakeBack, FailTakeBack
<1>2. CASE DeletingSteps(t)
  BY <1>2 DEF DeletingSteps, LeaveRooms, CloseRooms, TransferRooms, AbortDeletion, DeleteInFlows,
              RefuseDeletion, DeleteRow, KillTask
<1> QED BY <1>1, <1>2, TopicCases

-----------------------------------------------------------------------------
LEMMA TopicTypePosting ==
  ASSUME TopicTypeOK, NEW t \in TopicRequests, PostingSteps(t)
  PROVE  TopicTypeOK'
<1>0. Queues(t) \subseteq Topics /\ LiveTopics \subseteq Topics /\ OpenIn(t) \subseteq FlowRooms
  BY TaskFields DEF TopicTypeOK, Queues, LiveTopics, OpenIn
<1> USE <1>0, TopicAssumption
        DEF TopicGoes, TaskEnds, TopicTypeOK, taskState, flowsState, rowState, roomsState,
            topicHistory, topicBounds
<1>1. ASSUME TopicFault PROVE topicFaults' \in 0..MaxTopicFaults /\ topicTasks' = topicTasks
  BY <1>1 DEF TopicFault
<1>2. CASE SaveTopic(t)
  BY <1>2 DEF SaveTopic
<1>3. CASE SaveInBulk(t)
  BY <1>3 DEF SaveInBulk
<1>4. CASE ListTopics(t)
  BY <1>4 DEF ListTopics
<1>5. CASE MarkPosted(t)
  BY <1>5 DEF MarkPosted
<1>6. CASE FailMark(t)
  BY <1>1, <1>6 DEF FailMark
<1>7. CASE UndoTopic(t)
  BY <1>7 DEF UndoTopic
<1>8. CASE RollBack(t)
  BY <1>8 DEF RollBack
<1>9. CASE EndPosting(t)
  BY <1>9 DEF EndPosting
<1>10. ASSUME NEW q \in Topics, SkipIntegrated(t, q) PROVE TopicTypeOK'
  BY <1>10 DEF SkipIntegrated
<1>11. ASSUME NEW q \in Topics, PostTopic(t, q) PROVE TopicTypeOK'
  BY <1>11 DEF PostTopic
<1>12. ASSUME NEW q \in Topics, RefuseTopic(t, q) PROVE TopicTypeOK'
  BY <1>1, <1>12 DEF RefuseTopic
<1>13. ASSUME NEW q \in Topics, TakeBack(t, q) PROVE TopicTypeOK'
  BY <1>13 DEF TakeBack
<1>14. ASSUME NEW q \in Topics, FailTakeBack(t, q) PROVE TopicTypeOK'
  BY <1>1, <1>14 DEF FailTakeBack
<1> QED BY <1>2, <1>3, <1>4, <1>5, <1>6, <1>7, <1>8, <1>9, <1>10, <1>11, <1>12, <1>13, <1>14
        DEF PostingSteps

LEMMA TopicTypeDeleting ==
  ASSUME TopicTypeOK, NEW t \in TopicRequests, DeletingSteps(t)
  PROVE  TopicTypeOK'
<1>0. Queues(t) \subseteq Topics /\ OpenIn(t) \subseteq FlowRooms
  BY TaskFields DEF TopicTypeOK, Queues, OpenIn
<1> USE <1>0, TopicAssumption
        DEF TopicGoes, TaskEnds, TopicTypeOK, taskState, flowsState, rowState, roomsState,
            topicHistory, topicBounds
<1>1. ASSUME TopicFault PROVE topicFaults' \in 0..MaxTopicFaults /\ topicTasks' = topicTasks
  BY <1>1 DEF TopicFault
<1>2. CASE LeaveRooms(t)
  BY <1>2 DEF LeaveRooms
<1>3. CASE CloseRooms(t)
  BY <1>1, <1>3 DEF CloseRooms
<1>4. CASE TransferRooms(t)
  BY <1>4 DEF TransferRooms
<1>5. CASE AbortDeletion(t)
  BY <1>1, <1>5 DEF AbortDeletion
<1>6. CASE DeleteInFlows(t)
  BY <1>6 DEF DeleteInFlows
<1>7. CASE RefuseDeletion(t)
  BY <1>1, <1>7 DEF RefuseDeletion
<1>8. CASE DeleteRow(t)
  BY <1>8 DEF DeleteRow
<1>9. CASE KillTask(t)
  BY <1>1, <1>9 DEF KillTask
<1> QED BY <1>2, <1>3, <1>4, <1>5, <1>6, <1>7, <1>8, <1>9 DEF DeletingSteps

LEMMA TopicTypeRest ==
  ASSUME TopicTypeOK, NEW t \in TopicRequests, NEW task \in TopicTasks, BeginTopicTask(t, task)
  PROVE  TopicTypeOK'
<1>1. Meets(task) \subseteq Topics
  BY TaskFields DEF Meets, TopicTypeOK, Queues
<1>2. topicTasks' \in 0..MaxTopicTasks
  BY TopicAssumption DEF BeginTopicTask, TopicTypeOK
<1> QED BY <1>1, <1>2 DEF BeginTopicTask, TopicGoes, TopicTypeOK, flowsState, rowState, roomsState

LEMMA TopicTypeRooms ==
  ASSUME TopicTypeOK, NEW r \in FlowRooms,
         InsertFlowRoom(r) \/ \E q \in Topics : SeekTopic(r, q)
  PROVE  TopicTypeOK'
BY DEF InsertFlowRoom, SeekTopic, TopicTypeOK, flowsState, rowState, taskState, topicBounds, topicHistory

-----------------------------------------------------------------------------
\* A request that is begun, or ends, or goes on with what it has.
LEMMA BegunTask ==
  ASSUME TopicTypeOK, NEW t \in TopicRequests, NEW task \in TopicTasks, BeginTopicTask(t, task)
  PROVE  /\ topicAt[t] = "idle" /\ topicAt'[t] = "begun" /\ topicTask'[t] = task
         /\ principal' = principal /\ Kind(t)' # "none"
         /\ UNCHANGED <<toPost, posted, topicRow, topics, integrated, troubled>>
<1>1. task.kind # "none"
  BY DEF TopicTasks, QueueDeletions, SectorDeletions
<1> QED BY <1>1 DEF BeginTopicTask, TopicGoes, TopicTypeOK, Kind, flowsState, rowState

LEMMA CoversTopics ==
  ASSUME TopicTypeOK, NEW t \in TopicRequests
  PROVE  Covers(t) \subseteq Topics /\ Queues(t) \subseteq Covers(t)
         /\ (Kind(t) = "none" => Covers(t) = {})
BY TaskFields DEF Covers, Queues, Kind, TopicTypeOK

LEMMA CoversStays ==
  ASSUME TopicTypeOK, NEW t \in TopicRequests, principal' = principal, topicTask'[t] = topicTask[t]
  PROVE  /\ Covers(t)' = Covers(t) /\ Kind(t)' = Kind(t) /\ Queues(t)' = Queues(t)
         /\ (Posts(t)' <=> Posts(t)) /\ (DeletesSector(t)' <=> DeletesSector(t))
BY DEF Covers, Kind, Queues, Posts, DeletesSector

\* A request that has ended.
LEMMA EndedTask ==
  ASSUME TopicTypeOK, NEW t \in TopicRequests, TaskEnds(t)
  PROVE  /\ topicAt'[t] = "idle" /\ Kind(t)' = "none" /\ Queues(t)' = {} /\ Covers(t)' = {}
         /\ toPost'[t] = {} /\ posted'[t] = {}
BY DEF TaskEnds, TopicTypeOK, Kind, Queues, Covers, NoTask

LEMMA TaskFitsEnded ==
  ASSUME TopicTypeOK, NEW t \in TopicRequests, TaskEnds(t)
  PROVE  TaskFits(t)'
BY EndedTask DEF TaskFits, Posts

LEMMA TaskFitsPosting ==
  ASSUME TopicTypeOK, NEW t \in TopicRequests, TaskFits(t), PostingSteps(t)
  PROVE  TaskFits(t)'
<1>1. CASE TaskEnds(t)
  BY <1>1, TaskFitsEnded
<1>2. CASE topicTask' = topicTask
  <2>1. /\ Covers(t)' = Covers(t) /\ Kind(t)' = Kind(t) /\ Queues(t)' = Queues(t)
        /\ (Posts(t)' <=> Posts(t)) /\ principal' = principal
    BY <1>2, TopicsOnly, CoversStays DEF PostingSteps, TopicStep
  <2>2. Covers(t) \subseteq Topics /\ Queues(t) \subseteq Covers(t) /\ LiveTopics \subseteq Topics
    BY CoversTopics DEF LiveTopics
  <2>3. Kind(t) = "create" => \E q \in Topics : Queues(t) = {q}
    BY TaskFields DEF Kind, Queues, TopicTypeOK
  <2> USE <2>1, <2>2 DEF TopicGoes, TopicFault, taskState, TopicTypeOK, TaskFits
  <2>4. CASE SaveTopic(t) \/ SaveInBulk(t) \/ ListTopics(t)
    BY <2>4 DEF SaveTopic, SaveInBulk, ListTopics, Posts, Covers
  <2>5. CASE MarkPosted(t) \/ FailMark(t)
    BY <2>5 DEF MarkPosted, FailMark, Posts
  <2>6. ASSUME NEW q \in Topics, SkipIntegrated(t, q) \/ PostTopic(t, q) PROVE TaskFits(t)'
    BY <2>6 DEF SkipIntegrated, PostTopic, Posts
  <2>7. ASSUME NEW q \in Topics, RefuseTopic(t, q), ~principal PROVE TaskFits(t)'
    BY <2>3, <2>7 DEF RefuseTopic, Posts, Covers
  <2>8. ASSUME NEW q \in Topics, TakeBack(t, q) \/ FailTakeBack(t, q) PROVE TaskFits(t)'
    BY <2>8 DEF TakeBack, FailTakeBack, Posts
  <2>9. CASE UndoTopic(t) \/ RollBack(t) \/ EndPosting(t) \/ \E q \in Topics : RefuseTopic(t, q) /\ principal
    <3>1. TaskEnds(t)
      BY <2>9 DEF UndoTopic, RollBack, EndPosting, RefuseTopic
    <3> QED BY <3>1, TaskFitsEnded
  <2> QED BY <2>4, <2>5, <2>6, <2>7, <2>8, <2>9 DEF PostingSteps
<1> QED BY <1>1, <1>2, TopicsOnly DEF PostingSteps, TopicStep

LEMMA TaskFitsDeleting ==
  ASSUME TopicTypeOK, NEW t \in TopicRequests, TaskFits(t), DeletingSteps(t)
  PROVE  TaskFits(t)'
<1>1. CASE TaskEnds(t)
  BY <1>1, TaskFitsEnded
<1>2. CASE topicTask' = topicTask
  <2>1. /\ Covers(t)' = Covers(t) /\ Kind(t)' = Kind(t) /\ Queues(t)' = Queues(t)
        /\ (Posts(t)' <=> Posts(t)) /\ principal' = principal
    BY <1>2, TopicsOnly, CoversStays DEF DeletingSteps, TopicStep
  <2> USE <2>1 DEF TopicGoes, taskState, TopicTypeOK, TaskFits
  <2>2. CASE LeaveRooms(t) \/ CloseRooms(t) \/ TransferRooms(t)
    BY <2>2 DEF LeaveRooms, CloseRooms, TransferRooms, Posts
  <2>3. CASE DeleteInFlows(t)
    BY <2>3 DEF DeleteInFlows
  <2>4. CASE AbortDeletion(t) \/ RefuseDeletion(t) \/ DeleteRow(t) \/ KillTask(t)
    <3>1. TaskEnds(t)
      BY <2>4 DEF AbortDeletion, RefuseDeletion, DeleteRow, KillTask
    <3> QED BY <3>1, TaskFitsEnded
  <2> QED BY <2>2, <2>3, <2>4 DEF DeletingSteps
<1> QED BY <1>1, <1>2, TopicsOnly DEF DeletingSteps, TopicStep

LEMMA TaskFitsStep ==
  ASSUME TopicTypeOK, \A t \in TopicRequests : TaskFits(t), NEW t \in TopicRequests,
         TopicStep(t) \/ \E task \in TopicTasks : BeginTopicTask(t, task)
  PROVE  \A u \in TopicRequests : TaskFits(u)'
<1> SUFFICES ASSUME NEW u \in TopicRequests PROVE TaskFits(u)'
  OBVIOUS
<1>0. principal' = principal
  BY TopicsOnly, BegunTask
<1>1. CASE u # t
  <2>1. SameTask(u)
    BY <1>1, OtherTasks
  <2>2. /\ Covers(u)' = Covers(u) /\ Kind(u)' = Kind(u) /\ Queues(u)' = Queues(u)
        /\ (Posts(u)' <=> Posts(u))
    BY <1>0, <2>1, CoversStays DEF SameTask
  <2> QED BY <1>0, <2>1, <2>2 DEF SameTask, TaskFits
<1>2. CASE u = t /\ TopicStep(t)
  BY <1>2, TaskFitsPosting, TaskFitsDeleting, TopicCases
<1>3. ASSUME u = t, NEW task \in TopicTasks, BeginTopicTask(t, task) PROVE TaskFits(u)'
  <2>1. /\ topicAt'[t] = "begun" /\ Kind(t)' # "none" /\ toPost'[t] = {} /\ posted'[t] = {}
    BY <1>3, BegunTask DEF TaskFits
  <2>2. Kind(t)' = "integrate" => principal'
    BY <1>3, <1>0, BegunTask DEF BeginTopicTask, Kind
  <2> QED BY <1>3, <2>1, <2>2 DEF TaskFits
<1> QED BY <1>1, <1>2, <1>3

-----------------------------------------------------------------------------
\* Where requests meet, one of which posts, the queues are told.
LEMMA MeetingIsTold ==
  ASSUME TopicTypeOK, \A t \in TopicRequests : TaskFits(t), NEW t \in TopicRequests,
         NEW task \in TopicTasks, BeginTopicTask(t, task), NEW u \in TopicRequests, u # t,
         Posts(t)' \/ Posts(u)
  PROVE  Covers(t)' \cap Covers(u) \subseteq raced'
<1>1. CASE topicAt[u] = "idle"
  BY <1>1, CoversTopics DEF TaskFits
<1>2. CASE topicAt[u] # "idle"
  <2>1. topicTask'[t] = task /\ principal' = principal
    BY BegunTask
  <2>2. Posts(t)' <=> task.kind \in {"create", "bulk", "integrate"}
    BY <2>1 DEF Posts, Kind
  <2>3. Covers(t)' = IF task.kind = "integrate" \/ (principal /\ task.kind \in {"create", "bulk"})
                     THEN Topics ELSE task.queues
    BY <2>1 DEF Covers, Kind, Queues
  <2>4. Covers(t)' \cap Covers(u) \subseteq Meets(task)
    BY <1>2, <2>2, <2>3 DEF Meets, Covers, Posts
  <2> QED BY <2>4 DEF BeginTopicTask
<1> QED BY <1>1, <1>2

LEMMA PostsAloneStep ==
  ASSUME TopicTypeOK, \A t \in TopicRequests : TaskFits(t), PostsAlone, NEW t \in TopicRequests,
         TopicStep(t) \/ \E task \in TopicTasks : BeginTopicTask(t, task)
  PROVE  PostsAlone'
<1> SUFFICES ASSUME NEW u \in TopicRequests, NEW v \in TopicRequests, u # v PROVE AloneOn(u, v)'
  BY DEF PostsAlone
<1>0. principal' = principal
  BY TopicsOnly, BegunTask
<1>1. \A w \in TopicRequests : w # t => Covers(w)' = Covers(w) /\ (Posts(w)' <=> Posts(w))
  BY <1>0, OtherTasks, CoversStays DEF SameTask
<1>2. CASE TopicStep(t)
  <2>1. raced' = raced
    BY <1>2, TopicsOnly
  <2>2. \A w \in TopicRequests : (Covers(w)' = Covers(w) /\ (Posts(w)' <=> Posts(w))) \/ Covers(w)' = {}
    BY <1>0, <1>1, <1>2, TopicsOnly, EndedTask, CoversStays
  <2> QED BY <2>1, <2>2 DEF PostsAlone, AloneOn
<1>3. ASSUME NEW task \in TopicTasks, BeginTopicTask(t, task) PROVE AloneOn(u, v)'
  <2>1. raced \subseteq raced'
    BY <1>3 DEF BeginTopicTask
  <2>2. CASE u # t /\ v # t
    BY <1>1, <2>1, <2>2 DEF PostsAlone, AloneOn
  <2>3. CASE u = t
    BY <1>1, <1>3, <2>3, MeetingIsTold DEF AloneOn
  <2>4. CASE v = t
    BY <1>1, <1>3, <2>4, MeetingIsTold DEF AloneOn
  <2> QED BY <2>2, <2>3, <2>4
<1> QED BY <1>2, <1>3

-----------------------------------------------------------------------------
LEMMA RowsStay ==
  ASSUME TopicTypeOK, NEW t \in TopicRequests, TopicStep(t), NEW q \in Topics
  PROVE  topicRow[q] # "none" => topicRow'[q] # "none"
<1> USE DEF TopicTypeOK, rowState
<1>1. CASE PostingSteps(t)
  BY <1>1 DEF PostingSteps, SaveTopic, SaveInBulk, ListTopics, MarkPosted, FailMark, UndoTopic, RollBack,
              EndPosting, SkipIntegrated, PostTopic, RefuseTopic, TakeBack, FailTakeBack
<1>2. CASE DeletingSteps(t)
  BY <1>2 DEF DeletingSteps, LeaveRooms, CloseRooms, TransferRooms, AbortDeletion, DeleteInFlows,
              RefuseDeletion, DeleteRow, KillTask
<1> QED BY <1>1, <1>2, TopicCases

\* What a request integrates or is to post, it knew before or has just saved or listed.
LEMMA KnownStep ==
  ASSUME TopicTypeOK, \A t \in TopicRequests : TaskFits(t), RowsAreKnown,
         NEW t \in TopicRequests, TopicStep(t), NEW q \in Topics
  PROVE  /\ q \in integrated' => topicRow'[q] # "none"
         /\ q \in toPost'[t] \cup posted'[t] =>
               topicRow'[q] # "none" \/ (Kind(t)' = "bulk" /\ q \in Queues(t)')
<1> USE DEF TopicTypeOK, TopicGoes, rowState, taskState
<1>0. /\ q \in integrated => topicRow'[q] # "none"
      /\ q \in toPost[t] \cup posted[t] =>
            topicRow'[q] # "none" \/ (Kind(t) = "bulk" /\ q \in Queues(t))
  BY RowsStay DEF RowsAreKnown
<1>1. topicTask' = topicTask => Kind(t)' = Kind(t) /\ Queues(t)' = Queues(t)
  BY DEF Kind, Queues
<1>2. CASE SaveTopic(t) \/ SaveInBulk(t) \/ ListTopics(t)
  BY <1>0, <1>1, <1>2 DEF SaveTopic, SaveInBulk, ListTopics, LiveTopics, TaskFits
<1>3. CASE MarkPosted(t)
  <2>1. q \in integrated' \ integrated => Kind(t) # "bulk" /\ q \in toPost[t]
    BY <1>3 DEF MarkPosted
  <2>2. /\ toPost'[t] \subseteq toPost[t] /\ posted' = posted /\ topicTask' = topicTask
    BY <1>3 DEF MarkPosted
  <2> QED BY <1>0, <1>1, <2>1, <2>2
<1>4. CASE FailMark(t)
  BY <1>0, <1>1, <1>4 DEF FailMark
<1>5. CASE \E s \in Topics : SkipIntegrated(t, s) \/ PostTopic(t, s)
                              \/ TakeBack(t, s) \/ FailTakeBack(t, s)
  BY <1>0, <1>1, <1>5 DEF SkipIntegrated, PostTopic, TakeBack, FailTakeBack
<1>6. CASE EndPosting(t)
  <2>1. q \in integrated' \ integrated => topicRow'[q] # "none"
    BY <1>0, <1>6 DEF EndPosting
  <2>2. toPost'[t] = {} /\ posted'[t] = {}
    BY <1>6, EndedTask DEF EndPosting
  <2> QED BY <1>0, <2>1, <2>2
<1>7. ASSUME TaskEnds(t), integrated' = integrated
      PROVE  /\ q \in integrated' => topicRow'[q] # "none"
             /\ q \in toPost'[t] \cup posted'[t] =>
                   topicRow'[q] # "none" \/ (Kind(t)' = "bulk" /\ q \in Queues(t)')
  BY <1>0, <1>7, EndedTask
<1>8. CASE UndoTopic(t) \/ RollBack(t) \/ AbortDeletion(t) \/ RefuseDeletion(t) \/ DeleteRow(t)
           \/ KillTask(t)
  BY <1>7, <1>8 DEF UndoTopic, RollBack, AbortDeletion, RefuseDeletion, DeleteRow, KillTask
<1>9. CASE \E s \in Topics : RefuseTopic(t, s)
  BY <1>0, <1>1, <1>7, <1>9 DEF RefuseTopic
<1>10. CASE LeaveRooms(t) \/ CloseRooms(t) \/ TransferRooms(t) \/ DeleteInFlows(t)
  BY <1>0, <1>1, <1>10 DEF LeaveRooms, CloseRooms, TransferRooms, DeleteInFlows
<1> QED BY <1>2, <1>3, <1>4, <1>5, <1>6, <1>8, <1>9, <1>10, TopicCases DEF PostingSteps, DeletingSteps

LEMMA RowsAreKnownStep ==
  ASSUME TopicTypeOK, \A t \in TopicRequests : TaskFits(t), RowsAreKnown, NEW t \in TopicRequests,
         TopicStep(t) \/ \E task \in TopicTasks : BeginTopicTask(t, task)
  PROVE  RowsAreKnown'
<1>1. CASE TopicStep(t)
  <2>1. integrated' \subseteq Topics /\ \A u \in TopicRequests : toPost'[u] \cup posted'[u] \subseteq Topics
    BY <1>1, TopicTypePosting, TopicTypeDeleting, TopicCases DEF TopicTypeOK
  <2>2. ASSUME NEW u \in TopicRequests, NEW q \in toPost'[u] \cup posted'[u]
        PROVE  topicRow'[q] # "none" \/ (Kind(u)' = "bulk" /\ q \in Queues(u)')
    <3>0. q \in Topics
      BY <2>1, <2>2
    <3>1. CASE u = t
      BY <1>1, <2>2, <3>0, <3>1, KnownStep
    <3>2. CASE u # t
      <4>1. SameTask(u)
        BY <1>1, <3>2, OtherTasks
      <4>2. Kind(u)' = Kind(u) /\ Queues(u)' = Queues(u)
        BY <4>1 DEF SameTask, Kind, Queues
      <4> QED BY <1>1, <2>2, <3>0, <4>1, <4>2, RowsStay DEF SameTask, RowsAreKnown
    <3> QED BY <3>1, <3>2
  <2>3. \A q \in integrated' : topicRow'[q] # "none"
    BY <1>1, <2>1, KnownStep
  <2> QED BY <2>2, <2>3 DEF RowsAreKnown
<1>2. ASSUME NEW task \in TopicTasks, BeginTopicTask(t, task) PROVE RowsAreKnown'
  <2>1. UNCHANGED <<toPost, posted, topicRow, integrated>>
    BY <1>2, BegunTask
  <2>2. ASSUME NEW u \in TopicRequests, u # t PROVE Kind(u)' = Kind(u) /\ Queues(u)' = Queues(u)
    BY <1>2, <2>2, OtherTasks DEF SameTask, Kind, Queues
  <2>3. toPost[t] = {} /\ posted[t] = {}
    BY <1>2, BegunTask DEF TaskFits
  <2> QED BY <2>1, <2>2, <2>3 DEF RowsAreKnown
<1> QED BY <1>1, <1>2

-----------------------------------------------------------------------------
DropsSector(t) == DeletesSector(t) /\ topicAt[t] = "delete"

LEMMA QuietSector ==
  ASSUME TopicTypeOK, SectorFits, NEW t \in TopicRequests, sectorLive' = sectorLive,
         sectorInFlows' = sectorInFlows, troubled \subseteq troubled',
         DropsSector(t)' <=> DropsSector(t), \A u \in TopicRequests : u # t => SameTask(u)
  PROVE  SectorFits'
<1>1. \A u \in TopicRequests : DropsSector(u)' <=> DropsSector(u)
  BY DEF SameTask, DropsSector, DeletesSector, Kind
<1> QED BY <1>1 DEF SectorFits, DropsSector

LEMMA SectorFitsStep ==
  ASSUME TopicTypeOK, \A t \in TopicRequests : TaskFits(t), SectorFits, NEW t \in TopicRequests,
         TopicStep(t) \/ \E task \in TopicTasks : BeginTopicTask(t, task)
  PROVE  SectorFits'
<1>0. \A u \in TopicRequests : u # t => SameTask(u)
  BY OtherTasks
<1>1. ASSUME NEW task \in TopicTasks, BeginTopicTask(t, task) PROVE SectorFits'
  BY <1>0, <1>1, QuietSector DEF BeginTopicTask, TopicGoes, TopicTypeOK, rowState, flowsState, DropsSector
<1>2. CASE PostingSteps(t)
  <2>1. /\ sectorLive' = sectorLive /\ sectorInFlows' = sectorInFlows
        /\ topicAt[t] # "delete" /\ topicAt'[t] # "delete"
    BY <1>2 DEF TopicTypeOK, TopicGoes, TaskEnds, rowState, flowsState, taskState, PostingSteps, SaveTopic,
                SaveInBulk, ListTopics, MarkPosted, FailMark, UndoTopic, RollBack, EndPosting,
                SkipIntegrated, PostTopic, RefuseTopic, TakeBack, FailTakeBack
  <2> QED BY <1>0, <1>2, <2>1, QuietSector, TopicsOnly DEF DropsSector, TopicStep, PostingSteps
<1>3. CASE LeaveRooms(t) \/ CloseRooms(t) \/ TransferRooms(t) \/ AbortDeletion(t) \/ RefuseDeletion(t)
  <2>1. /\ sectorLive' = sectorLive /\ sectorInFlows' = sectorInFlows /\ troubled' = troubled
        /\ topicAt[t] # "delete" /\ topicAt'[t] # "delete"
    BY <1>3 DEF TopicTypeOK, TopicGoes, TaskEnds, rowState, flowsState, topicHistory, LeaveRooms,
                CloseRooms, TransferRooms, AbortDeletion, RefuseDeletion
  <2> QED BY <1>0, <2>1, QuietSector DEF DropsSector
<1>4. CASE DeleteInFlows(t)
  <2>1. /\ sectorLive' = sectorLive /\ sectorInFlows' = (sectorInFlows /\ ~DeletesSector(t))
        /\ DeletesSector(t) => sectorInFlows
        /\ topicAt[t] = "call" /\ topicAt'[t] = "delete" /\ troubled' = troubled
        /\ (DeletesSector(t)' <=> DeletesSector(t))
    BY <1>4 DEF DeleteInFlows, TopicGoes, TopicTypeOK, rowState, topicHistory, DeletesSector, Kind
  <2>2. \A u \in TopicRequests : u # t => (DropsSector(u)' <=> DropsSector(u))
    BY <1>0 DEF SameTask, DropsSector, DeletesSector, Kind
  <2>3. CASE ~DeletesSector(t)
    <3>1. sectorInFlows' = sectorInFlows
      BY <2>1, <2>3 DEF TopicTypeOK
    <3> QED BY <1>0, <2>1, <2>3, <3>1, QuietSector DEF DropsSector
  <2>4. CASE DeletesSector(t)
    <3>1. sectorInFlows' = FALSE /\ DropsSector(t)'
      BY <2>1, <2>4 DEF DropsSector
    <3> QED BY <3>1 DEF SectorFits, DropsSector
  <2> QED BY <2>3, <2>4
<1>5. CASE DeleteRow(t)
  <2>1. /\ sectorInFlows' = sectorInFlows /\ troubled' = troubled
        /\ topicAt[t] = "delete" /\ topicAt'[t] = "idle"
    <3>1. /\ UNCHANGED flowsState /\ troubled' = troubled
          /\ topicAt[t] = "delete" /\ TaskEnds(t)
      BY <1>5 DEF DeleteRow, topicHistory
    <3> QED BY <3>1, EndedTask DEF flowsState
  <2>2. CASE ~DeletesSector(t)
    <3>1. sectorLive' = sectorLive
      BY <1>5, <2>2 DEF DeleteRow, TopicTypeOK
    <3> QED BY <1>0, <2>1, <2>2, <3>1, QuietSector DEF DropsSector
  <2>3. CASE DeletesSector(t)
    <3>1. sectorLive' = FALSE
      BY <1>5, <2>3 DEF DeleteRow
    <3>2. sectorInFlows' = FALSE
      BY <2>1, <2>3 DEF SectorFits, TopicTypeOK
    <3> QED BY <3>1, <3>2 DEF SectorFits
  <2> QED BY <2>2, <2>3
<1>6. CASE KillTask(t)
  <2>1. /\ sectorLive' = sectorLive /\ sectorInFlows' = sectorInFlows /\ troubled \subseteq troubled'
        /\ topicAt'[t] # "delete" /\ (DeletesSector(t) => NoTopic \in troubled')
    BY <1>6 DEF KillTask, TaskEnds, TopicTypeOK, rowState, flowsState
  <2>2. CASE ~DeletesSector(t)
    BY <1>0, <2>1, <2>2, QuietSector DEF DropsSector
  <2>3. CASE DeletesSector(t)
    <3>1. \A u \in TopicRequests : DropsSector(u)' => DropsSector(u)
      BY <1>0, <2>1 DEF SameTask, DropsSector, DeletesSector, Kind
    <3> QED BY <2>1, <2>3, <3>1 DEF SectorFits, DropsSector
  <2> QED BY <2>2, <2>3
<1> QED BY <1>1, <1>2, <1>3, <1>4, <1>5, <1>6, TopicCases DEF DeletingSteps

-----------------------------------------------------------------------------
\* A room that is in no queue on its way out.
LeftOut(r) ==
    r \notin slipped /\ roomState[r] = "open" /\ roomTopic[r] # NoTopic =>
        /\ topicRow[roomTopic[r]] # "deleted"
        /\ \A t \in TopicRequests : topicAt[t] \in {"call", "delete"} => roomTopic[r] \notin Queues(t)

LEMMA NoneLeftStep ==
  ASSUME TopicTypeOK, \A t \in TopicRequests : TaskFits(t), NoneLeft, NEW t \in TopicRequests,
         TopicStep(t) \/ \E task \in TopicTasks : BeginTopicTask(t, task)
  PROVE  NoneLeft'
<1> SUFFICES ASSUME NEW r \in FlowRooms PROVE LeftOut(r)'
  BY DEF NoneLeft, LeftOut
<1>0. LeftOut(r)
  BY DEF NoneLeft, LeftOut
<1>1. \A u \in TopicRequests : u # t => topicAt'[u] = topicAt[u] /\ Queues(u)' = Queues(u)
  BY OtherTasks DEF SameTask, Queues
<1>2. roomTopic[r] \in Topics \cup {NoTopic}
  BY DEF TopicTypeOK
<1> USE DEF TopicTypeOK, TopicGoes, rowState, roomsState, taskState, topicHistory
<1>3. ASSUME NEW task \in TopicTasks, BeginTopicTask(t, task) PROVE LeftOut(r)'
  BY <1>0, <1>1, <1>3 DEF BeginTopicTask, LeftOut
<1>4. ASSUME topicAt'[t] \notin {"call", "delete"}, roomState' = roomState, slipped \subseteq slipped',
             roomTopic'[r] = roomTopic[r] \/ roomTopic'[r] = NoTopic,
             \A q \in Topics : topicRow'[q] = "deleted" => topicRow[q] = "deleted"
      PROVE  LeftOut(r)'
  BY <1>0, <1>1, <1>2, <1>4 DEF LeftOut
<1>5. CASE SaveTopic(t) \/ SaveInBulk(t) \/ ListTopics(t) \/ MarkPosted(t) \/ FailMark(t)
  BY <1>4, <1>5 DEF SaveTopic, SaveInBulk, ListTopics, MarkPosted, FailMark
<1>6. CASE \E q \in Topics : SkipIntegrated(t, q) \/ PostTopic(t, q) \/ TakeBack(t, q) \/ FailTakeBack(t, q)
  BY <1>4, <1>6 DEF SkipIntegrated, PostTopic, TakeBack, FailTakeBack
<1>7. CASE RollBack(t) \/ EndPosting(t) \/ AbortDeletion(t) \/ RefuseDeletion(t) \/ KillTask(t)
           \/ \E q \in Topics : RefuseTopic(t, q)
  BY <1>4, <1>7, EndedTask DEF RollBack, EndPosting, AbortDeletion, RefuseDeletion, KillTask,
         RefuseTopic
<1>8. CASE UndoTopic(t)
  <2>1. /\ topicAt'[t] = "idle" /\ roomState' = roomState /\ roomTopic' = roomTopic
        /\ slipped' = slipped \cup OpenIn(t)
        /\ \A q \in Topics : topicRow'[q] = "deleted" => topicRow[q] = "deleted" \/ q \in Queues(t)
    BY <1>8, EndedTask DEF UndoTopic
  <2> QED BY <1>0, <1>1, <1>2, <2>1 DEF LeftOut, OpenIn
<1>9. CASE LeaveRooms(t) \/ CloseRooms(t) \/ TransferRooms(t)
  <2>1. topicRow' = topicRow /\ Queues(t)' = Queues(t) /\ slipped \subseteq slipped'
    BY <1>9 DEF LeaveRooms, CloseRooms, TransferRooms, Queues
  <2>2. roomState'[r] = "open" /\ r \notin slipped' /\ roomTopic'[r] # NoTopic =>
            roomState[r] = "open" /\ roomTopic'[r] = roomTopic[r] /\ roomTopic[r] \notin Queues(t)
    BY <1>9 DEF LeaveRooms, CloseRooms, TransferRooms, OpenIn
  <2> QED BY <1>0, <1>1, <2>1, <2>2 DEF LeftOut
<1>10. CASE DeleteInFlows(t)
  <2>1. Queues(t)' = Queues(t)
    BY <1>10 DEF DeleteInFlows, Queues
  <2> QED BY <1>0, <1>1, <1>10, <2>1 DEF DeleteInFlows, LeftOut
<1>11. CASE DeleteRow(t)
  <2>1. /\ topicAt[t] = "delete" /\ topicAt'[t] = "idle" /\ roomState' = roomState
        /\ roomTopic' = roomTopic /\ slipped' = slipped
    BY <1>11, EndedTask DEF DeleteRow
  <2>2. \A q \in Topics : topicRow'[q] = "deleted" => topicRow[q] = "deleted" \/ q \in Queues(t)
    BY <1>11 DEF DeleteRow
  <2> QED BY <1>0, <1>1, <1>2, <2>1, <2>2 DEF LeftOut
<1> QED BY <1>3, <1>5, <1>6, <1>7, <1>8, <1>9, <1>10, <1>11, TopicCases DEF PostingSteps, DeletingSteps

-----------------------------------------------------------------------------
\* A request that has nothing to do with the queue.
Apart(t, q) ==
    ~MakesTopic(t, q) /\ ~Drops(t, q) /\ q \notin toPost[t] \cup posted[t]
SameTopic(q) ==
    /\ topicRow'[q] = topicRow[q]
    /\ (q \in topics' <=> q \in topics) /\ (q \in integrated' <=> q \in integrated)

LEMMA ApartStays ==
  ASSUME TopicTypeOK, NEW t \in TopicRequests, NEW q \in Topics, TopicFits(q), principal' = principal,
         \A u \in TopicRequests : u # t => SameTask(u),
         SameTopic(q), Apart(t, q), Apart(t, q)'
  PROVE  TopicFits(q)'
<1>1. ASSUME NEW u \in TopicRequests, u # t
      PROVE  /\ topicAt'[u] = topicAt[u] /\ toPost'[u] = toPost[u] /\ posted'[u] = posted[u]
             /\ (MakesTopic(u, q)' <=> MakesTopic(u, q)) /\ (Drops(u, q)' <=> Drops(u, q))
             /\ Kind(u)' = Kind(u)
  BY <1>1 DEF SameTask, MakesTopic, Drops, Kind, Queues
<1>2. ASSUME NEW u \in TopicRequests, MakesTopic(u, q)' PROVE MadeFits(u, q)'
  <2>1. u # t
    BY <1>2 DEF Apart
  <2>2. MadeFits(u, q)
    BY <1>1, <1>2, <2>1 DEF TopicFits
  <2> QED BY <1>1, <2>1, <2>2 DEF MadeFits, SameTopic
<1>3. ASSUME \A u \in TopicRequests : ~MakesTopic(u, q)' PROVE KeptFits(q)'
  <2>1. \A u \in TopicRequests : ~MakesTopic(u, q)
    BY <1>1, <1>3 DEF Apart
  <2>2. KeptFits(q)
    BY <2>1 DEF TopicFits
  <2>3. \A u \in TopicRequests : Drops(u, q)' <=> Drops(u, q)
    BY <1>1 DEF Apart
  <2>4. \A u \in TopicRequests : q \notin posted'[u] /\ (q \in toPost'[u] => topicRow'[q] = "live")
    BY <1>1, <2>2 DEF Apart, KeptFits, SameTopic
  <2> QED BY <2>2, <2>3, <2>4 DEF KeptFits, SameTopic
<1> QED BY <1>2, <1>3 DEF TopicFits

\* A step leaves the queues that its request does not cover.
LEMMA UncoveredStays ==
  ASSUME TopicTypeOK, NEW t \in TopicRequests, TaskFits(t), TopicStep(t),
         NEW q \in Topics, q \notin Covers(t)
  PROVE  SameTopic(q)
<1>1. q \notin Queues(t) \cup toPost[t] \cup posted[t]
  BY CoversTopics DEF TaskFits
<1> USE <1>1 DEF TopicTypeOK, SameTopic, rowState, flowsState
<1>2. CASE PostingSteps(t)
  BY <1>2 DEF PostingSteps, SaveTopic, SaveInBulk, ListTopics, MarkPosted, FailMark, UndoTopic, RollBack,
              EndPosting, SkipIntegrated, PostTopic, RefuseTopic, TakeBack, FailTakeBack
<1>3. CASE DeletingSteps(t)
  BY <1>3 DEF DeletingSteps, LeaveRooms, CloseRooms, TransferRooms, AbortDeletion, DeleteInFlows,
              RefuseDeletion, DeleteRow, KillTask
<1> QED BY <1>2, <1>3, TopicCases

LEMMA UncoveredFits ==
  ASSUME TopicTypeOK, \A u \in TopicRequests : TaskFits(u), NEW t \in TopicRequests, TopicStep(t),
         NEW q \in Topics, q \notin Covers(t), TopicFits(q)
  PROVE  TopicFits(q)'
<1>1. \A u \in TopicRequests : u # t => SameTask(u)
  BY OtherTasks
<1>2. principal' = principal
  BY TopicsOnly
<1>3. Apart(t, q)
  BY CoversTopics DEF Apart, MakesTopic, Drops, TaskFits
<1>4. TaskFits(t)'
  BY TaskFitsStep
<1>5. q \notin Covers(t)' /\ Queues(t)' \subseteq Covers(t)'
  BY <1>2, TopicsOnly, EndedTask, CoversStays, CoversTopics
<1>6. Apart(t, q)'
  BY <1>4, <1>5 DEF Apart, MakesTopic, Drops, TaskFits
<1> QED BY <1>1, <1>2, <1>3, <1>6, ApartStays, UncoveredStays

\* A request that posts is alone with its queues.
Alone1(t, q) == \A u \in TopicRequests : u # t => q \notin Covers(u)
SoloFits(t, q) ==
    /\ MakesTopic(t, q) => MadeFits(t, q)
    /\ ~MakesTopic(t, q) =>
          /\ q \in topics <=> topicRow[q] = "live"
          /\ principal /\ q \in topics => q \in integrated
          /\ q \notin posted[t] /\ (q \in toPost[t] => topicRow[q] = "live")

LEMMA SoloIsFit ==
  TopicTypeOK /\ (\A u \in TopicRequests : TaskFits(u)) =>
      \A t \in TopicRequests, q \in Topics :
          Alone1(t, q) /\ ~Drops(t, q) => (TopicFits(q) <=> SoloFits(t, q))
<1> SUFFICES ASSUME TopicTypeOK, \A u \in TopicRequests : TaskFits(u),
                    NEW t \in TopicRequests, NEW q \in Topics, Alone1(t, q), ~Drops(t, q)
             PROVE  TopicFits(q) <=> SoloFits(t, q)
  OBVIOUS
<1>1. \A u \in TopicRequests : u # t => Apart(u, q)
  BY CoversTopics DEF Alone1, Apart, MakesTopic, Drops, TaskFits
<1> QED BY <1>1 DEF TopicFits, SoloFits, KeptFits, Apart

LEMMA SoloWasFit ==
  (TopicTypeOK /\ (\A u \in TopicRequests : TaskFits(u)) =>
      \A t \in TopicRequests, q \in Topics :
          Alone1(t, q) /\ ~Drops(t, q) => (TopicFits(q) <=> SoloFits(t, q)))'
<1> QED BY SoloIsFit, PTL

LEMMA SoloEnds ==
  ASSUME TopicTypeOK, NEW t \in TopicRequests, NEW q \in Topics, TaskEnds(t),
         q \in topics' <=> topicRow'[q] = "live", principal' /\ q \in topics' => q \in integrated'
  PROVE  SoloFits(t, q)'
BY EndedTask DEF SoloFits, MakesTopic

LEMMA SoloStep ==
  ASSUME TopicTypeOK, NEW t \in TopicRequests, TaskFits(t), RowsAreKnown, Posts(t), TopicStep(t),
         NEW q \in Topics, q \notin troubled', SoloFits(t, q)
  PROVE  SoloFits(t, q)'
<1>0. /\ principal' = principal /\ ~Drops(t, q)
      /\ Queues(t) \subseteq Covers(t) /\ (MakesTopic(t, q) => q \in Queues(t))
  BY TopicsOnly, CoversTopics DEF Drops, TaskFits, MakesTopic
<1>1. topicTask' = topicTask =>
         (MakesTopic(t, q)' <=> MakesTopic(t, q)) /\ Kind(t)' = Kind(t) /\ Queues(t)' = Queues(t)
  BY DEF MakesTopic, Kind, Queues
<1> USE <1>0, <1>1 DEF TopicTypeOK, TopicGoes, rowState, flowsState, taskState
<1>2. CASE SaveTopic(t)
  BY <1>2 DEF SaveTopic, SoloFits, MadeFits, MakesTopic, TaskFits, LiveTopics
<1>3. CASE SaveInBulk(t) \/ ListTopics(t)
  BY <1>3 DEF SaveInBulk, ListTopics, SoloFits, MadeFits, MakesTopic, TaskFits, LiveTopics
<1>4. CASE MarkPosted(t)
  BY <1>4 DEF MarkPosted, SoloFits, MadeFits
<1>5. CASE FailMark(t)
  BY <1>5 DEF FailMark, SoloFits, MadeFits
<1>6. ASSUME NEW s \in Topics, SkipIntegrated(t, s) PROVE SoloFits(t, q)'
  BY <1>6 DEF SkipIntegrated, SoloFits, MadeFits, TaskFits
<1>7. ASSUME NEW s \in Topics, PostTopic(t, s) PROVE SoloFits(t, q)'
  <2>1. CASE q # s
    BY <1>7, <2>1 DEF PostTopic, SoloFits, MadeFits
  <2>2. CASE q = s
    <3>1. q \in toPost[t] /\ (principal => q \notin integrated)
      BY <1>7, <2>2 DEF PostTopic
    <3>2. MakesTopic(t, q)
      <4> SUFFICES ASSUME ~MakesTopic(t, q) PROVE FALSE
        OBVIOUS
      <4>1. ~principal
        BY <3>1 DEF SoloFits
      <4>2. Covers(t) = Queues(t) /\ Kind(t) \in {"create", "bulk"}
        BY <4>1 DEF Covers, TaskFits, Posts
      <4> QED BY <3>1, <4>2 DEF TaskFits, MakesTopic
    <3> QED BY <1>7, <2>2, <3>1, <3>2 DEF PostTopic, SoloFits, MadeFits
  <2> QED BY <2>1, <2>2
<1>8. ASSUME NEW s \in Topics, RefuseTopic(t, s) PROVE SoloFits(t, q)'
  <2>1. UNCHANGED <<topics, topicRow, integrated>> /\ topicAt[t] = "post"
    BY <1>8 DEF RefuseTopic
  <2>2. CASE principal
    <3>1. TaskEnds(t) /\ q \notin toPost[t] \cup posted[t]
      BY <1>8, <2>2 DEF RefuseTopic
    <3>2. ~MakesTopic(t, q)
      BY <2>1, <3>1 DEF SoloFits, MadeFits
    <3> QED BY <2>1, <3>1, <3>2, SoloEnds DEF SoloFits
  <2>3. CASE ~principal
    BY <1>8, <2>1, <2>3 DEF RefuseTopic, SoloFits, MadeFits
  <2> QED BY <2>2, <2>3
<1>9. CASE UndoTopic(t)
  <2>1. /\ TaskEnds(t) /\ topics' = topics /\ integrated' = integrated /\ ~principal
        /\ topicRow'[q] = IF q \in Queues(t) THEN "deleted" ELSE topicRow[q]
        /\ Kind(t) = "create" /\ (q \in Queues(t) => q \in toPost[t] /\ q \notin posted[t])
    BY <1>9 DEF UndoTopic, TaskFits
  <2> QED BY <2>1, SoloEnds DEF SoloFits, MadeFits, MakesTopic
<1>10. ASSUME NEW s \in Topics, TakeBack(t, s) PROVE SoloFits(t, q)'
  <2>1. Kind(t) = "bulk"
    BY <1>10 DEF TakeBack, TaskFits
  <2>2. MakesTopic(t, q) => q \notin integrated
    BY <2>1 DEF RowsAreKnown, SoloFits, MadeFits
  <2> QED BY <1>10, <2>1, <2>2 DEF TakeBack, SoloFits, MadeFits
<1>11. ASSUME NEW s \in Topics, FailTakeBack(t, s) PROVE SoloFits(t, q)'
  BY <1>11 DEF FailTakeBack, SoloFits, MadeFits
<1>12. CASE RollBack(t)
  <2>1. /\ TaskEnds(t) /\ UNCHANGED <<topics, topicRow, integrated>> /\ posted[t] = {}
        /\ topicAt[t] = "compensate" /\ Kind(t) = "bulk" /\ ~principal
    BY <1>12 DEF RollBack, TaskFits
  <2> QED BY <2>1, SoloEnds DEF SoloFits, MadeFits
<1>13. CASE EndPosting(t)
  <2>1. TaskEnds(t) /\ topics' = topics /\ toPost[t] = {} /\ topicAt[t] = "post"
    BY <1>13 DEF EndPosting
  <2>2. CASE Kind(t) = "bulk"
    <3>1. /\ topicRow'[q] = IF q \in Queues(t) THEN "live" ELSE topicRow[q]
          /\ integrated' = IF principal THEN integrated \cup posted[t] ELSE integrated
      BY <1>13, <2>2 DEF EndPosting
    <3>2. MakesTopic(t, q) <=> q \in Queues(t)
      BY <2>2 DEF MakesTopic
    <3> QED BY <2>1, <2>2, <3>1, <3>2, SoloEnds DEF SoloFits, MadeFits
  <2>3. CASE Kind(t) # "bulk"
    <3>1. topicRow' = topicRow /\ integrated' = integrated
      BY <1>13, <2>3 DEF EndPosting
    <3> QED BY <2>1, <2>3, <3>1, SoloEnds DEF SoloFits, MadeFits, MakesTopic
  <2> QED BY <2>2, <2>3
<1>14. CASE KillTask(t)
  <2>1. TaskEnds(t) /\ UNCHANGED <<topics, topicRow, integrated>> /\ q \notin Queues(t)
    BY <1>14 DEF KillTask
  <2> QED BY <2>1, SoloEnds DEF SoloFits
<1>15. ~(LeaveRooms(t) \/ CloseRooms(t) \/ TransferRooms(t) \/ AbortDeletion(t) \/ DeleteInFlows(t)
         \/ RefuseDeletion(t) \/ DeleteRow(t))
  BY DEF LeaveRooms, CloseRooms, TransferRooms, AbortDeletion, DeleteInFlows, RefuseDeletion, DeleteRow,
         TaskFits, Posts
<1> QED BY <1>2, <1>3, <1>4, <1>5, <1>6, <1>7, <1>8, <1>9, <1>10, <1>11, <1>12, <1>13, <1>14, <1>15,
           TopicCases DEF PostingSteps, DeletingSteps

\* A deletion works on queues that nobody makes or posts.
LEMMA DeletingFits ==
  ASSUME TopicTypeOK, \A u \in TopicRequests : TaskFits(u), \A u \in TopicRequests : TaskFits(u)',
         NEW t \in TopicRequests, TopicStep(t), ~Posts(t), NEW q \in Topics, q \notin troubled',
         \A u \in TopicRequests : Posts(u) => q \notin Covers(u),
         q \in Covers(t), TopicFits(q)
  PROVE  TopicFits(q)'
<1>0. /\ \A u \in TopicRequests : u # t => SameTask(u)
      /\ principal' = principal /\ q \in Queues(t)
  BY OtherTasks, TopicsOnly DEF Covers, Posts
<1>1. \A u \in TopicRequests : ~MakesTopic(u, q) /\ q \notin toPost[u] \cup posted[u]
  <2> SUFFICES ASSUME NEW u \in TopicRequests
               PROVE  ~MakesTopic(u, q) /\ q \notin toPost[u] \cup posted[u]
    OBVIOUS
  <2>1. CASE Posts(u)
    BY <2>1, CoversTopics DEF MakesTopic, TaskFits
  <2>2. CASE ~Posts(u)
    BY <2>2 DEF MakesTopic, Posts, TaskFits, TopicTypeOK
  <2> QED BY <2>1, <2>2
<1>2. KeptFits(q)
  BY <1>1 DEF TopicFits
<1>3. \A u \in TopicRequests : ~MakesTopic(u, q)' /\ q \notin toPost'[u] \cup posted'[u]
  <2> SUFFICES ASSUME NEW u \in TopicRequests
               PROVE  ~MakesTopic(u, q)' /\ q \notin toPost'[u] \cup posted'[u]
    OBVIOUS
  <2>1. CASE u # t
    BY <1>0, <1>1, <2>1 DEF SameTask, MakesTopic, Kind, Queues
  <2>2. CASE u = t
    <3>1. ~Posts(t)'
      BY <1>0, TopicsOnly, EndedTask, CoversStays DEF Posts
    <3>2. topicAt'[t] \in {"idle", "begun", "post", "mark", "undo", "compensate", "call", "delete"}
      BY TopicTypePosting, TopicTypeDeleting, TopicCases DEF TopicTypeOK
    <3>3. topicAt'[t] \in {"idle", "begun", "call", "delete"}
      BY <3>1, <3>2 DEF Posts, TaskFits
    <3> QED BY <2>2, <3>1, <3>3 DEF Posts, MakesTopic, TaskFits
  <2> QED BY <2>1, <2>2
<1>4. \A u \in TopicRequests : u # t => (Drops(u, q)' <=> Drops(u, q))
  BY <1>0 DEF SameTask, Drops, Queues
<1> USE DEF TopicTypeOK, TopicGoes, rowState, flowsState
<1>5. ASSUME topicRow' = topicRow, topics' = topics, integrated' = integrated,
             Drops(t, q)' <=> Drops(t, q)
      PROVE  KeptFits(q)'
  BY <1>0, <1>2, <1>3, <1>4, <1>5 DEF KeptFits
<1>6. CASE LeaveRooms(t) \/ CloseRooms(t) \/ TransferRooms(t) \/ AbortDeletion(t) \/ RefuseDeletion(t)
  <2>1. topicAt[t] # "delete" /\ topicAt'[t] # "delete"
    BY <1>6, EndedTask DEF LeaveRooms, CloseRooms, TransferRooms, AbortDeletion, RefuseDeletion
  <2>2. topicRow' = topicRow /\ topics' = topics /\ integrated' = integrated
    BY <1>6 DEF LeaveRooms, CloseRooms, TransferRooms, AbortDeletion, RefuseDeletion
  <2>3. KeptFits(q)'
    BY <1>5, <2>1, <2>2 DEF Drops
  <2> QED BY <1>3, <2>3 DEF TopicFits
<1>7. CASE DeleteInFlows(t)
  <2>1. /\ topicRow' = topicRow /\ integrated' = integrated /\ q \notin topics'
        /\ topicAt'[t] = "delete" /\ Queues(t)' = Queues(t)
    BY <1>0, <1>7 DEF DeleteInFlows, Queues
  <2>2. KeptFits(q)'
    BY <1>0, <1>2, <1>3, <2>1 DEF KeptFits, Drops
  <2> QED BY <1>3, <2>2 DEF TopicFits
<1>8. CASE DeleteRow(t)
  <2>1. /\ topicRow'[q] # "live" /\ topics' = topics /\ integrated' = integrated
        /\ q \notin topics
    BY <1>0, <1>2, <1>8 DEF DeleteRow, KeptFits, Drops
  <2>2. KeptFits(q)'
    BY <1>3, <2>1 DEF KeptFits
  <2> QED BY <1>3, <2>2 DEF TopicFits
<1>9. ~KillTask(t)
  BY <1>0 DEF KillTask
<1>10. ~PostingSteps(t)
  BY DEF PostingSteps, SaveTopic, SaveInBulk, ListTopics, MarkPosted, FailMark, UndoTopic, RollBack,
         EndPosting, SkipIntegrated, PostTopic, RefuseTopic, TakeBack, FailTakeBack, TaskFits, Posts
<1> QED BY <1>6, <1>7, <1>8, <1>9, <1>10, TopicCases DEF DeletingSteps

LEMMA BeginFits ==
  ASSUME TopicTypeOK, \A u \in TopicRequests : TaskFits(u), \A u \in TopicRequests : TaskFits(u)',
         RowsAreKnown, NEW t \in TopicRequests, NEW task \in TopicTasks, BeginTopicTask(t, task),
         NEW q \in Topics, q \notin raced', TopicFits(q)
  PROVE  TopicFits(q)'
<1>0. /\ \A u \in TopicRequests : u # t => SameTask(u)
      /\ topicAt[t] = "idle" /\ topicAt'[t] = "begun" /\ principal' = principal
      /\ UNCHANGED <<toPost, posted, topicRow, topics, integrated>>
  BY OtherTasks, BegunTask
<1>1. Apart(t, q) /\ q \notin toPost'[t] \cup posted'[t] /\ ~Drops(t, q)'
  BY <1>0, CoversTopics DEF Apart, MakesTopic, Drops, TaskFits
<1>2. CASE ~MakesTopic(t, q)'
  BY <1>0, <1>1, <1>2, ApartStays DEF Apart, SameTopic
<1>3. CASE MakesTopic(t, q)'
  <2>1. topicTask'[t] = task /\ topicRow[q] = "none"
    BY <1>3, BegunTask DEF BeginTopicTask, MakesTopic, Kind, Queues
  <2>2. Posts(t)' /\ q \in Covers(t)'
    BY <1>3, <2>1, TaskFields DEF MakesTopic, Posts, Covers, Kind, Queues
  <2>3. \A u \in TopicRequests : u # t => q \notin Covers(u)
    BY <2>2, MeetingIsTold
  <2>4. \A u \in TopicRequests : u # t => ~MakesTopic(u, q) /\ ~MakesTopic(u, q)'
    BY <1>0, <2>3, CoversTopics DEF SameTask, MakesTopic, Kind, Queues
  <2>5. q \notin topics
    BY <1>1, <2>1, <2>4 DEF TopicFits, KeptFits, Apart
  <2>6. MadeFits(t, q)'
    BY <1>0, <1>1, <2>1, <2>5 DEF MadeFits, RowsAreKnown
  <2> QED BY <1>3, <2>4, <2>6 DEF TopicFits
<1> QED BY <1>2, <1>3

\* Every queue that nothing disturbed keeps its place here and in the flows.
LEMMA TopicFitsStep ==
  ASSUME TopicTypeOK, TopicInv, NEW t \in TopicRequests,
         TopicStep(t) \/ \E task \in TopicTasks : BeginTopicTask(t, task),
         NEW q \in Topics, q \notin troubled' \cup raced'
  PROVE  TopicFits(q)'
<1>0. /\ \A u \in TopicRequests : TaskFits(u)
      /\ \A u \in TopicRequests : TaskFits(u)'
      /\ PostsAlone /\ RowsAreKnown
  BY TaskFitsStep DEF TopicInv
<1>1. ASSUME NEW task \in TopicTasks, BeginTopicTask(t, task) PROVE TopicFits(q)'
  <2>1. troubled' = troubled /\ raced \subseteq raced'
    BY <1>1 DEF BeginTopicTask
  <2>2. TopicFits(q)
    BY <2>1 DEF TopicInv
  <2> QED BY <1>0, <1>1, <2>2, BeginFits
<1>2. CASE TopicStep(t)
  <2>1. q \notin troubled /\ q \notin raced
    BY <1>2, TopicsOnly
  <2>2. TopicFits(q)
    BY <2>1 DEF TopicInv
  <2>3. CASE q \notin Covers(t)
    BY <1>0, <1>2, <2>2, <2>3, UncoveredFits
  <2>4. CASE q \in Covers(t) /\ ~Posts(t)
    <3>1. \A u \in TopicRequests : Posts(u) => q \notin Covers(u)
      BY <1>0, <2>1, <2>4 DEF PostsAlone, AloneOn
    <3> QED BY <1>0, <1>2, <2>2, <2>4, <3>1, DeletingFits
  <2>5. CASE q \in Covers(t) /\ Posts(t)
    <3>1. Alone1(t, q)
      BY <1>0, <2>1, <2>5 DEF PostsAlone, AloneOn, Alone1
    <3>2. ~Drops(t, q)
      BY <1>0, <2>5 DEF Drops, TaskFits
    <3>3. SoloFits(t, q)
      BY <1>0, <2>2, <3>1, <3>2, SoloIsFit
    <3>4. SoloFits(t, q)'
      BY <1>0, <1>2, <2>5, <3>3, SoloStep
    <3>5. Alone1(t, q)'
      BY <1>2, <3>1, OtherTasks, TopicsOnly, CoversStays DEF Alone1, SameTask
    <3>6. Posts(t)' \/ Kind(t)' = "none"
      BY <1>2, <2>5, TopicsOnly, EndedTask, CoversStays
    <3>7. ~Drops(t, q)'
      BY <1>0, <3>6 DEF Drops, TaskFits
    <3>8. TopicTypeOK'
      BY <1>2, TopicTypePosting, TopicTypeDeleting, TopicCases
    <3> QED BY <1>0, <3>4, <3>5, <3>7, <3>8, SoloWasFit
  <2> QED BY <2>3, <2>4, <2>5
<1> QED BY <1>1, <1>2

LEMMA PostedOnceStep ==
  ASSUME TopicTypeOK, TopicInv, NEW t \in TopicRequests,
         TopicStep(t) \/ \E task \in TopicTasks : BeginTopicTask(t, task)
  PROVE  PostedOnce'
<1>0. troubled \subseteq troubled' /\ raced \subseteq raced'
  BY TopicsOnly DEF BeginTopicTask
<1>1. CASE twice' = twice
  BY <1>0, <1>1 DEF TopicInv, PostedOnce
<1>2. ASSUME NEW q \in Topics, PostTopic(t, q) PROVE PostedOnce'
  <2>1. /\ TaskFits(t) /\ PostsAlone /\ PostedOnce /\ q \in toPost[t] /\ topicAt[t] = "post"
        /\ twice' = IF q \in topics THEN twice \cup {q} ELSE twice
        /\ (principal => q \notin integrated)
    BY <1>2 DEF TopicInv, PostTopic, TopicGoes
  <2>2. ASSUME q \in topics PROVE q \in troubled \cup raced
    <3> SUFFICES ASSUME q \notin troubled \cup raced PROVE FALSE
      OBVIOUS
    <3>1. Posts(t) /\ q \in Covers(t) /\ ~Drops(t, q)
      BY <2>1 DEF TaskFits, Drops
    <3>2. Alone1(t, q)
      BY <2>1, <3>1 DEF PostsAlone, AloneOn, Alone1
    <3>3. SoloFits(t, q)
      BY <3>1, <3>2, SoloIsFit DEF TopicInv
    <3>4. CASE MakesTopic(t, q)
      BY <2>1, <2>2, <3>3, <3>4 DEF SoloFits, MadeFits, TaskFits
    <3>5. CASE ~MakesTopic(t, q)
      <4>1. ~principal
        BY <2>1, <2>2, <3>3, <3>5 DEF SoloFits
      <4> QED BY <2>1, <3>1, <3>5, <4>1 DEF Covers, TaskFits, Posts, MakesTopic
    <3> QED BY <3>4, <3>5
  <2> QED BY <1>0, <2>1, <2>2 DEF PostedOnce
<1> QED BY <1>1, <1>2, TopicCases
        DEF BeginTopicTask, TopicFault, topicHistory, PostingSteps, DeletingSteps, SaveTopic, SaveInBulk,
            ListTopics, MarkPosted, FailMark, UndoTopic, RollBack, EndPosting, SkipIntegrated, RefuseTopic,
            TakeBack, FailTakeBack, LeaveRooms, CloseRooms, TransferRooms, AbortDeletion, DeleteInFlows,
            RefuseDeletion, DeleteRow, KillTask

-----------------------------------------------------------------------------
\* What the flows do is seen in no queue.
LEMMA FlowRoomsStep ==
  ASSUME TopicTypeOK, TopicInv, NEW r \in FlowRooms,
         InsertFlowRoom(r) \/ \E q \in Topics : SeekTopic(r, q)
  PROVE  TopicInv'
<1>0. /\ UNCHANGED <<flowsState, rowState, taskState, topicBounds, troubled, twice, raced>>
      /\ slipped \subseteq slipped'
  BY DEF InsertFlowRoom, SeekTopic, topicHistory
<1> USE <1>0 DEF flowsState, rowState, taskState, topicBounds
<1>1. \A t \in TopicRequests :
          /\ Kind(t)' = Kind(t) /\ Queues(t)' = Queues(t) /\ Covers(t)' = Covers(t)
          /\ (Posts(t)' <=> Posts(t)) /\ (DeletesSector(t)' <=> DeletesSector(t))
  BY DEF Kind, Queues, Covers, Posts, DeletesSector
<1>2. \A t \in TopicRequests : TaskFits(t)'
  BY <1>1 DEF TopicInv, TaskFits
<1>3. PostsAlone' /\ PostedOnce'
  BY <1>1 DEF TopicInv, PostsAlone, AloneOn, PostedOnce
<1>4. RowsAreKnown' /\ SectorFits'
  BY <1>1 DEF TopicInv, RowsAreKnown, SectorFits
<1>5. ASSUME NEW q \in Topics \ (troubled \cup raced) PROVE TopicFits(q)'
  <2>1. TopicFits(q)
    BY DEF TopicInv
  <2> QED BY <2>1 DEF TopicFits, MakesTopic, MadeFits, KeptFits, Drops, Kind, Queues
<1>6. ASSUME NEW s \in FlowRooms PROVE LeftOut(s)'
  <2>1. LeftOut(s)
    BY DEF TopicInv, NoneLeft, LeftOut
  <2>2. CASE InsertFlowRoom(r)
    BY <1>1, <2>1, <2>2 DEF InsertFlowRoom, LeftOut, TopicTypeOK
  <2>3. ASSUME NEW q \in Topics, SeekTopic(r, q) PROVE LeftOut(s)'
    BY <1>1, <2>1, <2>3 DEF SeekTopic, LeftOut, TopicTypeOK, topicHistory
  <2> QED BY <2>2, <2>3
<1> QED BY <1>2, <1>3, <1>4, <1>5, <1>6 DEF TopicInv, NoneLeft, LeftOut

LEMMA TopicInitially == TopicInit => TopicTypeOK /\ TopicInv
<1> SUFFICES ASSUME TopicInit PROVE TopicTypeOK /\ TopicInv
  OBVIOUS
<1> USE TopicAssumption DEF TopicInit
<1>1. TopicTypeOK
  BY DEF TopicTypeOK
<1>2. \A t \in TopicRequests :
          Kind(t) = "none" /\ Queues(t) = {} /\ Covers(t) = {} /\ ~Posts(t) /\ ~DeletesSector(t)
  BY DEF Kind, Queues, Covers, Posts, NoTask, DeletesSector, SectorDeletions
<1>3. \A t \in TopicRequests : TaskFits(t)
  BY <1>2 DEF TaskFits
<1>4. PostsAlone /\ RowsAreKnown /\ SectorFits /\ NoneLeft /\ PostedOnce
  BY <1>2 DEF PostsAlone, AloneOn, RowsAreKnown, SectorFits, NoneLeft, PostedOnce
<1>5. \A q \in Topics : TopicFits(q)
  BY <1>2 DEF TopicFits, MakesTopic, KeptFits, Drops
<1> QED BY <1>1, <1>3, <1>4, <1>5 DEF TopicInv

LEMMA TopicInvStep ==
  TopicTypeOK /\ TopicInv /\ [TopicNext]_topicVars => TopicTypeOK' /\ TopicInv'
<1> SUFFICES ASSUME TopicTypeOK, TopicInv, [TopicNext]_topicVars PROVE TopicTypeOK' /\ TopicInv'
  OBVIOUS
<1>1. ASSUME NEW t \in TopicRequests, TopicStep(t) \/ \E task \in TopicTasks : BeginTopicTask(t, task)
      PROVE  TopicTypeOK' /\ TopicInv'
  <2>1. TopicTypeOK'
    BY <1>1, TopicTypePosting, TopicTypeDeleting, TopicTypeRest, TopicCases
  <2>2. \A u \in TopicRequests : TaskFits(u)'
    BY <1>1, TaskFitsStep DEF TopicInv
  <2>3. PostsAlone' /\ RowsAreKnown'
    BY <1>1, PostsAloneStep, RowsAreKnownStep DEF TopicInv
  <2>4. SectorFits' /\ NoneLeft'
    BY <1>1, SectorFitsStep, NoneLeftStep DEF TopicInv
  <2>5. PostedOnce' /\ \A q \in Topics \ (troubled' \cup raced') : TopicFits(q)'
    BY <1>1, PostedOnceStep, TopicFitsStep
  <2> QED BY <2>1, <2>2, <2>3, <2>4, <2>5 DEF TopicInv
<1>2. ASSUME NEW r \in FlowRooms, InsertFlowRoom(r) \/ \E q \in Topics : SeekTopic(r, q)
      PROVE  TopicTypeOK' /\ TopicInv'
  BY <1>2, TopicTypeRooms, FlowRoomsStep
<1>3. CASE UNCHANGED topicVars
  <2> USE <1>3 DEF topicVars, flowsState, rowState, roomsState, taskState, topicBounds, topicHistory
  <2>1. TopicTypeOK'
    BY DEF TopicTypeOK
  <2>2. \A t \in TopicRequests : TaskFits(t)'
    BY DEF TopicInv, TaskFits, Kind, Queues, Covers, Posts
  <2>3. PostsAlone' /\ RowsAreKnown'
    BY DEF TopicInv, PostsAlone, AloneOn, RowsAreKnown, Kind, Queues, Covers, Posts
  <2>4. SectorFits' /\ NoneLeft' /\ PostedOnce'
    BY DEF TopicInv, SectorFits, NoneLeft, PostedOnce, DeletesSector, Kind, Queues
  <2>5. ASSUME NEW q \in Topics \ (troubled \cup raced) PROVE TopicFits(q)'
    <3>1. TopicFits(q)
      BY DEF TopicInv
    <3> QED BY <3>1 DEF TopicFits, MakesTopic, MadeFits, KeptFits, Drops, Kind, Queues
  <2> QED BY <2>1, <2>2, <2>3, <2>4, <2>5 DEF TopicInv
<1> QED BY <1>1, <1>2, <1>3 DEF TopicNext

LEMMA TopicInvHolds == TopicTypeOK /\ TopicInv => TopicsHold
<1> SUFFICES ASSUME TopicTypeOK, TopicInv PROVE TopicsHold
  OBVIOUS
<1>1. ASSUME NEW q \in Topics, Undisturbed(q) PROVE (topicRow[q] = "live") = (q \in topics)
  <2>1. TopicFits(q)
    BY <1>1 DEF TopicInv, Undisturbed
  <2>2. \A t \in TopicRequests : ~MakesTopic(t, q) /\ ~Drops(t, q)
    BY <1>1 DEF Undisturbed, MakesTopic, Drops
  <2> QED BY <2>1, <2>2 DEF TopicFits, KeptFits
<1>2. NoTopic \notin troubled /\ (\A t \in TopicRequests : ~DeletesSector(t))
          => sectorLive = sectorInFlows
  <2> SUFFICES ASSUME NoTopic \notin troubled, \A t \in TopicRequests : ~DeletesSector(t)
               PROVE  sectorLive <=> sectorInFlows
    BY DEF TopicTypeOK
  <2> QED BY DEF TopicInv, SectorFits
<1>3. NoRoomStranded /\ PostedOnce
  BY DEF TopicInv, NoneLeft, NoRoomStranded
<1> QED BY <1>1, <1>2, <1>3 DEF TopicsHold, FlowsAgree

(***************************************************************************)
(* The state of the queues of a sector, here and in the flows, keeps its   *)
(* types (QueueViewset, SectorViewset, IntegratedTicketers).               *)
(***************************************************************************)
THEOREM TopicsType == TopicSpec => []TopicTypeOK
<1> QED BY TopicInitially, TopicInvStep, PTL DEF TopicSpec

(***************************************************************************)
(* A queue is here as long as the flows have it, is posted to them once,   *)
(* and leaves no open room behind, whatever the flows refused, as far as   *)
(* no call was lost and no two requests met over it (QueueViewset,         *)
(* SectorViewset, BulkQueueCreationUseCase, IntegratedTicketers).          *)
(***************************************************************************)
THEOREM TopicsAgree == TopicSpec => []TopicsHold
<1> QED BY TopicInitially, TopicInvStep, TopicInvHolds, PTL DEF TopicSpec

-----------------------------------------------------------------------------
(***************************************************************************)
(* Users: the row, the two keys of it, and what requests hold.             *)
(***************************************************************************)
HasCopy == objectKey \notin {NoUser, NotCached}
HasId == idKey \notin {NoUser, NotCached}

\* Ids are given out in order, and copies are of rows there were.
IdsGrow ==
    /\ userRow # NoUser => userRow.id <= lastUserId
    /\ HasCopy => objectKey.id <= lastUserId
    /\ \A q \in UserRequests : inMemory[q] # NoUser => inMemory[q].id <= lastUserId

\* Until somebody is deleted there is one row, with the first id.
OneUser == ~removed => lastUserId <= 1 /\ (userRow = NoUser <=> lastUserId = 0)

\* Which errands get where, and who may write a user without a password.
ErrandFits(q) ==
    /\ userAt[q] \in {"key", "query", "fill", "compare"} => errand[q].is = "login"
    /\ userAt[q] \in {"get", "write"} => errand[q].is \in {"login", "register", "language"}
    /\ userAt[q] = "write" /\ errand[q].is # "login" => inMemory[q].joined \/ renamed

\* What a request holds is what the row says, with what it was asked to change.
HeldIsCurrent(q) ==
    ~userRaced =>
        /\ userAt[q] \in {"fill", "keep"} => inMemory[q] = userRow
        /\ userAt[q] = "write" /\ errand[q].is # "login" => userRow # NoUser
        /\ userAt[q] = "compare" /\ ~removed => SameUser(inMemory[q], userRow)
        /\ userAt[q] = "write" /\ ~removed =>
               SameUser(inMemory[q], Asked(userRow, errand[q]))

CopyIsCurrent == HasCopy /\ userRow # NoUser => objectKey.id # userRow.id \/ SameUser(objectKey, userRow)
IdIsCurrent == HasId => userRow # NoUser /\ userRow.id = idKey

\* A key that says something else is about to be forgotten.
WillForget(q) == userAt[q] = "forget" /\ toForget[q] > 0
KeysFollow ==
    ~userRaced =>
        /\ CopyIsCurrent \/ \E q \in UserRequests : WillForget(q)
        /\ IdIsCurrent \/ \E q \in UserRequests : WillForget(q) \/ userAt[q] = "forgetId"

UserInv ==
    /\ UserCacheTypeOK /\ IdsGrow /\ OneUser
    /\ \A q \in UserRequests : ErrandFits(q) /\ HeldIsCurrent(q)
    /\ KeysFollow /\ NothingIsLost /\ OnlyRenamingForgets

\* What a request changes of a user, and what it leaves.
LEMMA AskedUser ==
  ASSUME NEW user \in User, NEW e \in Errands, e.is \in {"login", "register", "language"}
  PROVE  /\ Asked(user, e) \in User
         /\ Asked(user, e).id = user.id /\ Asked(user, e).joined = user.joined
         /\ e.is # "language" => Asked(user, e).name = e.name /\ Asked(user, e).language = user.language
         /\ e.is = "language" => Asked(user, e).language = e.language /\ Asked(user, e).name = user.name
<1>1. CASE e.is = "language"
  <2>1. e.language \in Languages
    BY <1>1 DEF Errands
  <2> QED BY <1>1, <2>1 DEF Asked, User
<1>2. CASE e.is # "language"
  <2>1. e.name \in FirstNames
    BY <1>2 DEF Errands
  <2> QED BY <1>2, <2>1 DEF Asked, User
<1> QED BY <1>1, <1>2

LEMMA MarksAreNoUsers == NoUser \notin User /\ NotCached \notin User
<1>1. 1..MaxUserIds \subseteq Nat
  BY UserCacheAssumption
<1>2. User \subseteq
        [id: Nat, name: FirstNames \cup {NotSet}, language: Languages \cup {NotSet}, joined: BOOLEAN]
  BY <1>1 DEF User
<1> QED BY <1>2, UserCacheAssumption

LEMMA FirstUser ==
  ASSUME UserCacheTypeOK, lastUserId < MaxUserIds
  PROVE  /\ NewUser \in User /\ NewUser # NoUser
         /\ NewUser.id = lastUserId + 1 /\ NewUser.joined
         /\ NewUser.name = NotSet /\ NewUser.language = NotSet
<1>1. lastUserId + 1 \in 1..MaxUserIds
  BY UserCacheAssumption DEF UserCacheTypeOK
<1>2. NewUser \in User
  BY <1>1 DEF NewUser, User
<1> QED BY <1>2, MarksAreNoUsers DEF NewUser

(***************************************************************************)
(* The inductive invariant: every step keeps what the keys, the requests   *)
(* and the row have to do with each other.                                 *)
(***************************************************************************)
LEMMA UserInvStep ==
  ASSUME UserInv, [UserCacheNext]_userCacheVars
  PROVE  UserInv'
<1>1. ASSUME NEW q \in UserRequests, NEW name \in FirstNames, BeginLogin(q, name) PROVE UserInv'
  <2>1. (UserCacheTypeOK)'
    BY <1>1, UserCacheAssumption
    DEF BeginLogin, GoUser, userHistory, UserInv, UserCacheTypeOK, ErrandFits, User, Errands,
        UserPlaces
  <2>2. (IdsGrow /\ OneUser)'
    BY <1>1, UserCacheAssumption
    DEF BeginLogin, GoUser, userHistory, UserInv, UserCacheTypeOK, User, IdsGrow, OneUser, HasCopy
  <2>3. (\A p \in UserRequests : ErrandFits(p))'
    BY <1>1, UserCacheAssumption
    DEF BeginLogin, GoUser, userHistory, UserInv, UserCacheTypeOK, ErrandFits, Errands,
        OnlyRenamingForgets, User
  <2>4. (\A p \in UserRequests : HeldIsCurrent(p))'
    BY <1>1, UserCacheAssumption
    DEF BeginLogin, GoUser, userHistory, UserInv, UserCacheTypeOK, User, ErrandFits, HeldIsCurrent,
        SameUser, Asked, KeysFollow, CopyIsCurrent, HasCopy, WillForget, IdsGrow, OneUser
  <2>5. (KeysFollow)'
    BY <1>1, UserCacheAssumption
    DEF BeginLogin, GoUser, userHistory, UserInv, UserCacheTypeOK, User, ErrandFits, HeldIsCurrent,
        KeysFollow, CopyIsCurrent, IdIsCurrent, SameUser, HasCopy, HasId, WillForget, IdsGrow
  <2>6. (NothingIsLost /\ OnlyRenamingForgets)'
    BY <1>1, UserCacheAssumption
    DEF BeginLogin, GoUser, userHistory, UserInv, UserCacheTypeOK, User, ErrandFits, HeldIsCurrent,
        SameUser, NothingIsLost, OnlyRenamingForgets, IdsGrow, OneUser
  <2> QED BY <2>1, <2>2, <2>3, <2>4, <2>5, <2>6 DEF UserInv
<1>2. ASSUME NEW q \in UserRequests, NEW name \in FirstNames, BeginRegister(q, name) PROVE UserInv'
  <2>1. (UserCacheTypeOK)'
    BY <1>2, UserCacheAssumption
    DEF BeginRegister, GoUser, userHistory, UserInv, UserCacheTypeOK, ErrandFits, User, Errands,
        UserPlaces
  <2>2. (IdsGrow /\ OneUser)'
    BY <1>2, UserCacheAssumption
    DEF BeginRegister, GoUser, userHistory, UserInv, UserCacheTypeOK, User, IdsGrow, OneUser,
        HasCopy
  <2>3. (\A p \in UserRequests : ErrandFits(p))'
    BY <1>2, UserCacheAssumption
    DEF BeginRegister, GoUser, userHistory, UserInv, UserCacheTypeOK, ErrandFits, Errands,
        OnlyRenamingForgets, User
  <2>4. (\A p \in UserRequests : HeldIsCurrent(p))'
    BY <1>2, UserCacheAssumption
    DEF BeginRegister, GoUser, userHistory, UserInv, UserCacheTypeOK, User, ErrandFits,
        HeldIsCurrent, SameUser, Asked, KeysFollow, CopyIsCurrent, HasCopy, WillForget, IdsGrow,
        OneUser
  <2>5. (KeysFollow)'
    BY <1>2, UserCacheAssumption
    DEF BeginRegister, GoUser, userHistory, UserInv, UserCacheTypeOK, User, ErrandFits,
        HeldIsCurrent, KeysFollow, CopyIsCurrent, IdIsCurrent, SameUser, HasCopy, HasId,
        WillForget, IdsGrow
  <2>6. (NothingIsLost /\ OnlyRenamingForgets)'
    BY <1>2, UserCacheAssumption
    DEF BeginRegister, GoUser, userHistory, UserInv, UserCacheTypeOK, User, ErrandFits,
        HeldIsCurrent, SameUser, NothingIsLost, OnlyRenamingForgets, IdsGrow, OneUser
  <2> QED BY <2>1, <2>2, <2>3, <2>4, <2>5, <2>6 DEF UserInv
<1>3. ASSUME NEW q \in UserRequests, NEW language \in Languages, BeginLanguage(q, language) PROVE UserInv'
  <2>1. (UserCacheTypeOK)'
    BY <1>3, UserCacheAssumption
    DEF BeginLanguage, GoUser, userHistory, UserInv, UserCacheTypeOK, ErrandFits, User, Errands,
        UserPlaces
  <2>2. (IdsGrow /\ OneUser)'
    BY <1>3, UserCacheAssumption
    DEF BeginLanguage, GoUser, userHistory, UserInv, UserCacheTypeOK, User, IdsGrow, OneUser,
        HasCopy
  <2>3. (\A p \in UserRequests : ErrandFits(p))'
    BY <1>3, UserCacheAssumption
    DEF BeginLanguage, GoUser, userHistory, UserInv, UserCacheTypeOK, ErrandFits, Errands,
        OnlyRenamingForgets, User
  <2>4. (\A p \in UserRequests : HeldIsCurrent(p))'
    BY <1>3, UserCacheAssumption
    DEF BeginLanguage, GoUser, userHistory, UserInv, UserCacheTypeOK, User, ErrandFits,
        HeldIsCurrent, SameUser, Asked, KeysFollow, CopyIsCurrent, HasCopy, WillForget, IdsGrow,
        OneUser
  <2>5. (KeysFollow)'
    BY <1>3, UserCacheAssumption
    DEF BeginLanguage, GoUser, userHistory, UserInv, UserCacheTypeOK, User, ErrandFits,
        HeldIsCurrent, KeysFollow, CopyIsCurrent, IdIsCurrent, SameUser, HasCopy, HasId,
        WillForget, IdsGrow
  <2>6. (NothingIsLost /\ OnlyRenamingForgets)'
    BY <1>3, UserCacheAssumption
    DEF BeginLanguage, GoUser, userHistory, UserInv, UserCacheTypeOK, User, ErrandFits,
        HeldIsCurrent, SameUser, NothingIsLost, OnlyRenamingForgets, IdsGrow, OneUser
  <2> QED BY <2>1, <2>2, <2>3, <2>4, <2>5, <2>6 DEF UserInv
<1>4. ASSUME NEW q \in UserRequests, BeginLookup(q) PROVE UserInv'
  <2>1. (UserCacheTypeOK)'
    BY <1>4, UserCacheAssumption
    DEF BeginLookup, GoUser, userHistory, UserInv, UserCacheTypeOK, ErrandFits, User, Errands,
        UserPlaces
  <2>2. (IdsGrow /\ OneUser)'
    BY <1>4, UserCacheAssumption
    DEF BeginLookup, GoUser, userHistory, UserInv, UserCacheTypeOK, User, IdsGrow, OneUser, HasCopy
  <2>3. (\A p \in UserRequests : ErrandFits(p))'
    BY <1>4, UserCacheAssumption
    DEF BeginLookup, GoUser, userHistory, UserInv, UserCacheTypeOK, ErrandFits, Errands,
        OnlyRenamingForgets, User
  <2>4. (\A p \in UserRequests : HeldIsCurrent(p))'
    BY <1>4, UserCacheAssumption
    DEF BeginLookup, GoUser, userHistory, UserInv, UserCacheTypeOK, User, ErrandFits,
        HeldIsCurrent, SameUser, Asked, KeysFollow, CopyIsCurrent, HasCopy, WillForget, IdsGrow,
        OneUser
  <2>5. (KeysFollow)'
    BY <1>4, UserCacheAssumption
    DEF BeginLookup, GoUser, userHistory, UserInv, UserCacheTypeOK, User, ErrandFits,
        HeldIsCurrent, KeysFollow, CopyIsCurrent, IdIsCurrent, SameUser, HasCopy, HasId,
        WillForget, IdsGrow
  <2>6. (NothingIsLost /\ OnlyRenamingForgets)'
    BY <1>4, UserCacheAssumption
    DEF BeginLookup, GoUser, userHistory, UserInv, UserCacheTypeOK, User, ErrandFits,
        HeldIsCurrent, SameUser, NothingIsLost, OnlyRenamingForgets, IdsGrow, OneUser
  <2> QED BY <2>1, <2>2, <2>3, <2>4, <2>5, <2>6 DEF UserInv
<1>5. ASSUME NEW q \in UserRequests, MentionUser(q) PROVE UserInv'
  <2>1. (UserCacheTypeOK)'
    BY <1>5, UserCacheAssumption
    DEF MentionUser, HeldByOthers, NewUser, InsertUser, userRequestVars, UserInv, UserCacheTypeOK,
        ErrandFits, User, Errands, UserPlaces
  <2>2. (IdsGrow /\ OneUser)'
    BY <1>5, FirstUser, MarksAreNoUsers, UserCacheAssumption
    DEF MentionUser, InsertUser, UserInv, UserCacheTypeOK, User, IdsGrow, OneUser, HasCopy, userRequestVars
  <2>3. (\A p \in UserRequests : ErrandFits(p))'
    BY <1>5, UserCacheAssumption
    DEF MentionUser, HeldByOthers, NewUser, InsertUser, userRequestVars, UserInv, UserCacheTypeOK,
        ErrandFits, Errands, OnlyRenamingForgets, User
  <2>4. (\A p \in UserRequests : HeldIsCurrent(p))'
    BY <1>5, UserCacheAssumption
    DEF MentionUser, HeldByOthers, NewUser, InsertUser, userRequestVars, UserInv, UserCacheTypeOK,
        User, ErrandFits, HeldIsCurrent, SameUser, Asked, KeysFollow, CopyIsCurrent, HasCopy,
        WillForget, IdsGrow, OneUser
  <2>5. (KeysFollow)'
    BY <1>5, UserCacheAssumption
    DEF MentionUser, HeldByOthers, NewUser, InsertUser, userRequestVars, UserInv, UserCacheTypeOK,
        User, ErrandFits, HeldIsCurrent, KeysFollow, CopyIsCurrent, IdIsCurrent, SameUser, HasCopy,
        HasId, WillForget, IdsGrow
  <2>6. (NothingIsLost /\ OnlyRenamingForgets)'
    BY <1>5, UserCacheAssumption
    DEF MentionUser, HeldByOthers, NewUser, InsertUser, userRequestVars, UserInv, UserCacheTypeOK,
        User, ErrandFits, HeldIsCurrent, SameUser, NothingIsLost, OnlyRenamingForgets, IdsGrow,
        OneUser
  <2> QED BY <2>1, <2>2, <2>3, <2>4, <2>5, <2>6 DEF UserInv
<1>6. ASSUME NEW q \in UserRequests, DeleteUser(q) PROVE UserInv'
  <2>1. (UserCacheTypeOK)'
    BY <1>6, UserCacheAssumption
    DEF DeleteUser, GoUser, HeldByOthers, UserInv, UserCacheTypeOK, ErrandFits, User, Errands,
        UserPlaces
  <2>2. (IdsGrow /\ OneUser)'
    BY <1>6, UserCacheAssumption
    DEF DeleteUser, GoUser, HeldByOthers, UserInv, UserCacheTypeOK, User, IdsGrow, OneUser, HasCopy
  <2>3. (\A p \in UserRequests : ErrandFits(p))'
    BY <1>6, UserCacheAssumption
    DEF DeleteUser, GoUser, HeldByOthers, UserInv, UserCacheTypeOK, ErrandFits, Errands,
        OnlyRenamingForgets, User
  <2>4. (\A p \in UserRequests : HeldIsCurrent(p))'
    BY <1>6, UserCacheAssumption
    DEF DeleteUser, GoUser, HeldByOthers, UserInv, UserCacheTypeOK, User, ErrandFits,
        HeldIsCurrent, SameUser, Asked, KeysFollow, CopyIsCurrent, HasCopy, WillForget, IdsGrow,
        OneUser
  <2>5. (KeysFollow)'
    BY <1>6, UserCacheAssumption
    DEF DeleteUser, GoUser, HeldByOthers, UserInv, UserCacheTypeOK, User, ErrandFits,
        HeldIsCurrent, KeysFollow, CopyIsCurrent, IdIsCurrent, SameUser, HasCopy, HasId,
        WillForget, IdsGrow
  <2>6. (NothingIsLost /\ OnlyRenamingForgets)'
    BY <1>6, UserCacheAssumption
    DEF DeleteUser, GoUser, HeldByOthers, UserInv, UserCacheTypeOK, User, ErrandFits,
        HeldIsCurrent, SameUser, NothingIsLost, OnlyRenamingForgets, IdsGrow, OneUser
  <2> QED BY <2>1, <2>2, <2>3, <2>4, <2>5, <2>6 DEF UserInv
<1>7. ASSUME NEW q \in UserRequests, TakeCopy(q) PROVE UserInv'
  <2>1. (UserCacheTypeOK)'
    <3>1. objectKey \in User
      BY <1>7 DEF TakeCopy, UserInv, UserCacheTypeOK
    <3>2. [objectKey EXCEPT !.joined = FALSE] \in User
      BY <3>1 DEF User
    <3> QED BY <1>7, <3>2, MarksAreNoUsers
            DEF TakeCopy, GoUser, HoldUser, UserInv, UserCacheTypeOK, UserPlaces
  <2>2. (IdsGrow /\ OneUser)'
    BY <1>7, UserCacheAssumption
    DEF TakeCopy, GoUser, HoldUser, ForgettingByOthers, UserInv, UserCacheTypeOK, User, IdsGrow,
        OneUser, HasCopy
  <2>3. (\A p \in UserRequests : ErrandFits(p))'
    BY <1>7, UserCacheAssumption
    DEF TakeCopy, GoUser, HoldUser, ForgettingByOthers, UserInv, UserCacheTypeOK, ErrandFits,
        Errands, OnlyRenamingForgets, User
  <2>4. (\A p \in UserRequests : HeldIsCurrent(p))'
    <3>1. objectKey \in User /\ userRow \in User \cup {NoUser} /\ lastUserId \in Nat
      BY <1>7, UserCacheAssumption DEF TakeCopy, UserInv, UserCacheTypeOK
    <3>2. ASSUME ~userRaced', ~removed PROVE SameUser(objectKey, userRow)
      <4>1. ~ForgettingByOthers(q) /\ ~userRaced /\ \A o \in UserRequests : ~WillForget(o)
        BY <1>7, <3>2 DEF TakeCopy, ForgettingByOthers, WillForget
      <4>2. userRow # NoUser /\ userRow.id = objectKey.id
        BY <1>7, <3>1, <3>2 DEF TakeCopy, UserInv, OneUser, IdsGrow, HasCopy, User
      <4> QED BY <1>7, <4>1, <4>2 DEF TakeCopy, UserInv, KeysFollow, CopyIsCurrent, HasCopy
    <3>3. inMemory'[q] = [objectKey EXCEPT !.joined = FALSE] /\ userAt'[q] = "compare"
      BY <1>7 DEF TakeCopy, GoUser, HoldUser, UserInv, UserCacheTypeOK
    <3>4. HeldIsCurrent(q)'
      BY <1>7, <3>1, <3>2, <3>3 DEF TakeCopy, HeldIsCurrent, SameUser, User
    <3> QED BY <1>7, <3>4
            DEF TakeCopy, GoUser, HoldUser, UserInv, UserCacheTypeOK, HeldIsCurrent, SameUser, Asked
  <2>5. (KeysFollow)'
    BY <1>7, UserCacheAssumption
    DEF TakeCopy, GoUser, HoldUser, ForgettingByOthers, UserInv, UserCacheTypeOK, User, ErrandFits,
        HeldIsCurrent, KeysFollow, CopyIsCurrent, IdIsCurrent, SameUser, HasCopy, HasId,
        WillForget, IdsGrow
  <2>6. (NothingIsLost /\ OnlyRenamingForgets)'
    BY <1>7, UserCacheAssumption
    DEF TakeCopy, GoUser, HoldUser, ForgettingByOthers, UserInv, UserCacheTypeOK, User, ErrandFits,
        HeldIsCurrent, SameUser, NothingIsLost, OnlyRenamingForgets, IdsGrow, OneUser
  <2> QED BY <2>1, <2>2, <2>3, <2>4, <2>5, <2>6 DEF UserInv
<1>8. ASSUME NEW q \in UserRequests, MissCopy(q) PROVE UserInv'
  <2>1. (UserCacheTypeOK)'
    BY <1>8, UserCacheAssumption
    DEF MissCopy, GoUser, userHistory, UserInv, UserCacheTypeOK, ErrandFits, User, Errands,
        UserPlaces
  <2>2. (IdsGrow /\ OneUser)'
    BY <1>8, UserCacheAssumption
    DEF MissCopy, GoUser, userHistory, UserInv, UserCacheTypeOK, User, IdsGrow, OneUser, HasCopy
  <2>3. (\A p \in UserRequests : ErrandFits(p))'
    BY <1>8, UserCacheAssumption
    DEF MissCopy, GoUser, userHistory, UserInv, UserCacheTypeOK, ErrandFits, Errands,
        OnlyRenamingForgets, User
  <2>4. (\A p \in UserRequests : HeldIsCurrent(p))'
    BY <1>8, UserCacheAssumption
    DEF MissCopy, GoUser, userHistory, UserInv, UserCacheTypeOK, User, ErrandFits, HeldIsCurrent,
        SameUser, Asked, KeysFollow, CopyIsCurrent, HasCopy, WillForget, IdsGrow, OneUser
  <2>5. (KeysFollow)'
    BY <1>8, UserCacheAssumption
    DEF MissCopy, GoUser, userHistory, UserInv, UserCacheTypeOK, User, ErrandFits, HeldIsCurrent,
        KeysFollow, CopyIsCurrent, IdIsCurrent, SameUser, HasCopy, HasId, WillForget, IdsGrow
  <2>6. (NothingIsLost /\ OnlyRenamingForgets)'
    BY <1>8, UserCacheAssumption
    DEF MissCopy, GoUser, userHistory, UserInv, UserCacheTypeOK, User, ErrandFits, HeldIsCurrent,
        SameUser, NothingIsLost, OnlyRenamingForgets, IdsGrow, OneUser
  <2> QED BY <2>1, <2>2, <2>3, <2>4, <2>5, <2>6 DEF UserInv
<1>9. ASSUME NEW q \in UserRequests, QueryUser(q) PROVE UserInv'
  <2>1. (UserCacheTypeOK)'
    BY <1>9, UserCacheAssumption
    DEF QueryUser, GoUser, HoldUser, userHistory, UserInv, UserCacheTypeOK, ErrandFits, User,
        Errands, UserPlaces
  <2>2. (IdsGrow /\ OneUser)'
    BY <1>9, UserCacheAssumption
    DEF QueryUser, GoUser, HoldUser, userHistory, UserInv, UserCacheTypeOK, User, IdsGrow, OneUser,
        HasCopy
  <2>3. (\A p \in UserRequests : ErrandFits(p))'
    BY <1>9, UserCacheAssumption
    DEF QueryUser, GoUser, HoldUser, userHistory, UserInv, UserCacheTypeOK, ErrandFits, Errands,
        OnlyRenamingForgets, User
  <2>4. (\A p \in UserRequests : HeldIsCurrent(p))'
    BY <1>9, UserCacheAssumption
    DEF QueryUser, GoUser, HoldUser, userHistory, UserInv, UserCacheTypeOK, User, ErrandFits,
        HeldIsCurrent, SameUser, Asked, KeysFollow, CopyIsCurrent, HasCopy, WillForget, IdsGrow,
        OneUser
  <2>5. (KeysFollow)'
    BY <1>9, UserCacheAssumption
    DEF QueryUser, GoUser, HoldUser, userHistory, UserInv, UserCacheTypeOK, User, ErrandFits,
        HeldIsCurrent, KeysFollow, CopyIsCurrent, IdIsCurrent, SameUser, HasCopy, HasId,
        WillForget, IdsGrow
  <2>6. (NothingIsLost /\ OnlyRenamingForgets)'
    BY <1>9, UserCacheAssumption
    DEF QueryUser, GoUser, HoldUser, userHistory, UserInv, UserCacheTypeOK, User, ErrandFits,
        HeldIsCurrent, SameUser, NothingIsLost, OnlyRenamingForgets, IdsGrow, OneUser
  <2> QED BY <2>1, <2>2, <2>3, <2>4, <2>5, <2>6 DEF UserInv
<1>10. ASSUME NEW q \in UserRequests, FillObjectKey(q) PROVE UserInv'
  <2>1. (UserCacheTypeOK)'
    BY <1>10, UserCacheAssumption
    DEF FillObjectKey, GoUser, userHistory, UserInv, UserCacheTypeOK, ErrandFits, User, Errands,
        UserPlaces
  <2>2. (IdsGrow /\ OneUser)'
    BY <1>10, UserCacheAssumption
    DEF FillObjectKey, GoUser, userHistory, UserInv, UserCacheTypeOK, User, IdsGrow, OneUser,
        HasCopy
  <2>3. (\A p \in UserRequests : ErrandFits(p))'
    BY <1>10, UserCacheAssumption
    DEF FillObjectKey, GoUser, userHistory, UserInv, UserCacheTypeOK, ErrandFits, Errands,
        OnlyRenamingForgets, User
  <2>4. (\A p \in UserRequests : HeldIsCurrent(p))'
    BY <1>10, UserCacheAssumption
    DEF FillObjectKey, GoUser, userHistory, UserInv, UserCacheTypeOK, User, ErrandFits,
        HeldIsCurrent, SameUser, Asked, KeysFollow, CopyIsCurrent, HasCopy, WillForget, IdsGrow,
        OneUser
  <2>5. (KeysFollow)'
    BY <1>10, UserCacheAssumption
    DEF FillObjectKey, GoUser, userHistory, UserInv, UserCacheTypeOK, User, ErrandFits,
        HeldIsCurrent, KeysFollow, CopyIsCurrent, IdIsCurrent, SameUser, HasCopy, HasId,
        WillForget, IdsGrow
  <2>6. (NothingIsLost /\ OnlyRenamingForgets)'
    BY <1>10, UserCacheAssumption
    DEF FillObjectKey, GoUser, userHistory, UserInv, UserCacheTypeOK, User, ErrandFits,
        HeldIsCurrent, SameUser, NothingIsLost, OnlyRenamingForgets, IdsGrow, OneUser
  <2> QED BY <2>1, <2>2, <2>3, <2>4, <2>5, <2>6 DEF UserInv
<1>11. ASSUME NEW q \in UserRequests, CompareNames(q) PROVE UserInv'
  <2>1. (UserCacheTypeOK)'
    <3>1. inMemory[q] \in User /\ errand[q] \in [is: {"login", "register"}, name: FirstNames]
      BY <1>11 DEF CompareNames, UserInv, UserCacheTypeOK, ErrandFits, Errands
    <3>2. [inMemory[q] EXCEPT !.name = errand[q].name] \in User
      BY <3>1 DEF User
    <3> QED BY <1>11, <3>2, MarksAreNoUsers
            DEF CompareNames, UserRequestDone, GoUser, HoldUser, UserInv, UserCacheTypeOK, UserPlaces,
                Errands, NoErrand, userHistory
  <2>2. (IdsGrow /\ OneUser)'
    BY <1>11, UserCacheAssumption
    DEF CompareNames, UserRequestDone, GoUser, HoldUser, userHistory, UserInv, UserCacheTypeOK,
        User, IdsGrow, OneUser, HasCopy
  <2>3. (\A p \in UserRequests : ErrandFits(p))'
    BY <1>11, UserCacheAssumption
    DEF CompareNames, UserRequestDone, GoUser, HoldUser, NoErrand, userHistory, UserInv,
        UserCacheTypeOK, ErrandFits, Errands, OnlyRenamingForgets, User
  <2>4. (\A p \in UserRequests : HeldIsCurrent(p))'
    BY <1>11, UserCacheAssumption
    DEF CompareNames, UserRequestDone, GoUser, HoldUser, userHistory, UserInv, UserCacheTypeOK,
        User, ErrandFits, HeldIsCurrent, SameUser, Asked, KeysFollow, CopyIsCurrent, HasCopy,
        WillForget, IdsGrow, OneUser
  <2>5. (KeysFollow)'
    BY <1>11, UserCacheAssumption
    DEF CompareNames, UserRequestDone, GoUser, HoldUser, userHistory, UserInv, UserCacheTypeOK,
        User, ErrandFits, HeldIsCurrent, KeysFollow, CopyIsCurrent, IdIsCurrent, SameUser, HasCopy,
        HasId, WillForget, IdsGrow
  <2>6. (NothingIsLost /\ OnlyRenamingForgets)'
    BY <1>11, UserCacheAssumption
    DEF CompareNames, UserRequestDone, GoUser, HoldUser, userHistory, UserInv, UserCacheTypeOK,
        User, ErrandFits, HeldIsCurrent, SameUser, NothingIsLost, OnlyRenamingForgets, IdsGrow,
        OneUser
  <2> QED BY <2>1, <2>2, <2>3, <2>4, <2>5, <2>6 DEF UserInv
<1>12. ASSUME NEW q \in UserRequests, GetUser(q) PROVE UserInv'
  <2>1. (UserCacheTypeOK)'
    BY <1>12, UserCacheAssumption
    DEF GetUser, GoUser, HoldUser, Asked, userHistory, UserInv, UserCacheTypeOK, ErrandFits, User,
        Errands, UserPlaces
  <2>2. (IdsGrow /\ OneUser)'
    BY <1>12, UserCacheAssumption
    DEF GetUser, GoUser, HoldUser, Asked, userHistory, UserInv, UserCacheTypeOK, User, IdsGrow,
        OneUser, HasCopy
  <2>3. (\A p \in UserRequests : ErrandFits(p))'
    BY <1>12, UserCacheAssumption
    DEF GetUser, GoUser, HoldUser, Asked, userHistory, UserInv, UserCacheTypeOK, ErrandFits,
        Errands, OnlyRenamingForgets, User
  <2>4. (\A p \in UserRequests : HeldIsCurrent(p))'
    BY <1>12, UserCacheAssumption
    DEF GetUser, GoUser, HoldUser, Asked, userHistory, UserInv, UserCacheTypeOK, User, ErrandFits,
        HeldIsCurrent, SameUser, KeysFollow, CopyIsCurrent, HasCopy, WillForget, IdsGrow, OneUser
  <2>5. (KeysFollow)'
    BY <1>12, UserCacheAssumption
    DEF GetUser, GoUser, HoldUser, Asked, userHistory, UserInv, UserCacheTypeOK, User, ErrandFits,
        HeldIsCurrent, KeysFollow, CopyIsCurrent, IdIsCurrent, SameUser, HasCopy, HasId,
        WillForget, IdsGrow
  <2>6. (NothingIsLost /\ OnlyRenamingForgets)'
    BY <1>12, UserCacheAssumption
    DEF GetUser, GoUser, HoldUser, Asked, userHistory, UserInv, UserCacheTypeOK, User, ErrandFits,
        HeldIsCurrent, SameUser, NothingIsLost, OnlyRenamingForgets, IdsGrow, OneUser
  <2> QED BY <2>1, <2>2, <2>3, <2>4, <2>5, <2>6 DEF UserInv
<1>13. ASSUME NEW q \in UserRequests, CreateUser(q) PROVE UserInv'
  <2>1. (UserCacheTypeOK)'
    <3>1. inMemory'[q] \in User /\ userRow' \in User /\ lastUserId' \in 0..MaxUserIds
      <4>1. errand[q] \in Errands /\ errand[q].is \in {"login", "register", "language"}
        BY <1>13 DEF CreateUser, UserInv, UserCacheTypeOK, ErrandFits
      <4> QED BY <1>13, <4>1, FirstUser, AskedUser, UserCacheAssumption
              DEF CreateUser, InsertUser, HoldUser, UserInv, UserCacheTypeOK
    <3> QED BY <1>13, <3>1, MarksAreNoUsers
            DEF CreateUser, InsertUser, GoUser, HoldUser, UserInv, UserCacheTypeOK, UserPlaces
  <2>2. (IdsGrow /\ OneUser)'
    <3>1. errand[q] \in Errands /\ errand[q].is \in {"login", "register", "language"}
      BY <1>13 DEF CreateUser, UserInv, UserCacheTypeOK, ErrandFits
    <3>2. Asked(NewUser, errand[q]).id = lastUserId + 1 /\ NewUser.id = lastUserId + 1
      BY <1>13, <3>1, FirstUser, AskedUser DEF CreateUser, InsertUser, UserInv
    <3> QED BY <1>13, <3>2, FirstUser, MarksAreNoUsers, UserCacheAssumption
            DEF CreateUser, InsertUser, GoUser, HoldUser, UserInv, UserCacheTypeOK, User, IdsGrow, OneUser,
                HasCopy
  <2>3. (\A p \in UserRequests : ErrandFits(p))'
    BY <1>13, UserCacheAssumption
    DEF CreateUser, GoUser, HoldUser, HeldByOthers, Asked, NewUser, InsertUser, UserInv,
        UserCacheTypeOK, ErrandFits, Errands, OnlyRenamingForgets, User
  <2>4. (\A p \in UserRequests : HeldIsCurrent(p))'
    <3>1. errand[q] \in Errands /\ errand[q].is \in {"login", "register", "language"}
      BY <1>13 DEF CreateUser, UserInv, UserCacheTypeOK, ErrandFits
    <3>2. NewUser # NoUser
      BY <1>13, FirstUser DEF CreateUser, InsertUser, UserInv
    <3> QED BY <1>13, <3>1, <3>2
            DEF CreateUser, InsertUser, GoUser, HoldUser, UserInv, UserCacheTypeOK, HeldIsCurrent,
                HeldByOthers, SameUser, userHistory
  <2>5. (KeysFollow)'
    BY <1>13, UserCacheAssumption
    DEF CreateUser, GoUser, HoldUser, HeldByOthers, Asked, NewUser, InsertUser, UserInv,
        UserCacheTypeOK, User, ErrandFits, HeldIsCurrent, KeysFollow, CopyIsCurrent, IdIsCurrent,
        SameUser, HasCopy, HasId, WillForget, IdsGrow
  <2>6. (NothingIsLost /\ OnlyRenamingForgets)'
    BY <1>13, UserCacheAssumption
    DEF CreateUser, GoUser, HoldUser, HeldByOthers, Asked, NewUser, InsertUser, UserInv,
        UserCacheTypeOK, User, ErrandFits, HeldIsCurrent, SameUser, NothingIsLost,
        OnlyRenamingForgets, IdsGrow, OneUser
  <2> QED BY <2>1, <2>2, <2>3, <2>4, <2>5, <2>6 DEF UserInv
<1>14. ASSUME NEW q \in UserRequests, SaveUser(q) PROVE UserInv'
  <2>1. (UserCacheTypeOK)'
    BY <1>14, UserCacheAssumption
    DEF SaveUser, GoUser, HoldUser, HeldByOthers, Asked, Forgets, NoErrand, UserInv,
        UserCacheTypeOK, ErrandFits, User, Errands, UserPlaces
  <2>2. (IdsGrow /\ OneUser)'
    BY <1>14, UserCacheAssumption
    DEF SaveUser, GoUser, HoldUser, HeldByOthers, Asked, Forgets, UserInv, UserCacheTypeOK, User,
        IdsGrow, OneUser, HasCopy
  <2>3. (\A p \in UserRequests : ErrandFits(p))'
    BY <1>14, UserCacheAssumption
    DEF SaveUser, GoUser, HoldUser, HeldByOthers, Asked, Forgets, NoErrand, UserInv,
        UserCacheTypeOK, ErrandFits, Errands, OnlyRenamingForgets, User
  <2>4. (\A p \in UserRequests : HeldIsCurrent(p))'
    BY <1>14, UserCacheAssumption
    DEF SaveUser, GoUser, HoldUser, HeldByOthers, Asked, Forgets, UserInv, UserCacheTypeOK, User,
        ErrandFits, HeldIsCurrent, SameUser, KeysFollow, CopyIsCurrent, HasCopy, WillForget,
        IdsGrow, OneUser
  <2>5. (KeysFollow)'
    BY <1>14, UserCacheAssumption
    DEF SaveUser, GoUser, HoldUser, HeldByOthers, Asked, Forgets, UserInv, UserCacheTypeOK, User,
        ErrandFits, HeldIsCurrent, KeysFollow, CopyIsCurrent, IdIsCurrent, SameUser, HasCopy,
        HasId, WillForget, IdsGrow
  <2>6. (NothingIsLost /\ OnlyRenamingForgets)'
    BY <1>14, UserCacheAssumption
    DEF SaveUser, GoUser, HoldUser, HeldByOthers, Asked, Forgets, UserInv, UserCacheTypeOK, User,
        ErrandFits, HeldIsCurrent, SameUser, NothingIsLost, OnlyRenamingForgets, IdsGrow, OneUser
  <2> QED BY <2>1, <2>2, <2>3, <2>4, <2>5, <2>6 DEF UserInv
<1>15. ASSUME NEW q \in UserRequests, CollideOnAddress(q) PROVE UserInv'
  <2>1. (UserCacheTypeOK)'
    BY <1>15, UserCacheAssumption
    DEF CollideOnAddress, UserRequestDone, GoUser, HoldUser, NoErrand, userHistory, UserInv,
        UserCacheTypeOK, ErrandFits, User, Errands, UserPlaces
  <2>2. (IdsGrow /\ OneUser)'
    BY <1>15, UserCacheAssumption
    DEF CollideOnAddress, UserRequestDone, GoUser, HoldUser, userHistory, UserInv, UserCacheTypeOK,
        User, IdsGrow, OneUser, HasCopy
  <2>3. (\A p \in UserRequests : ErrandFits(p))'
    BY <1>15, UserCacheAssumption
    DEF CollideOnAddress, UserRequestDone, GoUser, HoldUser, NoErrand, userHistory, UserInv,
        UserCacheTypeOK, ErrandFits, Errands, OnlyRenamingForgets, User
  <2>4. (\A p \in UserRequests : HeldIsCurrent(p))'
    BY <1>15, UserCacheAssumption
    DEF CollideOnAddress, UserRequestDone, GoUser, HoldUser, userHistory, UserInv, UserCacheTypeOK,
        User, ErrandFits, HeldIsCurrent, SameUser, Asked, KeysFollow, CopyIsCurrent, HasCopy,
        WillForget, IdsGrow, OneUser
  <2>5. (KeysFollow)'
    BY <1>15, UserCacheAssumption
    DEF CollideOnAddress, UserRequestDone, GoUser, HoldUser, userHistory, UserInv, UserCacheTypeOK,
        User, ErrandFits, HeldIsCurrent, KeysFollow, CopyIsCurrent, IdIsCurrent, SameUser, HasCopy,
        HasId, WillForget, IdsGrow
  <2>6. (NothingIsLost /\ OnlyRenamingForgets)'
    BY <1>15, UserCacheAssumption
    DEF CollideOnAddress, UserRequestDone, GoUser, HoldUser, userHistory, UserInv, UserCacheTypeOK,
        User, ErrandFits, HeldIsCurrent, SameUser, NothingIsLost, OnlyRenamingForgets, IdsGrow,
        OneUser
  <2> QED BY <2>1, <2>2, <2>3, <2>4, <2>5, <2>6 DEF UserInv
<1>16. ASSUME NEW q \in UserRequests, ForgetCopy(q) PROVE UserInv'
  <2>1. (UserCacheTypeOK)'
    BY <1>16, UserCacheAssumption
    DEF ForgetCopy, GoUser, userHistory, UserInv, UserCacheTypeOK, ErrandFits, User, Errands,
        UserPlaces
  <2>2. (IdsGrow /\ OneUser)'
    BY <1>16, UserCacheAssumption
    DEF ForgetCopy, GoUser, userHistory, UserInv, UserCacheTypeOK, User, IdsGrow, OneUser, HasCopy
  <2>3. (\A p \in UserRequests : ErrandFits(p))'
    BY <1>16, UserCacheAssumption
    DEF ForgetCopy, GoUser, userHistory, UserInv, UserCacheTypeOK, ErrandFits, Errands,
        OnlyRenamingForgets, User
  <2>4. (\A p \in UserRequests : HeldIsCurrent(p))'
    BY <1>16, UserCacheAssumption
    DEF ForgetCopy, GoUser, userHistory, UserInv, UserCacheTypeOK, User, ErrandFits, HeldIsCurrent,
        SameUser, Asked, KeysFollow, CopyIsCurrent, HasCopy, WillForget, IdsGrow, OneUser
  <2>5. (KeysFollow)'
    BY <1>16, UserCacheAssumption
    DEF ForgetCopy, GoUser, userHistory, UserInv, UserCacheTypeOK, User, ErrandFits, HeldIsCurrent,
        KeysFollow, CopyIsCurrent, IdIsCurrent, SameUser, HasCopy, HasId, WillForget, IdsGrow
  <2>6. (NothingIsLost /\ OnlyRenamingForgets)'
    BY <1>16, UserCacheAssumption
    DEF ForgetCopy, GoUser, userHistory, UserInv, UserCacheTypeOK, User, ErrandFits, HeldIsCurrent,
        SameUser, NothingIsLost, OnlyRenamingForgets, IdsGrow, OneUser
  <2> QED BY <2>1, <2>2, <2>3, <2>4, <2>5, <2>6 DEF UserInv
<1>17. ASSUME NEW q \in UserRequests, ForgetId(q) PROVE UserInv'
  <2>1. (UserCacheTypeOK)'
    BY <1>17, UserCacheAssumption
    DEF ForgetId, GoUser, userHistory, UserInv, UserCacheTypeOK, ErrandFits, User, Errands,
        UserPlaces
  <2>2. (IdsGrow /\ OneUser)'
    BY <1>17, UserCacheAssumption
    DEF ForgetId, GoUser, userHistory, UserInv, UserCacheTypeOK, User, IdsGrow, OneUser, HasCopy
  <2>3. (\A p \in UserRequests : ErrandFits(p))'
    BY <1>17, UserCacheAssumption
    DEF ForgetId, GoUser, userHistory, UserInv, UserCacheTypeOK, ErrandFits, Errands,
        OnlyRenamingForgets, User
  <2>4. (\A p \in UserRequests : HeldIsCurrent(p))'
    BY <1>17, UserCacheAssumption
    DEF ForgetId, GoUser, userHistory, UserInv, UserCacheTypeOK, User, ErrandFits, HeldIsCurrent,
        SameUser, Asked, KeysFollow, CopyIsCurrent, HasCopy, WillForget, IdsGrow, OneUser
  <2>5. (KeysFollow)'
    BY <1>17, UserCacheAssumption
    DEF ForgetId, GoUser, userHistory, UserInv, UserCacheTypeOK, User, ErrandFits, HeldIsCurrent,
        KeysFollow, CopyIsCurrent, IdIsCurrent, SameUser, HasCopy, HasId, WillForget, IdsGrow
  <2>6. (NothingIsLost /\ OnlyRenamingForgets)'
    BY <1>17, UserCacheAssumption
    DEF ForgetId, GoUser, userHistory, UserInv, UserCacheTypeOK, User, ErrandFits, HeldIsCurrent,
        SameUser, NothingIsLost, OnlyRenamingForgets, IdsGrow, OneUser
  <2> QED BY <2>1, <2>2, <2>3, <2>4, <2>5, <2>6 DEF UserInv
<1>18. ASSUME NEW q \in UserRequests, AllForgotten(q) PROVE UserInv'
  <2>1. (UserCacheTypeOK)'
    BY <1>18, UserCacheAssumption
    DEF AllForgotten, UserRequestDone, GoUser, HoldUser, NoErrand, userHistory, UserInv,
        UserCacheTypeOK, ErrandFits, User, Errands, UserPlaces
  <2>2. (IdsGrow /\ OneUser)'
    BY <1>18, UserCacheAssumption
    DEF AllForgotten, UserRequestDone, GoUser, HoldUser, userHistory, UserInv, UserCacheTypeOK,
        User, IdsGrow, OneUser, HasCopy
  <2>3. (\A p \in UserRequests : ErrandFits(p))'
    BY <1>18, UserCacheAssumption
    DEF AllForgotten, UserRequestDone, GoUser, HoldUser, NoErrand, userHistory, UserInv,
        UserCacheTypeOK, ErrandFits, Errands, OnlyRenamingForgets, User
  <2>4. (\A p \in UserRequests : HeldIsCurrent(p))'
    BY <1>18, UserCacheAssumption
    DEF AllForgotten, UserRequestDone, GoUser, HoldUser, userHistory, UserInv, UserCacheTypeOK,
        User, ErrandFits, HeldIsCurrent, SameUser, Asked, KeysFollow, CopyIsCurrent, HasCopy,
        WillForget, IdsGrow, OneUser
  <2>5. (KeysFollow)'
    BY <1>18, UserCacheAssumption
    DEF AllForgotten, UserRequestDone, GoUser, HoldUser, userHistory, UserInv, UserCacheTypeOK,
        User, ErrandFits, HeldIsCurrent, KeysFollow, CopyIsCurrent, IdIsCurrent, SameUser, HasCopy,
        HasId, WillForget, IdsGrow
  <2>6. (NothingIsLost /\ OnlyRenamingForgets)'
    BY <1>18, UserCacheAssumption
    DEF AllForgotten, UserRequestDone, GoUser, HoldUser, userHistory, UserInv, UserCacheTypeOK,
        User, ErrandFits, HeldIsCurrent, SameUser, NothingIsLost, OnlyRenamingForgets, IdsGrow,
        OneUser
  <2> QED BY <2>1, <2>2, <2>3, <2>4, <2>5, <2>6 DEF UserInv
<1>19. ASSUME NEW q \in UserRequests, ValidateId(q) PROVE UserInv'
  <2>1. (UserCacheTypeOK)'
    BY <1>19, UserCacheAssumption
    DEF ValidateId, UserRequestDone, GoUser, HoldUser, NoErrand, userHistory, UserInv,
        UserCacheTypeOK, ErrandFits, User, Errands, UserPlaces
  <2>2. (IdsGrow /\ OneUser)'
    BY <1>19, UserCacheAssumption
    DEF ValidateId, UserRequestDone, GoUser, HoldUser, userHistory, UserInv, UserCacheTypeOK, User,
        IdsGrow, OneUser, HasCopy
  <2>3. (\A p \in UserRequests : ErrandFits(p))'
    BY <1>19, UserCacheAssumption
    DEF ValidateId, UserRequestDone, GoUser, HoldUser, NoErrand, userHistory, UserInv,
        UserCacheTypeOK, ErrandFits, Errands, OnlyRenamingForgets, User
  <2>4. (\A p \in UserRequests : HeldIsCurrent(p))'
    BY <1>19, UserCacheAssumption
    DEF ValidateId, UserRequestDone, GoUser, HoldUser, userHistory, UserInv, UserCacheTypeOK, User,
        ErrandFits, HeldIsCurrent, SameUser, Asked, KeysFollow, CopyIsCurrent, HasCopy, WillForget,
        IdsGrow, OneUser
  <2>5. (KeysFollow)'
    BY <1>19, UserCacheAssumption
    DEF ValidateId, UserRequestDone, GoUser, HoldUser, userHistory, UserInv, UserCacheTypeOK, User,
        ErrandFits, HeldIsCurrent, KeysFollow, CopyIsCurrent, IdIsCurrent, SameUser, HasCopy,
        HasId, WillForget, IdsGrow
  <2>6. (NothingIsLost /\ OnlyRenamingForgets)'
    BY <1>19, UserCacheAssumption
    DEF ValidateId, UserRequestDone, GoUser, HoldUser, userHistory, UserInv, UserCacheTypeOK, User,
        ErrandFits, HeldIsCurrent, SameUser, NothingIsLost, OnlyRenamingForgets, IdsGrow, OneUser
  <2> QED BY <2>1, <2>2, <2>3, <2>4, <2>5, <2>6 DEF UserInv
<1>20. ASSUME NEW q \in UserRequests, QueryId(q) PROVE UserInv'
  <2>1. (UserCacheTypeOK)'
    BY <1>20, UserCacheAssumption
    DEF QueryId, GoUser, HoldUser, userHistory, UserInv, UserCacheTypeOK, ErrandFits, User,
        Errands, UserPlaces
  <2>2. (IdsGrow /\ OneUser)'
    BY <1>20, UserCacheAssumption
    DEF QueryId, GoUser, HoldUser, userHistory, UserInv, UserCacheTypeOK, User, IdsGrow, OneUser,
        HasCopy
  <2>3. (\A p \in UserRequests : ErrandFits(p))'
    BY <1>20, UserCacheAssumption
    DEF QueryId, GoUser, HoldUser, userHistory, UserInv, UserCacheTypeOK, ErrandFits, Errands,
        OnlyRenamingForgets, User
  <2>4. (\A p \in UserRequests : HeldIsCurrent(p))'
    BY <1>20, UserCacheAssumption
    DEF QueryId, GoUser, HoldUser, userHistory, UserInv, UserCacheTypeOK, User, ErrandFits,
        HeldIsCurrent, SameUser, Asked, KeysFollow, CopyIsCurrent, HasCopy, WillForget, IdsGrow,
        OneUser
  <2>5. (KeysFollow)'
    BY <1>20, UserCacheAssumption
    DEF QueryId, GoUser, HoldUser, userHistory, UserInv, UserCacheTypeOK, User, ErrandFits,
        HeldIsCurrent, KeysFollow, CopyIsCurrent, IdIsCurrent, SameUser, HasCopy, HasId,
        WillForget, IdsGrow
  <2>6. (NothingIsLost /\ OnlyRenamingForgets)'
    BY <1>20, UserCacheAssumption
    DEF QueryId, GoUser, HoldUser, userHistory, UserInv, UserCacheTypeOK, User, ErrandFits,
        HeldIsCurrent, SameUser, NothingIsLost, OnlyRenamingForgets, IdsGrow, OneUser
  <2> QED BY <2>1, <2>2, <2>3, <2>4, <2>5, <2>6 DEF UserInv
<1>21. ASSUME NEW q \in UserRequests, FillIdKey(q) PROVE UserInv'
  <2>1. (UserCacheTypeOK)'
    BY <1>21, UserCacheAssumption
    DEF FillIdKey, UserRequestDone, GoUser, HoldUser, NoErrand, userHistory, UserInv,
        UserCacheTypeOK, ErrandFits, User, Errands, UserPlaces
  <2>2. (IdsGrow /\ OneUser)'
    BY <1>21, UserCacheAssumption
    DEF FillIdKey, UserRequestDone, GoUser, HoldUser, userHistory, UserInv, UserCacheTypeOK, User,
        IdsGrow, OneUser, HasCopy
  <2>3. (\A p \in UserRequests : ErrandFits(p))'
    BY <1>21, UserCacheAssumption
    DEF FillIdKey, UserRequestDone, GoUser, HoldUser, NoErrand, userHistory, UserInv,
        UserCacheTypeOK, ErrandFits, Errands, OnlyRenamingForgets, User
  <2>4. (\A p \in UserRequests : HeldIsCurrent(p))'
    BY <1>21, UserCacheAssumption
    DEF FillIdKey, UserRequestDone, GoUser, HoldUser, userHistory, UserInv, UserCacheTypeOK, User,
        ErrandFits, HeldIsCurrent, SameUser, Asked, KeysFollow, CopyIsCurrent, HasCopy, WillForget,
        IdsGrow, OneUser
  <2>5. (KeysFollow)'
    BY <1>21, UserCacheAssumption
    DEF FillIdKey, UserRequestDone, GoUser, HoldUser, userHistory, UserInv, UserCacheTypeOK, User,
        ErrandFits, HeldIsCurrent, KeysFollow, CopyIsCurrent, IdIsCurrent, SameUser, HasCopy,
        HasId, WillForget, IdsGrow
  <2>6. (NothingIsLost /\ OnlyRenamingForgets)'
    BY <1>21, UserCacheAssumption
    DEF FillIdKey, UserRequestDone, GoUser, HoldUser, userHistory, UserInv, UserCacheTypeOK, User,
        ErrandFits, HeldIsCurrent, SameUser, NothingIsLost, OnlyRenamingForgets, IdsGrow, OneUser
  <2> QED BY <2>1, <2>2, <2>3, <2>4, <2>5, <2>6 DEF UserInv
<1>22. CASE ExpireUserKeys
  BY <1>22, UserCacheAssumption
  DEF ExpireUserKeys, userRequestVars, userHistory, UserInv, UserCacheTypeOK, IdsGrow, OneUser,
      ErrandFits, HeldIsCurrent, KeysFollow, NothingIsLost, OnlyRenamingForgets, CopyIsCurrent,
      IdIsCurrent, WillForget, HasCopy, HasId, User
<1>23. CASE UNCHANGED userCacheVars
  BY <1>23
  DEF userCacheVars, UserInv, UserCacheTypeOK, IdsGrow, OneUser, ErrandFits, HeldIsCurrent,
      KeysFollow, NothingIsLost, OnlyRenamingForgets, CopyIsCurrent, IdIsCurrent, WillForget,
      HasCopy, HasId
<1> QED BY <1>1, <1>2, <1>3, <1>4, <1>5, <1>6, <1>7, <1>8, <1>9, <1>10, <1>11, <1>12, <1>13, <1>14,
           <1>15, <1>16, <1>17, <1>18, <1>19, <1>20, <1>21, <1>22, <1>23
        DEF UserCacheNext, UserStep

LEMMA UserInvBegins == UserCacheInit => UserInv
<1> SUFFICES ASSUME UserCacheInit PROVE UserInv
  OBVIOUS
<1>1. UserCacheTypeOK
  <2>1. NoErrand \in Errands
    BY DEF Errands, NoErrand
  <2>2. 0 \in 0..MaxUserIds /\ 0 \in 0..2
    BY UserCacheAssumption
  <2> QED BY <2>1, <2>2 DEF UserCacheInit, UserCacheTypeOK, UserPlaces
<1>2. IdsGrow /\ OneUser /\ KeysFollow /\ NothingIsLost /\ OnlyRenamingForgets
  BY DEF UserCacheInit, IdsGrow, OneUser, KeysFollow, NothingIsLost, OnlyRenamingForgets, CopyIsCurrent,
         IdIsCurrent, HasCopy, HasId
<1>3. \A q \in UserRequests : ErrandFits(q) /\ HeldIsCurrent(q)
  BY DEF UserCacheInit, ErrandFits, HeldIsCurrent
<1> QED BY <1>1, <1>2, <1>3 DEF UserInv

(***************************************************************************)
(* For any requests, names and languages: from its invalidation on a key   *)
(* says what the row of the user says, no update is lost, and only logins  *)
(* that rename lose what the key leaves out, unless requests overlapped    *)
(* (get_cached_user, invalidate_cached_user, KeycloakAuthentication).      *)
(***************************************************************************)
THEOREM UsersAreKept == UserCacheSpec => [](UserCacheTypeOK /\ UserCacheHolds)
<1>1. UserInv => UserCacheTypeOK /\ UserCacheHolds
  BY DEF UserInv, UserCacheHolds, KeysAreCurrent, KeysFollow, CopyIsCurrent, IdIsCurrent, HasCopy, HasId,
         Forgetting, WillForget
<1> QED BY <1>1, UserInvBegins, UserInvStep, PTL DEF UserCacheSpec

-----------------------------------------------------------------------------
(***************************************************************************)
(* Projects: the rows of an organisation, their keys and their tokens.     *)
(***************************************************************************)
SettingTasks == {"update", "event", "complete"}

\* Which tasks get where.
ConfigTaskFits(q) ==
    /\ configAt[q] \in {"look", "query", "fill"} => configTask[q].is \in {"read", "complete"}
    /\ configAt[q] \in {"write", "forget"} => configTask[q].is \in SettingTasks \cup {"promote", "call"}
    /\ configAt[q] = "demote" => configTask[q].is = "promote"
    /\ configAt[q] \in {"request", "refresh", "failed"} => configTask[q].is = "call"

\* As long as nothing was mixed, one request changes a project at a time.
OneAtATime ==
    ~mixed => \A q, o \in ConfigRequests :
        q # o /\ Changes(q) /\ Changes(o) => ~MeetsChange(q, configTask[o])

\* What a request writes back of a row is what the row says.
HeldIsRow(q) ==
    ~mixed =>
        LET row == projectRow[configTask[q].project] IN
        /\ (configAt[q] \in {"look", "query", "write"} /\ configTask[q].is # "read") \/ configAt[q] = "fill" =>
               projectHeld[q].config = row.config
        /\ configAt[q] \in {"look", "query", "write"} /\ configTask[q].is \notin {"read", "call"} =>
               projectHeld[q].token = row.token
        /\ configAt[q] \in {"request", "refresh", "forget"} /\ configTask[q].is = "call" =>
               projectHeld[q].config = row.config
        /\ configAt[q] = "fill" => projectHeld[q].token = row.token

\* Between the save of the principal project and the demotion of the others.
PromotionGoesOn ==
    ~mixed => \A q \in ConfigRequests :
        configTask[q].is = "promote" /\ configAt[q] \in {"forget", "demote"} =>
            promoted = configTask[q].project /\ projectRow[promoted].config.principal

\* A token that was refused is replaced before the next try.
RenewsToken(q) ==
    LET refused == FlowsRetries - triesLeft[q] IN
    /\ configAt[q] \in {"write", "forget"} /\ configTask[q].is = "call" =>
           refused > 0 /\ (projectHeld[q].token = "valid" \/ q \in hindered)
    /\ configAt[q] = "refresh" => refused > 0
    /\ configAt[q] = "request" /\ refused > 0 => projectHeld[q].token = "valid" \/ q \in hindered
    /\ configAt[q] \in {"request", "refresh", "write", "forget"} /\ configTask[q].is = "call" =>
           (refused > 1 => q \in hindered)

ConfigInv ==
    /\ ProjectConfigTypeOK
    /\ \A q \in ConfigRequests : ConfigTaskFits(q) /\ HeldIsRow(q) /\ RenewsToken(q)
    /\ OneAtATime /\ PromotionGoesOn
    /\ ProjectConfigHolds

\* What is there before a request, and after it.
LEMMA ConfigAtRest == NewRow \in ProjectRow /\ NoConfigTask \in ConfigTasks /\ EmptyConfig \in Config
<1>1. EmptyConfig \in Config
  BY DEF EmptyConfig, Config
<1>2. NewRow \in ProjectRow
  BY <1>1 DEF NewRow, ProjectRow, Tokens
<1>3. NoConfigTask \in ConfigTasks
  BY DEF NoConfigTask, ConfigTasks
<1> QED BY <1>1, <1>2, <1>3

LEMMA DoneType ==
  ASSUME ProjectConfigTypeOK, NEW q \in ConfigRequests, ConfigDone(q)
  PROVE  /\ configAt' \in [ConfigRequests -> ConfigPlaces]
         /\ configTask' \in [ConfigRequests -> ConfigTasks]
         /\ projectHeld' \in [ConfigRequests -> ProjectRow]
         /\ triesLeft' \in [ConfigRequests -> 0..FlowsRetries]
         /\ \A o \in ConfigRequests : configAt'[o] # "idle" => configTask'[o].project \in OrgProjects
         /\ hindered' \subseteq ConfigRequests
<1>1. 0 \in 0..FlowsRetries
  BY ProjectConfigAssumption
<1> QED BY <1>1, ConfigAtRest DEF ConfigDone, ConfigGoTo, HoldRow, ProjectConfigTypeOK, ConfigPlaces

LEMMA RowFields ==
  ASSUME NEW row \in ProjectRow
  PROVE  /\ row.config \in Config /\ row.token \in Tokens
         /\ row.config.principal \in BOOLEAN /\ row.config.option \in Options \cup {NoOption}
         /\ Revoked(row) \in ProjectRow /\ Revoked(row).config = row.config
BY DEF ProjectRow, Config, Tokens, Revoked

\* Where each kind of configTask begins, and with how many tries.
StartsTask(q, t, place) ==
    /\ BeginProjectTask(q, t, place)
    /\ t \in ConfigTasks /\ t.project \in OrgProjects
    /\ \/ t.is \in {"read", "complete"} /\ place = "look"
       \/ t.is \in {"update", "event", "promote"} /\ place = "write"
       \/ t.is = "call" /\ place = "request"
    /\ triesLeft' = IF t.is = "call" THEN [triesLeft EXCEPT ![q] = FlowsRetries] ELSE triesLeft

LEMMA ConfigStarts ==
  ASSUME ConfigInv, NEW q \in ConfigRequests, NEW t, NEW place, StartsTask(q, t, place)
  PROVE  ConfigInv'
<1>1. ProjectConfigTypeOK'
  BY ProjectConfigAssumption, ConfigAtRest
  DEF StartsTask, BeginProjectTask, ConfigGoTo, HoldRow, ConfigInv, ProjectConfigTypeOK, ConfigPlaces
<1>2. (\A o \in ConfigRequests : ConfigTaskFits(o))'
  BY ProjectConfigAssumption
  DEF StartsTask, BeginProjectTask, ConfigGoTo, HoldRow, Changes, MeetsChange, NewRow, EmptyConfig,
      ConfigInv, ProjectConfigTypeOK, ConfigTaskFits, SettingTasks
<1>3. OneAtATime'
  <2>1. SUFFICES ASSUME ~mixed', NEW u \in ConfigRequests, NEW o \in ConfigRequests, u # o,
                        configAt'[u] # "idle", configTask'[u].is # "read",
                        configAt'[o] # "idle", configTask'[o].is # "read"
                 PROVE  /\ configTask'[o].project # configTask'[u].project
                        /\ configTask'[o].is # "promote" /\ configTask'[u].is # "promote"
    BY DEF OneAtATime, MeetsChange, Changes
  <2>2. /\ ~mixed /\ configTask' = [configTask EXCEPT ![q] = t] /\ configAt' = [configAt EXCEPT ![q] = place]
        /\ configTask'[q] = t
    BY <2>1 DEF StartsTask, BeginProjectTask, ConfigGoTo, ConfigInv, ProjectConfigTypeOK
  <2>3. ASSUME NEW r \in ConfigRequests, configAt[r] # "idle", configTask[r].is # "read", t.is # "read"
        PROVE  t.project # configTask[r].project /\ t.is # "promote" /\ configTask[r].is # "promote"
    BY <2>1, <2>3 DEF StartsTask, BeginProjectTask, Changes, MeetsChange
  <2>4. \A r \in ConfigRequests \ {q} : configTask'[r] = configTask[r] /\ configAt'[r] = configAt[r]
    BY <2>2 DEF ConfigInv, ProjectConfigTypeOK
  <2>5. CASE u # q /\ o # q
    BY <2>1, <2>2, <2>4, <2>5 DEF ConfigInv, OneAtATime, MeetsChange, Changes
  <2>6. CASE u = q
    BY <2>1, <2>2, <2>3, <2>4, <2>6
  <2>7. CASE o = q
    BY <2>1, <2>2, <2>3, <2>4, <2>7
  <2> QED BY <2>5, <2>6, <2>7
<1>4. (\A o \in ConfigRequests : HeldIsRow(o))'
  BY ProjectConfigAssumption
  DEF StartsTask, BeginProjectTask, ConfigGoTo, HoldRow, Changes, MeetsChange, NewRow, EmptyConfig,
      ConfigInv, ProjectConfigTypeOK, HeldIsRow, OneAtATime, Filling, ConfigTaskFits, SettingTasks, ProjectRow
<1>5. (PromotionGoesOn)'
  BY ProjectConfigAssumption
  DEF StartsTask, BeginProjectTask, ConfigGoTo, HoldRow, Changes, MeetsChange, NewRow, EmptyConfig,
      ConfigInv, ProjectConfigTypeOK, PromotionGoesOn, OneAtATime, ConfigTaskFits, SettingTasks, ProjectRow,
      Config
<1>6. ((\A o \in ConfigRequests : RenewsToken(o)) /\ OldTokensAreRenewed)'
  BY ProjectConfigAssumption
  DEF StartsTask, BeginProjectTask, ConfigGoTo, HoldRow, Changes, MeetsChange, NewRow, EmptyConfig,
      ConfigInv, ProjectConfigTypeOK, RenewsToken, OldTokensAreRenewed, ProjectConfigHolds,
      ConfigTaskFits, SettingTasks, ProjectRow
<1>7. (ConfigKeysAreCurrent)'
  BY ProjectConfigAssumption
  DEF StartsTask, BeginProjectTask, ConfigGoTo, HoldRow, Changes, MeetsChange, NewRow, EmptyConfig,
      ConfigInv, ProjectConfigTypeOK, ConfigKeysAreCurrent, ProjectConfigHolds, ForgetsConfig,
      HeldIsRow, Filling, ProjectRow
<1>8. (OptionsAreKept /\ OnePrincipal)'
  BY ProjectConfigAssumption
  DEF StartsTask, BeginProjectTask, ConfigGoTo, HoldRow, Changes, MeetsChange, NewRow, EmptyConfig,
      ConfigInv, ProjectConfigTypeOK, OptionsAreKept, OnePrincipal, ProjectConfigHolds, Promoting,
      PromotionGoesOn, OneAtATime, HeldIsRow, ConfigTaskFits, SettingTasks, ProjectRow, Config
<1> QED BY <1>1, <1>2, <1>3, <1>4, <1>5, <1>6, <1>7, <1>8
        DEF ConfigInv, ProjectConfigHolds

(***************************************************************************)
(* The inductive invariant: every step keeps what the keys, the requests   *)
(* and the rows of the projects have to do with each other.                *)
(***************************************************************************)
LEMMA ConfigInvStep ==
  ASSUME ConfigInv, [ProjectConfigNext]_configVars
  PROVE  ConfigInv'
<1>1. ASSUME NEW q \in ConfigRequests, NEW p \in OrgProjects,
             BeginRead(q, p)
      PROVE  ConfigInv'
  <2>1. StartsTask(q, [is |-> "read", project |-> p], "look")
    BY <1>1 DEF BeginRead, StartsTask, ConfigTasks
  <2> QED BY <2>1, ConfigStarts
<1>2. ASSUME NEW q \in ConfigRequests, NEW p \in OrgProjects,
             BeginPromote(q, p)
      PROVE  ConfigInv'
  <2>1. StartsTask(q, [is |-> "promote", project |-> p], "write")
    BY <1>2 DEF BeginPromote, StartsTask, ConfigTasks
  <2> QED BY <2>1, ConfigStarts
<1>3. ASSUME NEW q \in ConfigRequests, NEW p \in OrgProjects,
             BeginCall(q, p)
      PROVE  ConfigInv'
  <2>1. StartsTask(q, [is |-> "call", project |-> p], "request")
    BY <1>3 DEF BeginCall, StartsTask, ConfigTasks
  <2> QED BY <2>1, ConfigStarts
<1>4. ASSUME NEW q \in ConfigRequests, NEW p \in OrgProjects, NEW option \in Options,
             BeginProjectUpdate(q, p, option)
      PROVE  ConfigInv'
  <2>1. StartsTask(q, [is |-> "update", project |-> p, option |-> option], "write")
    BY <1>4 DEF BeginProjectUpdate, StartsTask, ConfigTasks
  <2> QED BY <2>1, ConfigStarts
<1>5. ASSUME NEW q \in ConfigRequests, NEW p \in OrgProjects, NEW option \in Options,
             BeginEvent(q, p, option)
      PROVE  ConfigInv'
  <2>1. StartsTask(q, [is |-> "event", project |-> p, option |-> option], "write")
    BY <1>5 DEF BeginEvent, StartsTask, ConfigTasks
  <2> QED BY <2>1, ConfigStarts
<1>6. ASSUME NEW q \in ConfigRequests, NEW p \in OrgProjects, NEW option \in Options,
             BeginComplete(q, p, option)
      PROVE  ConfigInv'
  <2>1. StartsTask(q, [is |-> "complete", project |-> p, option |-> option], "look")
    BY <1>6 DEF BeginComplete, StartsTask, ConfigTasks
  <2> QED BY <2>1, ConfigStarts
<1>7. ASSUME NEW q \in ConfigRequests, HitConfig(q)
      PROVE  ConfigInv'
  <2>1. (ProjectConfigTypeOK)'
    <3>1. CASE ConfigDone(q)
      BY <1>7, <3>1, DoneType DEF HitConfig, ConfigInv, ProjectConfigTypeOK
    <3>2. CASE configAt' = [configAt EXCEPT ![q] = "write"] /\ UNCHANGED <<configTask, projectHeld, triesLeft, hindered>>
      BY <1>7, <3>2 DEF HitConfig, ConfigInv, ProjectConfigTypeOK, ConfigPlaces
    <3> QED BY <1>7, <3>1, <3>2 DEF HitConfig, CacheAnswered, ConfigGoTo
  <2>2. (\A o \in ConfigRequests : ConfigTaskFits(o))'
    BY <1>7, ProjectConfigAssumption
    DEF HitConfig, ConfigGoTo, HoldRow, ConfigDone, CacheAnswered, EmptyConfig, NewRow, NoConfigTask,
        ConfigInv, ProjectConfigTypeOK, ConfigTaskFits, SettingTasks
  <2>3. (OneAtATime)'
    BY <1>7, ProjectConfigAssumption
    DEF HitConfig, ConfigGoTo, HoldRow, ConfigDone, CacheAnswered, EmptyConfig, NewRow, NoConfigTask,
        ConfigInv, ProjectConfigTypeOK, OneAtATime, Changes, MeetsChange, ConfigTaskFits, SettingTasks
  <2>4. (\A o \in ConfigRequests : HeldIsRow(o))'
    BY <1>7, ProjectConfigAssumption
    DEF HitConfig, ConfigGoTo, HoldRow, ConfigDone, CacheAnswered, EmptyConfig, NewRow, NoConfigTask,
        ConfigInv, ProjectConfigTypeOK, HeldIsRow, OneAtATime, Changes, MeetsChange, Filling,
        ConfigTaskFits, SettingTasks, ProjectRow
  <2>5. (PromotionGoesOn)'
    BY <1>7, ProjectConfigAssumption
    DEF HitConfig, ConfigGoTo, HoldRow, ConfigDone, CacheAnswered, EmptyConfig, NewRow, NoConfigTask,
        ConfigInv, ProjectConfigTypeOK, PromotionGoesOn, OneAtATime, Changes, MeetsChange,
        ConfigTaskFits, SettingTasks, ProjectRow, Config
  <2>6. ((\A o \in ConfigRequests : RenewsToken(o)) /\ OldTokensAreRenewed)'
    BY <1>7, ProjectConfigAssumption
    DEF HitConfig, ConfigGoTo, HoldRow, ConfigDone, CacheAnswered, EmptyConfig, NewRow, NoConfigTask,
        ConfigInv, ProjectConfigTypeOK, RenewsToken, OldTokensAreRenewed, ProjectConfigHolds,
        ConfigTaskFits, SettingTasks, ProjectRow
  <2>7. (ConfigKeysAreCurrent)'
    BY <1>7, ProjectConfigAssumption
    DEF HitConfig, ConfigGoTo, HoldRow, ConfigDone, CacheAnswered, EmptyConfig, NewRow, NoConfigTask,
        ConfigInv, ProjectConfigTypeOK, ConfigKeysAreCurrent, ProjectConfigHolds, ForgetsConfig,
        HeldIsRow, Filling, ProjectRow
  <2>8. (OptionsAreKept /\ OnePrincipal)'
    BY <1>7, ProjectConfigAssumption
    DEF HitConfig, ConfigGoTo, HoldRow, ConfigDone, CacheAnswered, EmptyConfig, NewRow, NoConfigTask,
        ConfigInv, ProjectConfigTypeOK, OptionsAreKept, OnePrincipal, ProjectConfigHolds,
        Promoting, PromotionGoesOn, OneAtATime, Changes, MeetsChange, HeldIsRow, ConfigTaskFits, SettingTasks,
        ProjectRow, Config
  <2> QED BY <2>1, <2>2, <2>3, <2>4, <2>5, <2>6, <2>7, <2>8
          DEF ConfigInv, ProjectConfigHolds
<1>8. ASSUME NEW q \in ConfigRequests, MissConfig(q)
      PROVE  ConfigInv'
  <2>1. (ProjectConfigTypeOK)'
    BY <1>8, ProjectConfigAssumption
    DEF MissConfig, ConfigGoTo, configHistory, ConfigInv, ProjectConfigTypeOK, ConfigTaskFits,
        ConfigTasks, ConfigPlaces, ProjectRow, Config, Tokens
  <2>2. (\A o \in ConfigRequests : ConfigTaskFits(o))'
    BY <1>8, ProjectConfigAssumption
    DEF MissConfig, ConfigGoTo, configHistory, ConfigInv, ProjectConfigTypeOK, ConfigTaskFits, SettingTasks
  <2>3. (OneAtATime)'
    BY <1>8, ProjectConfigAssumption
    DEF MissConfig, ConfigGoTo, configHistory, ConfigInv, ProjectConfigTypeOK, OneAtATime, Changes,
        MeetsChange, ConfigTaskFits, SettingTasks
  <2>4. (\A o \in ConfigRequests : HeldIsRow(o))'
    BY <1>8, ProjectConfigAssumption
    DEF MissConfig, ConfigGoTo, configHistory, ConfigInv, ProjectConfigTypeOK, HeldIsRow,
        OneAtATime, Changes, MeetsChange, Filling, ConfigTaskFits, SettingTasks, ProjectRow
  <2>5. (PromotionGoesOn)'
    BY <1>8, ProjectConfigAssumption
    DEF MissConfig, ConfigGoTo, configHistory, ConfigInv, ProjectConfigTypeOK, PromotionGoesOn,
        OneAtATime, Changes, MeetsChange, ConfigTaskFits, SettingTasks, ProjectRow, Config
  <2>6. ((\A o \in ConfigRequests : RenewsToken(o)) /\ OldTokensAreRenewed)'
    BY <1>8, ProjectConfigAssumption
    DEF MissConfig, ConfigGoTo, configHistory, ConfigInv, ProjectConfigTypeOK, RenewsToken,
        OldTokensAreRenewed, ProjectConfigHolds, ConfigTaskFits, SettingTasks, ProjectRow
  <2>7. (ConfigKeysAreCurrent)'
    BY <1>8, ProjectConfigAssumption
    DEF MissConfig, ConfigGoTo, configHistory, ConfigInv, ProjectConfigTypeOK,
        ConfigKeysAreCurrent, ProjectConfigHolds, ForgetsConfig, HeldIsRow, Filling, ProjectRow
  <2>8. (OptionsAreKept /\ OnePrincipal)'
    BY <1>8, ProjectConfigAssumption
    DEF MissConfig, ConfigGoTo, configHistory, ConfigInv, ProjectConfigTypeOK, OptionsAreKept,
        OnePrincipal, ProjectConfigHolds, Promoting, PromotionGoesOn, OneAtATime, Changes,
        MeetsChange, HeldIsRow, ConfigTaskFits, SettingTasks, ProjectRow, Config
  <2> QED BY <2>1, <2>2, <2>3, <2>4, <2>5, <2>6, <2>7, <2>8
          DEF ConfigInv, ProjectConfigHolds
<1>9. ASSUME NEW q \in ConfigRequests, QueryConfig(q)
      PROVE  ConfigInv'
  <2>1. (ProjectConfigTypeOK)'
    BY <1>9, ProjectConfigAssumption
    DEF QueryConfig, ConfigGoTo, HoldRow, configHistory, ConfigInv, ProjectConfigTypeOK, ConfigTaskFits,
        ConfigTasks, ConfigPlaces, ProjectRow, Config, Tokens
  <2>2. (\A o \in ConfigRequests : ConfigTaskFits(o))'
    BY <1>9, ProjectConfigAssumption
    DEF QueryConfig, ConfigGoTo, HoldRow, configHistory, ConfigInv, ProjectConfigTypeOK, ConfigTaskFits,
        SettingTasks
  <2>3. (OneAtATime)'
    BY <1>9, ProjectConfigAssumption
    DEF QueryConfig, ConfigGoTo, HoldRow, configHistory, ConfigInv, ProjectConfigTypeOK,
        OneAtATime, Changes, MeetsChange, ConfigTaskFits, SettingTasks
  <2>4. (\A o \in ConfigRequests : HeldIsRow(o))'
    BY <1>9, ProjectConfigAssumption
    DEF QueryConfig, ConfigGoTo, HoldRow, configHistory, ConfigInv, ProjectConfigTypeOK, HeldIsRow,
        OneAtATime, Changes, MeetsChange, Filling, ConfigTaskFits, SettingTasks, ProjectRow
  <2>5. (PromotionGoesOn)'
    BY <1>9, ProjectConfigAssumption
    DEF QueryConfig, ConfigGoTo, HoldRow, configHistory, ConfigInv, ProjectConfigTypeOK,
        PromotionGoesOn, OneAtATime, Changes, MeetsChange, ConfigTaskFits, SettingTasks, ProjectRow, Config
  <2>6. ((\A o \in ConfigRequests : RenewsToken(o)) /\ OldTokensAreRenewed)'
    BY <1>9, ProjectConfigAssumption
    DEF QueryConfig, ConfigGoTo, HoldRow, configHistory, ConfigInv, ProjectConfigTypeOK,
        RenewsToken, OldTokensAreRenewed, ProjectConfigHolds, ConfigTaskFits, SettingTasks, ProjectRow
  <2>7. (ConfigKeysAreCurrent)'
    BY <1>9, ProjectConfigAssumption
    DEF QueryConfig, ConfigGoTo, HoldRow, configHistory, ConfigInv, ProjectConfigTypeOK,
        ConfigKeysAreCurrent, ProjectConfigHolds, ForgetsConfig, HeldIsRow, Filling, ProjectRow
  <2>8. (OptionsAreKept /\ OnePrincipal)'
    BY <1>9, ProjectConfigAssumption
    DEF QueryConfig, ConfigGoTo, HoldRow, configHistory, ConfigInv, ProjectConfigTypeOK,
        OptionsAreKept, OnePrincipal, ProjectConfigHolds, Promoting, PromotionGoesOn, OneAtATime,
        Changes, MeetsChange, HeldIsRow, ConfigTaskFits, SettingTasks, ProjectRow, Config
  <2> QED BY <2>1, <2>2, <2>3, <2>4, <2>5, <2>6, <2>7, <2>8
          DEF ConfigInv, ProjectConfigHolds
<1>10. ASSUME NEW q \in ConfigRequests, FillConfig(q)
      PROVE  ConfigInv'
  <2>1. (ProjectConfigTypeOK)'
    <3>1. configKey' \in [OrgProjects -> Config \cup {NoConfig}]
      BY <1>10, RowFields DEF FillConfig, ConfigInv, ProjectConfigTypeOK
    <3>2. CASE ConfigDone(q)
      BY <1>10, <3>1, <3>2, DoneType DEF FillConfig, ConfigInv, ProjectConfigTypeOK
    <3>3. CASE configAt' = [configAt EXCEPT ![q] = "write"] /\ UNCHANGED <<configTask, projectHeld, triesLeft, hindered>>
      BY <1>10, <3>1, <3>3 DEF FillConfig, ConfigInv, ProjectConfigTypeOK, ConfigPlaces
    <3> QED BY <1>10, <3>2, <3>3 DEF FillConfig, CacheAnswered, ConfigGoTo
  <2>2. (\A o \in ConfigRequests : ConfigTaskFits(o))'
    BY <1>10, ProjectConfigAssumption
    DEF FillConfig, ConfigGoTo, HoldRow, ConfigDone, CacheAnswered, EmptyConfig, NewRow, NoConfigTask,
        ConfigInv, ProjectConfigTypeOK, ConfigTaskFits, SettingTasks
  <2>3. (OneAtATime)'
    BY <1>10, ProjectConfigAssumption
    DEF FillConfig, ConfigGoTo, HoldRow, ConfigDone, CacheAnswered, EmptyConfig, NewRow, NoConfigTask,
        ConfigInv, ProjectConfigTypeOK, OneAtATime, Changes, MeetsChange, ConfigTaskFits, SettingTasks
  <2>4. (\A o \in ConfigRequests : HeldIsRow(o))'
    BY <1>10, ProjectConfigAssumption
    DEF FillConfig, ConfigGoTo, HoldRow, ConfigDone, CacheAnswered, EmptyConfig, NewRow, NoConfigTask,
        ConfigInv, ProjectConfigTypeOK, HeldIsRow, OneAtATime, Changes, MeetsChange, Filling,
        ConfigTaskFits, SettingTasks, ProjectRow
  <2>5. (PromotionGoesOn)'
    BY <1>10, ProjectConfigAssumption
    DEF FillConfig, ConfigGoTo, HoldRow, ConfigDone, CacheAnswered, EmptyConfig, NewRow, NoConfigTask,
        ConfigInv, ProjectConfigTypeOK, PromotionGoesOn, OneAtATime, Changes, MeetsChange,
        ConfigTaskFits, SettingTasks, ProjectRow, Config
  <2>6. ((\A o \in ConfigRequests : RenewsToken(o)) /\ OldTokensAreRenewed)'
    <3>1. CASE ConfigDone(q)
      BY <1>10, <3>1
      DEF FillConfig, ConfigDone, ConfigGoTo, HoldRow, ConfigInv, ProjectConfigTypeOK, RenewsToken,
          OldTokensAreRenewed, ProjectConfigHolds
    <3>2. CASE configAt' = [configAt EXCEPT ![q] = "write"] /\ UNCHANGED <<configTask, projectHeld, triesLeft, hindered>>
      BY <1>10, <3>2
      DEF FillConfig, ConfigInv, ProjectConfigTypeOK, ConfigTaskFits, RenewsToken, OldTokensAreRenewed,
          ProjectConfigHolds
    <3> QED BY <1>10, <3>1, <3>2 DEF FillConfig, CacheAnswered, ConfigGoTo
  <2>7. (ConfigKeysAreCurrent)'
    BY <1>10, ProjectConfigAssumption
    DEF FillConfig, ConfigGoTo, HoldRow, ConfigDone, CacheAnswered, EmptyConfig, NewRow, NoConfigTask,
        ConfigInv, ProjectConfigTypeOK, ConfigKeysAreCurrent, ProjectConfigHolds, ForgetsConfig,
        HeldIsRow, Filling, ProjectRow
  <2>8. (OptionsAreKept /\ OnePrincipal)'
    BY <1>10, ProjectConfigAssumption
    DEF FillConfig, ConfigGoTo, HoldRow, ConfigDone, CacheAnswered, EmptyConfig, NewRow, NoConfigTask,
        ConfigInv, ProjectConfigTypeOK, OptionsAreKept, OnePrincipal, ProjectConfigHolds,
        Promoting, PromotionGoesOn, OneAtATime, Changes, MeetsChange, HeldIsRow, ConfigTaskFits, SettingTasks,
        ProjectRow, Config
  <2> QED BY <2>1, <2>2, <2>3, <2>4, <2>5, <2>6, <2>7, <2>8
          DEF ConfigInv, ProjectConfigHolds
<1>11. ASSUME NEW q \in ConfigRequests, SaveProject(q)
      PROVE  ConfigInv'
  <2>1. (ProjectConfigTypeOK)'
    <3> DEFINE t == configTask[q]  p == t.project  row == projectHeld[q]
    <3>1. /\ t \in ConfigTasks /\ p \in OrgProjects /\ row \in ProjectRow
          /\ projectRow[p] \in ProjectRow
      BY <1>11 DEF SaveProject, ConfigInv, ProjectConfigTypeOK
    <3>2. t.is \in SettingTasks => t.option \in Options
      BY <3>1 DEF ConfigTasks, SettingTasks
    <3>3. Written(t, row.config) \in Config
      <4>1. row.config \in Config
        BY <3>1, RowFields
      <4>2. /\ t.is \in SettingTasks => [row.config EXCEPT !.option = t.option] \in Config
            /\ [row.config EXCEPT !.principal = TRUE] \in Config
        BY <3>2, <4>1 DEF Config
      <4> QED BY <4>1, <4>2 DEF Written, SettingTasks
    <3>4. [config |-> Written(t, row.config),
           token |-> IF WritesToken(t) THEN row.token ELSE projectRow[p].token] \in ProjectRow
      BY <3>1, <3>3, RowFields DEF ProjectRow
    <3>5. projectRow' \in [OrgProjects -> ProjectRow]
      BY <1>11, <3>1, <3>4 DEF SaveProject, ConfigInv, ProjectConfigTypeOK
    <3>6. asked' \in [OrgProjects -> Options \cup {NoOption}] /\ given' \in [OrgProjects -> Tokens]
      BY <1>11, <3>1, <3>2, RowFields DEF SaveProject, ConfigInv, ProjectConfigTypeOK, SettingTasks
    <3> QED BY <1>11, <3>1, <3>5, <3>6, ConfigAtRest
            DEF SaveProject, ConfigGoTo, HoldRow, ConfigInv, ProjectConfigTypeOK, ConfigPlaces
  <2>2. (\A o \in ConfigRequests : ConfigTaskFits(o))'
    BY <1>11, ProjectConfigAssumption
    DEF SaveProject, ConfigGoTo, HoldRow, Filling, Written, WritesToken, EmptyConfig, NewRow,
        ConfigInv, ProjectConfigTypeOK, ConfigTaskFits, SettingTasks
  <2>3. (OneAtATime)'
    BY <1>11, ProjectConfigAssumption
    DEF SaveProject, ConfigGoTo, HoldRow, Filling, Written, WritesToken, EmptyConfig, NewRow,
        ConfigInv, ProjectConfigTypeOK, OneAtATime, Changes, MeetsChange, ConfigTaskFits, SettingTasks
  <2>4. (\A o \in ConfigRequests : HeldIsRow(o))'
    <3>1. SUFFICES ASSUME ~mixed', NEW o \in ConfigRequests PROVE HeldIsRow(o)'
      BY DEF HeldIsRow
    <3>2. ~mixed /\ ~Filling(configTask[q].project)
      BY <1>11, <3>1 DEF SaveProject
    <3>3. Changes(q) /\ configTask[q].is \in SettingTasks \cup {"promote", "call"}
      BY <1>11 DEF SaveProject, Changes, ConfigInv, ConfigTaskFits, SettingTasks
    <3>4. /\ configTask' = configTask /\ configAt' = [configAt EXCEPT ![q] = "forget"]
          /\ \A r \in OrgProjects \ {configTask[q].project} : projectRow'[r] = projectRow[r]
          /\ \A u \in ConfigRequests \ {q} : projectHeld'[u] = projectHeld[u]
      BY <1>11 DEF SaveProject, ConfigGoTo, HoldRow, ConfigInv, ProjectConfigTypeOK
    <3>5. CASE o = q
      <4>1. configTask[q].is = "call" =>
              /\ projectHeld'[q] = projectHeld[q]
              /\ projectRow'[configTask[q].project].config = projectHeld[q].config
        BY <1>11 DEF SaveProject, HoldRow, Written, ConfigInv, ProjectConfigTypeOK
      <4> QED BY <3>4, <3>5, <4>1 DEF HeldIsRow, ConfigInv, ProjectConfigTypeOK
    <3>6. CASE o # q /\ configAt[o] # "idle" /\ configTask[o].project = configTask[q].project
      <4>1. configTask[o].is = "read" \/ configAt[o] = "idle"
        BY <3>2, <3>3, <3>6 DEF ConfigInv, OneAtATime, MeetsChange, Changes
      <4>2. configAt[o] # "fill"
        BY <3>2, <3>6 DEF Filling
      <4> QED BY <3>4, <3>6, <4>1, <4>2 DEF HeldIsRow, ConfigInv, ConfigTaskFits, SettingTasks
    <3>7. CASE o # q /\ configAt[o] # "idle" /\ configTask[o].project # configTask[q].project
      <4>1. configTask[o].project \in OrgProjects
        BY <3>7 DEF ConfigInv, ProjectConfigTypeOK
      <4> QED BY <3>2, <3>4, <3>7, <4>1 DEF HeldIsRow, ConfigInv
    <3> QED BY <3>4, <3>5, <3>6, <3>7 DEF HeldIsRow
  <2>5. (PromotionGoesOn)'
    BY <1>11, ProjectConfigAssumption
    DEF SaveProject, ConfigGoTo, HoldRow, Filling, Written, WritesToken, EmptyConfig, NewRow,
        ConfigInv, ProjectConfigTypeOK, PromotionGoesOn, OneAtATime, Changes, MeetsChange,
        ConfigTaskFits, SettingTasks, ProjectRow, Config
  <2>6. ((\A o \in ConfigRequests : RenewsToken(o)) /\ OldTokensAreRenewed)'
    BY <1>11, ProjectConfigAssumption
    DEF SaveProject, ConfigGoTo, HoldRow, Filling, Written, WritesToken, EmptyConfig, NewRow,
        ConfigInv, ProjectConfigTypeOK, RenewsToken, OldTokensAreRenewed, ProjectConfigHolds,
        ConfigTaskFits, SettingTasks, ProjectRow
  <2>7. (ConfigKeysAreCurrent)'
    BY <1>11, ProjectConfigAssumption
    DEF SaveProject, ConfigGoTo, HoldRow, Filling, Written, WritesToken, EmptyConfig, NewRow,
        ConfigInv, ProjectConfigTypeOK, ConfigKeysAreCurrent, ProjectConfigHolds, ForgetsConfig,
        HeldIsRow, ProjectRow
  <2>8. (OptionsAreKept /\ OnePrincipal)'
    BY <1>11, ProjectConfigAssumption
    DEF SaveProject, ConfigGoTo, HoldRow, Filling, Written, WritesToken, EmptyConfig, NewRow,
        ConfigInv, ProjectConfigTypeOK, OptionsAreKept, OnePrincipal, ProjectConfigHolds,
        Promoting, PromotionGoesOn, OneAtATime, Changes, MeetsChange, HeldIsRow, ConfigTaskFits, SettingTasks,
        ProjectRow, Config
  <2> QED BY <2>1, <2>2, <2>3, <2>4, <2>5, <2>6, <2>7, <2>8
          DEF ConfigInv, ProjectConfigHolds
<1>12. ASSUME NEW q \in ConfigRequests, ForgetConfig(q)
      PROVE  ConfigInv'
  <2>1. (ProjectConfigTypeOK)'
    <3>1. configKey' \in [OrgProjects -> Config \cup {NoConfig}] /\ wiped' \subseteq OrgProjects
      BY <1>12 DEF ForgetConfig, ConfigInv, ProjectConfigTypeOK
    <3>2. CASE ConfigDone(q)
      BY <1>12, <3>1, <3>2, DoneType DEF ForgetConfig, ConfigInv, ProjectConfigTypeOK
    <3>3. CASE ~ConfigDone(q)
      BY <1>12, <3>1, <3>3
      DEF ForgetConfig, AfterSave, ConfigGoTo, ConfigInv, ProjectConfigTypeOK, ConfigPlaces
    <3> QED BY <3>2, <3>3
  <2>2. (\A o \in ConfigRequests : ConfigTaskFits(o))'
    BY <1>12, ProjectConfigAssumption
    DEF ForgetConfig, ConfigGoTo, HoldRow, ConfigDone, AfterSave, EmptyConfig, NewRow,
        NoConfigTask, ConfigInv, ProjectConfigTypeOK, ConfigTaskFits, SettingTasks
  <2>3. (OneAtATime)'
    BY <1>12, ProjectConfigAssumption
    DEF ForgetConfig, ConfigGoTo, HoldRow, ConfigDone, AfterSave, EmptyConfig, NewRow,
        NoConfigTask, ConfigInv, ProjectConfigTypeOK, OneAtATime, Changes, MeetsChange, ConfigTaskFits,
        SettingTasks
  <2>4. (\A o \in ConfigRequests : HeldIsRow(o))'
    BY <1>12, ProjectConfigAssumption
    DEF ForgetConfig, ConfigGoTo, HoldRow, ConfigDone, AfterSave, EmptyConfig, NewRow,
        NoConfigTask, ConfigInv, ProjectConfigTypeOK, HeldIsRow, OneAtATime, Changes, MeetsChange,
        Filling, ConfigTaskFits, SettingTasks, ProjectRow
  <2>5. (PromotionGoesOn)'
    BY <1>12, ProjectConfigAssumption
    DEF ForgetConfig, ConfigGoTo, HoldRow, ConfigDone, AfterSave, EmptyConfig, NewRow,
        NoConfigTask, ConfigInv, ProjectConfigTypeOK, PromotionGoesOn, OneAtATime, Changes,
        MeetsChange, ConfigTaskFits, SettingTasks, ProjectRow, Config
  <2>6. ((\A o \in ConfigRequests : RenewsToken(o)) /\ OldTokensAreRenewed)'
    BY <1>12, ProjectConfigAssumption
    DEF ForgetConfig, ConfigGoTo, HoldRow, ConfigDone, AfterSave, EmptyConfig, NewRow,
        NoConfigTask, ConfigInv, ProjectConfigTypeOK, RenewsToken, OldTokensAreRenewed,
        ProjectConfigHolds, ConfigTaskFits, SettingTasks, ProjectRow
  <2>7. (ConfigKeysAreCurrent)'
    BY <1>12, ProjectConfigAssumption
    DEF ForgetConfig, ConfigGoTo, HoldRow, ConfigDone, AfterSave, EmptyConfig, NewRow,
        NoConfigTask, ConfigInv, ProjectConfigTypeOK, ConfigKeysAreCurrent, ProjectConfigHolds,
        ForgetsConfig, HeldIsRow, Filling, ProjectRow
  <2>8. (OptionsAreKept /\ OnePrincipal)'
    BY <1>12, ProjectConfigAssumption
    DEF ForgetConfig, ConfigGoTo, HoldRow, ConfigDone, AfterSave, EmptyConfig, NewRow,
        NoConfigTask, ConfigInv, ProjectConfigTypeOK, OptionsAreKept, OnePrincipal,
        ProjectConfigHolds, Promoting, PromotionGoesOn, OneAtATime, Changes, MeetsChange,
        HeldIsRow, ConfigTaskFits, SettingTasks, ProjectRow, Config
  <2> QED BY <2>1, <2>2, <2>3, <2>4, <2>5, <2>6, <2>7, <2>8
          DEF ConfigInv, ProjectConfigHolds
<1>13. ASSUME NEW q \in ConfigRequests, DemoteOthers(q)
      PROVE  ConfigInv'
  <2>1. (ProjectConfigTypeOK)'
    <3>1. \A p \in OrgProjects : [projectRow[p] EXCEPT !.config = EmptyConfig] \in ProjectRow
      BY ConfigAtRest DEF ConfigInv, ProjectConfigTypeOK, ProjectRow
    <3>2. projectRow' \in [OrgProjects -> ProjectRow]
      BY <1>13, <3>1 DEF DemoteOthers, ConfigInv, ProjectConfigTypeOK
    <3> QED BY <1>13, <3>2, DoneType DEF DemoteOthers, ConfigInv, ProjectConfigTypeOK
  <2>2. (\A o \in ConfigRequests : ConfigTaskFits(o))'
    BY <1>13, ProjectConfigAssumption
    DEF DemoteOthers, ConfigGoTo, HoldRow, ConfigDone, Filling, EmptyConfig, NewRow, NoConfigTask,
        ConfigInv, ProjectConfigTypeOK, ConfigTaskFits, SettingTasks
  <2>3. (OneAtATime)'
    BY <1>13, ProjectConfigAssumption
    DEF DemoteOthers, ConfigGoTo, HoldRow, ConfigDone, Filling, EmptyConfig, NewRow, NoConfigTask,
        ConfigInv, ProjectConfigTypeOK, OneAtATime, Changes, MeetsChange, ConfigTaskFits, SettingTasks
  <2>4. (\A o \in ConfigRequests : HeldIsRow(o))'
    <3>1. SUFFICES ASSUME ~mixed', NEW o \in ConfigRequests PROVE HeldIsRow(o)'
      BY DEF HeldIsRow
    <3>2. ~mixed /\ \A p \in OrgProjects \ {configTask[q].project} : ~Filling(p)
      BY <1>13, <3>1 DEF DemoteOthers
    <3>3. Changes(q) /\ configTask[q].is = "promote"
      BY <1>13 DEF DemoteOthers, Changes, ConfigInv, ConfigTaskFits
    <3>4. CASE o # q
      <4>1. configTask[o].is = "read" \/ configAt[o] = "idle"
        BY <3>2, <3>3, <3>4 DEF ConfigInv, OneAtATime, MeetsChange, Changes
      <4>2. configTask'[o] = configTask[o] /\ configAt'[o] = configAt[o] /\ projectHeld'[o] = projectHeld[o]
        BY <1>13, <3>4
        DEF DemoteOthers, ConfigDone, ConfigGoTo, HoldRow, ConfigInv, ProjectConfigTypeOK
      <4>3. configAt[o] = "fill" =>
              /\ configTask[o].project = configTask[q].project /\ configTask[o].project \in OrgProjects
              /\ projectRow'[configTask[o].project] = projectRow[configTask[o].project]
        BY <1>13, <3>2, <3>4 DEF DemoteOthers, Filling, ConfigInv, ProjectConfigTypeOK
      <4> QED BY <3>2, <4>1, <4>2, <4>3 DEF HeldIsRow, ConfigInv, ConfigTaskFits, SettingTasks
    <3>5. CASE o = q
      BY <1>13, <3>5 DEF DemoteOthers, ConfigDone, ConfigGoTo, HeldIsRow, ConfigInv, ProjectConfigTypeOK
    <3> QED BY <3>4, <3>5
  <2>5. (PromotionGoesOn)'
    BY <1>13, ProjectConfigAssumption
    DEF DemoteOthers, ConfigGoTo, HoldRow, ConfigDone, Filling, EmptyConfig, NewRow, NoConfigTask,
        ConfigInv, ProjectConfigTypeOK, PromotionGoesOn, OneAtATime, Changes, MeetsChange,
        ConfigTaskFits, SettingTasks, ProjectRow, Config
  <2>6. ((\A o \in ConfigRequests : RenewsToken(o)) /\ OldTokensAreRenewed)'
    BY <1>13, ProjectConfigAssumption
    DEF DemoteOthers, ConfigGoTo, HoldRow, ConfigDone, Filling, EmptyConfig, NewRow, NoConfigTask,
        ConfigInv, ProjectConfigTypeOK, RenewsToken, OldTokensAreRenewed, ProjectConfigHolds,
        ConfigTaskFits, SettingTasks, ProjectRow
  <2>7. (ConfigKeysAreCurrent)'
    BY <1>13, ProjectConfigAssumption
    DEF DemoteOthers, ConfigGoTo, HoldRow, ConfigDone, Filling, EmptyConfig, NewRow, NoConfigTask,
        ConfigInv, ProjectConfigTypeOK, ConfigKeysAreCurrent, ProjectConfigHolds, ForgetsConfig,
        HeldIsRow, ProjectRow
  <2>8. (OptionsAreKept /\ OnePrincipal)'
    BY <1>13, ProjectConfigAssumption
    DEF DemoteOthers, ConfigGoTo, HoldRow, ConfigDone, Filling, EmptyConfig, NewRow, NoConfigTask,
        ConfigInv, ProjectConfigTypeOK, OptionsAreKept, OnePrincipal, ProjectConfigHolds,
        Promoting, PromotionGoesOn, OneAtATime, Changes, MeetsChange, HeldIsRow, ConfigTaskFits, SettingTasks,
        ProjectRow, Config
  <2> QED BY <2>1, <2>2, <2>3, <2>4, <2>5, <2>6, <2>7, <2>8
          DEF ConfigInv, ProjectConfigHolds
<1>14. ASSUME NEW q \in ConfigRequests, AnsweredCall(q)
      PROVE  ConfigInv'
  <2>1. (ProjectConfigTypeOK)'
    BY <1>14, ProjectConfigAssumption
    DEF AnsweredCall, ConfigGoTo, HoldRow, ConfigDone, EmptyConfig, NewRow, NoConfigTask,
        ConfigInv, ProjectConfigTypeOK, ConfigTaskFits, ConfigTasks, ConfigPlaces, ProjectRow, Config,
        Tokens
  <2>2. (\A o \in ConfigRequests : ConfigTaskFits(o))'
    BY <1>14, ProjectConfigAssumption
    DEF AnsweredCall, ConfigGoTo, HoldRow, ConfigDone, EmptyConfig, NewRow, NoConfigTask,
        ConfigInv, ProjectConfigTypeOK, ConfigTaskFits, SettingTasks
  <2>3. (OneAtATime)'
    BY <1>14, ProjectConfigAssumption
    DEF AnsweredCall, ConfigGoTo, HoldRow, ConfigDone, EmptyConfig, NewRow, NoConfigTask,
        ConfigInv, ProjectConfigTypeOK, OneAtATime, Changes, MeetsChange, ConfigTaskFits, SettingTasks
  <2>4. (\A o \in ConfigRequests : HeldIsRow(o))'
    BY <1>14, ProjectConfigAssumption
    DEF AnsweredCall, ConfigGoTo, HoldRow, ConfigDone, EmptyConfig, NewRow, NoConfigTask,
        ConfigInv, ProjectConfigTypeOK, HeldIsRow, OneAtATime, Changes, MeetsChange, Filling,
        ConfigTaskFits, SettingTasks, ProjectRow
  <2>5. (PromotionGoesOn)'
    BY <1>14, ProjectConfigAssumption
    DEF AnsweredCall, ConfigGoTo, HoldRow, ConfigDone, EmptyConfig, NewRow, NoConfigTask,
        ConfigInv, ProjectConfigTypeOK, PromotionGoesOn, OneAtATime, Changes, MeetsChange,
        ConfigTaskFits, SettingTasks, ProjectRow, Config
  <2>6. ((\A o \in ConfigRequests : RenewsToken(o)) /\ OldTokensAreRenewed)'
    BY <1>14, ProjectConfigAssumption
    DEF AnsweredCall, ConfigGoTo, HoldRow, ConfigDone, EmptyConfig, NewRow, NoConfigTask,
        ConfigInv, ProjectConfigTypeOK, RenewsToken, OldTokensAreRenewed, ProjectConfigHolds,
        ConfigTaskFits, SettingTasks, ProjectRow
  <2>7. (ConfigKeysAreCurrent)'
    BY <1>14, ProjectConfigAssumption
    DEF AnsweredCall, ConfigGoTo, HoldRow, ConfigDone, EmptyConfig, NewRow, NoConfigTask,
        ConfigInv, ProjectConfigTypeOK, ConfigKeysAreCurrent, ProjectConfigHolds, ForgetsConfig,
        HeldIsRow, Filling, ProjectRow
  <2>8. (OptionsAreKept /\ OnePrincipal)'
    BY <1>14, ProjectConfigAssumption
    DEF AnsweredCall, ConfigGoTo, HoldRow, ConfigDone, EmptyConfig, NewRow, NoConfigTask,
        ConfigInv, ProjectConfigTypeOK, OptionsAreKept, OnePrincipal, ProjectConfigHolds,
        Promoting, PromotionGoesOn, OneAtATime, Changes, MeetsChange, HeldIsRow, ConfigTaskFits, SettingTasks,
        ProjectRow, Config
  <2> QED BY <2>1, <2>2, <2>3, <2>4, <2>5, <2>6, <2>7, <2>8
          DEF ConfigInv, ProjectConfigHolds
<1>15. ASSUME NEW q \in ConfigRequests, RefusedCall(q)
      PROVE  ConfigInv'
  <2>1. (ProjectConfigTypeOK)'
    BY <1>15, ProjectConfigAssumption
    DEF RefusedCall, ConfigGoTo, configHistory, ConfigInv, ProjectConfigTypeOK, ConfigTaskFits,
        ConfigTasks, ConfigPlaces, ProjectRow, Config, Tokens
  <2>2. (\A o \in ConfigRequests : ConfigTaskFits(o))'
    BY <1>15, ProjectConfigAssumption
    DEF RefusedCall, ConfigGoTo, configHistory, ConfigInv, ProjectConfigTypeOK, ConfigTaskFits, SettingTasks
  <2>3. (OneAtATime)'
    BY <1>15, ProjectConfigAssumption
    DEF RefusedCall, ConfigGoTo, configHistory, ConfigInv, ProjectConfigTypeOK, OneAtATime,
        Changes, MeetsChange, ConfigTaskFits, SettingTasks
  <2>4. (\A o \in ConfigRequests : HeldIsRow(o))'
    BY <1>15, ProjectConfigAssumption
    DEF RefusedCall, ConfigGoTo, configHistory, ConfigInv, ProjectConfigTypeOK, HeldIsRow,
        OneAtATime, Changes, MeetsChange, Filling, ConfigTaskFits, SettingTasks, ProjectRow
  <2>5. (PromotionGoesOn)'
    BY <1>15, ProjectConfigAssumption
    DEF RefusedCall, ConfigGoTo, configHistory, ConfigInv, ProjectConfigTypeOK, PromotionGoesOn,
        OneAtATime, Changes, MeetsChange, ConfigTaskFits, SettingTasks, ProjectRow, Config
  <2>6. ((\A o \in ConfigRequests : RenewsToken(o)) /\ OldTokensAreRenewed)'
    BY <1>15, ProjectConfigAssumption
    DEF RefusedCall, ConfigGoTo, configHistory, ConfigInv, ProjectConfigTypeOK, RenewsToken,
        OldTokensAreRenewed, ProjectConfigHolds, ConfigTaskFits, SettingTasks, ProjectRow
  <2>7. (ConfigKeysAreCurrent)'
    BY <1>15, ProjectConfigAssumption
    DEF RefusedCall, ConfigGoTo, configHistory, ConfigInv, ProjectConfigTypeOK,
        ConfigKeysAreCurrent, ProjectConfigHolds, ForgetsConfig, HeldIsRow, Filling, ProjectRow
  <2>8. (OptionsAreKept /\ OnePrincipal)'
    BY <1>15, ProjectConfigAssumption
    DEF RefusedCall, ConfigGoTo, configHistory, ConfigInv, ProjectConfigTypeOK, OptionsAreKept,
        OnePrincipal, ProjectConfigHolds, Promoting, PromotionGoesOn, OneAtATime, Changes,
        MeetsChange, HeldIsRow, ConfigTaskFits, SettingTasks, ProjectRow, Config
  <2> QED BY <2>1, <2>2, <2>3, <2>4, <2>5, <2>6, <2>7, <2>8
          DEF ConfigInv, ProjectConfigHolds
<1>16. ASSUME NEW q \in ConfigRequests, GetToken(q)
      PROVE  ConfigInv'
  <2>1. (ProjectConfigTypeOK)'
    <3>1. [projectHeld[q] EXCEPT !.token = "valid"] \in ProjectRow
      BY DEF ConfigInv, ProjectConfigTypeOK, ProjectRow, Tokens
    <3> QED BY <1>16, <3>1
            DEF GetToken, ConfigGoTo, HoldRow, configHistory, ConfigInv, ProjectConfigTypeOK, ConfigPlaces
  <2>2. (\A o \in ConfigRequests : ConfigTaskFits(o))'
    BY <1>16, ProjectConfigAssumption
    DEF GetToken, ConfigGoTo, HoldRow, configHistory, ConfigInv, ProjectConfigTypeOK, ConfigTaskFits,
        SettingTasks
  <2>3. (OneAtATime)'
    BY <1>16, ProjectConfigAssumption
    DEF GetToken, ConfigGoTo, HoldRow, configHistory, ConfigInv, ProjectConfigTypeOK, OneAtATime,
        Changes, MeetsChange, ConfigTaskFits, SettingTasks
  <2>4. (\A o \in ConfigRequests : HeldIsRow(o))'
    BY <1>16, ProjectConfigAssumption
    DEF GetToken, ConfigGoTo, HoldRow, configHistory, ConfigInv, ProjectConfigTypeOK, HeldIsRow,
        OneAtATime, Changes, MeetsChange, Filling, ConfigTaskFits, SettingTasks, ProjectRow
  <2>5. (PromotionGoesOn)'
    BY <1>16, ProjectConfigAssumption
    DEF GetToken, ConfigGoTo, HoldRow, configHistory, ConfigInv, ProjectConfigTypeOK,
        PromotionGoesOn, OneAtATime, Changes, MeetsChange, ConfigTaskFits, SettingTasks, ProjectRow, Config
  <2>6. ((\A o \in ConfigRequests : RenewsToken(o)) /\ OldTokensAreRenewed)'
    BY <1>16, ProjectConfigAssumption
    DEF GetToken, ConfigGoTo, HoldRow, configHistory, ConfigInv, ProjectConfigTypeOK, RenewsToken,
        OldTokensAreRenewed, ProjectConfigHolds, ConfigTaskFits, SettingTasks, ProjectRow
  <2>7. (ConfigKeysAreCurrent)'
    BY <1>16, ProjectConfigAssumption
    DEF GetToken, ConfigGoTo, HoldRow, configHistory, ConfigInv, ProjectConfigTypeOK,
        ConfigKeysAreCurrent, ProjectConfigHolds, ForgetsConfig, HeldIsRow, Filling, ProjectRow
  <2>8. (OptionsAreKept /\ OnePrincipal)'
    BY <1>16, ProjectConfigAssumption
    DEF GetToken, ConfigGoTo, HoldRow, configHistory, ConfigInv, ProjectConfigTypeOK,
        OptionsAreKept, OnePrincipal, ProjectConfigHolds, Promoting, PromotionGoesOn, OneAtATime,
        Changes, MeetsChange, HeldIsRow, ConfigTaskFits, SettingTasks, ProjectRow, Config
  <2> QED BY <2>1, <2>2, <2>3, <2>4, <2>5, <2>6, <2>7, <2>8
          DEF ConfigInv, ProjectConfigHolds
<1>17. ASSUME NEW q \in ConfigRequests, GetNoToken(q)
      PROVE  ConfigInv'
  <2>1. (ProjectConfigTypeOK)'
    <3>1. [projectHeld[q] EXCEPT !.token = "none"] \in ProjectRow
      BY DEF ConfigInv, ProjectConfigTypeOK, ProjectRow, Tokens
    <3> QED BY <1>17, <3>1
            DEF GetNoToken, ConfigGoTo, HoldRow, ConfigInv, ProjectConfigTypeOK, ConfigPlaces
  <2>2. (\A o \in ConfigRequests : ConfigTaskFits(o))'
    BY <1>17, ProjectConfigAssumption
    DEF GetNoToken, ConfigGoTo, HoldRow, ConfigInv, ProjectConfigTypeOK, ConfigTaskFits, SettingTasks
  <2>3. (OneAtATime)'
    BY <1>17, ProjectConfigAssumption
    DEF GetNoToken, ConfigGoTo, HoldRow, ConfigInv, ProjectConfigTypeOK, OneAtATime, Changes,
        MeetsChange, ConfigTaskFits, SettingTasks
  <2>4. (\A o \in ConfigRequests : HeldIsRow(o))'
    BY <1>17, ProjectConfigAssumption
    DEF GetNoToken, ConfigGoTo, HoldRow, ConfigInv, ProjectConfigTypeOK, HeldIsRow, OneAtATime,
        Changes, MeetsChange, Filling, ConfigTaskFits, SettingTasks, ProjectRow
  <2>5. (PromotionGoesOn)'
    BY <1>17, ProjectConfigAssumption
    DEF GetNoToken, ConfigGoTo, HoldRow, ConfigInv, ProjectConfigTypeOK, PromotionGoesOn,
        OneAtATime, Changes, MeetsChange, ConfigTaskFits, SettingTasks, ProjectRow, Config
  <2>6. ((\A o \in ConfigRequests : RenewsToken(o)) /\ OldTokensAreRenewed)'
    BY <1>17, ProjectConfigAssumption
    DEF GetNoToken, ConfigGoTo, HoldRow, ConfigInv, ProjectConfigTypeOK, RenewsToken,
        OldTokensAreRenewed, ProjectConfigHolds, ConfigTaskFits, SettingTasks, ProjectRow
  <2>7. (ConfigKeysAreCurrent)'
    BY <1>17, ProjectConfigAssumption
    DEF GetNoToken, ConfigGoTo, HoldRow, ConfigInv, ProjectConfigTypeOK, ConfigKeysAreCurrent,
        ProjectConfigHolds, ForgetsConfig, HeldIsRow, Filling, ProjectRow
  <2>8. (OptionsAreKept /\ OnePrincipal)'
    BY <1>17, ProjectConfigAssumption
    DEF GetNoToken, ConfigGoTo, HoldRow, ConfigInv, ProjectConfigTypeOK, OptionsAreKept,
        OnePrincipal, ProjectConfigHolds, Promoting, PromotionGoesOn, OneAtATime, Changes,
        MeetsChange, HeldIsRow, ConfigTaskFits, SettingTasks, ProjectRow, Config
  <2> QED BY <2>1, <2>2, <2>3, <2>4, <2>5, <2>6, <2>7, <2>8
          DEF ConfigInv, ProjectConfigHolds
<1>18. ASSUME NEW q \in ConfigRequests, AskNobody(q)
      PROVE  ConfigInv'
  <2>1. (ProjectConfigTypeOK)'
    BY <1>18, ProjectConfigAssumption
    DEF AskNobody, ConfigGoTo, HoldRow, ConfigInv, ProjectConfigTypeOK, ConfigTaskFits, ConfigTasks,
        ConfigPlaces, ProjectRow, Config, Tokens
  <2>2. (\A o \in ConfigRequests : ConfigTaskFits(o))'
    BY <1>18, ProjectConfigAssumption
    DEF AskNobody, ConfigGoTo, HoldRow, ConfigInv, ProjectConfigTypeOK, ConfigTaskFits, SettingTasks
  <2>3. (OneAtATime)'
    BY <1>18, ProjectConfigAssumption
    DEF AskNobody, ConfigGoTo, HoldRow, ConfigInv, ProjectConfigTypeOK, OneAtATime, Changes,
        MeetsChange, ConfigTaskFits, SettingTasks
  <2>4. (\A o \in ConfigRequests : HeldIsRow(o))'
    BY <1>18, ProjectConfigAssumption
    DEF AskNobody, ConfigGoTo, HoldRow, ConfigInv, ProjectConfigTypeOK, HeldIsRow, OneAtATime,
        Changes, MeetsChange, Filling, ConfigTaskFits, SettingTasks, ProjectRow
  <2>5. (PromotionGoesOn)'
    BY <1>18, ProjectConfigAssumption
    DEF AskNobody, ConfigGoTo, HoldRow, ConfigInv, ProjectConfigTypeOK, PromotionGoesOn,
        OneAtATime, Changes, MeetsChange, ConfigTaskFits, SettingTasks, ProjectRow, Config
  <2>6. ((\A o \in ConfigRequests : RenewsToken(o)) /\ OldTokensAreRenewed)'
    BY <1>18, ProjectConfigAssumption
    DEF AskNobody, ConfigGoTo, HoldRow, ConfigInv, ProjectConfigTypeOK, RenewsToken,
        OldTokensAreRenewed, ProjectConfigHolds, ConfigTaskFits, SettingTasks, ProjectRow
  <2>7. (ConfigKeysAreCurrent)'
    BY <1>18, ProjectConfigAssumption
    DEF AskNobody, ConfigGoTo, HoldRow, ConfigInv, ProjectConfigTypeOK, ConfigKeysAreCurrent,
        ProjectConfigHolds, ForgetsConfig, HeldIsRow, Filling, ProjectRow
  <2>8. (OptionsAreKept /\ OnePrincipal)'
    BY <1>18, ProjectConfigAssumption
    DEF AskNobody, ConfigGoTo, HoldRow, ConfigInv, ProjectConfigTypeOK, OptionsAreKept,
        OnePrincipal, ProjectConfigHolds, Promoting, PromotionGoesOn, OneAtATime, Changes,
        MeetsChange, HeldIsRow, ConfigTaskFits, SettingTasks, ProjectRow, Config
  <2> QED BY <2>1, <2>2, <2>3, <2>4, <2>5, <2>6, <2>7, <2>8
          DEF ConfigInv, ProjectConfigHolds
<1>19. ASSUME NEW q \in ConfigRequests, FailCall(q)
      PROVE  ConfigInv'
  <2>1. (ProjectConfigTypeOK)'
    BY <1>19, ProjectConfigAssumption
    DEF FailCall, ConfigGoTo, HoldRow, ConfigDone, EmptyConfig, NewRow, NoConfigTask, ConfigInv,
        ProjectConfigTypeOK, ConfigTaskFits, ConfigTasks, ConfigPlaces, ProjectRow, Config, Tokens
  <2>2. (\A o \in ConfigRequests : ConfigTaskFits(o))'
    BY <1>19, ProjectConfigAssumption
    DEF FailCall, ConfigGoTo, HoldRow, ConfigDone, EmptyConfig, NewRow, NoConfigTask, ConfigInv,
        ProjectConfigTypeOK, ConfigTaskFits, SettingTasks
  <2>3. (OneAtATime)'
    BY <1>19, ProjectConfigAssumption
    DEF FailCall, ConfigGoTo, HoldRow, ConfigDone, EmptyConfig, NewRow, NoConfigTask, ConfigInv,
        ProjectConfigTypeOK, OneAtATime, Changes, MeetsChange, ConfigTaskFits, SettingTasks
  <2>4. (\A o \in ConfigRequests : HeldIsRow(o))'
    BY <1>19, ProjectConfigAssumption
    DEF FailCall, ConfigGoTo, HoldRow, ConfigDone, EmptyConfig, NewRow, NoConfigTask, ConfigInv,
        ProjectConfigTypeOK, HeldIsRow, OneAtATime, Changes, MeetsChange, Filling, ConfigTaskFits, SettingTasks,
        ProjectRow
  <2>5. (PromotionGoesOn)'
    BY <1>19, ProjectConfigAssumption
    DEF FailCall, ConfigGoTo, HoldRow, ConfigDone, EmptyConfig, NewRow, NoConfigTask, ConfigInv,
        ProjectConfigTypeOK, PromotionGoesOn, OneAtATime, Changes, MeetsChange, ConfigTaskFits, SettingTasks,
        ProjectRow, Config
  <2>6. ((\A o \in ConfigRequests : RenewsToken(o)) /\ OldTokensAreRenewed)'
    BY <1>19, ProjectConfigAssumption
    DEF FailCall, ConfigGoTo, HoldRow, ConfigDone, EmptyConfig, NewRow, NoConfigTask, ConfigInv,
        ProjectConfigTypeOK, RenewsToken, OldTokensAreRenewed, ProjectConfigHolds, ConfigTaskFits, SettingTasks,
        ProjectRow
  <2>7. (ConfigKeysAreCurrent)'
    BY <1>19, ProjectConfigAssumption
    DEF FailCall, ConfigGoTo, HoldRow, ConfigDone, EmptyConfig, NewRow, NoConfigTask, ConfigInv,
        ProjectConfigTypeOK, ConfigKeysAreCurrent, ProjectConfigHolds, ForgetsConfig, HeldIsRow,
        Filling, ProjectRow
  <2>8. (OptionsAreKept /\ OnePrincipal)'
    BY <1>19, ProjectConfigAssumption
    DEF FailCall, ConfigGoTo, HoldRow, ConfigDone, EmptyConfig, NewRow, NoConfigTask, ConfigInv,
        ProjectConfigTypeOK, OptionsAreKept, OnePrincipal, ProjectConfigHolds, Promoting,
        PromotionGoesOn, OneAtATime, Changes, MeetsChange, HeldIsRow, ConfigTaskFits, SettingTasks, ProjectRow,
        Config
  <2> QED BY <2>1, <2>2, <2>3, <2>4, <2>5, <2>6, <2>7, <2>8
          DEF ConfigInv, ProjectConfigHolds
<1>20. ASSUME NEW p \in OrgProjects, RevokeToken(p)
      PROVE  ConfigInv'
  <2>1. (ProjectConfigTypeOK)'
    <3>1. projectRow' \in [OrgProjects -> ProjectRow] /\ projectHeld' \in [ConfigRequests -> ProjectRow]
      BY <1>20, RowFields DEF RevokeToken, ConfigInv, ProjectConfigTypeOK
    <3> QED BY <1>20, <3>1 DEF RevokeToken, ConfigInv, ProjectConfigTypeOK, Tokens
  <2>2. (\A o \in ConfigRequests : ConfigTaskFits(o))'
    BY <1>20, ProjectConfigAssumption
    DEF RevokeToken, Revoked, ConfigInv, ProjectConfigTypeOK, ConfigTaskFits, SettingTasks
  <2>3. (OneAtATime)'
    BY <1>20, ProjectConfigAssumption
    DEF RevokeToken, Revoked, ConfigInv, ProjectConfigTypeOK, OneAtATime, Changes, MeetsChange,
        ConfigTaskFits, SettingTasks
  <2>4. (\A o \in ConfigRequests : HeldIsRow(o))'
    BY <1>20, ProjectConfigAssumption
    DEF RevokeToken, Revoked, ConfigInv, ProjectConfigTypeOK, HeldIsRow, OneAtATime, Changes,
        MeetsChange, Filling, ConfigTaskFits, SettingTasks, ProjectRow
  <2>5. (PromotionGoesOn)'
    BY <1>20, ProjectConfigAssumption
    DEF RevokeToken, Revoked, ConfigInv, ProjectConfigTypeOK, PromotionGoesOn, OneAtATime, Changes,
        MeetsChange, ConfigTaskFits, SettingTasks, ProjectRow, Config
  <2>6. ((\A o \in ConfigRequests : RenewsToken(o)) /\ OldTokensAreRenewed)'
    BY <1>20, ProjectConfigAssumption
    DEF RevokeToken, Revoked, ConfigInv, ProjectConfigTypeOK, RenewsToken, OldTokensAreRenewed,
        ProjectConfigHolds, ConfigTaskFits, SettingTasks, ProjectRow
  <2>7. (ConfigKeysAreCurrent)'
    BY <1>20, ProjectConfigAssumption
    DEF RevokeToken, Revoked, ConfigInv, ProjectConfigTypeOK, ConfigKeysAreCurrent,
        ProjectConfigHolds, ForgetsConfig, HeldIsRow, Filling, ProjectRow
  <2>8. (OptionsAreKept /\ OnePrincipal)'
    BY <1>20, ProjectConfigAssumption
    DEF RevokeToken, Revoked, ConfigInv, ProjectConfigTypeOK, OptionsAreKept, OnePrincipal,
        ProjectConfigHolds, Promoting, PromotionGoesOn, OneAtATime, Changes, MeetsChange,
        HeldIsRow, ConfigTaskFits, SettingTasks, ProjectRow, Config
  <2> QED BY <2>1, <2>2, <2>3, <2>4, <2>5, <2>6, <2>7, <2>8
          DEF ConfigInv, ProjectConfigHolds
<1>21. ASSUME NEW p \in OrgProjects, ExpireConfig(p)
      PROVE  ConfigInv'
  <2>1. (ProjectConfigTypeOK)'
    BY <1>21, ProjectConfigAssumption
    DEF ExpireConfig, configRequestVars, ConfigInv, ProjectConfigTypeOK, ConfigTaskFits, ConfigTasks,
        ConfigPlaces, ProjectRow, Config, Tokens
  <2>2. (\A o \in ConfigRequests : ConfigTaskFits(o))'
    BY <1>21, ProjectConfigAssumption
    DEF ExpireConfig, configRequestVars, ConfigInv, ProjectConfigTypeOK, ConfigTaskFits, SettingTasks
  <2>3. (OneAtATime)'
    BY <1>21, ProjectConfigAssumption
    DEF ExpireConfig, configRequestVars, ConfigInv, ProjectConfigTypeOK, OneAtATime, Changes,
        MeetsChange, ConfigTaskFits, SettingTasks
  <2>4. (\A o \in ConfigRequests : HeldIsRow(o))'
    BY <1>21, ProjectConfigAssumption
    DEF ExpireConfig, configRequestVars, ConfigInv, ProjectConfigTypeOK, HeldIsRow, OneAtATime,
        Changes, MeetsChange, Filling, ConfigTaskFits, SettingTasks, ProjectRow
  <2>5. (PromotionGoesOn)'
    BY <1>21, ProjectConfigAssumption
    DEF ExpireConfig, configRequestVars, ConfigInv, ProjectConfigTypeOK, PromotionGoesOn,
        OneAtATime, Changes, MeetsChange, ConfigTaskFits, SettingTasks, ProjectRow, Config
  <2>6. ((\A o \in ConfigRequests : RenewsToken(o)) /\ OldTokensAreRenewed)'
    BY <1>21, ProjectConfigAssumption
    DEF ExpireConfig, configRequestVars, ConfigInv, ProjectConfigTypeOK, RenewsToken,
        OldTokensAreRenewed, ProjectConfigHolds, ConfigTaskFits, SettingTasks, ProjectRow
  <2>7. (ConfigKeysAreCurrent)'
    BY <1>21, ProjectConfigAssumption
    DEF ExpireConfig, configRequestVars, ConfigInv, ProjectConfigTypeOK, ConfigKeysAreCurrent,
        ProjectConfigHolds, ForgetsConfig, HeldIsRow, Filling, ProjectRow
  <2>8. (OptionsAreKept /\ OnePrincipal)'
    BY <1>21, ProjectConfigAssumption
    DEF ExpireConfig, configRequestVars, ConfigInv, ProjectConfigTypeOK, OptionsAreKept,
        OnePrincipal, ProjectConfigHolds, Promoting, PromotionGoesOn, OneAtATime, Changes,
        MeetsChange, HeldIsRow, ConfigTaskFits, SettingTasks, ProjectRow, Config
  <2> QED BY <2>1, <2>2, <2>3, <2>4, <2>5, <2>6, <2>7, <2>8
          DEF ConfigInv, ProjectConfigHolds
<1>22. CASE UNCHANGED configVars
  BY <1>22
  DEF configVars, ConfigInv, ProjectConfigTypeOK, ConfigTaskFits, HeldIsRow, RenewsToken, OneAtATime,
      PromotionGoesOn, ProjectConfigHolds, ConfigKeysAreCurrent, OptionsAreKept, OnePrincipal,
      OldTokensAreRenewed, Changes, MeetsChange, ForgetsConfig, Promoting
<1> QED BY <1>1, <1>2, <1>3, <1>4, <1>5, <1>6, <1>7, <1>8, <1>9, <1>10, <1>11, <1>12, <1>13, <1>14,
           <1>15, <1>16, <1>17, <1>18, <1>19, <1>20, <1>21, <1>22
        DEF ProjectConfigNext, ConfigStep

LEMMA ConfigInvBegins == ProjectConfigInit => ConfigInv
<1> SUFFICES ASSUME ProjectConfigInit PROVE ConfigInv
  OBVIOUS
<1>1. ProjectConfigTypeOK
  <2>1. MaxChanges \in 0..MaxChanges /\ 0 \in 0..FlowsRetries
    BY ProjectConfigAssumption
  <2> QED BY <2>1, ConfigAtRest DEF ProjectConfigInit, ProjectConfigTypeOK, ConfigPlaces, Tokens
<1>2. \A q \in ConfigRequests : ConfigTaskFits(q) /\ HeldIsRow(q) /\ RenewsToken(q)
  BY DEF ProjectConfigInit, ConfigTaskFits, HeldIsRow, RenewsToken
<1>3. OneAtATime /\ PromotionGoesOn
  BY DEF ProjectConfigInit, OneAtATime, PromotionGoesOn, Changes
<1>4. ConfigKeysAreCurrent /\ OldTokensAreRenewed
  BY DEF ProjectConfigInit, ConfigKeysAreCurrent, OldTokensAreRenewed
<1>5. OptionsAreKept /\ OnePrincipal
  BY ProjectConfigAssumption
  DEF ProjectConfigInit, OptionsAreKept, OnePrincipal, NewRow, EmptyConfig
<1> QED BY <1>1, <1>2, <1>3, <1>4, <1>5 DEF ConfigInv, ProjectConfigHolds

(***************************************************************************)
(* For any requests, projects and number of retries: the key of a project  *)
(* says what its row says, no option and no token is lost, there is one    *)
(* principal project, unless requests met; and a request the flows refuse  *)
(* in the end had its new token revoked, or was given none (Project,       *)
(* set_project_as_principal, retry_request_and_refresh_flows_auth_token).  *)
(***************************************************************************)
THEOREM ConfigsAreKept == ProjectConfigSpec => [](ProjectConfigTypeOK /\ ProjectConfigHolds)
<1>1. ConfigInv => ProjectConfigTypeOK /\ ProjectConfigHolds
  BY DEF ConfigInv
<1> QED BY <1>1, ConfigInvBegins, ConfigInvStep, PTL DEF ProjectConfigSpec

-----------------------------------------------------------------------------
(***************************************************************************)
(* The requests together.                                                  *)
(***************************************************************************)
LEMMA RequestsStepIsComponents ==
  ASSUME [RequestsNext]_<<component, allRequestVars>>
  PROVE  /\ [BulkRoomsNext]_bulkRoomVars /\ [HoursNext]_hoursVars /\ [PinsNext]_pinVars
         /\ [DiscussionsNext]_discussionVars /\ [TopicNext]_topicVars /\ [SettingsNext]_settingVars
         /\ [UserCacheNext]_userCacheVars /\ [ProjectConfigNext]_configVars
<1>1. CASE UNCHANGED <<component, allRequestVars>>
  BY <1>1 DEF allRequestVars
<1>2. CASE RequestsNext
  BY <1>2 DEF RequestsNext
<1> QED BY <1>1, <1>2

\* A behaviour of one of the kinds of requests is one of every kind.
LEMMA RequestsAreComponents ==
  RequestsSpec => /\ BulkRoomsSpec /\ HoursSpec /\ PinsSpec /\ DiscussionsSpec
                  /\ TopicSpec /\ SettingsSpec /\ UserCacheSpec /\ ProjectConfigSpec
<1>1. RequestsInit => /\ BulkRoomsInit /\ HoursInit /\ PinsInit /\ DiscussionsInit
                      /\ TopicInit /\ SettingsInit /\ UserCacheInit /\ ProjectConfigInit
  BY Zenon DEF RequestsInit
<1> QED BY <1>1, RequestsStepIsComponents, PTL
        DEF RequestsSpec, BulkRoomsSpec, HoursSpec, PinsSpec, DiscussionsSpec, TopicSpec,
            SettingsSpec, UserCacheSpec, ProjectConfigSpec

(***************************************************************************)
(* The state of every kind of request keeps its types.                     *)
(***************************************************************************)
THEOREM RequestsTypeCorrect == RequestsSpec => []RequestsTypeOK
BY RequestsAreComponents, BulkRoomsType, HoursType, PinsType, DiscussionsType, TopicsType, SettingsType,
   UsersAreKept, ConfigsAreKept, PTL
DEF RequestsTypeOK

(***************************************************************************)
(* What overlapping requests may not break holds for any number of them,   *)
(* of rooms, queues, users, projects and faults.                           *)
(***************************************************************************)
THEOREM RequestsKeepPromises == RequestsSpec => []RequestsHold
BY RequestsAreComponents, BulkRoomsAreTrue, HoursAreRight, TopicsAgree,
   UsersAreKept, ConfigsAreKept, PTL DEF RequestsHold

(***************************************************************************)
(* In the run that puts requests together, pins follow the agent of their  *)
(* room, a discussion keeps its limit, and the settings of a sector stay   *)
(* valid and keep what was asked of them.                                  *)
(***************************************************************************)
THEOREM RowsStayConsistent == RequestsSpec => []PinsHold /\ []TalkHolds /\ []SettingsHold
BY RequestsAreComponents, PinsAreKept, TalkIsKept, SettingsAreTrue, PTL
=============================================================================
