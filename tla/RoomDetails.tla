----------------------------- MODULE RoomDetails -----------------------------
(***************************************************************************)
(* What agents put on a room: tags of its sector, internal notes and their *)
(* files.  Each request reads the room, decides, and writes later; a       *)
(* transfer takes the room, and perhaps its sector, away in between, and a *)
(* close writes back what it read (api/v1/rooms/viewsets.py,               *)
(* api/v1/rooms/serializers.py, rooms/models.py).                          *)
(*                                                                         *)
(* A close is one step here once it is decided, and so is each save: what  *)
(* comes between the check of Room.save and its UPDATE is RoomAssignment's.*)
(***************************************************************************)
EXTENDS Naturals, FiniteSets

CONSTANTS
    RoomTags,
    RoomSectors,
    SectorOf,       \* of each tag
    TagsRequiredIn, \* sectors whose rooms are not closed without a tag
    NoteUsers,
    Unassigned,
    Notes,
    MediaLimit,     \* 10 in the code
    DetailRequests

ASSUME RoomDetailsAssumption ==
    /\ SectorOf \in [RoomTags -> RoomSectors]
    /\ Unassigned \notin NoteUsers
    /\ MediaLimit \in Nat \ {0}
    /\ IsFiniteSet(DetailRequests)

VARIABLES
    tagged,    \* the room
    roomTags,
    notes,
    detail,    \* where each request is, and what it holds
    behind,    \* history: requests since whose reading the room or its tags were changed
    strayed,   \* history: one of them wrote
    settled,   \* history: notes that were there when the room was transferred
    overtaken, \* history: those of them whose deletion had been decided by then
    broken     \* history: notes whose creation or deletion ended half-way

detailVars == <<tagged, roomTags, notes, detail, behind, strayed, settled, overtaken, broken>>
crossings == <<behind, strayed>>
noteHistory == <<settled, overtaken, broken>>

\* ended: who closed it last, with tags that were asked for or not.
Tagged ==
    [active: BOOLEAN, user: NoteUsers \cup {Unassigned}, sector: RoomSectors, asked: BOOLEAN]

\* message: the blank one that carries the note.
Note == [is: {"none", "live", "gone"}, deletable: BOOLEAN, message: BOOLEAN, medias: Nat]
NoNote == [is |-> "none", deletable |-> TRUE, message |-> FALSE, medias |-> 0]

TagRequests == {"add", "remove"}
NoteRequests == {"note", "delete", "upload"}

\* A request of none of these is told apart by its place alone.
Detail ==
    [is: {"none"}]
    \cup [is: TagRequests, tag: RoomTags]
    \cup [is: {"close"}, room: Tagged, keeps: BOOLEAN, tags: SUBSET RoomTags]
    \cup [is: {"transfer"}, room: Tagged, from: RoomSectors, saved: BOOLEAN,
          cleared: SUBSET RoomTags]
    \cup [is: NoteRequests, at: {"check", "write", "message"}, note: Notes]

NoDetail == [is |-> "none"]

RoomDetailsTypeOK ==
    /\ tagged \in Tagged
    /\ roomTags \subseteq RoomTags
    /\ notes \in [Notes -> Note]
    /\ detail \in [DetailRequests -> Detail]
    /\ behind \subseteq DetailRequests
    /\ strayed \in BOOLEAN
    /\ settled \subseteq Notes /\ overtaken \subseteq Notes /\ broken \subseteq Notes

RoomDetailsInit ==
    /\ tagged \in [active: {TRUE}, user: NoteUsers \cup {Unassigned}, sector: RoomSectors,
                   asked: {FALSE}]
    /\ roomTags = {}
    /\ notes = [n \in Notes |-> NoNote]
    /\ detail = [p \in DetailRequests |-> NoDetail]
    /\ behind = {} /\ strayed = FALSE
    /\ settled = {} /\ overtaken = {} /\ broken = {}

-----------------------------------------------------------------------------
Asks(p, ask) == detail' = [detail EXCEPT ![p] = ask]
Ends(p) == Asks(p, NoDetail)
Under(p, kind) == detail[p].is = kind
OnNote(p, kind, place) == Under(p, kind) /\ detail[p].at = place
OfRoom == {"add", "remove", "close", "transfer"}

\* p writes the room or its tags: it is known of everyone who has read them.
Overwrites(p) ==
    /\ behind' = (behind \cup {o \in DetailRequests : detail[o].is \in OfRoom}) \ {p}
    /\ strayed' = (strayed \/ p \in behind)

\* A transfer holds the room's row from its first save to its commit.
RoomFree == \A o \in DetailRequests : Under(o, "transfer") => ~detail[o].saved

TagsIn(sector) == {t \in RoomTags : SectorOf[t] = sector}

-----------------------------------------------------------------------------
\* AddRoomTagSerializer and RemoveRoomTagSerializer.

\* Mutant: the tag is looked for among those of the project.
AnyTag(t) == TRUE
IsOfSector(t) == t \in TagsIn(tagged.sector)

BeginTag(p, kind, t) ==
    /\ Under(p, "none")
    /\ tagged.active /\ tagged.user # Unassigned
    /\ IsOfSector(t)
    /\ (t \in roomTags) <=> (kind = "remove")
    /\ Asks(p, [is |-> kind, tag |-> t])
    /\ UNCHANGED <<tagged, roomTags, notes, crossings, noteHistory>>

WriteTag(p) ==
    /\ detail[p].is \in TagRequests
    /\ roomTags' = IF Under(p, "add") THEN roomTags \cup {detail[p].tag}
                   ELSE roomTags \ {detail[p].tag}
    /\ Ends(p) /\ Overwrites(p)
    /\ UNCHANGED <<tagged, notes, noteHistory>>

-----------------------------------------------------------------------------
\* close of the viewset, with tags or leaving those of the room (None).

\* Mutant: only the tags of the request count.
AnyTags(keeps, tags) == keeps \/ tags # {}
HasTags(keeps, tags) == IF keeps THEN roomTags # {} ELSE tags # {}

BeginClose(p, keeps, tags) ==
    /\ Under(p, "none") /\ tagged.active
    /\ keeps => tags = {}
    /\ tags \subseteq TagsIn(tagged.sector)
    /\ tagged.sector \in TagsRequiredIn => HasTags(keeps, tags)
    /\ Asks(p, [is |-> "close", room |-> [tagged EXCEPT !.asked = TRUE], keeps |-> keeps,
                tags |-> tags])
    /\ UNCHANGED <<tagged, roomTags, notes, crossings, noteHistory>>

\* The others ask for no tag: Flows leave the tags, inactivity and the contact's next room
\* take them off.
BeginOtherClose(p, keeps) ==
    /\ Under(p, "none") /\ tagged.active
    /\ Asks(p, [is |-> "close", room |-> tagged, keeps |-> keeps, tags |-> {}])
    /\ UNCHANGED <<tagged, roomTags, notes, crossings, noteHistory>>

\* The whole row as it was read; what was read of the tags is in none of its columns.
CloseTagged(p) ==
    /\ Under(p, "close") /\ tagged.active /\ RoomFree
    /\ tagged' = [detail[p].room EXCEPT !.active = FALSE]
    /\ roomTags' = IF detail[p].keeps THEN roomTags ELSE detail[p].tags
    /\ Ends(p) /\ Overwrites(p)
    /\ UNCHANGED <<notes, noteHistory>>

\* Closed rooms receive no update: the tags are rolled back with the save.
RefuseUpdate(p) ==
    /\ \/ Under(p, "close")
       \/ Under(p, "transfer") /\ ~detail[p].saved
    /\ ~tagged.active /\ RoomFree
    /\ Ends(p) /\ behind' = behind \ {p}
    /\ UNCHANGED <<tagged, roomTags, notes, strayed, noteHistory>>

-----------------------------------------------------------------------------
\* perform_update, in a transaction.

\* room: as it will be, from the copy that was read; from: the sector of that copy.
BeginTransfer(p, u, s) ==
    /\ Under(p, "none") /\ tagged.active
    /\ Asks(p, [is |-> "transfer", room |-> [tagged EXCEPT !.user = u, !.sector = s],
                from |-> tagged.sector, saved |-> FALSE, cleared |-> {}])
    /\ UNCHANGED <<tagged, roomTags, notes, crossings, noteHistory>>

\* Mutant: the tags go with the room to its new sector.
NoneToClear(p) == {}
ToClear(p) == IF detail[p].room.sector # detail[p].from THEN roomTags ELSE {}

SaveTransfer(p) ==
    /\ Under(p, "transfer") /\ ~detail[p].saved
    /\ tagged.active /\ RoomFree
    /\ Asks(p, [detail[p] EXCEPT !.saved = TRUE, !.cleared = ToClear(p)])
    /\ UNCHANGED <<tagged, roomTags, notes, crossings, noteHistory>>

\* Flows do not change the ticketer of the room: everything is rolled back.
RollBackTransfer(p) ==
    /\ Under(p, "transfer") /\ detail[p].saved
    /\ Ends(p) /\ behind' = behind \ {p}
    /\ UNCHANGED <<tagged, roomTags, notes, strayed, noteHistory>>

Live == {n \in Notes : notes[n].is = "live"}

\* Mutant: the notes are left as they are.
LeftAlone(n) == notes[n]
Marked(n) == IF n \in Live THEN [notes[n] EXCEPT !.deletable = FALSE] ELSE notes[n]

CommitTransfer(p) ==
    /\ Under(p, "transfer") /\ detail[p].saved
    /\ tagged' = detail[p].room
    /\ roomTags' = roomTags \ detail[p].cleared
    /\ notes' = [n \in Notes |-> Marked(n)]
    /\ settled' = settled \cup Live
    /\ overtaken' = overtaken \cup {n \in Live : \E o \in DetailRequests :
                                        OnNote(o, "delete", "write") /\ detail[o].note = n}
    /\ Ends(p) /\ Overwrites(p)
    /\ UNCHANGED broken

-----------------------------------------------------------------------------
\* create_note: a blank message, then the note that it carries.
BeginNote(p, n) ==
    /\ Under(p, "none") /\ tagged.active
    /\ notes[n] = NoNote
    /\ notes' = [notes EXCEPT ![n].message = TRUE]
    /\ Asks(p, [is |-> "note", at |-> "write", note |-> n])
    /\ UNCHANGED <<tagged, roomTags, crossings, noteHistory>>

WriteNote(p) ==
    /\ OnNote(p, "note", "write")
    /\ notes' = [notes EXCEPT ![detail[p].note].is = "live"]
    /\ Ends(p)
    /\ UNCHANGED <<tagged, roomTags, crossings, noteHistory>>

\* The process ends between two writes of a note and its message.
BreakOff(p) ==
    /\ OnNote(p, "note", "write") \/ OnNote(p, "delete", "message")
    /\ broken' = broken \cup {detail[p].note}
    /\ Ends(p)
    /\ UNCHANGED <<tagged, roomTags, notes, crossings, settled, overtaken>>

\* destroy of RoomNoteViewSet, by the author.

\* Mutant: notes are deleted whatever became of the room.
AnyNote(n) == notes[n].is = "live"
MayDelete(n) == notes[n].is = "live" /\ notes[n].deletable

BeginDelete(p, n) ==
    /\ Under(p, "none") /\ tagged.active /\ MayDelete(n)
    /\ Asks(p, [is |-> "delete", at |-> "write", note |-> n])
    /\ UNCHANGED <<tagged, roomTags, notes, crossings, noteHistory>>

\* Its files go with it.  Nothing is left to delete for the second of two requests, which goes on.
DeleteNote(p) ==
    LET n == detail[p].note IN
    /\ OnNote(p, "delete", "write")
    /\ notes' = [notes EXCEPT ![n].is = "gone", ![n].medias = 0]
    /\ Asks(p, [detail[p] EXCEPT !.at = "message"])
    /\ UNCHANGED <<tagged, roomTags, crossings, noteHistory>>

\* Mutant: the message stays.
MessageKept(n) == notes[n].message
MessageLeft(n) == FALSE

DeleteMessage(p) ==
    LET n == detail[p].note IN
    /\ OnNote(p, "delete", "message")
    /\ notes' = [notes EXCEPT ![n].message = MessageLeft(n)]
    /\ Ends(p)
    /\ UNCHANGED <<tagged, roomTags, crossings, noteHistory>>

-----------------------------------------------------------------------------
\* RoomNoteMediaSerializer, then RoomNoteMedia.save, each counting the files of the note.

Accepts(n) == notes[n].medias < MediaLimit

BeginUpload(p, n) ==
    /\ Under(p, "none") /\ tagged.user # Unassigned
    /\ notes[n].is = "live" /\ Accepts(n)
    /\ Asks(p, [is |-> "upload", at |-> "check", note |-> n])
    /\ UNCHANGED <<tagged, roomTags, notes, crossings, noteHistory>>

\* Audio is converted in between.
CheckUpload(p) ==
    /\ OnNote(p, "upload", "check")
    /\ IF tagged.active /\ Accepts(detail[p].note)
       THEN Asks(p, [detail[p] EXCEPT !.at = "write"])
       ELSE Ends(p)
    /\ UNCHANGED <<tagged, roomTags, notes, crossings, noteHistory>>

\* Of a note that is gone the database refuses it.
InsertMedia(p) ==
    LET n == detail[p].note IN
    /\ OnNote(p, "upload", "write")
    /\ notes' = IF n \in Live THEN [notes EXCEPT ![n].medias = @ + 1] ELSE notes
    /\ Ends(p)
    /\ UNCHANGED <<tagged, roomTags, crossings, noteHistory>>

-----------------------------------------------------------------------------
DetailStep(p) ==
    \/ \E t \in RoomTags, kind \in TagRequests : BeginTag(p, kind, t)
    \/ WriteTag(p)
    \/ \E keeps \in BOOLEAN, tags \in SUBSET RoomTags : BeginClose(p, keeps, tags)
    \/ \E keeps \in BOOLEAN : BeginOtherClose(p, keeps)
    \/ CloseTagged(p) \/ RefuseUpdate(p)
    \/ \E u \in NoteUsers \cup {Unassigned}, s \in RoomSectors : BeginTransfer(p, u, s)
    \/ SaveTransfer(p) \/ RollBackTransfer(p) \/ CommitTransfer(p)
    \/ \E n \in Notes : BeginNote(p, n) \/ BeginDelete(p, n) \/ BeginUpload(p, n)
    \/ WriteNote(p) \/ BreakOff(p) \/ DeleteNote(p) \/ DeleteMessage(p)
    \/ CheckUpload(p) \/ InsertMedia(p)

\* Nothing is asked of a closed room any more.
LeaveClosed ==
    /\ ~tagged.active /\ \A p \in DetailRequests : Under(p, "none")
    /\ UNCHANGED detailVars

RoomDetailsNext == LeaveClosed \/ \E p \in DetailRequests : DetailStep(p)

RoomDetailsSpec == RoomDetailsInit /\ [][RoomDetailsNext]_detailVars

-----------------------------------------------------------------------------
(***************************************************************************)
(* A room has a tag of another sector only if a request wrote to it that   *)
(* had read it before another one did: tags are looked for in the sector   *)
(* of the room, and cleared when it leaves it (Room.save).                 *)
(***************************************************************************)
TagsOfItsSector == strayed \/ roomTags \subseteq TagsIn(tagged.sector)

(***************************************************************************)
(* Unless such a request wrote, a room that an agent closed where tags are *)
(* required has one (close of RoomViewset).                                *)
(***************************************************************************)
ClosedWithTags ==
    strayed \/ (~tagged.active /\ tagged.asked /\ tagged.sector \in TagsRequiredIn
                   => roomTags # {})

(***************************************************************************)
(* What was noted before a transfer stays: such a note is deletable no     *)
(* more, and is gone only if its deletion had been decided before          *)
(* (mark_notes_as_non_deletable).                                          *)
(***************************************************************************)
NotesOutliveTransfers ==
    \A n \in settled : /\ notes[n].is # "live" \/ ~notes[n].deletable
                       /\ notes[n].is # "gone" \/ n \in overtaken

(***************************************************************************)
(* A note has its blank message to the end, and the message is left alone  *)
(* only by a request that is under way or that broke off half-way          *)
(* (create_note, RoomNote.delete).                                         *)
(***************************************************************************)
Writes(n) == \E p \in DetailRequests : /\ \/ OnNote(p, "note", "write")
                                          \/ OnNote(p, "delete", "message")
                                       /\ detail[p].note = n

NotesHaveTheirMessage ==
    \A n \in Notes :
        IF n \in Live
        THEN notes[n].message
        ELSE notes[n].message => n \in broken \/ Writes(n)

(***************************************************************************)
(* Uploads that count the files of a note at once pass its limit by one    *)
(* less than their number, and by no more (RoomNoteMedia.save).            *)
(***************************************************************************)
MediasFit == \A n \in Notes : notes[n].medias < MediaLimit + Cardinality(DetailRequests)

DetailsHold ==
    /\ TagsOfItsSector /\ ClosedWithTags
    /\ NotesOutliveTransfers /\ NotesHaveTheirMessage
    /\ MediasFit
=============================================================================
