--------------------------- MODULE MCRoomAssignment ---------------------------
(***************************************************************************)
(* Values for the constants of RoomAssignment.                             *)
(***************************************************************************)
EXTENDS RoomAssignment, TLC

CONSTANTS q1, q2, kQueue, kSector

\* The queue's key covers the queue, the sector's key every queue.
KeysCover == [k \in Keys |-> IF k = kSector THEN Queues ELSE {q1}]

OneRoomEach == [a \in Agents |-> 1]

\* What a constant is given is computed once if it names what is defined, and at every use
\* of the constant if it is the definition itself.
GivenCovers == KeysCover
GivenLimit == OneRoomEach

\* Agents leave, or take a break, one after the other; nobody is available when all have
\* reached their limits, too.
OneAwayAtMost == Cardinality(Agents \ ready) <= 1

Alike == Permutations(Agents) \cup Permutations(Rooms) \cup Permutations(Handlers)
=============================================================================
