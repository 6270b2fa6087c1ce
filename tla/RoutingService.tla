---------------------------- MODULE RoutingService ----------------------------
(***************************************************************************)
(* What the routing tasks promise to the code that calls                   *)
(* start_queue_priority_routing: a pass over a queue begins when no other  *)
(* is running, unless one has outlived the cooldown lock, and every        *)
(* request is followed by a pass that reads the waiting rooms after it was *)
(* made, however many requests it answers, until a worker is killed.       *)
(***************************************************************************)
CONSTANT Workers    \* those who run passes

VARIABLES
    owed,      \* is there a request no pass has answered yet?
    running,   \* the workers in a pass
    overdue,   \* has a pass outlived the lock since nobody was in one?
    killed     \* has a worker been killed?

vars == <<owed, running, overdue, killed>>

Init == owed = FALSE /\ running = {} /\ overdue = FALSE /\ killed = FALSE

Request == owed' = TRUE /\ UNCHANGED <<running, overdue, killed>>

Begin(w) ==
    /\ running = {} \/ overdue
    /\ w \notin running
    /\ running' = running \cup {w}
    /\ UNCHANGED <<owed, overdue, killed>>

Read == running # {} /\ owed' = FALSE /\ UNCHANGED <<running, overdue, killed>>

\* What is overdue is forgiven when the last pass is over.
Leave(w) ==
    /\ running' = running \ {w}
    /\ overdue' = (overdue /\ running' # {})

End(w) == w \in running /\ Leave(w) /\ UNCHANGED <<owed, killed>>

Overrun == running # {} /\ overdue' = TRUE /\ UNCHANGED <<owed, running, killed>>

\* A killed pass may leave rooms that wait for the next.
Kill(w) == Leave(w) /\ owed' \in {owed, TRUE} /\ killed' = TRUE

Next ==
    \/ Request \/ Read \/ Overrun
    \/ \E w \in Workers : Begin(w) \/ End(w) \/ Kill(w)

Answer == Read \/ \E w \in Workers : Begin(w)

Spec ==
    /\ Init /\ [][Next]_vars
    /\ WF_vars(owed /\ ~killed /\ Answer)
    /\ \A w \in Workers : WF_vars(End(w))
=============================================================================
