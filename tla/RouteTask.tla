------------------------------ MODULE RouteTask ------------------------------
(***************************************************************************)
(* The Celery tasks route_queue_rooms and route_sector_rooms               *)
(* (chats/apps/queues/tasks.py), seen through the one lock key they share: *)
(* both have the same control, on a key per queue or per sector.  A        *)
(* routing request is a message in the broker; a worker that finds the     *)
(* cooldown lock taken drops its request, and leaves at most one message   *)
(* with a countdown behind it, announced by the "pending" key.             *)
(*                                                                         *)
(* What a pass does with rooms and agents is in RoomAssignment; here a     *)
(* pass is the moment it reads the waiting rooms (Snapshot), after which   *)
(* whatever is requested needs another pass.                               *)
(***************************************************************************)
EXTENDS Naturals

CONSTANTS
    Workers,       \* Celery worker processes
    Slots,         \* identities for messages with a countdown
    NoSlot,        \* stands for "no such message"
    MaxRequests,   \* bound on the calls of start_queue_priority_routing
    MaxCrashes     \* bound on the workers killed in the middle of a task

ASSUME ConstantsAssumption ==
    /\ NoSlot \notin Slots
    /\ MaxRequests \in Nat
    /\ MaxCrashes \in Nat

VARIABLES
    lock,      \* does the cooldown key exist?  (its value names no owner)
    pending,   \* NoSlot, or the message the pending key was set for
    queued,    \* messages without a countdown
    deferred,  \* messages with a countdown
    pc,        \* where each worker is in the task
    slot,      \* the message a worker is about to publish
    unserved,  \* has a request been made since the last snapshot?
    requests,  \* calls of start_queue_priority_routing so far
    crashes,   \* workers killed so far
    overran    \* history: a pass has outlived the lock since nobody was in one

vars == <<lock, pending, queued, deferred, pc, slot, unserved, requests, crashes, overran>>

Locations == {"idle", "acquire", "skipped", "publish", "read", "assign"}

\* Between a successful cache.add(lock_key) and cache.delete(lock_key).
Inside == {w \in Workers : pc[w] \in {"read", "assign"}}

TypeOK ==
    /\ lock \in BOOLEAN
    /\ pending \in Slots \cup {NoSlot}
    /\ queued \in Nat
    /\ deferred \subseteq Slots
    /\ pc \in [Workers -> Locations]
    /\ slot \in [Workers -> Slots \cup {NoSlot}]
    /\ \A w \in Workers : pc[w] = "publish" <=> slot[w] \in Slots
    /\ unserved \in BOOLEAN
    /\ requests \in 0..MaxRequests
    /\ crashes \in 0..MaxCrashes
    /\ overran \in BOOLEAN

Init ==
    /\ lock = FALSE
    /\ pending = NoSlot
    /\ queued = 0
    /\ deferred = {}
    /\ pc = [w \in Workers |-> "idle"]
    /\ slot = [w \in Workers |-> NoSlot]
    /\ unserved = FALSE
    /\ requests = 0
    /\ crashes = 0
    /\ overran = FALSE

(***************************************************************************)
(* start_queue_priority_routing publishes a message and returns.           *)
(***************************************************************************)
Request ==
    /\ requests < MaxRequests
    /\ requests' = requests + 1
    /\ queued' = queued + 1
    /\ unserved' = TRUE
    /\ UNCHANGED <<lock, pending, deferred, pc, slot, crashes, overran>>

Receive(w) ==
    /\ pc[w] = "idle"
    /\ queued > 0
    /\ queued' = queued - 1
    /\ pc' = [pc EXCEPT ![w] = "acquire"]
    /\ UNCHANGED <<lock, pending, deferred, slot, unserved, requests, crashes, overran>>

\* Mutant: the countdown is shorter than the life of the pending key.
ReceiveEarly(w, s) ==
    /\ pc[w] = "idle"
    /\ s \in deferred
    /\ deferred' = deferred \ {s}
    /\ pc' = [pc EXCEPT ![w] = "acquire"]
    /\ UNCHANGED <<lock, pending, queued, slot, unserved, requests, crashes, overran>>

(***************************************************************************)
(* A message is published after its pending key was set, and its countdown *)
(* is the time to live of that key (ROUTE_QUEUE_COOLDOWN_RETRY_DELAY), so  *)
(* the key is gone when the message is due.                                *)
(***************************************************************************)
ReceiveDeferred(w, s) ==
    /\ pc[w] = "idle"
    /\ s \in deferred
    /\ pending # s
    /\ deferred' = deferred \ {s}
    /\ pc' = [pc EXCEPT ![w] = "acquire"]
    /\ UNCHANGED <<lock, pending, queued, slot, unserved, requests, crashes, overran>>

\* Mutant: cache.set instead of cache.add.
AcquireAnyway(w) ==
    /\ pc[w] = "acquire"
    /\ lock' = TRUE
    /\ pc' = [pc EXCEPT ![w] = "read"]
    /\ UNCHANGED <<pending, queued, deferred, slot, unserved, requests, crashes, overran>>

\* cache.add(lock_key): atomic, succeeds only when the key is absent.
Acquire(w) ==
    /\ pc[w] = "acquire"
    /\ ~lock
    /\ lock' = TRUE
    /\ pc' = [pc EXCEPT ![w] = "read"]
    /\ UNCHANGED <<pending, queued, deferred, slot, unserved, requests, crashes, overran>>

\* Mutant: a request that meets the cooldown is dropped.
SkipForGood(w) ==
    /\ pc[w] = "acquire"
    /\ lock
    /\ pc' = [pc EXCEPT ![w] = "idle"]
    /\ UNCHANGED <<lock, pending, queued, deferred, slot, unserved, requests, crashes, overran>>

Skip(w) ==
    /\ pc[w] = "acquire"
    /\ lock
    /\ pc' = [pc EXCEPT ![w] = "skipped"]
    /\ UNCHANGED <<lock, pending, queued, deferred, slot, unserved, requests, crashes, overran>>

\* cache.add(pending_key) succeeds: this worker owes the broker a message.
Announce(w) ==
    /\ pc[w] = "skipped"
    /\ pending = NoSlot
    /\ \E s \in Slots \ deferred :
          /\ \A v \in Workers : slot[v] # s
          /\ pending' = s
          /\ slot' = [slot EXCEPT ![w] = s]
    /\ pc' = [pc EXCEPT ![w] = "publish"]
    /\ UNCHANGED <<lock, queued, deferred, unserved, requests, crashes, overran>>

AlreadyPending(w) ==
    /\ pc[w] = "skipped"
    /\ pending # NoSlot
    /\ pc' = [pc EXCEPT ![w] = "idle"]
    /\ UNCHANGED <<lock, pending, queued, deferred, slot, unserved, requests, crashes, overran>>

\* Mutant: the worker keeps the message it has published.
PublishAndKeep(w) ==
    /\ pc[w] = "publish"
    /\ deferred' = deferred \cup {slot[w]}
    /\ pc' = [pc EXCEPT ![w] = "idle"]
    /\ UNCHANGED <<lock, pending, queued, slot, unserved, requests, crashes, overran>>

\* Mutant: the pending key is set but nothing is sent.
PublishNothing(w) ==
    /\ pc[w] = "publish"
    /\ slot' = [slot EXCEPT ![w] = NoSlot]
    /\ pc' = [pc EXCEPT ![w] = "idle"]
    /\ UNCHANGED <<lock, pending, queued, deferred, unserved, requests, crashes, overran>>

Publish(w) ==
    /\ pc[w] = "publish"
    /\ deferred' = deferred \cup {slot[w]}
    /\ slot' = [slot EXCEPT ![w] = NoSlot]
    /\ pc' = [pc EXCEPT ![w] = "idle"]
    /\ UNCHANGED <<lock, pending, queued, unserved, requests, crashes, overran>>

\* route_rooms evaluates the queryset of waiting rooms.
Snapshot(w) ==
    /\ pc[w] = "read"
    /\ unserved' = FALSE
    /\ pc' = [pc EXCEPT ![w] = "assign"]
    /\ UNCHANGED <<lock, pending, queued, deferred, slot, requests, crashes, overran>>

\* The finally clause: the key is deleted, whoever set it.
Release(w) ==
    /\ pc[w] = "assign"
    /\ lock' = FALSE
    /\ pc' = [pc EXCEPT ![w] = "idle"]
    /\ overran' = (overran /\ Inside' # {})
    /\ UNCHANGED <<pending, queued, deferred, slot, unserved, requests, crashes>>

\* Mutant: the pending key is set without a timeout.
NeverExpirePending == FALSE /\ UNCHANGED vars

(***************************************************************************)
(* Redis lets the keys expire, the lock even under a pass that takes       *)
(* longer than ROUTE_QUEUE_COOLDOWN_MAX_TIME.                              *)
(***************************************************************************)
ExpireLock ==
    /\ lock
    /\ lock' = FALSE
    /\ overran' = (overran \/ Inside # {})
    /\ UNCHANGED <<pending, queued, deferred, pc, slot, unserved, requests, crashes>>

ExpirePending ==
    /\ pending # NoSlot
    /\ pending' = NoSlot
    /\ UNCHANGED <<lock, queued, deferred, pc, slot, unserved, requests, crashes, overran>>

(***************************************************************************)
(* A killed worker loses its message: Celery acknowledges before running   *)
(* the task.  A pass cut short leaves its rooms waiting.                   *)
(***************************************************************************)
Crash(w) ==
    /\ crashes < MaxCrashes
    /\ pc[w] # "idle"
    /\ crashes' = crashes + 1
    /\ pc' = [pc EXCEPT ![w] = "idle"]
    /\ slot' = [slot EXCEPT ![w] = NoSlot]
    /\ unserved' = (unserved \/ pc[w] = "assign")
    /\ overran' = (overran /\ Inside' # {})
    /\ UNCHANGED <<lock, pending, queued, deferred, requests>>

Step(w) ==
    \/ Acquire(w) \/ Skip(w) \/ Announce(w) \/ AlreadyPending(w)
    \/ Publish(w) \/ Snapshot(w) \/ Release(w)

Deliver(w) == Receive(w) \/ \E s \in Slots : ReceiveDeferred(w, s)

Next ==
    \/ Request
    \/ \E w \in Workers : Deliver(w) \/ Step(w) \/ Crash(w)
    \/ ExpireLock
    \/ ExpirePending

Spec == Init /\ [][Next]_vars

(***************************************************************************)
(* The broker delivers, a worker that runs a task goes on with it, and     *)
(* time passes.  Nobody has to make requests, and nobody has to crash.     *)
(***************************************************************************)
Fairness ==
    /\ WF_vars(\E w \in Workers : Receive(w))
    /\ WF_vars(\E w \in Workers, s \in Slots : ReceiveDeferred(w, s))
    /\ \A w \in Workers : WF_vars(Step(w))
    /\ WF_vars(ExpireLock)
    /\ WF_vars(ExpirePending)

FairSpec == Spec /\ Fairness

-----------------------------------------------------------------------------
(***************************************************************************)
(* The cooldown lock keeps two passes over the same queue from overlapping *)
(* although any worker may delete the key, until a pass outlives it; and   *)
(* again as soon as the passes that met then are over.                     *)
(***************************************************************************)
OnePass == ~overran => \A v, w \in Inside : v = w

\* Someone in the system still has to run a pass.
WakeupInFlight ==
    \/ queued > 0
    \/ deferred # {}
    \/ \E w \in Workers : pc[w] \in {"acquire", "skipped", "publish", "read"}

(***************************************************************************)
(* A request that was skipped because of the cooldown is not forgotten: as *)
(* long as waiting rooms have not been read since, a message or a worker   *)
(* is on its way to read them, unless a worker was killed.  The pending    *)
(* key must never outlive the message it announces, or a worker that       *)
(* relies on it drops the last request.                                    *)
(***************************************************************************)
NoLostWakeup == crashes = 0 /\ unserved => WakeupInFlight

(***************************************************************************)
(* Every request is followed by a pass that starts after it, unless a      *)
(* worker is killed.                                                       *)
(***************************************************************************)
EveryRequestServed == unserved ~> ~unserved \/ crashes > 0

\* The pending key announces a message that is there or about to be.
PendingIsHonest == pending # NoSlot => pending \in deferred \/ \E w \in Workers : slot[w] = pending

(***************************************************************************)
(* A worker killed in a task does not stop routing for good: once no       *)
(* worker is killed any more, a message in the broker leads to a pass.     *)
(* The exception is a worker killed between setting the pending key and    *)
(* publishing: until the key expires, others drop their requests in the    *)
(* belief that a message will follow.                                      *)
(***************************************************************************)
CrashIsSurvived ==
    crashes = MaxCrashes /\ queued > 0 /\ PendingIsHonest ~> ~unserved

(***************************************************************************)
(* Routing does not stop: every request is answered, and a crash is        *)
(* survived.                                                               *)
(***************************************************************************)
RoutingGoesOn == EveryRequestServed /\ CrashIsSurvived

\* The callers' view of the tasks: a request is owed an answer, passes run.
Service == INSTANCE RoutingService WITH
    owed <- unserved,
    running <- Inside,
    overdue <- overran,
    killed <- crashes > 0

(***************************************************************************)
(* The tasks keep the promise of RoutingService to the callers of          *)
(* start_queue_priority_routing, fairness included, whatever passes        *)
(* outlive the lock and whatever workers are killed.                       *)
(***************************************************************************)
ServiceSpec == Service!Spec

-----------------------------------------------------------------------------
\* Why OnePass holds: only the worker inside can have set the key.
InsideHoldsLock == ~overran => \A w \in Inside : lock /\ \A v \in Inside : v = w

\* Why NoLostWakeup holds: the key always stands for a message to come.
PendingIsAnnounced == crashes = 0 => PendingIsHonest
=============================================================================
