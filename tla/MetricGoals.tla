---------------------------- MODULE MetricGoals ----------------------------
(***************************************************************************)
(* The sweep over the metric goals of a project, every thirty seconds      *)
(* (check_metric_goal_violations, chats/apps/dashboard/tasks.py, and       *)
(* process_violations, chats/apps/dashboard/services).  For one goal it    *)
(* compares the rooms in breach with two keys in Redis, sends the widget   *)
(* of the dashboard its changes, and a toast when the number of rooms      *)
(* climbs to the threshold.  No lock keeps two sweeps apart.               *)
(***************************************************************************)
EXTENDS Celery, Integers

CONSTANTS
    MaxMetricFaults,  \* bound on the sweeps killed and the broadcasts that fail
    MaxExpiries       \* bound on the times the keys run out

ASSUME MetricAssumption == MaxMetricFaults \in Nat /\ MaxExpiries \in Nat

VARIABLES
    level,         \* rooms in breach: none, some, or enough of them ("many")
    stateKey,      \* metric_goal_state
    alertKey,      \* metric_goal_alert_state
    told,          \* what the widget was last told
    toasts,        \* toasts since the last climb to "many": none, one, or more
    sweep,         \* where each worker is
    seen,          \* the level its sweep detected
    wasAlerting,   \* previously_alerting
    overlapped,    \* have two sweeps overlapped?
    metricFaults, expiries

metricVars == <<level, stateKey, alertKey, told, toasts, sweep, seen, wasAlerting,
                overlapped, metricFaults, expiries>>

Levels == {"none", "some", "many"}
SweepStages == {"idle", "keys", "claim", "tell", "alert", "toast", "drop",
           "clear", "clear_alert", "resolve"}

MetricTypeOK ==
    /\ level \in Levels
    /\ stateKey \in BOOLEAN /\ alertKey \in BOOLEAN
    /\ told \in {"ok", "violating"}
    /\ toasts \in 0..2
    /\ sweep \in [Workers -> SweepStages]
    /\ seen \in [Workers -> Levels]
    /\ \A w \in Workers :
          /\ At(sweep, w, {"claim", "tell"}) => seen[w] # "none"
          /\ At(sweep, w, {"alert", "toast"}) => seen[w] = "many"
          /\ sweep[w] = "drop" => seen[w] = "some"
    /\ wasAlerting \in [Workers -> BOOLEAN]
    /\ overlapped \in BOOLEAN
    /\ metricFaults \in 0..MaxMetricFaults
    /\ expiries \in 0..MaxExpiries

MetricInit ==
    /\ level = "none"
    /\ stateKey = FALSE /\ alertKey = FALSE
    /\ told = "ok"
    /\ toasts = 0
    /\ sweep = [w \in Workers |-> "idle"]
    /\ seen = [w \in Workers |-> "none"]
    /\ wasAlerting = [w \in Workers |-> FALSE]
    /\ overlapped = FALSE
    /\ metricFaults = 0 /\ expiries = 0

keyVars == <<stateKey, alertKey>>
countVars == <<overlapped, metricFaults, expiries>>
sweepVars == <<sweep, seen, wasAlerting>>

\* Time passes and rooms are answered; the goal may be switched off as well.
LevelChanges ==
    /\ level' \in Levels \ {level}
    /\ toasts' = IF level' = "many" THEN 0 ELSE toasts
    /\ UNCHANGED <<keyVars, told, sweepVars, countVars>>

GoesTo(w, stage) ==
    /\ sweep' = Moved(sweep, w, stage)
    /\ UNCHANGED <<seen, wasAlerting>>

Over(w) ==
    /\ sweep' = Moved(sweep, w, "idle")
    /\ seen' = [seen EXCEPT ![w] = "none"]
    /\ wasAlerting' = [wasAlerting EXCEPT ![w] = FALSE]

\* detect_violations
Detect(w) ==
    /\ sweep[w] = "idle"
    /\ sweep' = Moved(sweep, w, "keys")
    /\ seen' = [seen EXCEPT ![w] = level]
    /\ overlapped' = (overlapped \/ \E v \in Workers : sweep[v] # "idle")
    /\ UNCHANGED <<level, keyVars, told, toasts, wasAlerting, metricFaults, expiries>>

\* Mutant: what was flagged before counts as in breach still.
ReadEitherKeys(w) ==
    /\ sweep[w] = "keys"
    /\ IF seen[w] = "none" /\ ~stateKey
       THEN Over(w)
       ELSE /\ sweep' = Moved(sweep, w, "claim")
            /\ wasAlerting' = [wasAlerting EXCEPT ![w] = alertKey]
            /\ UNCHANGED seen
    /\ UNCHANGED <<level, keyVars, told, toasts, countVars>>

\* What was flagged before is looked up after the violations were detected.
ReadKeys(w) ==
    /\ sweep[w] = "keys"
    /\ IF seen[w] = "none"
       THEN IF stateKey THEN GoesTo(w, "clear") ELSE Over(w)
       ELSE /\ sweep' = Moved(sweep, w, "claim")
            /\ wasAlerting' = [wasAlerting EXCEPT ![w] = alertKey]
            /\ UNCHANGED seen
    /\ UNCHANGED <<level, keyVars, told, toasts, countVars>>

ClaimState(w) ==
    /\ sweep[w] = "claim"
    /\ stateKey' = TRUE
    /\ GoesTo(w, "tell")
    /\ UNCHANGED <<level, alertKey, told, toasts, countVars>>

\* A broadcast that fails is logged, and the sweep goes on (_safe_call).
Send(w, said) ==
    \/ said
    \/ /\ metricFaults < MaxMetricFaults
       /\ metricFaults' = metricFaults + 1
       /\ UNCHANGED <<told, toasts>>

\* on_new_alert or on_update
TellViolating(w) ==
    /\ sweep[w] = "tell"
    /\ Send(w, told' = "violating" /\ UNCHANGED <<toasts, metricFaults>>)
    /\ CASE seen[w] = "many"                      -> GoesTo(w, "alert")
         [] seen[w] # "many" /\ wasAlerting[w]    -> GoesTo(w, "drop")
         [] seen[w] # "many" /\ ~wasAlerting[w]   -> Over(w)
    /\ UNCHANGED <<level, keyVars, overlapped, expiries>>

\* Mutant: every sweep above the threshold fires.
AlertAnyway(w) ==
    /\ sweep[w] = "alert"
    /\ alertKey' = TRUE
    /\ GoesTo(w, "toast")
    /\ UNCHANGED <<level, stateKey, told, toasts, countVars>>

\* SET NX: only the sweep that creates the key goes on to the toast.
ClaimAlert(w) ==
    /\ sweep[w] = "alert"
    /\ alertKey' = TRUE
    /\ IF alertKey THEN Over(w) ELSE GoesTo(w, "toast")
    /\ UNCHANGED <<level, stateKey, told, toasts, countVars>>

\* on_toast and on_email
Toast(w) ==
    /\ sweep[w] = "toast"
    /\ Send(w, /\ toasts' = IF toasts = 2 THEN 2 ELSE toasts + 1
               /\ UNCHANGED <<told, metricFaults>>)
    /\ Over(w)
    /\ UNCHANGED <<level, keyVars, overlapped, expiries>>

DropAlert(w) ==
    /\ sweep[w] = "drop"
    /\ alertKey' = FALSE
    /\ Over(w)
    /\ UNCHANGED <<level, stateKey, told, toasts, countVars>>

ClearState(w) ==
    /\ sweep[w] = "clear"
    /\ stateKey' = FALSE
    /\ GoesTo(w, "clear_alert")
    /\ UNCHANGED <<level, alertKey, told, toasts, countVars>>

\* Mutant: the second key is left to run out.
LeaveAlert(w) ==
    /\ sweep[w] = "clear_alert"
    /\ GoesTo(w, "resolve")
    /\ UNCHANGED <<level, keyVars, told, toasts, countVars>>

ClearAlert(w) ==
    /\ sweep[w] = "clear_alert"
    /\ alertKey' = FALSE
    /\ GoesTo(w, "resolve")
    /\ UNCHANGED <<level, stateKey, told, toasts, countVars>>

TellResolved(w) ==
    /\ sweep[w] = "resolve"
    /\ Send(w, told' = "ok" /\ UNCHANGED <<toasts, metricFaults>>)
    /\ Over(w)
    /\ UNCHANGED <<level, keyVars, overlapped, expiries>>

KillSweep(w) ==
    /\ metricFaults < MaxMetricFaults
    /\ metricFaults' = metricFaults + 1
    /\ sweep[w] # "idle"
    /\ Over(w)
    /\ UNCHANGED <<level, keyVars, told, toasts, overlapped, expiries>>

\* No sweep has refreshed the keys for METRIC_GOAL_STATE_TTL_SECONDS.
KeysExpire ==
    /\ expiries < MaxExpiries
    /\ expiries' = expiries + 1
    /\ stateKey \/ alertKey
    /\ \A w \in Workers : sweep[w] = "idle"
    /\ stateKey' \in {stateKey, FALSE}
    /\ alertKey' \in {alertKey, FALSE}
    /\ UNCHANGED <<level, told, toasts, sweepVars, overlapped, metricFaults>>

SweepStep(w) ==
    \/ ReadKeys(w) \/ ClaimState(w) \/ TellViolating(w) \/ ClaimAlert(w) \/ Toast(w)
    \/ DropAlert(w) \/ ClearState(w) \/ ClearAlert(w) \/ TellResolved(w)

MetricNext ==
    \/ LevelChanges \/ KeysExpire
    \/ \E w \in Workers : Detect(w) \/ SweepStep(w) \/ KillSweep(w)

MetricSpec == MetricInit /\ [][MetricNext]_metricVars

\* Is there anything a sweep might say or clear?
SweepDue == level # "none" \/ stateKey \/ alertKey \/ told = "violating"

\* The periodic task is run again and again, and a sweep goes on.
MetricFairness ==
    /\ WF_metricVars(SweepDue /\ \E w \in Workers : Detect(w))
    /\ \A w \in Workers : WF_metricVars(SweepStep(w))

-----------------------------------------------------------------------------
Undisturbed == ~overlapped /\ metricFaults = 0 /\ expiries = 0

(***************************************************************************)
(* "Dropping below that count clears toast state so a later climb back     *)
(* fires toast/email again": one climb fires at most one toast, however    *)
(* the number of rooms moves while a sweep is under way and whatever sweep *)
(* is killed, unless sweeps overlap or the keys run out.                   *)
(***************************************************************************)
OneToastPerClimb == ~overlapped /\ expiries = 0 => toasts < 2

(***************************************************************************)
(* Between sweeps the alert key is never left behind by the state key: it  *)
(* would swallow the toast of the next climb.                              *)
(***************************************************************************)
AlertNeedsViolation ==
    Undisturbed /\ alertKey => stateKey \/ \E w \in Workers : sweep[w] = "clear_alert"

(***************************************************************************)
(* A widget is told in the end that the rooms are fine, or that they are   *)
(* not, if they stay so and no sweep was disturbed.                        *)
(***************************************************************************)
WidgetSettles ==
    /\ <>[](level = "none" /\ Undisturbed) => <>[](told = "ok")
    /\ <>[](level # "none" /\ Undisturbed) => <>[](told = "violating")

(***************************************************************************)
(* Toasts follow the climbs of a goal, one for each, and the key of a      *)
(* toast does not outlive the violation it belongs to                      *)
(* (process_violations).                                                   *)
(***************************************************************************)
ToastsFollowClimbs == OneToastPerClimb /\ AlertNeedsViolation
=============================================================================
