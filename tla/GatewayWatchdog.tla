-------------------------- MODULE GatewayWatchdog --------------------------
(***************************************************************************)
(* The IB Gateway watchdog (bot/gateway_watchdog.py), a thread of the bot  *)
(* that probes the gateway at intervals, declares its state to the scan    *)
(* loop, alerts the operator (bot/notifier.py) and consults the restart    *)
(* policy (bot/recovery_executor.py). The gateway changes at any time,     *)
(* also between the probes of one tick, and one of them has no timeout.    *)
(* Ages are in intervals.                                                  *)
(***************************************************************************)
EXTENDS Integers, FiniteSets

CONSTANTS
    FailuresToDown,  \* failures_to_down
    Cooldown,        \* alert_cooldown_min
    ManualAfter,     \* manual_action_after_min
    RestartMode,     \* mode is systemd_restart, not alert_only
    MinInterval,     \* min_restart_interval_min
    MaxPerHour,      \* max_restarts_per_hour
    Hour,            \* the rolling hour; older attempts count for nothing
    MaxRestarts      \* bound: how often the bot itself is restarted

ASSUME GatewayWatchdogAssumption ==
    /\ FailuresToDown \in Nat \ {0}
    /\ Cooldown \in Nat
    /\ ManualAfter \in Nat
    /\ RestartMode \in BOOLEAN
    /\ MinInterval \in Nat
    /\ MaxPerHour \in Nat
    /\ Hour \in Nat
    /\ MinInterval <= Hour
    /\ MaxRestarts \in Nat

STATE_SERVICE_DOWN == "service_down"
STATE_SERVICE_RUNNING_TCP_DOWN == "service_running_tcp_down"
STATE_TCP_UP_API_DOWN == "tcp_up_api_down"
STATE_API_UP_HEALTHY == "api_up_healthy"
STATE_UNKNOWN == "unknown"

Levels == {STATE_SERVICE_DOWN, STATE_SERVICE_RUNNING_TCP_DOWN,
           STATE_TCP_UP_API_DOWN, STATE_API_UP_HEALTHY}
CONCRETE_STATES == Levels \cup {STATE_UNKNOWN}

VARIABLES
    gateway,    \* what the gateway is in truth
    pc,         \* where the watchdog thread is
    concrete,   \* what this tick's probes derived
    declared,   \* _declared_state, which the scan loop reads
    failures,   \* _consecutive_failures, as far as it matters
    stuck,      \* age of _stuck_in_api_down_since, or NotStuck
    alert,      \* _last_alert_state and the age of _last_alert_ts
    told,       \* history: the state in the last message Telegram took
    lost,       \* history: the last message sent was lost
    executed,   \* history: ages of the recovery actions of the last hour
    forgotten,  \* history: those that RecoveryController does not know of
    through,    \* history: the gateway throughout the current tick
    outage,     \* history: whole ticks since the gateway last worked
    restarts    \* history: restarts of the bot

vars == <<gateway, pc, concrete, declared, failures, stuck, alert, told,
          lost, executed, forgotten, through, outage, restarts>>

verdict == <<declared, failures, stuck>>
messages == <<alert, told, lost>>
recovery == <<executed, forgotten>>
truth == <<gateway, through, outage>>

NotStuck == -1
NoAlert == [state |-> "none", age |-> Cooldown]

Up == gateway = STATE_API_UP_HEALTHY

Sooner(a, b) == IF a < b THEN a ELSE b

Init ==
    /\ gateway \in Levels
    /\ pc = "systemd"
    /\ concrete = STATE_UNKNOWN
    /\ declared = STATE_UNKNOWN
    /\ failures = 0
    /\ stuck = NotStuck
    /\ alert = NoAlert
    /\ told = "none"
    /\ lost = FALSE
    /\ executed = {}
    /\ forgotten = {}
    /\ through = (IF Up THEN "up" ELSE "down")
    /\ outage = 0
    /\ restarts = 0
-----------------------------------------------------------------------------
(* One tick. *)

Derive(state) == concrete' = state /\ pc' = "record"

\* systemctl is-active; no answer counts as running.
SystemdProbe ==
    /\ pc = "systemd"
    /\ \/ gateway = STATE_SERVICE_DOWN /\ Derive(STATE_SERVICE_DOWN)
       \/ pc' = "tcp" /\ concrete' = concrete
    /\ UNCHANGED <<truth, verdict, messages, recovery, restarts>>

TcpProbe ==
    /\ pc = "tcp"
    /\ IF gateway \in {STATE_SERVICE_DOWN, STATE_SERVICE_RUNNING_TCP_DOWN}
       THEN Derive(STATE_SERVICE_RUNNING_TCP_DOWN)
       ELSE pc' = "api" /\ concrete' = concrete
    /\ UNCHANGED <<truth, verdict, messages, recovery, restarts>>

\* Variant for mutation: a port that is open counts as a working gateway.
ApiProbe_ConnectOnly ==
    /\ pc = "api"
    /\ Derive(STATE_API_UP_HEALTHY)
    /\ UNCHANGED <<truth, verdict, messages, recovery, restarts>>

\* ib.connect, which has a timeout. A gateway whose API is out of order may
\* still complete the handshake.
ApiProbe ==
    /\ pc = "api"
    /\ \/ /\ gateway \in {STATE_TCP_UP_API_DOWN, STATE_API_UP_HEALTHY}
          /\ pc' = "time" /\ concrete' = concrete
       \/ ~Up /\ Derive(STATE_TCP_UP_API_DOWN)
    /\ UNCHANGED <<truth, verdict, messages, recovery, restarts>>

\* ib.reqCurrentTime, which has none: a working gateway answers, and a broken
\* connection raises; while a wedged gateway keeps it open, the thread waits.
CurrentTime ==
    /\ \/ pc = "time" /\ Up /\ Derive(STATE_API_UP_HEALTHY)
       \/ pc = "broken" /\ Derive(STATE_TCP_UP_API_DOWN)
    /\ UNCHANGED <<truth, verdict, messages, recovery, restarts>>

Succeed ==
    /\ failures' = 0
    /\ declared' = STATE_API_UP_HEALTHY
    /\ stuck' = NotStuck

\* Hysteresis: FailuresToDown failures in a row before the state changes.
Fail ==
    /\ failures' = Sooner(failures + 1, FailuresToDown)
    /\ declared' = IF failures' >= FailuresToDown THEN concrete ELSE declared
    /\ stuck' = IF concrete # STATE_TCP_UP_API_DOWN THEN NotStuck
                ELSE IF stuck = NotStuck THEN 0 ELSE stuck

\* The locked part of _tick. Writing the state and the transition to the
\* database may fail; neither changes what follows.
Record ==
    /\ pc = "record"
    /\ concrete = STATE_API_UP_HEALTHY => Succeed
    /\ concrete # STATE_API_UP_HEALTHY => Fail
    /\ pc' = IF declared' = declared THEN "wait"
             ELSE IF declared' = STATE_API_UP_HEALTHY THEN "alert"
             ELSE "recover"
    /\ concrete' = STATE_UNKNOWN
    /\ outage' = IF through = "down" THEN Sooner(outage + 1, FailuresToDown)
                                     ELSE 0
    /\ UNCHANGED <<gateway, through, messages, recovery, restarts>>

\* RecoveryController._attempts, as far as they still count.
Attempts == executed \ forgotten

\* Variant for mutation: no minimum interval.
Eligible_NoInterval ==
    RestartMode /\ Cardinality(Attempts) < MaxPerHour

\* RecoveryController.is_eligible
Eligible ==
    /\ RestartMode
    /\ \A age \in Attempts : age >= MinInterval
    /\ Cardinality(Attempts) < MaxPerHour

\* Variant for mutation: a database error ends the thread.
Recover_ThreadDies ==
    /\ pc = "recover"
    /\ IF Eligible
       THEN /\ executed' = executed \cup {0}
            /\ \/ forgotten' = forgotten /\ pc' = "alert"
               \/ forgotten' = forgotten \cup {0} /\ pc' = "dead"
       ELSE UNCHANGED recovery /\ pc' = "alert"
    /\ UNCHANGED <<truth, concrete, verdict, messages, restarts>>

\* _consider_recovery: when the event cannot be written the exception skips
\* record_attempt.
Recover ==
    /\ pc = "recover"
    /\ IF Eligible
       THEN /\ executed' = executed \cup {0}
            /\ forgotten' \in {forgotten, forgotten \cup {0}}
       ELSE UNCHANGED recovery
    /\ pc' = "alert"
    /\ UNCHANGED <<truth, concrete, verdict, messages, restarts>>

IsEscalation == stuck # NotStuck /\ stuck >= ManualAfter

\* Variant for mutation: the cooldown silences every kind of alert.
Silenced_AnyState ==
    /\ declared # STATE_API_UP_HEALTHY
    /\ ~IsEscalation
    /\ alert.age < Cooldown

\* Recoveries and escalations are always sent; others not when the last
\* alert said the same and is recent.
Silenced ==
    /\ declared # STATE_API_UP_HEALTHY
    /\ ~IsEscalation
    /\ alert.state = declared
    /\ alert.age < Cooldown

\* _send: send_gateway_alert returns False for a lost message, it never
\* raises, and the adapter in main.py drops its result.
Send ==
    /\ alert' = [state |-> declared, age |-> 0]
    /\ lost' \in BOOLEAN
    /\ told' = IF lost' THEN told ELSE declared

MaybeAlert ==
    /\ pc = "alert"
    /\ IF Silenced THEN UNCHANGED messages ELSE Send
    /\ pc' = "wait"
    /\ UNCHANGED <<truth, concrete, verdict, recovery, restarts>>

Older(ages) == {age + 1 : age \in ages} \cap (0 .. Hour)

\* The interval is over and the next tick begins.
Wake ==
    /\ pc = "wait"
    /\ pc' = "systemd"
    /\ stuck' = IF stuck = NotStuck THEN stuck ELSE Sooner(stuck + 1, ManualAfter)
    /\ alert' = [alert EXCEPT !.age = Sooner(@ + 1, Cooldown)]
    /\ executed' = Older(executed)
    /\ forgotten' = Older(forgotten)
    /\ through' = IF Up THEN "up" ELSE "down"
    /\ UNCHANGED <<gateway, concrete, declared, failures, told, lost, outage,
                   restarts>>

-----------------------------------------------------------------------------
(* Everything else. *)

\* A gateway whose port closes breaks the connection of the probe.
GatewayMoves ==
    /\ gateway' \in Levels \ {gateway}
    /\ pc' = IF pc = "time" /\ gateway' \in {STATE_SERVICE_DOWN,
                                             STATE_SERVICE_RUNNING_TCP_DOWN}
             THEN "broken" ELSE pc
    /\ through' = IF pc = "wait" \/ (through = "down" /\ ~Up')
                  THEN through ELSE "mixed"
    /\ outage' = IF Up' THEN 0 ELSE outage
    /\ UNCHANGED <<concrete, verdict, messages, recovery, restarts>>

\* So may, at any time, one that does not work throughout the tick.
ConnectionLost ==
    /\ pc = "time"
    /\ through # "up"
    /\ pc' = "broken"
    /\ UNCHANGED <<truth, concrete, verdict, messages, recovery, restarts>>

\* The bot is restarted, which takes as long as an interval: the watchdog
\* and the controller start from nothing.
Restart ==
    /\ restarts < MaxRestarts
    /\ restarts' = restarts + 1
    /\ pc' = "systemd"
    /\ concrete' = STATE_UNKNOWN
    /\ declared' = STATE_UNKNOWN
    /\ failures' = 0
    /\ stuck' = NotStuck
    /\ alert' = NoAlert
    /\ executed' = Older(executed)
    /\ forgotten' = Older(executed)
    /\ through' = IF Up THEN "up" ELSE "down"
    /\ outage' = 0
    /\ UNCHANGED <<gateway, told, lost>>

Watchdog ==
    \/ SystemdProbe \/ TcpProbe \/ ApiProbe \/ CurrentTime \/ Record
    \/ Recover \/ MaybeAlert \/ Wake

Next == Watchdog \/ ConnectionLost \/ GatewayMoves \/ Restart

Spec == Init /\ [][Next]_vars

\* The thread goes on as long as it can: systemctl, the TCP connection and
\* ib.connect have timeouts, the wait has an end, and _loop catches what a
\* tick raises. CurrentTime has no step on a wedged gateway that keeps the
\* connection, and ConnectionLost need not come.
FairSpec == Spec /\ WF_vars(Watchdog)
-----------------------------------------------------------------------------
(* Properties. *)

\* Every variable keeps to the values the code can give it.
TypeOK ==
    /\ gateway \in Levels
    /\ pc \in {"systemd", "tcp", "api", "time", "broken", "record", "recover",
              "alert", "wait"}
    /\ concrete \in CONCRETE_STATES
    /\ declared \in CONCRETE_STATES
    /\ failures \in 0 .. FailuresToDown
    /\ stuck \in {NotStuck} \cup (0 .. ManualAfter)
    /\ alert \in [state : CONCRETE_STATES \cup {"none"}, age : 0 .. Cooldown]
    /\ told \in CONCRETE_STATES \cup {"none"}
    /\ lost \in BOOLEAN
    /\ executed \in SUBSET (0 .. Hour)
    /\ forgotten \in SUBSET executed
    /\ through \in {"up", "down", "mixed"}
    /\ outage \in 0 .. FailuresToDown
    /\ restarts \in 0 .. MaxRestarts

\* What is_healthy_for_submission is worth: between ticks it is never TRUE
\* when the gateway has been out of order for FailuresToDown whole ticks,
\* however it went from one disorder to another meanwhile, and it is TRUE
\* whenever the gateway worked throughout the last tick.
VerdictFollowsGateway ==
    pc = "wait" =>
        /\ outage >= FailuresToDown => declared # STATE_API_UP_HEALTHY
        /\ through = "up" => declared = STATE_API_UP_HEALTHY

\* The dedup of _maybe_alert never leaves an older state as the watchdog's
\* last word: between ticks the last alert names the declared state, and the
\* operator has it unless that one message was lost (it is not sent again).
LastWord ==
    pc = "wait" /\ declared # STATE_UNKNOWN =>
        /\ alert.state = declared
        /\ told = declared \/ lost

\* recovery_executor.py: a minimum interval between recovery actions. Two
\* of them come closer than that only when the controller has forgotten the
\* earlier: the bot was restarted, or the event could not be written.
RecoverySpaced ==
    \A a, b \in executed : b < a /\ a - b < MinInterval => a \in forgotten

\* ... and at most MaxPerHour of them in any rolling hour, the forgotten
\* ones not counted.
RecoveryCapped == Cardinality(executed \ forgotten) <= MaxPerHour

\* The thread asks for the time and the gateway, wedged, never answers.
Hanging == pc = "time" /\ gateway = STATE_TCP_UP_API_DOWN

\* An outage that lasts is declared and stays declared, unless the thread
\* hangs in the one request without a timeout (gateway_watchdog.py:190; the
\* file's line 11 promises a hard timeout); then the verdict of the last tick
\* stands. A recovery that lasts is declared in any case.
Detected ==
    /\ <>[](~Up) =>
          <>[](declared # STATE_API_UP_HEALTHY) \/ <>[]Hanging
    /\ <>[]Up => <>[](declared = STATE_API_UP_HEALTHY)
=============================================================================
