---------------------------- MODULE SignalAlerts ----------------------------
(***************************************************************************)
(* The signal alerts (tools/signal_scoring/signal_alerts.py): runners, each *)
(* one cycle per turn of its timer, put alerts into an outbox in SQLite and *)
(* deliver what is due to Telegram. Every statement commits on its own, so *)
(* runners interleave between them; a runner may be slower than the lease  *)
(* of its claim, its answer may be lost, and it may die anywhere. Times are *)
(* ages in ticks that stop growing where they stop to matter.              *)
(***************************************************************************)
EXTENDS Integers

CONSTANTS
    Alerts,       \* alert keys
    NoKey,        \* no alert key
    Pair,         \* the symbol and action of each
    Runners,      \* processes that deliver
    Scanners,     \* those that are not --drain-only
    Delay,        \* max_delivery_delay_minutes
    Lease,        \* claim_lease_seconds
    Cooldown,     \* cooldown_minutes
    MaxAttempts,  \* max_attempts
    MaxBackoff,   \* bound: the longest wait before another attempt
    MaxDeaths     \* bound: how often a runner dies

ASSUME SignalAlertsAssumption ==
    /\ NoKey \notin Alerts
    /\ Scanners \subseteq Runners
    /\ Delay \in Nat
    /\ Lease \in Nat
    /\ Cooldown \in Nat
    /\ MaxAttempts \in Nat \ {0}
    /\ MaxBackoff \in Nat
    /\ MaxDeaths \in Nat

ACTIVE_STATUSES == {"pending", "sending", "sent"}
STATUSES == ACTIVE_STATUSES \cup {"failed", "expired"}
PHASES == {"enqueue", "expire", "due", "loop", "send", "mark", "done"}
COPIES == [attempts : 0 .. MaxAttempts, dup : BOOLEAN]

VARIABLES
    outbox,    \* the rows of signal_alert_outbox
    runner,    \* where each runner is in its cycle, and what it has read
    deaths,    \* history: runners that died
    seen,      \* history: alerts the operator has a message of
    excused,   \* history: those whose answer was lost, or that were sent
               \* from a row read before it was re-queued
    unmarked   \* history: the others that came again without the label

alertVars == <<outbox, runner, deaths, seen, excused, unmarked>>
arrivals == <<seen, excused, unmarked>>

Nothing == [x \in {} |-> 0]

\* A runner outside its delivery loop, which holds no rows.
At(phase) == [phase |-> phase, rows |-> Nothing, key |-> NoKey,
              answer |-> "none"]

NoAlert == [status |-> "none", attempts |-> 0, wait |-> 0, age |-> 0,
            held |-> 0, dup |-> FALSE]

AlertInit ==
    /\ outbox = [a \in Alerts |-> NoAlert]
    /\ runner = [r \in Runners |-> At("enqueue")]
    /\ deaths = 0
    /\ seen = {} /\ excused = {} /\ unmarked = {}

Lesser(m, n) == IF m < n THEN m ELSE n
Horizon == (IF Delay < Cooldown THEN Cooldown ELSE Delay) + 1

Goto(r, phase) == runner' = [runner EXCEPT ![r] = At(phase)]
-----------------------------------------------------------------------------
(* AlertOutbox. *)

\* Another alert of the symbol and action, active and young.
Cooling(a) ==
    \E b \in Alerts :
        /\ Pair[b] = Pair[a]
        /\ outbox[b].status \in ACTIVE_STATUSES
        /\ outbox[b].age <= Cooldown

\* enqueue, in one transaction. Which signals pass the score and the policy
\* is left open; a known key or a cooldown leaves the outbox as it is.
Enqueue(r, a) ==
    /\ r \in Scanners
    /\ runner[r].phase = "enqueue"
    /\ outbox[a] = NoAlert
    /\ ~Cooling(a)
    /\ outbox' = [outbox EXCEPT ![a].status = "pending"]
    /\ UNCHANGED <<runner, deaths, arrivals>>

Interrupted(row) == row.status = "sending" /\ row.held > Lease

\* Variant for mutation: a re-queued row is not flagged.
Requeued_NoFlag(row) == [row EXCEPT !.status = "pending", !.held = 0]

Requeued(row) == [row EXCEPT !.status = "pending", !.held = 0, !.dup = TRUE]

\* release_stale_claims
ReleaseStale(r) ==
    /\ runner[r].phase = "enqueue"
    /\ outbox' = [a \in Alerts |-> IF Interrupted(outbox[a])
                                   THEN Requeued(outbox[a]) ELSE outbox[a]]
    /\ Goto(r, "expire")
    /\ UNCHANGED <<deaths, arrivals>>

\* A row out of delivery: its claim and its next attempt mean nothing more.
Settled(row, status) ==
    [row EXCEPT !.status = status, !.held = 0, !.wait = 0, !.attempts = 0]

\* expire; its rows are independent of each other.
Expire(r) ==
    /\ runner[r].phase = "expire"
    /\ outbox' = [a \in Alerts |->
           IF outbox[a].status = "pending" /\ outbox[a].age > Delay
           THEN Settled(outbox[a], "expired") ELSE outbox[a]]
    /\ Goto(r, "due")
    /\ UNCHANGED <<deaths, arrivals>>

IsDue(row) == row.status = "pending" /\ row.wait = 0

\* What the loop takes from its copy of a row.
Copy(row) == [attempts |-> row.attempts, dup |-> row.dup]

\* due: the rows as they are now; the loop works on this copy.
ReadDue(r) ==
    /\ runner[r].phase = "due"
    /\ LET due == {a \in Alerts : IsDue(outbox[a])}
       IN  runner' = [runner EXCEPT ![r] =
               [At("loop") EXCEPT !.rows = [a \in due |-> Copy(outbox[a])]]]
    /\ UNCHANGED <<outbox, deaths, arrivals>>
-----------------------------------------------------------------------------
(* SignalAlertService.deliver_pending, the loop. *)

Unread(r) == DOMAIN runner[r].rows

\* ORDER BY created_at_utc, alert_key
IsNext(r, a) ==
    /\ a \in Unread(r)
    /\ \A b \in Unread(r) : outbox[b].age <= outbox[a].age

Without(rows, a) == [b \in DOMAIN rows \ {a} |-> rows[b]]

\* claim: pending -> sending, or another runner owns it.
Claim(r, a) ==
    /\ runner[r].phase = "loop"
    /\ IsNext(r, a)
    /\ IF outbox[a].status = "pending"
       THEN /\ outbox' = [outbox EXCEPT
                 ![a].status = "sending", ![a].held = 0,
                 ![a].attempts = Lesser(@ + 1, MaxAttempts)]
            /\ runner' = [runner EXCEPT ![r].phase = "send", ![r].key = a]
       ELSE /\ outbox' = outbox
            /\ runner' = [runner EXCEPT ![r].rows = Without(@, a)]
    /\ UNCHANGED <<deaths, arrivals>>

\* The row has been re-queued since this runner read it.
Outdated(r, a) == outbox[a].dup /\ ~runner[r].rows[a].dup

\* transport.send: Telegram takes the message or not; an answer is ok,
\* a permanent refusal, or an error that may be retried, which says nothing
\* about the message (timeout, broken connection, 5xx). The label is that
\* of the row as it was read.
Send(r, a) ==
    /\ runner[r].phase = "send"
    /\ runner[r].key = a
    /\ \E taken \in BOOLEAN, answer \in {"ok", "retry", "reject"} :
        /\ answer = "ok" => taken
        /\ answer = "reject" => ~taken
        /\ runner' = [runner EXCEPT ![r].phase = "mark", ![r].answer = answer]
        /\ IF taken
           THEN /\ seen' = seen \cup {a}
                /\ excused' = IF answer = "retry" \/ Outdated(r, a)
                              THEN excused \cup {a} ELSE excused
                /\ unmarked' = IF /\ a \in seen \ excused'
                                  /\ ~runner[r].rows[a].dup
                               THEN unmarked \cup {a} ELSE unmarked
           ELSE UNCHANGED arrivals
    /\ UNCHANGED <<outbox, deaths>>

\* Variant for mutation: an attempt beyond max_attempts is tried again.
LastAttempt_Never(row) == FALSE

\* attempts >= max_attempts, counted from the row as it was read.
LastAttempt(row) == row.attempts + 1 >= MaxAttempts

\* What the answer makes of a row: mark_sent, mark_failed or mark_retry.
Marked(row, answer, last) ==
    IF answer = "ok" THEN {Settled(row, "sent")}
    ELSE IF answer = "reject" \/ last THEN {Settled(row, "failed")}
    ELSE {[row EXCEPT !.status = "pending", !.held = 0, !.wait = w] :
             w \in 0 .. MaxBackoff}

\* Variant for mutation: mark_sent does not look at the status.
MayMark_SentAnyway(row, answer) == row.status = "sending" \/ answer = "ok"

\* WHERE status = 'sending', whoever's claim that is.
MayMark(row, answer) == row.status = "sending"

\* mark_sent, mark_failed, mark_retry
Mark(r, a) ==
    /\ runner[r].phase = "mark"
    /\ runner[r].key = a
    /\ IF MayMark(outbox[a], runner[r].answer)
       THEN \E row \in Marked(outbox[a], runner[r].answer,
                              LastAttempt(runner[r].rows[a])) :
                outbox' = [outbox EXCEPT ![a] = row]
       ELSE outbox' = outbox
    /\ runner' = [runner EXCEPT ![r].phase = "loop", ![r].answer = "none",
                                ![r].key = NoKey, ![r].rows = Without(@, a)]
    /\ UNCHANGED <<deaths, arrivals>>

Finish(r) ==
    /\ runner[r].phase = "loop"
    /\ Unread(r) = {}
    /\ Goto(r, "done")
    /\ UNCHANGED <<outbox, deaths, arrivals>>

-----------------------------------------------------------------------------
(* Everything else. *)

\* A kill, or a statement that raises: the cycle is over.
RunnerDies(r) ==
    /\ runner[r].phase # "done"
    /\ deaths < MaxDeaths
    /\ deaths' = deaths + 1
    /\ Goto(r, "done")
    /\ UNCHANGED <<outbox, arrivals>>

Older(row) ==
    IF row = NoAlert THEN row
    ELSE [row EXCEPT
             !.age = Lesser(@ + 1, Horizon),
             !.held = IF row.status = "sending" THEN Lesser(@ + 1, Lease + 1)
                                                ELSE @,
             !.wait = IF @ = 0 THEN 0 ELSE @ - 1]

\* Time passes and the timer starts the runners whose cycle is over. The
\* three statements that use one reading of the clock take less than a tick.
AlertTick ==
    /\ \A r \in Runners : runner[r].phase \notin {"expire", "due"}
    /\ outbox' = [a \in Alerts |-> Older(outbox[a])]
    /\ runner' = [r \in Runners |-> IF runner[r].phase = "done"
                                    THEN At("enqueue") ELSE runner[r]]
    /\ UNCHANGED <<deaths, arrivals>>

\* deliver_pending
Deliver(r) ==
    \/ ReleaseStale(r) \/ Expire(r) \/ ReadDue(r) \/ Finish(r)
    \/ \E a \in Alerts : Claim(r, a) \/ Send(r, a) \/ Mark(r, a)

AlertNext ==
    \/ \E r \in Runners :
        Deliver(r) \/ RunnerDies(r) \/ \E a \in Alerts : Enqueue(r, a)
    \/ AlertTick

AlertSpec == AlertInit /\ [][AlertNext]_alertVars

\* The timer goes on starting runners, and a runner that is not killed gets
\* on with its cycle: every request and every lock has a timeout.
FairAlertSpec ==
    /\ AlertSpec
    /\ WF_alertVars(AlertTick)
    /\ \A r \in Runners : WF_alertVars(Deliver(r))
-----------------------------------------------------------------------------
(* Properties. *)

\* Every variable keeps to the values the code can give it.
AlertTypeOK ==
    /\ outbox \in [Alerts ->
           [status : STATUSES \cup {"none"}, attempts : 0 .. MaxAttempts,
            wait : 0 .. MaxBackoff, age : 0 .. Horizon,
            held : 0 .. Lease + 1, dup : BOOLEAN]]
    /\ runner \in [Runners ->
           [phase : PHASES, rows : UNION {[S -> COPIES] : S \in SUBSET Alerts},
            key : Alerts \cup {NoKey},
            answer : {"none", "ok", "retry", "reject"}]]
    /\ deaths \in 0 .. MaxDeaths
    /\ excused \subseteq seen /\ seen \subseteq Alerts
    /\ unmarked \subseteq seen

\* signal_alerts.py: at-least-once, honestly marked. When the operator gets
\* a second message of an alert it carries the label, but for two ways: an
\* earlier answer of Telegram was lost, so that the retry is taken for the
\* first delivery, or the runner had read the row before the interrupted
\* send of another was re-queued (deliver_pending takes label from its copy).
RepeatsAreLabelled == unmarked = {}

\* The cooldown: no two alerts of a symbol and action, both younger than
\* cooldown_minutes, are pending, being sent or sent. A sender that comes
\* late, after its row was re-queued and failed by another runner, does not
\* bring it back when the next alert has taken its place.
CooldownHolds ==
    \A a, b \in Alerts :
        /\ a # b /\ Pair[a] = Pair[b]
        /\ {outbox[a].status, outbox[b].status} \subseteq ACTIVE_STATUSES
        => outbox[a].age > Cooldown \/ outbox[b].age > Cooldown

\* Every alert is sent, failed or expired in the end, whichever runners die
\* and however their cycles overlap: when no new alerts come in (there are
\* finitely many keys) nothing is left pending or being sent.
OutboxDrains ==
    <>[](\A a \in Alerts : outbox[a].status \notin {"pending", "sending"})
=============================================================================
