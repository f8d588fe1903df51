---------------------------- MODULE TradingPolicy ----------------------------
(***************************************************************************)
(* The allocation policy: one JSON document in portfolio_risk_state        *)
(* (bot/broker_allocation.py) that says whether a lane may trade on its    *)
(* own. The D0 command (m21_1extra_d0_auth_cli.py), the dashboard's        *)
(* endpoint and its manual reset (dashboard/auth/manual_reset.py) each     *)
(* load it, change their copy and write the whole of it back;              *)
(* bot/runtime_policy.py reads it at every submission, through a cache.    *)
(* Of the document, the authorization fields are kept; its capital limits  *)
(* are judged elsewhere. The bot runs one lane, ibkr_paper, so of the      *)
(* cache's entries there is one.                                           *)
(***************************************************************************)
EXTENDS Integers

CONSTANTS
    Writers,   \* runs of the command and requests to the dashboard
    Switches,  \* the kill switches that clients throw, a bound on Blocks
    MaxHours,  \* _MAX_DURATION_HOURS
    Hours,     \* durations that operators ask for
    Ttl,       \* for how long a cached refusal is served
    MaxClock   \* bound: instants

Global == "global"
Paper == "ibkr_paper"
Live == "ibkr_live"
Lanes == {Paper, Live}
Blocks == {Global} \cup Lanes

ASSUME TradingPolicyAssumption ==
    /\ Switches \subseteq Blocks
    /\ MaxHours \in Nat \ {0} /\ Hours \subseteq 1..MaxHours
    /\ Ttl \in Nat
    /\ MaxClock \in Nat

VARIABLES
    clock,      \* now
    doc,        \* the stored policy
    jobs,       \* of each writer, between load_policy and the write: what it
                \* will write, and the kill switches it saw on
    cache,      \* the entry of runtime_policy._cache
    answer,     \* what get_signal_only_reason has just said
    refusedAt   \* history: when the document last refused the lane

vars == <<clock, doc, jobs, cache, answer, refusedAt>>

\* until is 0 where auto_trading_enabled_until_utc is null. A document from
\* before D0 has no lane blocks and no such field: it is not complete.
Instants == 0..(MaxClock + MaxHours)
Documents == [complete : BOOLEAN, kills : SUBSET Blocks, auto : SUBSET Blocks,
              until : [Blocks -> Instants], allowed : SUBSET Lanes]

DEFAULT_POLICY == [complete |-> TRUE, kills |-> {}, auto |-> {},
                   until |-> [b \in Blocks |-> 0], allowed |-> Lanes]
Old == [DEFAULT_POLICY EXCEPT !.complete = FALSE, !.kills = {Global},
                              !.auto = {Global}]

\* determine_signal_only_reason, which of its reasons apart.
Authorized(policy, lane, now) ==
    /\ policy.complete
    /\ policy.kills \cap {Global, lane} = {}
    /\ {Global, lane} \subseteq policy.auto
    /\ lane \in policy.allowed
    /\ \A b \in {Global, lane} : policy.until[b] > now

Idle == [op |-> "idle"]
NoEntry == [skip |-> FALSE, at |-> -Ttl]
NoAnswer == [given |-> FALSE]

Init ==
    /\ clock = 0
    /\ doc \in {DEFAULT_POLICY, Old}
    /\ jobs = [w \in Writers |-> Idle]
    /\ cache = NoEntry
    /\ answer = NoAnswer
    /\ refusedAt = 0

\* Keeps the history: called where the document or the time changes.
TrackRefusals ==
    refusedAt' = IF Authorized(doc', Paper, clock') THEN refusedAt ELSE clock'

Tick ==
    /\ clock < MaxClock
    /\ clock' = clock + 1
    /\ answer' = NoAnswer
    /\ UNCHANGED <<doc, jobs, cache>>
    /\ TrackRefusals

(***************************************************************************)
(* The writers. What each writes is a function of the copy it loaded.      *)
(***************************************************************************)

\* op is "clear" for those who may mean to clear a kill switch.
Load(w, op, written) ==
    /\ jobs[w] = Idle
    /\ jobs' = [jobs EXCEPT ![w] = [op |-> op, saw |-> doc.kills,
                                    written |-> written, stale |-> FALSE]]
    /\ UNCHANGED <<clock, doc, cache, answer, refusedAt>>

\* enable refuses while a kill switch or another lane is on, so that what it
\* prints is true and no other lane comes alive with the global window.
MayEnable(policy) ==
    /\ policy.kills \cap {Global, Paper} = {}
    /\ Live \notin policy.auto

Enabled(policy, expiry) ==
    [policy EXCEPT !.complete = TRUE,
                   !.auto = @ \cup {Global, Paper},
                   !.until = [@ EXCEPT ![Global] = expiry, ![Paper] = expiry],
                   !.allowed = @ \cup {Paper}]

Enable(w) ==
    /\ MayEnable(doc)
    /\ \E hours \in Hours :
           Load(w, "enable", Enabled(doc, clock + hours))

\* Variant for mutation: revoking starts over from the default document.
Disabled_Default(policy) == DEFAULT_POLICY

Disabled(policy) ==
    [policy EXCEPT !.complete = TRUE,
                   !.auto = @ \ {Global, Paper},
                   !.until = [@ EXCEPT ![Global] = 0, ![Paper] = 0]]

Disable(w) == Load(w, "disable", Disabled(doc))

\* The switches manual_reset.py knows of: not those of the lanes.
KILL_SWITCH_SCOPES == {Global}

\* prepare_cleared_policy; a document from before D0 fails validate_policy.
Reset(w) ==
    /\ doc.complete
    /\ Load(w, "clear", [doc EXCEPT !.kills = @ \ KILL_SWITCH_SCOPES])

\* A client of POST /api/broker-allocation: it changes one thing in the
\* document it got before. What it sends must be complete.
Edits(policy) ==
    {[policy EXCEPT !.complete = TRUE, !.kills = @ \cup {b}] :
         b \in Switches \ policy.kills}
    \cup
    {[policy EXCEPT !.complete = TRUE, !.kills = @ \ {b}] :
         b \in Switches \cap policy.kills}
    \cup
    {[policy EXCEPT !.complete = TRUE, !.auto = @ \cup {Global, Live},
                    !.until = [@ EXCEPT ![Global] = clock + MaxHours,
                                        ![Live] = clock + MaxHours]]}

Edit(w) == \E policy \in Edits(doc) : Load(w, "clear", policy)

\* INSERT OR REPLACE of the whole document. stale marks the copies that
\* this write overtakes.
Write(w) ==
    /\ jobs[w] # Idle
    /\ doc' = jobs[w].written
    /\ jobs' = [v \in Writers |->
                  IF v = w \/ jobs[v] = Idle THEN Idle
                  ELSE [jobs[v] EXCEPT !.stale = TRUE]]
    /\ answer' = NoAnswer
    /\ UNCHANGED <<clock, cache>>
    /\ TrackRefusals

\* The process dies, or the transaction fails and is rolled back.
Abandon(w) ==
    /\ jobs[w] # Idle
    /\ jobs' = [jobs EXCEPT ![w] = Idle]
    /\ UNCHANGED <<clock, doc, cache, answer, refusedAt>>

(***************************************************************************)
(* The reader.                                                             *)
(***************************************************************************)

\* Variant for mutation: a cached answer of either kind is served.
ServesCached_Any(entry) == clock - entry.at < Ttl

\* Variant for mutation: a refusal is served for one instant too many.
ServesCached_Late(entry) == entry.skip /\ clock - entry.at <= Ttl

ServesCached(entry) == entry.skip /\ clock - entry.at < Ttl

\* get_signal_only_reason; readable says that the database answers. When it
\* does not, the answer is a refusal, cached or not.
GetSignalOnlyReason(readable) ==
    LET skip == ~Authorized(doc, Paper, clock)
        Says(refusal, known) ==
            answer' = [given |-> TRUE, skip |-> refusal, known |-> known]
    IN  /\ \/ /\ ServesCached(cache)
              /\ Says(cache.skip, TRUE)
              /\ UNCHANGED cache
           \/ /\ ~ServesCached(cache)
              /\ readable
              /\ Says(skip, TRUE)
              /\ cache' = [skip |-> skip, at |-> clock]
           \/ /\ ~ServesCached(cache)
              /\ ~readable
              /\ Says(TRUE, FALSE)
              /\ UNCHANGED cache
        /\ UNCHANGED <<clock, doc, jobs, refusedAt>>

\* The process restarts: the cache is in its memory.
Restart ==
    /\ cache' = NoEntry
    /\ answer' = NoAnswer
    /\ UNCHANGED <<clock, doc, jobs, refusedAt>>

Next ==
    \/ Tick
    \/ \E w \in Writers : \/ Enable(w) \/ Disable(w) \/ Reset(w) \/ Edit(w)
                          \/ Write(w) \/ Abandon(w)
    \/ \E readable \in BOOLEAN : GetSignalOnlyReason(readable)
    \/ Restart

Spec == Init /\ [][Next]_vars

(***************************************************************************)
(* Properties.                                                             *)
(***************************************************************************)

Jobs == {Idle} \cup [op : {"enable", "disable", "clear"},
                     saw : SUBSET Blocks, written : Documents, stale : BOOLEAN]

TypeOK ==
    /\ clock \in 0..MaxClock
    /\ doc \in Documents
    /\ jobs \in [Writers -> Jobs]
    /\ cache \in [skip : BOOLEAN, at : (-Ttl)..MaxClock]
    /\ answer \in {NoAnswer} \cup [given : {TRUE}, skip : BOOLEAN,
                                   known : BOOLEAN]
    /\ refusedAt \in 0..MaxClock

\* A submission is let through only while the document in the database
\* authorizes its lane: no switch thrown and no window expired since some
\* earlier, cached answer (runtime_policy.py:20-24).
AllowIsCurrent ==
    answer.given /\ ~answer.skip => Authorized(doc, Paper, clock)

\* The cache withholds an authorization for less than its time to live: when
\* a refusal does not come from a failing database, the document refused the
\* lane that recently (runtime_policy.py:12-18).
RefusalIsRecent ==
    answer.given /\ answer.skip /\ answer.known =>
        refusedAt + Ttl > clock \/ refusedAt = clock

\* A kill switch leaves the document only by a reset, or by an edit, that
\* saw it on, or under a copy that another write has overtaken
\* (m21_1extra_d0_auth_cli.py:219 "never silently clear a kill switch").
KillSurvives ==
    [][\A b \in doc.kills \ doc'.kills :
           \E w \in Writers :
               /\ jobs[w] # Idle /\ jobs'[w] = Idle
               /\ \/ jobs[w].stale
                  \/ jobs[w].op = "clear" /\ b \in jobs[w].saw]_vars

\* When the command reports the paper lane as enabled it is: the document it
\* has just written authorizes the lane until its window ends, and no other
\* lane (m21_1extra_d0_auth_cli.py:214-219, :252).
EnabledIsTrue ==
    [][\A w \in Writers :
           jobs[w].op = "enable" /\ doc' = jobs[w].written /\ jobs'[w] = Idle
           /\ doc'.until[Global] > clock =>
               \A l \in Lanes : Authorized(doc', l, clock) <=> l = Paper]_vars
=============================================================================
