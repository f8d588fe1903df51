---------------------------- MODULE RiskAuthority ----------------------------
(***************************************************************************)
(* What the risk authority decides, and from what: two commands,           *)
(* tools/ingest_risk_state.py and tools/ingest_exposure_state.py, write a  *)
(* broker scope's profit and its exposure into the same row of             *)
(* daily_state_per_broker (bot/risk_authority/ingest.py and                *)
(* ingest_exposure.py), each by reading the row, computing and writing it  *)
(* back; engine.py judges a request on a snapshot of today's rows          *)
(* (snapshot.py). decide is pure: Reason gives its answer to a request in  *)
(* any state, and the properties speak of every request. Of the numbers,   *)
(* the realised loss and the deployed capital are kept.                    *)
(***************************************************************************)
EXTENDS Integers, FiniteSetsExt, Functions

CONSTANTS
    Scopes,    \* ALL_BROKER_SCOPES
    Losses,    \* realised_daily_loss values a reading may carry
    Capitals,  \* capital_deployed values a reading may carry
    LossCap,   \* global_daily_loss_cap_usd
    Cap,       \* combined_exposure_cap_usd
    MaxDay     \* bound: UTC midnights

ASSUME RiskAuthorityAssumption ==
    /\ Losses \subseteq Nat
    /\ Capitals \subseteq Nat
    /\ LossCap \in Nat /\ Cap \in Nat
    /\ MaxDay \in Nat

VARIABLES
    day,        \* the UTC trading day
    row,        \* today's row of each scope
    pnlJob,     \* the profit ingestion between reading the row and writing it
    expJob,     \* the exposure ingestion, likewise
    last,       \* history: the last reading stored today, of each kind
    overlapped  \* history: scopes whose exposure a profit ingestion undid

vars == <<day, row, pnlJob, expJob, last, overlapped>>

Status == {"absent", "known", "unknown"}

\* The columns and lifecycle_json keys of the two writers. available is
\* daily_pnl_available; status and exposure are in lifecycle_json.
NoRow == [present |-> FALSE, available |-> FALSE, status |-> "absent",
          loss |-> 0, exposure |-> "absent", capital |-> 0]

\* A reading is unknown or carries its number.
Unknown == [known |-> FALSE, value |-> 0]
Known(n) == [known |-> TRUE, value |-> n]
Readings(values) == {Unknown} \cup {Known(n) : n \in values}
StatusOf(reading) == IF reading.known THEN "known" ELSE "unknown"

Idle == [running |-> FALSE]
Job(s, reading) ==
    [running |-> TRUE, scope |-> s, day |-> day, reading |-> reading,
     prev |-> row[s], torn |-> FALSE]

Init ==
    /\ day = 0
    /\ row = [s \in Scopes |-> NoRow]
    /\ pnlJob = Idle /\ expJob = Idle
    /\ last = [s \in Scopes |-> [pnl |-> Unknown, exposure |-> Unknown]]
    /\ overlapped = {}

\* Rows are keyed by the day: at midnight every scope is without one.
NextDay ==
    /\ day < MaxDay
    /\ day' = day + 1
    /\ row' = [s \in Scopes |-> NoRow]
    /\ last' = [s \in Scopes |-> [pnl |-> Unknown, exposure |-> Unknown]]
    /\ overlapped' = {}
    /\ UNCHANGED <<pnlJob, expJob>>

(***************************************************************************)
(* The two ingestions. A row that was absent is inserted: if the other     *)
(* command inserted it meanwhile, the INSERT fails on the primary key. A   *)
(* job that began before midnight writes yesterday's row.                  *)
(***************************************************************************)

TakesEffect(job) ==
    /\ job.day = day
    /\ job.prev.present \/ ~row[job.scope].present

IngestOnceRead ==
    /\ ~pnlJob.running
    /\ \E s \in Scopes, r \in Readings(Losses) : pnlJob' = Job(s, r)
    /\ UNCHANGED <<day, row, expJob, last, overlapped>>

\* Variant for mutation: a number the reading lacks is stored as zero.
PnlRow_Zero(job) ==
    [present |-> TRUE,
     available |-> job.reading.known,
     status |-> StatusOf(job.reading),
     loss |-> job.reading.value,
     exposure |-> job.prev.exposure,
     capital |-> 0]

\* ingest.py writes its own columns, the exposure columns as it read them
\* (its readings carry none), and lifecycle_json as it read it.
PnlRow(job) ==
    [present |-> TRUE,
     available |-> job.reading.known,
     status |-> StatusOf(job.reading),
     loss |-> IF job.reading.known THEN job.reading.value ELSE job.prev.loss,
     exposure |-> job.prev.exposure,
     capital |-> job.prev.capital]

IngestOnceWrite ==
    /\ pnlJob.running
    /\ pnlJob' = Idle
    /\ IF TakesEffect(pnlJob)
       THEN /\ row' = [row EXCEPT ![pnlJob.scope] = PnlRow(pnlJob)]
            /\ last' = [last EXCEPT ![pnlJob.scope].pnl = pnlJob.reading]
            /\ overlapped' = overlapped \cup
                             (IF pnlJob.torn THEN {pnlJob.scope} ELSE {})
       ELSE UNCHANGED <<row, last, overlapped>>
    /\ UNCHANGED <<day, expJob>>

IngestExposureRead ==
    /\ ~expJob.running
    /\ \E s \in Scopes, r \in Readings(Capitals) : expJob' = Job(s, r)
    /\ UNCHANGED <<day, row, pnlJob, last, overlapped>>

\* ingest_exposure.py writes its own columns, and lifecycle_json, the status
\* of the profit in it, as it read it. Unknown is stored as zero.
ExposureRow(job) ==
    [row[job.scope] EXCEPT
        !.present = TRUE,
        !.status = job.prev.status,
        !.exposure = StatusOf(job.reading),
        !.capital = job.reading.value]

IngestExposureWrite ==
    /\ expJob.running
    /\ expJob' = Idle
    /\ IF TakesEffect(expJob)
       THEN /\ row' = [row EXCEPT ![expJob.scope] = ExposureRow(expJob)]
            /\ last' = [last EXCEPT ![expJob.scope].exposure = expJob.reading]
            /\ overlapped' = overlapped \ {expJob.scope}
            /\ pnlJob' = IF pnlJob.running /\ pnlJob.scope = expJob.scope
                         THEN [pnlJob EXCEPT !.torn = TRUE] ELSE pnlJob
       ELSE UNCHANGED <<row, last, overlapped, pnlJob>>
    /\ UNCHANGED day

Next ==
    \/ NextDay
    \/ IngestOnceRead
    \/ IngestOnceWrite
    \/ IngestExposureRead
    \/ IngestExposureWrite

Spec == Init /\ [][Next]_vars

(***************************************************************************)
(* The snapshot and the decision.                                          *)
(***************************************************************************)

IsPnlKnown(s) == row[s].available /\ row[s].status = "known"
IsExposureKnown(s) == row[s].exposure = "known"

Total(amounts) == FoldFunction(+, 0, amounts)
CombinedCapital == Total([s \in Scopes |-> row[s].capital])
CombinedLoss == Total([s \in Scopes |-> row[s].loss])

\* The gates of engine.py that depend on the state or on the policy's
\* switches, in their order; the others look at the request only.
Gates(s, amount, policy) ==
    << [reason |-> "global_kill", fires |-> "global" \in policy.kills],
       [reason |-> "broker_kill", fires |-> s \in policy.kills],
       [reason |-> "auto_disabled", fires |-> ~policy.auto],
       [reason |-> "combined_exposure_unknown",
        fires |-> \E t \in Scopes : ~IsExposureKnown(t)],
       [reason |-> "combined_exposure_cap_exceeded",
        fires |-> CombinedCapital + amount > Cap],
       [reason |-> "daily_pnl_unknown", fires |-> ~IsPnlKnown(s)],
       [reason |-> "global_daily_loss_unknown",
        fires |-> \E t \in Scopes : ~IsPnlKnown(t)],
       [reason |-> "global_daily_loss_exceeded",
        fires |-> CombinedLoss > LossCap],
       [reason |-> "exposure_unknown", fires |-> ~IsExposureKnown(s)] >>

Firing(gates) == {i \in DOMAIN gates : gates[i].fires}

\* Variant for mutation: gates that meet unknown data let the request pass.
Reason_Lenient(s, amount, policy) ==
    LET gates == Gates(s, amount, policy)
        firing == {i \in Firing(gates) : gates[i].reason \notin
                       {"combined_exposure_unknown", "exposure_unknown"}}
    IN  IF firing = {} THEN "allow" ELSE gates[Min(firing)].reason

\* decide: the first gate that fires names the reason.
Reason(s, amount, policy) ==
    LET gates == Gates(s, amount, policy)
    IN  IF Firing(gates) = {} THEN "allow" ELSE gates[Min(Firing(gates))].reason

\* The policy that lets most through: every gate on the policy only refuses.
Permissive == [kills |-> {}, auto |-> TRUE]

(***************************************************************************)
(* Properties.                                                             *)
(***************************************************************************)

Rows == [present : BOOLEAN, available : BOOLEAN, status : Status,
         loss : Losses \cup {0}, exposure : Status,
         capital : Capitals \cup {0}]
Jobs(values) ==
    {Idle} \cup
    [running : {TRUE}, scope : Scopes, day : 0..MaxDay,
     reading : Readings(values), prev : Rows, torn : BOOLEAN]

\* Types, and what the readers of a row rely on: an exposure that is not
\* known is stored with no capital (ingest_exposure.py:301-303).
TypeOK ==
    /\ day \in 0..MaxDay
    /\ row \in [Scopes -> Rows]
    /\ pnlJob \in Jobs(Losses) /\ expJob \in Jobs(Capitals)
    /\ last \in [Scopes -> [pnl : Readings(Losses),
                            exposure : Readings(Capitals)]]
    /\ overlapped \subseteq Scopes
    /\ \A s \in Scopes : row[s].exposure # "known" => row[s].capital = 0

\* No request is allowed on data nobody has: of every scope, the last
\* profit and the last exposure stored today were known (engine.py:31-36
\* "Unknown exposure => block auto-trade"). The exception is a scope whose
\* exposure was stored while a profit ingestion of the same scope was
\* between its read and its write: that write brings the earlier exposure
\* back, its status included.
AllowIsInformed ==
    \A s \in Scopes :
        Reason(s, 0, Permissive) = "allow" =>
            \A t \in Scopes :
                /\ last[t].pnl.known
                /\ last[t].exposure.known \/ t \in overlapped

\* The combined cap is applied to the capital last read of every scope, not
\* to an older figure, with the same exception (engine.py:559-571).
CapOnLatestReadings ==
    overlapped = {} =>
        \A s \in Scopes, amount \in 0..Cap :
            Reason(s, amount, Permissive) = "allow" =>
                ~(Total([t \in Scopes |-> last[t].exposure.value]) + amount
                      > Cap)
=============================================================================
