------------------------ MODULE RiskAuthority_proofs ------------------------
(***************************************************************************)
(* What a request is allowed on, for any set of broker scopes, any losses  *)
(* and capitals and any caps. TypeOK and the two properties hold because   *)
(* of Follows: outside overlapped, the row repeats the last readings, and  *)
(* a profit ingestion that no exposure write has overtaken still holds the *)
(* exposure columns it read.                                               *)
(***************************************************************************)
EXTENDS RiskAuthority, AuthorityGovernor, TLAPS

Follows(s) ==
    /\ row[s].available => last[s].pnl.known
    /\ s \notin overlapped =>
           /\ row[s].exposure = "known" => last[s].exposure.known
           /\ row[s].capital = last[s].exposure.value

HoldsExposure(job) ==
    job.running =>
        /\ job.day <= day
        /\ job.prev.exposure # "known" => job.prev.capital = 0
        /\ job.day = day /\ ~job.torn =>
               /\ job.prev.exposure = row[job.scope].exposure
               /\ job.prev.capital = row[job.scope].capital

IInv ==
    /\ TypeOK
    /\ \A s \in Scopes : Follows(s)
    /\ HoldsExposure(pnlJob)

LEMMA ReadingType == ASSUME NEW values, NEW r \in Readings(values)
                     PROVE  /\ r.known \in BOOLEAN
                            /\ r.value \in values \cup {0}
                            /\ ~r.known => r.value = 0
                            /\ StatusOf(r) \in {"known", "unknown"}
                            /\ StatusOf(r) = "known" <=> r.known
<1>1. CASE r = Unknown  BY <1>1 DEF Unknown, StatusOf
<1>2. CASE \E n \in values : r = Known(n)  BY <1>2 DEF Known, StatusOf
<1> QED  BY <1>1, <1>2 DEF Readings

Running(values) ==
    [running : {TRUE}, scope : Scopes, day : 0..MaxDay,
     reading : Readings(values), prev : Rows, torn : BOOLEAN]

LEMMA JobType == ASSUME NEW values, NEW job \in Jobs(values), job.running
                 PROVE  /\ job \in Running(values)
                        /\ job.scope \in Scopes /\ job.day \in 0..MaxDay
                        /\ job.reading \in Readings(values)
                        /\ job.prev \in Rows /\ job.torn \in BOOLEAN
<1>1. job # Idle  BY DEF Idle
<1>2. job \in Running(values)  BY <1>1 DEF Jobs, Running
<1> QED  BY <1>2 DEF Running

LEMMA NewJob == ASSUME TypeOK, NEW values, NEW s \in Scopes,
                       NEW r \in Readings(values)
                PROVE  Job(s, r) \in Jobs(values)
  BY DEF Job, Jobs, TypeOK

LEMMA Initially == Init => IInv
<1> SUFFICES ASSUME Init PROVE IInv  OBVIOUS
<1>1. TypeOK
  <2>1. NoRow \in Rows  BY DEF NoRow, Rows, Status
  <2>2. day \in 0..MaxDay  BY RiskAuthorityAssumption DEF Init
  <2>3. \A s \in Scopes : row[s] = NoRow  BY DEF Init
  <2>4. NoRow.capital = 0  BY DEF NoRow
  <2>5. Unknown \in Readings(Losses) /\ Unknown \in Readings(Capitals)
    BY DEF Readings
  <2>6. pnlJob \in Jobs(Losses) /\ expJob \in Jobs(Capitals)
    BY DEF Init, Jobs
  <2> QED  BY <2>1, <2>2, <2>3, <2>4, <2>5, <2>6 DEF Init, TypeOK
<1>2. \A s \in Scopes : Follows(s)
  BY DEF Init, Follows, NoRow, Unknown
<1>3. HoldsExposure(pnlJob)  BY DEF Init, HoldsExposure, Idle
<1> QED  BY <1>1, <1>2, <1>3 DEF IInv

LEMMA NextDayStep == ASSUME IInv, NextDay PROVE IInv'
<1>1. TypeOK'
  <2>1. NoRow \in Rows  BY DEF NoRow, Rows, Status
  <2>2. NoRow.capital = 0  BY DEF NoRow
  <2>3. Unknown \in Readings(Losses) /\ Unknown \in Readings(Capitals)
    BY DEF Readings
  <2>4. day' \in 0..MaxDay
    BY RiskAuthorityAssumption DEF NextDay, IInv, TypeOK
  <2>5. \A s \in Scopes : row'[s] = NoRow  BY DEF NextDay
  <2> QED  BY <2>1, <2>2, <2>3, <2>4, <2>5 DEF NextDay, IInv, TypeOK
<1>2. (\A s \in Scopes : Follows(s))'
  BY DEF NextDay, Follows, NoRow, Unknown
<1>3. HoldsExposure(pnlJob)'
  <2> SUFFICES ASSUME pnlJob.running
               PROVE  HoldsExposure(pnlJob)'
    BY DEF HoldsExposure, NextDay
  <2>1. pnlJob.day \in Int /\ pnlJob.day <= day
    BY JobType, RiskAuthorityAssumption DEF IInv, TypeOK, HoldsExposure
  <2>2. day' = day + 1 /\ day \in Int
    BY RiskAuthorityAssumption DEF NextDay, IInv, TypeOK
  <2>3. pnlJob.day # day' /\ pnlJob.day <= day'  BY <2>1, <2>2
  <2>4. pnlJob' = pnlJob  BY DEF NextDay
  <2> QED  BY <2>3, <2>4 DEF HoldsExposure, IInv
<1> QED  BY <1>1, <1>2, <1>3 DEF IInv

LEMMA PnlReadStep == ASSUME IInv, IngestOnceRead PROVE IInv'
<1>1. PICK s \in Scopes, r \in Readings(Losses) : pnlJob' = Job(s, r)
  BY DEF IngestOnceRead
<1>2. pnlJob' \in Jobs(Losses)  BY <1>1, NewJob DEF IInv
<1>3. TypeOK'  BY <1>2 DEF IngestOnceRead, IInv, TypeOK
<1>4. (\A t \in Scopes : Follows(t))'
  BY DEF IngestOnceRead, IInv, Follows
<1>5. HoldsExposure(pnlJob)'
  <2>1. pnlJob'.day = day /\ pnlJob'.prev = row[s] /\ pnlJob'.scope = s
    BY <1>1 DEF Job
  <2>2. row[s].exposure # "known" => row[s].capital = 0  BY DEF IInv, TypeOK
  <2> QED  BY <2>1, <2>2, RiskAuthorityAssumption
           DEF HoldsExposure, IngestOnceRead, IInv, TypeOK
<1> QED  BY <1>3, <1>4, <1>5 DEF IInv

LEMMA PnlWriteStep == ASSUME IInv, IngestOnceWrite PROVE IInv'
<1> DEFINE s == pnlJob.scope
           job == pnlJob
<1>1. /\ s \in Scopes /\ job.prev \in Rows /\ job.reading \in Readings(Losses)
      /\ job.day \in 0..MaxDay /\ job.torn \in BOOLEAN
  BY JobType DEF IngestOnceWrite, IInv, TypeOK
<1>2. HoldsExposure(pnlJob)'  BY DEF IngestOnceWrite, HoldsExposure, Idle
<1>3. Idle \in Jobs(Losses)  BY DEF Jobs
<1>4. CASE ~TakesEffect(job)
  <2>1. TypeOK'  BY <1>3, <1>4 DEF IngestOnceWrite, IInv, TypeOK
  <2>2. (\A t \in Scopes : Follows(t))'
    BY <1>4 DEF IngestOnceWrite, IInv, Follows
  <2> QED  BY <1>2, <2>1, <2>2 DEF IInv
<1>5. CASE TakesEffect(job)
  <2>1. /\ row' = [row EXCEPT ![s] = PnlRow(job)]
        /\ last' = [last EXCEPT ![s].pnl = job.reading]
        /\ overlapped' = overlapped \cup (IF job.torn THEN {s} ELSE {})
    BY <1>5 DEF IngestOnceWrite
  <2>2. /\ job.reading.known \in BOOLEAN /\ job.reading.value \in Losses \cup {0}
        /\ StatusOf(job.reading) \in Status
    BY <1>1, ReadingType DEF Status
  <2>3. /\ PnlRow(job).available = job.reading.known
        /\ PnlRow(job).exposure = job.prev.exposure
        /\ PnlRow(job).capital = job.prev.capital
    BY DEF PnlRow
  <2>4. PnlRow(job) \in Rows  BY <1>1, <2>2 DEF PnlRow, Rows
  <2>5. PnlRow(job).exposure # "known" => PnlRow(job).capital = 0
    BY <2>3 DEF IInv, HoldsExposure, IngestOnceWrite
  <2>6. TypeOK'
    <3>1. row' \in [Scopes -> Rows]  BY <2>1, <2>4 DEF IInv, TypeOK
    <3>2. last' \in [Scopes -> [pnl : Readings(Losses),
                                exposure : Readings(Capitals)]]
      BY <1>1, <2>1 DEF IInv, TypeOK
    <3>3. overlapped' \subseteq Scopes  BY <1>1, <2>1 DEF IInv, TypeOK
    <3>4. (\A t \in Scopes : row[t].exposure # "known" => row[t].capital = 0)'
      BY <2>1, <2>5 DEF IInv, TypeOK
    <3> QED  BY <1>3, <3>1, <3>2, <3>3, <3>4
             DEF IngestOnceWrite, IInv, TypeOK
  <2>7. ASSUME NEW t \in Scopes PROVE Follows(t)'
    <3>1. CASE t # s
      <4>1. row'[t] = row[t] /\ last'[t] = last[t]
        BY <2>1, <3>1 DEF IInv, TypeOK
      <4>2. t \notin overlapped' => t \notin overlapped  BY <2>1
      <4> QED  BY <4>1, <4>2 DEF IInv, Follows
    <3>2. CASE t = s
      <4>1. /\ row'[s] = PnlRow(job) /\ last'[s].pnl = job.reading
            /\ last'[s].exposure = last[s].exposure
        BY <1>1, <2>1 DEF IInv, TypeOK
      <4>2. s \notin overlapped' =>
              /\ s \notin overlapped
              /\ job.prev.exposure = row[s].exposure
              /\ job.prev.capital = row[s].capital
        BY <1>1, <1>5, <2>1
           DEF TakesEffect, IInv, HoldsExposure, IngestOnceWrite
      <4> QED  BY <1>1, <2>3, <3>2, <4>1, <4>2 DEF IInv, Follows
    <3> QED  BY <3>1, <3>2
  <2> QED  BY <1>2, <2>6, <2>7 DEF IInv
<1> QED  BY <1>4, <1>5

LEMMA ExposureReadStep == ASSUME IInv, IngestExposureRead PROVE IInv'
<1>1. PICK s \in Scopes, r \in Readings(Capitals) : expJob' = Job(s, r)
  BY DEF IngestExposureRead
<1>2. expJob' \in Jobs(Capitals)  BY <1>1, NewJob DEF IInv
<1>3. TypeOK'  BY <1>2 DEF IngestExposureRead, IInv, TypeOK
<1>4. (\A t \in Scopes : Follows(t))' /\ HoldsExposure(pnlJob)'
  BY DEF IngestExposureRead, IInv, Follows, HoldsExposure
<1> QED  BY <1>3, <1>4 DEF IInv

LEMMA ExposureWriteStep == ASSUME IInv, IngestExposureWrite PROVE IInv'
<1> DEFINE s == expJob.scope
           job == expJob
<1>1. /\ s \in Scopes /\ job.prev \in Rows
      /\ job.reading \in Readings(Capitals)
  BY JobType DEF IngestExposureWrite, IInv, TypeOK
<1>2. Idle \in Jobs(Capitals)  BY DEF Jobs
<1>3. CASE ~TakesEffect(job)
  BY <1>2, <1>3 DEF IngestExposureWrite, IInv, TypeOK, Follows, HoldsExposure
<1>4. CASE TakesEffect(job)
  <2>1. /\ row' = [row EXCEPT ![s] = ExposureRow(job)]
        /\ last' = [last EXCEPT ![s].exposure = job.reading]
        /\ overlapped' = overlapped \ {s}
        /\ pnlJob' = IF pnlJob.running /\ pnlJob.scope = s
                     THEN [pnlJob EXCEPT !.torn = TRUE] ELSE pnlJob
    BY <1>4 DEF IngestExposureWrite
  <2>2. /\ job.reading.known \in BOOLEAN
        /\ job.reading.value \in Capitals \cup {0}
        /\ ~job.reading.known => job.reading.value = 0
        /\ StatusOf(job.reading) \in Status
        /\ StatusOf(job.reading) = "known" <=> job.reading.known
    BY <1>1, ReadingType DEF Status
  <2>3. row[s] \in Rows  BY <1>1 DEF IInv, TypeOK
  <2>4. /\ ExposureRow(job) \in Rows
        /\ ExposureRow(job).available = row[s].available
        /\ ExposureRow(job).exposure = StatusOf(job.reading)
        /\ ExposureRow(job).capital = job.reading.value
    BY <1>1, <2>2, <2>3 DEF ExposureRow, Rows
  <2>5. TypeOK'
    <3>1. row' \in [Scopes -> Rows]  BY <2>1, <2>4 DEF IInv, TypeOK
    <3>2. last' \in [Scopes -> [pnl : Readings(Losses),
                                exposure : Readings(Capitals)]]
      BY <1>1, <2>1 DEF IInv, TypeOK
    <3>3. pnlJob' \in Jobs(Losses)
      <4>1. CASE pnlJob.running /\ pnlJob.scope = s
        <5>1. pnlJob \in Running(Losses)  BY <4>1, JobType DEF IInv, TypeOK
        <5> QED  BY <2>1, <4>1, <5>1 DEF Jobs, Running
      <4> QED  BY <2>1, <4>1 DEF IInv, TypeOK
    <3>4. (\A t \in Scopes : row[t].exposure # "known" => row[t].capital = 0)'
      BY <2>1, <2>2, <2>4 DEF IInv, TypeOK
    <3> QED  BY <1>2, <2>1, <3>1, <3>2, <3>3, <3>4
             DEF IngestExposureWrite, IInv, TypeOK
  <2>6. ASSUME NEW t \in Scopes PROVE Follows(t)'
    <3>1. CASE t # s
      <4>1. /\ row'[t] = row[t] /\ last'[t] = last[t]
            /\ t \notin overlapped' => t \notin overlapped
        BY <2>1, <3>1 DEF IInv, TypeOK
      <4> QED  BY <4>1 DEF IInv, Follows
    <3>2. CASE t = s
      <4>1. /\ row'[s] = ExposureRow(job) /\ last'[s].pnl = last[s].pnl
            /\ last'[s].exposure = job.reading
        BY <1>1, <2>1 DEF IInv, TypeOK
      <4> QED  BY <1>1, <2>2, <2>4, <3>2, <4>1 DEF IInv, Follows
    <3> QED  BY <3>1, <3>2
  <2>7. HoldsExposure(pnlJob)'
    <3>1. CASE pnlJob.running /\ pnlJob.scope = s
      <4>1. pnlJob \in Running(Losses)  BY <3>1, JobType DEF IInv, TypeOK
      <4>2. /\ pnlJob'.running /\ pnlJob'.torn /\ pnlJob'.prev = pnlJob.prev
            /\ pnlJob'.day = pnlJob.day
        BY <2>1, <3>1, <4>1 DEF Running
      <4> QED  BY <3>1, <4>2 DEF IInv, HoldsExposure, IngestExposureWrite
    <3>2. CASE pnlJob.running /\ pnlJob.scope # s
      <4>1. pnlJob' = pnlJob /\ row'[pnlJob.scope] = row[pnlJob.scope]
        BY <2>1, <3>2, JobType DEF IInv, TypeOK
      <4> QED  BY <4>1 DEF IInv, HoldsExposure, IngestExposureWrite
    <3>3. CASE ~pnlJob.running
      BY <2>1, <3>3 DEF HoldsExposure
    <3> QED  BY <3>1, <3>2, <3>3
  <2> QED  BY <2>5, <2>6, <2>7 DEF IInv
<1> QED  BY <1>3, <1>4

LEMMA Invariance == Spec => []IInv
<1>1. IInv /\ [Next]_vars => IInv'
  <2> SUFFICES ASSUME IInv, [Next]_vars PROVE IInv'  OBVIOUS
  <2>1. CASE Next
    BY <2>1, NextDayStep, PnlReadStep, PnlWriteStep, ExposureReadStep,
       ExposureWriteStep DEF Next
  <2>2. CASE UNCHANGED vars
    BY <2>2 DEF vars, IInv, TypeOK, Follows, HoldsExposure
  <2> QED  BY <2>1, <2>2
<1> QED  BY Initially, <1>1, PTL DEF Spec

(***************************************************************************)
(* An allowed request: none of the nine gates fires.                       *)
(***************************************************************************)

LEMMA MinOf == ASSUME NEW S \in SUBSET (1..9), S # {}
               PROVE  Min(S) \in S
<1>1. \E x \in S : \A y \in S : x <= y
  <2>1. CASE 1 \in S  BY <2>1
  <2>2. CASE 1 \notin S /\ 2 \in S  BY <2>2
  <2>3. CASE S \subseteq 3..9 /\ 3 \in S  BY <2>3
  <2>4. CASE S \subseteq 4..9 /\ 4 \in S  BY <2>4
  <2>5. CASE S \subseteq 5..9 /\ 5 \in S  BY <2>5
  <2>6. CASE S \subseteq 6..9 /\ 6 \in S  BY <2>6
  <2>7. CASE S \subseteq 7..9 /\ 7 \in S  BY <2>7
  <2>8. CASE S \subseteq 8..9 /\ 8 \in S  BY <2>8
  <2>9. CASE S \subseteq {9}
    <3>1. S = {9}  BY <2>9
    <3>2. \A y \in {9} : 9 <= y  OBVIOUS
    <3> QED  BY <3>1, <3>2
  <2> QED  BY <2>1, <2>2, <2>3, <2>4, <2>5, <2>6, <2>7, <2>8, <2>9
<1> QED  BY <1>1 DEF Min

LEMMA Allowed == ASSUME NEW s \in Scopes, NEW amount, NEW policy,
                        Reason(s, amount, policy) = "allow"
                 PROVE  /\ \A t \in Scopes : IsExposureKnown(t)
                        /\ \A t \in Scopes : IsPnlKnown(t)
                        /\ ~(CombinedCapital + amount > Cap)
<1> DEFINE gates == Gates(s, amount, policy)
<1>1. DOMAIN gates = 1..9  BY DEF Gates
<1>2. \A i \in 1..9 : gates[i].reason # "allow"  BY DEF Gates
<1>3. Firing(gates) = {}
  <2> SUFFICES ASSUME Firing(gates) # {} PROVE FALSE  OBVIOUS
  <2>1. Firing(gates) \subseteq 1..9  BY <1>1 DEF Firing
  <2>2. Min(Firing(gates)) \in 1..9  BY <2>1, MinOf
  <2>3. Reason(s, amount, policy) = gates[Min(Firing(gates))].reason
    BY DEF Reason
  <2> QED  BY <1>2, <2>2, <2>3
<1>4. \A i \in 1..9 : ~gates[i].fires  BY <1>1, <1>3 DEF Firing
<1>5. /\ gates[4].fires <=> \E t \in Scopes : ~IsExposureKnown(t)
      /\ gates[5].fires <=> CombinedCapital + amount > Cap
      /\ gates[7].fires <=> \E t \in Scopes : ~IsPnlKnown(t)
  BY DEF Gates
<1> QED  BY <1>4, <1>5

\* Types, and no capital beside an exposure that is not known.
THEOREM TypeCorrect == Spec => []TypeOK
<1>1. IInv => TypeOK  BY DEF IInv
<1> QED  BY <1>1, Invariance, PTL

\* A request is allowed only when the last reading of every scope, of both
\* kinds, was known, but for an exposure undone by an overlapping write.
THEOREM AllowInformed == Spec => []AllowIsInformed
<1>1. IInv => AllowIsInformed
  <2> SUFFICES ASSUME IInv, NEW s \in Scopes,
                      Reason(s, 0, Permissive) = "allow",
                      NEW t \in Scopes
               PROVE  /\ last[t].pnl.known
                      /\ last[t].exposure.known \/ t \in overlapped
    BY DEF AllowIsInformed
  <2>1. IsExposureKnown(t) /\ IsPnlKnown(t)  BY Allowed
  <2> QED  BY <2>1 DEF IsExposureKnown, IsPnlKnown, IInv, Follows
<1> QED  BY <1>1, Invariance, PTL

\* Without such a write, what is allowed fits under the combined cap beside
\* the capital last read of every scope.
THEOREM CapOnLatest == Spec => []CapOnLatestReadings
<1>1. IInv => CapOnLatestReadings
  <2> SUFFICES ASSUME IInv, overlapped = {}, NEW s \in Scopes,
                      NEW amount \in 0..Cap,
                      Reason(s, amount, Permissive) = "allow"
               PROVE  ~(Total([t \in Scopes |-> last[t].exposure.value])
                            + amount > Cap)
    BY DEF CapOnLatestReadings
  <2>1. ~(CombinedCapital + amount > Cap)  BY Allowed
  <2>2. [t \in Scopes |-> row[t].capital]
          = [t \in Scopes |-> last[t].exposure.value]
    BY DEF IInv, Follows
  <2> QED  BY <2>1, <2>2 DEF CombinedCapital
<1> QED  BY <1>1, Invariance, PTL

-----------------------------------------------------------------------------
(***************************************************************************)
(* The governor's latches, for any number of days. GovIInv says which      *)
(* latch the state carries for what is owed: the day latch of today, or    *)
(* the manual one, which stands in for it.                                 *)
(***************************************************************************)

GovIInv ==
    /\ GovTypeOK
    /\ lossDay <= today
    /\ lossDay = today => /\ state.manual \/ InSameDay
                          /\ state.authority <= SIGNAL_ONLY
    /\ owed # NoReason => /\ state.manual /\ state.latched = owed
                          /\ state.authority <= Target(owed)

LEMMA LowerOf == ASSUME NEW a \in Authority, NEW b \in Authority,
                        NEW c \in Authority, NEW d \in Authority
                 PROVE  LET l == Lower({a, b, c, d})
                        IN  l \in Authority /\ l <= a /\ l <= b /\ l <= c /\ l <= d
<1>1. \E x \in {a, b, c, d} : \A y \in {a, b, c, d} : x <= y
  <2> USE DEF Authority, OFF, AUTO_ALLOWED
  <2>1. CASE a <= b /\ a <= c /\ a <= d  BY <2>1
  <2>2. CASE b <= a /\ b <= c /\ b <= d  BY <2>2
  <2>3. CASE c <= a /\ c <= b /\ c <= d  BY <2>3
  <2>4. CASE d <= a /\ d <= b /\ d <= c  BY <2>4
  <2> QED  BY <2>1, <2>2, <2>3, <2>4
<1> QED  BY <1>1 DEF Lower

LEMMA Levels == /\ \A r \in Reasons \cup {NoReason} : Target(r) \in Authority
                /\ ManualClamp \in Authority /\ DayClamp \in Authority
  BY DEF Target, ManualClamp, DayClamp, Authority, OFF, SIGNAL_ONLY,
         AUTO_ALLOWED

LEMMA NextLatchType ==
    ASSUME GovTypeOK, NEW reason \in Reasons \cup {NoReason}
    PROVE  NextLatch(reason) \in
               [latched : Reasons \cup {NoReason},
                latchedDay : {NoDay} \cup 0..MaxToday, manual : BOOLEAN,
                fresh : 0..3]
<1> USE DEF GovTypeOK, Latch, Reasons
<1>1. CASE reason \in MANUAL_RESET_ONLY  BY <1>1 DEF NextLatch
<1>2. CASE reason \in DAY_LATCH
  BY <1>2 DEF NextLatch, DAY_LATCH, MANUAL_RESET_ONLY
<1>3. CASE reason \notin MANUAL_RESET_ONLY \cup DAY_LATCH
  BY <1>3 DEF NextLatch, NoReason, NoDay, InSameDay
<1> QED  BY <1>1, <1>2, <1>3

\* Which latch the next state carries.
LEMMA NextLatchKeeps ==
    ASSUME NEW reason \in Reasons \cup {NoReason}
    PROVE  /\ reason \in MANUAL_RESET_ONLY =>
                  NextLatch(reason).manual /\ NextLatch(reason).latched = reason
           /\ reason \in DAY_LATCH =>
                  /\ NextLatch(reason).latched = reason
                  /\ NextLatch(reason).latchedDay = today
           /\ reason \notin MANUAL_RESET_ONLY \cup DAY_LATCH /\ state.manual =>
                  /\ NextLatch(reason).manual
                  /\ NextLatch(reason).latched = state.latched
           /\ reason \notin MANUAL_RESET_ONLY \cup DAY_LATCH /\ ~state.manual
              /\ InSameDay =>
                  /\ NextLatch(reason).latched = state.latched
                  /\ NextLatch(reason).latchedDay = state.latchedDay
<1>1. CASE reason \in MANUAL_RESET_ONLY
  <2>1. NextLatch(reason) = Latch(reason, today, TRUE, 0)
    BY <1>1 DEF NextLatch, MANUAL_RESET_ONLY, DAY_LATCH, AUTO_RESTORE,
                NoReason
  <2> QED  BY <1>1, <2>1 DEF Latch, MANUAL_RESET_ONLY, DAY_LATCH
<1>2. CASE reason \in DAY_LATCH
  <2>1. reason \notin MANUAL_RESET_ONLY
    BY <1>2 DEF MANUAL_RESET_ONLY, DAY_LATCH
  <2>2. NextLatch(reason) = Latch(reason, today, FALSE, 0)
    BY <1>2, <2>1 DEF NextLatch, MANUAL_RESET_ONLY, DAY_LATCH, AUTO_RESTORE,
                      NoReason
  <2> QED  BY <1>2, <2>1, <2>2 DEF Latch
<1>3. CASE reason \notin MANUAL_RESET_ONLY \cup DAY_LATCH
  <2>1. CASE state.manual
    <3>1. NextLatch(reason) = Latch(state.latched, state.latchedDay, TRUE, 0)
      BY <1>3, <2>1 DEF NextLatch
    <3> QED  BY <1>3, <2>1, <3>1 DEF Latch
  <2>2. CASE ~state.manual /\ InSameDay
    <3>1. NextLatch(reason) = Latch(state.latched, state.latchedDay, FALSE, 0)
      BY <1>3, <2>2 DEF NextLatch
    <3> QED  BY <1>3, <2>2, <3>1 DEF Latch
  <2>3. CASE ~state.manual /\ ~InSameDay  BY <1>3, <2>3
  <2> QED  BY <2>1, <2>2, <2>3
<1> QED  BY <1>1, <1>2, <1>3

LEMMA ProposeStep ==
    ASSUME GovIInv, NEW before \in Authority,
           NEW reason \in Reasons \cup {NoReason}, Propose(before, reason)
    PROVE  /\ GovIInv'
           /\ owed # NoReason => state'.authority <= Target(owed)
<1> DEFINE next == NextLatch(reason)
           levels == {before, Target(reason), ManualClamp, DayClamp}
<1>1. /\ state'.authority = Lower(levels) /\ state'.latched = next.latched
      /\ state'.latchedDay = next.latchedDay /\ state'.manual = next.manual
      /\ state' = [authority |-> Lower(levels), latchedDay |-> next.latchedDay,
                   latched |-> next.latched, manual |-> next.manual,
                   fresh |-> next.fresh]
      /\ today' = today
  BY DEF Propose
<1>2. /\ Lower(levels) \in Authority /\ Lower(levels) <= Target(reason)
      /\ Lower(levels) <= ManualClamp /\ Lower(levels) <= DayClamp
  BY LowerOf, Levels
<1>3. GovTypeOK'
  <2>1. state' \in [authority : Authority,
                    latchedDay : {NoDay} \cup 0..MaxToday,
                    latched : Reasons \cup {NoReason}, manual : BOOLEAN,
                    fresh : 0..3]
    BY <1>1, <1>2, NextLatchType DEF GovIInv
  <2>2. owed' \in MANUAL_RESET_ONLY \cup {NoReason}
        /\ lossDay' \in {NoDay} \cup 0..MaxToday
    BY DEF Propose, GovIInv, GovTypeOK, MANUAL_RESET_ONLY, DAY_LATCH
  <2> QED  BY <1>1, <2>1, <2>2 DEF GovIInv, GovTypeOK
<1>4. owed # NoReason => state'.authority <= Target(owed)
  BY <1>1, <1>2 DEF GovIInv, GovTypeOK, ManualClamp, Target, MANUAL_RESET_ONLY,
                    NoReason
<1>5. (owed # NoReason => /\ state.manual /\ state.latched = owed
                          /\ state.authority <= Target(owed))'
  <2>1. CASE reason \in MANUAL_RESET_ONLY
    <3>1. owed' = reason  BY <2>1 DEF Propose, MANUAL_RESET_ONLY, DAY_LATCH
    <3> QED  BY <1>1, <1>2, <2>1, <3>1, NextLatchKeeps DEF Target
  <2>2. CASE reason \in DAY_LATCH
    BY <2>2 DEF Propose, MANUAL_RESET_ONLY, DAY_LATCH
  <2>3. CASE reason \notin MANUAL_RESET_ONLY \cup DAY_LATCH
    <3>1. owed' = owed  BY <2>3 DEF Propose
    <3> QED  BY <1>1, <1>4, <2>3, <3>1, NextLatchKeeps DEF GovIInv, Target
  <2> QED  BY <2>1, <2>2, <2>3
<1>6. (lossDay <= today)'
  BY <1>1, AuthorityGovernorAssumption DEF Propose, GovIInv, GovTypeOK
<1>7. (lossDay = today => /\ state.manual \/ InSameDay
                          /\ state.authority <= SIGNAL_ONLY)'
  <2>1. CASE reason \in MANUAL_RESET_ONLY
    <3>1. Target(reason) \in {OFF, SIGNAL_ONLY}
      BY <2>1 DEF Target, MANUAL_RESET_ONLY
    <3>2. state'.authority <= SIGNAL_ONLY
      BY <1>1, <1>2, <3>1 DEF OFF, SIGNAL_ONLY, Authority, AUTO_ALLOWED
    <3> QED  BY <1>1, <2>1, <3>2, NextLatchKeeps
  <2>2. CASE reason \in DAY_LATCH
    <3>1. Target(reason) = SIGNAL_ONLY  BY <2>2 DEF Target, DAY_LATCH
    <3>2. InSameDay'  BY <1>1, <2>2, NextLatchKeeps DEF InSameDay
    <3> QED  BY <1>1, <1>2, <3>1, <3>2
  <2>3. CASE reason \notin MANUAL_RESET_ONLY \cup DAY_LATCH /\ lossDay = today
    <3>1. CASE state.manual
      <4>1. ManualClamp <= SIGNAL_ONLY
        BY <3>1 DEF ManualClamp, OFF, SIGNAL_ONLY
      <4>2. state'.authority <= SIGNAL_ONLY
        BY <1>1, <1>2, <4>1, Levels
           DEF OFF, SIGNAL_ONLY, Authority, AUTO_ALLOWED
      <4> QED  BY <1>1, <2>3, <3>1, <4>2, NextLatchKeeps
    <3>2. CASE ~state.manual
      <4>1. InSameDay  BY <2>3, <3>2 DEF GovIInv
      <4>2. DayClamp = SIGNAL_ONLY  BY <4>1 DEF DayClamp
      <4>3. InSameDay'
        BY <1>1, <2>3, <3>2, <4>1, NextLatchKeeps DEF InSameDay
      <4> QED  BY <1>1, <1>2, <4>2, <4>3
    <3> QED  BY <3>1, <3>2
  <2>4. CASE reason \notin MANUAL_RESET_ONLY \cup DAY_LATCH /\ lossDay # today
    BY <1>1, <2>4 DEF Propose
  <2> QED  BY <2>1, <2>2, <2>3, <2>4
<1> QED  BY <1>3, <1>4, <1>5, <1>6, <1>7 DEF GovIInv

LEMMA ResetStep ==
    ASSUME GovIInv, NEW level \in Authority, ApplyManualReset(level)
    PROVE  GovIInv'
<1>1. GovTypeOK'
  <2>1. state' = [authority |-> level, latchedDay |-> NoDay,
                  latched |-> NoReason, manual |-> FALSE, fresh |-> 0]
    BY DEF ApplyManualReset, Fresh
  <2>2. state' \in [authority : Authority,
                    latchedDay : {NoDay} \cup 0..MaxToday,
                    latched : Reasons \cup {NoReason}, manual : BOOLEAN,
                    fresh : 0..3]
    BY <2>1
  <2>3. today' = today /\ owed' = NoReason /\ lossDay' = NoDay
    BY DEF ApplyManualReset
  <2> QED  BY <2>2, <2>3 DEF GovIInv, GovTypeOK
<1>2. lossDay' # today' /\ lossDay' <= today'
  BY AuthorityGovernorAssumption
     DEF GovIInv, GovTypeOK, ApplyManualReset, NoDay
<1> QED  BY <1>1, <1>2 DEF GovIInv, ApplyManualReset

LEMMA MidnightStep == ASSUME GovIInv, Midnight PROVE GovIInv'
<1> USE AuthorityGovernorAssumption
<1>1. GovTypeOK'  BY DEF GovIInv, GovTypeOK, Midnight
<1>2. lossDay' # today' /\ lossDay' <= today'
  BY DEF GovIInv, GovTypeOK, Midnight, NoDay
<1> QED  BY <1>1, <1>2 DEF GovIInv, Midnight

LEMMA StepKeeps == GovIInv /\ [GovNext]_govVars => GovIInv'
<1> SUFFICES ASSUME GovIInv, [GovNext]_govVars PROVE GovIInv'  OBVIOUS
<1>1. CASE GovNext  BY <1>1, ProposeStep, ResetStep, MidnightStep DEF GovNext
<1>2. CASE UNCHANGED govVars
  BY <1>2 DEF govVars, GovIInv, GovTypeOK, InSameDay
<1> QED  BY <1>1, <1>2

LEMMA GovInitially == GovInit => GovIInv
  BY AuthorityGovernorAssumption
     DEF GovInit, GovIInv, GovTypeOK, Fresh, NoDay, NoReason, Authority, OFF,
         AUTO_ALLOWED

LEMMA GovInvariance == GovSpec => []GovIInv
  BY GovInitially, StepKeeps, PTL DEF GovSpec

\* Types.
THEOREM GovTypeCorrect == GovSpec => []GovTypeOK
<1>1. GovIInv => GovTypeOK  BY DEF GovIInv
<1> QED  BY <1>1, GovInvariance, PTL

\* After a daily-loss block the scope is at SIGNAL_ONLY or below all day.
THEOREM DayLatch == GovSpec => []DayLatchHolds
<1>1. GovIInv => DayLatchHolds  BY DEF GovIInv, DayLatchHolds
<1> QED  BY <1>1, GovInvariance, PTL

\* What a kill switch or the throttle latched, only the operator undoes.
THEOREM ManualLatch == GovSpec => ManualLatchHolds
<1>1. GovIInv /\ [GovNext]_govVars =>
          [owed # NoReason /\ owed' # NoReason =>
               state'.authority <= Target(owed)]_govVars
  <2> SUFFICES ASSUME GovIInv, GovNext, owed # NoReason, owed' # NoReason
               PROVE  state'.authority <= Target(owed)
    OBVIOUS
  <2>1. CASE \E before \in Authority, reason \in Reasons \cup {NoReason} :
                 Propose(before, reason)
    BY <2>1, ProposeStep
  <2>2. CASE \E level \in Authority : ApplyManualReset(level)
    BY <2>2 DEF ApplyManualReset
  <2>3. CASE Midnight  BY <2>3 DEF Midnight, GovIInv
  <2> QED  BY <2>1, <2>2, <2>3 DEF GovNext
<1> QED  BY <1>1, GovInvariance, PTL DEF GovSpec, ManualLatchHolds
=============================================================================
