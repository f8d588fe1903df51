------------------------ MODULE TradingPolicy_proofs ------------------------
(***************************************************************************)
(* The policy's writers and its cached reader, for any number of writers,  *)
(* any windows and any time to live. IInv adds to the types what a pending *)
(* write holds and when the document last refused the lane.                *)
(***************************************************************************)
EXTENDS TradingPolicy, TLAPS

\* What a pending write holds: its changes to the switches it saw and, of
\* enable, a document that authorizes the paper lane and no other.
Sound(job) ==
    job # Idle =>
        /\ ~job.stale => job.saw = doc.kills
        /\ job.op # "clear" => job.written.kills = job.saw
        /\ job.op = "enable" =>
               /\ job.written.complete
               /\ job.written.kills \cap {Global, Paper} = {}
               /\ {Global, Paper} \subseteq job.written.auto
               /\ Live \notin job.written.auto
               /\ Paper \in job.written.allowed
               /\ job.written.until[Global] = job.written.until[Paper]

IInv ==
    /\ TypeOK
    /\ \A w \in Writers : Sound(jobs[w])
    /\ refusedAt <= clock
    /\ ~Authorized(doc, Paper, clock) => refusedAt = clock
    /\ cache.skip => cache.at <= refusedAt
    /\ AllowIsCurrent
    /\ RefusalIsRecent

Pending == [op : {"enable", "disable", "clear"}, saw : SUBSET Blocks,
            written : Documents, stale : BOOLEAN]

LEMMA PendingType == /\ Jobs = {Idle} \cup Pending
                     /\ Idle \notin Pending
<1>1. \A job \in Pending : job.op # "idle"  BY DEF Pending
<1> QED  BY <1>1 DEF Jobs, Pending, Idle

LEMMA Initially == Init => IInv
<1> SUFFICES ASSUME Init PROVE IInv  OBVIOUS
<1> USE TradingPolicyAssumption
<1>1. DEFAULT_POLICY \in Documents
  BY DEF DEFAULT_POLICY, Documents, Instants
<1>2. Old \in Documents
  BY <1>1 DEF Old, Documents, Blocks
<1>3. ~Authorized(doc, Paper, clock)
  <2>1. ~Authorized(DEFAULT_POLICY, Paper, clock)
    BY DEF Authorized, DEFAULT_POLICY
  <2>2. Old.complete = FALSE  BY DEF Old, DEFAULT_POLICY
  <2>3. ~Authorized(Old, Paper, clock)  BY <2>2 DEF Authorized
  <2> QED  BY <2>1, <2>3 DEF Init
<1>4. TypeOK
  <2>1. NoEntry \in [skip : BOOLEAN, at : (-Ttl)..MaxClock]  BY DEF NoEntry
  <2>2. Idle \in Jobs  BY DEF Jobs
  <2> QED  BY <1>1, <1>2, <2>1, <2>2 DEF Init, TypeOK
<1>5. \A w \in Writers : Sound(jobs[w])  BY DEF Init, Sound
<1>6. AllowIsCurrent /\ RefusalIsRecent
  BY DEF Init, NoAnswer, AllowIsCurrent, RefusalIsRecent
<1> QED  BY <1>3, <1>4, <1>5, <1>6 DEF Init, IInv, NoEntry

\* What the two tests of refusedAt follow from when the document or the
\* time has changed.
LEMMA Tracked ==
    ASSUME IInv, TrackRefusals, clock' \in 0..MaxClock, clock <= clock',
           UNCHANGED cache
    PROVE  /\ refusedAt' \in 0..MaxClock /\ refusedAt' <= clock'
           /\ ~Authorized(doc', Paper, clock') => refusedAt' = clock'
           /\ cache'.skip => cache'.at <= refusedAt'
<1>1. /\ refusedAt \in Int /\ refusedAt \in 0..MaxClock /\ clock \in Int
      /\ cache.at \in Int /\ MaxClock \in Int
  BY TradingPolicyAssumption DEF IInv, TypeOK
<1>2. CASE Authorized(doc', Paper, clock')
  BY <1>1, <1>2 DEF TrackRefusals, IInv
<1>3. CASE ~Authorized(doc', Paper, clock')
  BY <1>1, <1>3 DEF TrackRefusals, IInv
<1> QED  BY <1>2, <1>3

LEMMA TickStep == ASSUME IInv, Tick PROVE IInv'
<1>1. /\ clock' \in 0..MaxClock /\ clock <= clock' /\ doc' = doc
      /\ jobs' = jobs /\ cache' = cache /\ answer' = NoAnswer /\ TrackRefusals
  BY TradingPolicyAssumption DEF Tick, IInv, TypeOK
<1>2. TypeOK'  BY <1>1, Tracked DEF IInv, TypeOK
<1>3. (\A w \in Writers : Sound(jobs[w]))'  BY <1>1 DEF IInv, Sound
<1>4. AllowIsCurrent' /\ RefusalIsRecent'
  BY <1>1 DEF NoAnswer, AllowIsCurrent, RefusalIsRecent
<1> QED  BY <1>1, <1>2, <1>3, <1>4, Tracked DEF IInv

LEMMA LoadStep ==
    ASSUME IInv, NEW w \in Writers, NEW op \in {"enable", "disable", "clear"},
           NEW written \in Documents, Load(w, op, written),
           op # "clear" => written.kills = doc.kills,
           op = "enable" => /\ written.complete
                            /\ written.kills \cap {Global, Paper} = {}
                            /\ {Global, Paper} \subseteq written.auto
                            /\ Live \notin written.auto
                            /\ Paper \in written.allowed
                            /\ written.until[Global] = written.until[Paper]
    PROVE  IInv'
<1> DEFINE job == [op |-> op, saw |-> doc.kills, written |-> written,
                   stale |-> FALSE]
<1>1. /\ jobs' = [jobs EXCEPT ![w] = job]
      /\ UNCHANGED <<clock, doc, cache, answer, refusedAt>>
  BY DEF Load
<1>2. job \in Pending  BY DEF Pending, IInv, TypeOK, Documents
<1>3. TypeOK'  BY <1>1, <1>2, PendingType DEF IInv, TypeOK
<1>4. ASSUME NEW v \in Writers PROVE Sound(jobs[v])'
  <2>1. CASE v = w
    <3>1. jobs'[v] = job  BY <1>1, <2>1 DEF IInv, TypeOK
    <3> QED  BY <1>1, <3>1 DEF Sound
  <2>2. CASE v # w
    <3>1. jobs'[v] = jobs[v]  BY <1>1, <2>2 DEF IInv, TypeOK
    <3> QED  BY <1>1, <3>1 DEF Sound, IInv
  <2> QED  BY <2>1, <2>2
<1>5. AllowIsCurrent' /\ RefusalIsRecent'
  BY <1>1 DEF IInv, AllowIsCurrent, RefusalIsRecent, Authorized
<1> QED  BY <1>1, <1>3, <1>4, <1>5 DEF IInv, Authorized

LEMMA EnableStep == ASSUME IInv, NEW w \in Writers, Enable(w) PROVE IInv'
<1>1. PICK hours \in Hours : Load(w, "enable", Enabled(doc, clock + hours))
  BY DEF Enable
<1> DEFINE new == Enabled(doc, clock + hours)
<1>2. clock + hours \in Instants
  BY TradingPolicyAssumption DEF IInv, TypeOK, Instants
<1>3. doc \in Documents  BY DEF IInv, TypeOK
<1>4. /\ new \in Documents /\ new.complete /\ new.kills = doc.kills
      /\ new.auto = doc.auto \cup {Global, Paper}
      /\ new.allowed = doc.allowed \cup {Paper}
      /\ new.until[Global] = clock + hours /\ new.until[Paper] = clock + hours
  BY <1>2, <1>3 DEF Enabled, Documents, Blocks, Lanes, Global, Paper, Live
<1>5. doc.kills \cap {Global, Paper} = {} /\ Live \notin doc.auto
  BY DEF Enable, MayEnable
<1>6. Live \notin new.auto  BY <1>4, <1>5 DEF Global, Paper, Live
<1> QED  BY <1>1, <1>4, <1>5, <1>6, LoadStep

LEMMA DisableStep == ASSUME IInv, NEW w \in Writers, Disable(w) PROVE IInv'
<1>1. doc \in Documents  BY DEF IInv, TypeOK
<1>2. 0 \in Instants  BY TradingPolicyAssumption DEF Instants
<1>3. Disabled(doc) \in Documents /\ Disabled(doc).kills = doc.kills
  BY <1>1, <1>2 DEF Disabled, Documents
<1> QED  BY <1>3, LoadStep DEF Disable

LEMMA ResetStep == ASSUME IInv, NEW w \in Writers, Reset(w) PROVE IInv'
<1>1. doc \in Documents  BY DEF IInv, TypeOK
<1>2. [doc EXCEPT !.kills = @ \ KILL_SWITCH_SCOPES] \in Documents
  BY <1>1 DEF Documents
<1> QED  BY <1>2, LoadStep DEF Reset

LEMMA EditStep == ASSUME IInv, NEW w \in Writers, Edit(w) PROVE IInv'
<1>1. PICK policy \in Edits(doc) : Load(w, "clear", policy)  BY DEF Edit
<1>2. policy \in Documents
  <2>1. doc \in Documents  BY DEF IInv, TypeOK
  <2>2. clock + MaxHours \in Instants
    BY TradingPolicyAssumption DEF IInv, TypeOK, Instants
  <2>3. Switches \subseteq Blocks  BY TradingPolicyAssumption
  <2>4. \A b \in Switches :
          /\ [doc EXCEPT !.complete = TRUE, !.kills = @ \cup {b}] \in Documents
          /\ [doc EXCEPT !.complete = TRUE, !.kills = @ \ {b}] \in Documents
    BY <2>1, <2>3 DEF Documents
  <2>5. [doc EXCEPT !.complete = TRUE, !.auto = @ \cup {Global, Live},
                    !.until = [@ EXCEPT ![Global] = clock + MaxHours,
                                        ![Live] = clock + MaxHours]]
          \in Documents
    BY <2>1, <2>2 DEF Documents, Blocks, Lanes
  <2> QED  BY <2>4, <2>5 DEF Edits
<1> QED  BY <1>1, <1>2, LoadStep

LEMMA WriteStep == ASSUME IInv, NEW w \in Writers, Write(w) PROVE IInv'
<1>1. /\ jobs[w] \in Pending
      /\ doc' = jobs[w].written /\ answer' = NoAnswer
      /\ clock' = clock /\ cache' = cache /\ TrackRefusals
  BY PendingType DEF Write, IInv, TypeOK
<1>2. ASSUME NEW v \in Writers
      PROVE  /\ jobs'[v] \in Jobs
             /\ Sound(jobs[v])'
  <2>1. CASE v = w \/ jobs[v] = Idle
    <3>1. jobs'[v] = Idle  BY <2>1 DEF Write
    <3> QED  BY <3>1 DEF Sound, Jobs
  <2>2. CASE v # w /\ jobs[v] # Idle
    <3>1. jobs[v] \in Pending  BY <2>2, PendingType DEF IInv, TypeOK
    <3>2. jobs'[v] = [jobs[v] EXCEPT !.stale = TRUE]  BY <2>2 DEF Write
    <3>3. /\ jobs'[v] \in Pending /\ jobs'[v].stale = TRUE
          /\ jobs'[v].op = jobs[v].op /\ jobs'[v].saw = jobs[v].saw
          /\ jobs'[v].written = jobs[v].written
      BY <3>1, <3>2 DEF Pending
    <3> QED  BY <2>2, <3>3, PendingType DEF Sound, IInv
  <2> QED  BY <2>1, <2>2
<1>3. jobs' = [v \in Writers |-> jobs'[v]]  BY DEF Write
<1>4. clock' \in 0..MaxClock /\ clock <= clock'
  BY <1>1, TradingPolicyAssumption DEF IInv, TypeOK
<1>5. TypeOK'
  <2>1. doc' \in Documents  BY <1>1 DEF Pending
  <2>2. jobs' \in [Writers -> Jobs]  BY <1>2, <1>3
  <2> QED  BY <1>1, <1>4, <2>1, <2>2, Tracked DEF IInv, TypeOK
<1>6. AllowIsCurrent' /\ RefusalIsRecent'
  BY <1>1 DEF NoAnswer, AllowIsCurrent, RefusalIsRecent
<1> QED  BY <1>1, <1>2, <1>4, <1>5, <1>6, Tracked DEF IInv

LEMMA AbandonStep == ASSUME IInv, NEW w \in Writers, Abandon(w) PROVE IInv'
<1>1. /\ jobs' = [jobs EXCEPT ![w] = Idle]
      /\ UNCHANGED <<clock, doc, cache, answer, refusedAt>>
  BY DEF Abandon
<1>2. TypeOK'  BY <1>1 DEF IInv, TypeOK, Jobs
<1>3. (\A v \in Writers : Sound(jobs[v]))'
  BY <1>1 DEF IInv, TypeOK, Sound
<1>4. AllowIsCurrent' /\ RefusalIsRecent'
  BY <1>1 DEF IInv, AllowIsCurrent, RefusalIsRecent, Authorized
<1> QED  BY <1>1, <1>2, <1>3, <1>4 DEF IInv, Authorized

LEMMA ReasonStep ==
    ASSUME IInv, NEW readable \in BOOLEAN, GetSignalOnlyReason(readable)
    PROVE  IInv'
<1> DEFINE skip == ~Authorized(doc, Paper, clock)
<1>1. UNCHANGED <<clock, doc, jobs, refusedAt>>  BY DEF GetSignalOnlyReason
<1>2. /\ clock \in 0..MaxClock /\ refusedAt \in 0..MaxClock
      /\ cache \in [skip : BOOLEAN, at : (-Ttl)..MaxClock]
      /\ Ttl \in Nat /\ MaxClock \in Nat
  BY TradingPolicyAssumption DEF IInv, TypeOK
<1>3. skip \in BOOLEAN  BY DEF Authorized
<1>4. (\A w \in Writers : Sound(jobs[w]))'  BY <1>1 DEF IInv, Sound
<1>5. CASE ServesCached(cache)
  <2>1. /\ answer' = [given |-> TRUE, skip |-> cache.skip, known |-> TRUE]
        /\ cache' = cache
    BY <1>5 DEF GetSignalOnlyReason
  <2>2. cache.skip /\ clock - cache.at < Ttl  BY <1>5 DEF ServesCached
  <2>3. refusedAt + Ttl > clock  BY <1>2, <2>2 DEF IInv
  <2>4. TypeOK'  BY <1>1, <1>2, <2>1 DEF IInv, TypeOK
  <2>5. AllowIsCurrent' /\ RefusalIsRecent'
    BY <1>1, <2>1, <2>2, <2>3 DEF AllowIsCurrent, RefusalIsRecent
  <2> QED  BY <1>1, <1>4, <2>1, <2>4, <2>5 DEF IInv, Authorized
<1>6. CASE ~ServesCached(cache) /\ cache' = [skip |-> skip, at |-> clock]
           /\ answer' = [given |-> TRUE, skip |-> skip, known |-> TRUE]
  <2>1. [skip |-> skip, at |-> clock] \in [skip : BOOLEAN, at : (-Ttl)..MaxClock]
    BY <1>2, <1>3
  <2>2. TypeOK'  BY <1>1, <1>3, <1>6, <2>1 DEF IInv, TypeOK
  <2>3. skip => refusedAt = clock  BY DEF IInv
  <2>4. Authorized(doc', Paper, clock') = Authorized(doc, Paper, clock)
    BY <1>1 DEF Authorized
  <2>5. AllowIsCurrent' /\ RefusalIsRecent'
    BY <1>1, <1>6, <2>3, <2>4 DEF AllowIsCurrent, RefusalIsRecent
  <2>6. cache'.skip => cache'.at <= refusedAt'
    <3>1. (cache'.skip => skip) /\ cache'.at = clock /\ refusedAt' = refusedAt
      BY <1>1, <1>3, <1>6, Zenon
    <3>2. skip => clock <= refusedAt'  BY <1>2, <2>3, <3>1
    <3> HIDE DEF skip
    <3> QED  BY <3>1, <3>2, Zenon
  <2> QED  BY <1>1, <1>4, <2>2, <2>4, <2>5, <2>6 DEF IInv
<1>7. CASE cache' = cache
           /\ answer' = [given |-> TRUE, skip |-> TRUE, known |-> FALSE]
  <2>1. TypeOK'  BY <1>1, <1>7 DEF IInv, TypeOK
  <2>2. AllowIsCurrent' /\ RefusalIsRecent'
    BY <1>7 DEF AllowIsCurrent, RefusalIsRecent
  <2> QED  BY <1>1, <1>4, <1>7, <2>1, <2>2 DEF IInv, Authorized
<1> QED  BY <1>5, <1>6, <1>7 DEF GetSignalOnlyReason

LEMMA RestartStep == ASSUME IInv, Restart PROVE IInv'
<1>1. /\ cache' = NoEntry /\ answer' = NoAnswer
      /\ UNCHANGED <<clock, doc, jobs, refusedAt>>
  BY DEF Restart
<1>2. NoEntry \in [skip : BOOLEAN, at : (-Ttl)..MaxClock]
  BY TradingPolicyAssumption DEF NoEntry
<1>3. TypeOK'  BY <1>1, <1>2 DEF IInv, TypeOK
<1>4. AllowIsCurrent' /\ RefusalIsRecent'
  BY <1>1 DEF NoAnswer, AllowIsCurrent, RefusalIsRecent
<1> QED  BY <1>1, <1>3, <1>4 DEF IInv, NoEntry, Sound, Authorized

LEMMA Step == IInv /\ [Next]_vars => IInv'
<1>1. ASSUME IInv, UNCHANGED vars PROVE IInv'
  <2>1. UNCHANGED <<clock, doc, jobs, cache, answer, refusedAt>>
    BY <1>1 DEF vars
  <2>2. TypeOK'  BY <1>1, <2>1 DEF IInv, TypeOK
  <2>3. (\A w \in Writers : Sound(jobs[w]))'
    BY <1>1, <2>1 DEF IInv, Sound
  <2>4. Authorized(doc', Paper, clock') = Authorized(doc, Paper, clock)
    BY <2>1 DEF Authorized
  <2>5. AllowIsCurrent' /\ RefusalIsRecent'
    BY <1>1, <2>1, <2>4 DEF IInv, AllowIsCurrent, RefusalIsRecent
  <2> QED  BY <1>1, <2>1, <2>2, <2>3, <2>4, <2>5 DEF IInv
<1> QED
  BY <1>1, TickStep, EnableStep, DisableStep, ResetStep, EditStep, WriteStep,
     AbandonStep, ReasonStep, RestartStep DEF Next

LEMMA Invariance == Spec => []IInv
BY Initially, Step, PTL DEF Spec

\* Every reachable state is a state of the policy's tables and of the cache.
THEOREM TypeCorrect == Spec => []TypeOK
<1>1. IInv => TypeOK  BY DEF IInv
<1> QED  BY <1>1, Invariance, PTL

\* No answer that lets a submission through is older than the document.
THEOREM AllowCurrent == Spec => []AllowIsCurrent
<1>1. IInv => AllowIsCurrent  BY DEF IInv
<1> QED  BY <1>1, Invariance, PTL

\* The cache delays an authorization by less than its time to live.
THEOREM RefusalRecent == Spec => []RefusalIsRecent
<1>1. IInv => RefusalIsRecent  BY DEF IInv
<1> QED  BY <1>1, Invariance, PTL

\* Enabling and disabling a lane never clear a kill switch, whoever else
\* writes, unless they write a copy that has been overtaken.
THEOREM KillKept == Spec => KillSurvives
<1> DEFINE Cleared(b, w) ==
       /\ jobs[w] # Idle /\ jobs'[w] = Idle
       /\ \/ jobs[w].stale
          \/ jobs[w].op = "clear" /\ b \in jobs[w].saw
<1>1. ASSUME IInv, [Next]_vars, NEW b \in doc.kills \ doc'.kills
      PROVE  \E w \in Writers : Cleared(b, w)
  <2>1. PICK w \in Writers : Write(w)
    <3>1. doc' # doc  BY <1>1
    <3> QED
      BY <1>1, <3>1 DEF Next, vars, Tick, Enable, Disable, Reset, Edit, Load,
                        Abandon, GetSignalOnlyReason, Restart
  <2>2. jobs[w] # Idle /\ jobs'[w] = Idle /\ doc' = jobs[w].written
    BY <2>1 DEF Write
  <2>3. CASE jobs[w].stale  BY <2>2, <2>3
  <2>4. CASE ~jobs[w].stale
    <3>1. jobs[w].saw = doc.kills  BY <1>1, <2>2, <2>4 DEF IInv, Sound
    <3>2. jobs[w].op # "clear" => doc'.kills = doc.kills
      BY <1>1, <2>2, <3>1 DEF IInv, Sound
    <3>3. jobs[w].op = "clear"  BY <1>1, <3>2
    <3> QED  BY <1>1, <2>2, <3>1, <3>3
  <2> QED  BY <2>3, <2>4
<1>2. IInv /\ [Next]_vars
        => [\A b \in doc.kills \ doc'.kills :
                \E w \in Writers :
                    /\ jobs[w] # Idle /\ jobs'[w] = Idle
                    /\ \/ jobs[w].stale
                       \/ jobs[w].op = "clear" /\ b \in jobs[w].saw]_vars
  BY <1>1
<1> QED  BY <1>2, Invariance, PTL DEF Spec, KillSurvives

\* What the enable command reports is so, on both lanes.
THEOREM EnabledTrue == Spec => EnabledIsTrue
<1> DEFINE Reported(w) == /\ jobs[w].op = "enable" /\ doc' = jobs[w].written
                          /\ jobs'[w] = Idle /\ doc'.until[Global] > clock
           OnlyPaper == \A l \in Lanes : Authorized(doc', l, clock) <=> l = Paper
<1>1. ASSUME IInv, NEW w \in Writers, Reported(w)
      PROVE  OnlyPaper
  <2>1. jobs[w] # Idle  BY <1>1 DEF Idle
  <2>2. /\ doc'.complete
        /\ doc'.kills \cap {Global, Paper} = {}
        /\ {Global, Paper} \subseteq doc'.auto
        /\ Live \notin doc'.auto
        /\ Paper \in doc'.allowed
        /\ doc'.until[Global] = doc'.until[Paper]
    BY <1>1, <2>1 DEF IInv, Sound
  <2>3. Authorized(doc', Paper, clock)  BY <1>1, <2>2 DEF Authorized
  <2>4. ~Authorized(doc', Live, clock)  BY <2>2 DEF Authorized
  <2> QED  BY <2>3, <2>4 DEF Lanes, Paper, Live
<1>2. IInv /\ [Next]_vars
        => [\A w \in Writers :
                jobs[w].op = "enable" /\ doc' = jobs[w].written
                /\ jobs'[w] = Idle /\ doc'.until[Global] > clock =>
                    \A l \in Lanes : Authorized(doc', l, clock) <=> l = Paper]_vars
  BY <1>1
<1> QED  BY <1>2, Invariance, PTL DEF Spec, EnabledIsTrue
=============================================================================
