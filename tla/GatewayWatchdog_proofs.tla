----------------------- MODULE GatewayWatchdog_proofs -----------------------
(***************************************************************************)
(* What GatewayWatchdog guarantees for every threshold, cooldown and       *)
(* restart policy, however the gateway moves between the probes.           *)
(***************************************************************************)
EXTENDS GatewayWatchdog, FiniteSetTheorems, FunctionTheorems, TLAPS

\* The histories of the gateway agree with what it is now.
Truth ==
    /\ Up => outage = 0
    /\ pc # "wait" => (through = "up" => Up) /\ (through = "down" => ~Up)

\* What the probes have found so far agrees with them.
Probes ==
    /\ pc = "broken" => through # "up"
    /\ pc = "record" /\ through = "up" => concrete = STATE_API_UP_HEALTHY
    /\ pc = "record" /\ concrete = STATE_API_UP_HEALTHY =>
          outage = 0 /\ through # "down"

\* Whole ticks of outage are failures counted, and enough failures have
\* changed the declared state.
Counted ==
    /\ outage <= failures
    /\ failures >= FailuresToDown => declared # STATE_API_UP_HEALTHY
    /\ pc \in {"recover", "alert", "wait"} /\ through = "up" =>
          declared = STATE_API_UP_HEALTHY

\* What the operator has read, and the alert that is still owed.
Words ==
    /\ alert.state # "none" => told = alert.state \/ lost
    /\ pc \notin {"recover", "alert"} /\ declared # STATE_UNKNOWN =>
          alert.state = declared

IInv ==
    TypeOK /\ Truth /\ Probes /\ Counted /\ Words /\ RecoverySpaced
           /\ RecoveryCapped

\* The strings the states are named by are distinct.
LEMMA StateNames ==
  /\ \A state \in Levels : state \in CONCRETE_STATES
  /\ STATE_UNKNOWN \in CONCRETE_STATES
  /\ STATE_API_UP_HEALTHY \in Levels
  /\ STATE_TCP_UP_API_DOWN \in Levels
  /\ STATE_SERVICE_RUNNING_TCP_DOWN \in Levels
  /\ STATE_SERVICE_DOWN \in Levels
  /\ STATE_UNKNOWN # STATE_API_UP_HEALTHY
  /\ STATE_TCP_UP_API_DOWN # STATE_API_UP_HEALTHY
  /\ STATE_SERVICE_RUNNING_TCP_DOWN # STATE_API_UP_HEALTHY
  /\ STATE_SERVICE_DOWN # STATE_API_UP_HEALTHY
  /\ \A state \in CONCRETE_STATES : state # "none"
BY DEF Levels, CONCRETE_STATES, STATE_UNKNOWN, STATE_API_UP_HEALTHY,
       STATE_TCP_UP_API_DOWN, STATE_SERVICE_RUNNING_TCP_DOWN,
       STATE_SERVICE_DOWN

\* Sooner picks the smaller of two numbers.
LEMMA SoonerBound ==
  ASSUME NEW a \in Nat, NEW b \in Nat
  PROVE  Sooner(a, b) \in 0 .. b /\ Sooner(a, b) <= a
BY DEF Sooner

\* The ages that count are finitely many.
LEMMA AgesFinite ==
  ASSUME NEW S \in SUBSET (0 .. Hour)
  PROVE  IsFiniteSet(S)
<1>1. IsFiniteSet(0 .. Hour)
  BY FS_Interval, GatewayWatchdogAssumption
<1> QED
  BY <1>1, FS_Subset

\* When an interval passes, the attempts that count grow older and no more.
LEMMA OlderAttempts ==
  ASSUME NEW E \in SUBSET (0 .. Hour), NEW G \in SUBSET E
  PROVE  /\ Older(E) \in SUBSET (0 .. Hour)
         /\ Older(G) \in SUBSET Older(E)
         /\ Cardinality(Older(E) \ Older(G)) <= Cardinality(E \ G)
<1>1. Older(E) \in SUBSET (0 .. Hour) /\ Older(G) \in SUBSET Older(E)
  BY DEF Older
<1> DEFINE S == {a \in E \ G : a + 1 \in 0 .. Hour}
           T == Older(E) \ Older(G)
           f == [a \in S |-> a + 1]
<1>2. S \in SUBSET (E \ G) /\ IsFiniteSet(E \ G)
  BY AgesFinite
<1>3. IsFiniteSet(S) /\ Cardinality(S) <= Cardinality(E \ G)
  BY <1>2, FS_Subset
<1>4. f \in [S -> T]
  <2> SUFFICES ASSUME NEW a \in S
               PROVE  a + 1 \in T
    OBVIOUS
  <2>1. a \in E /\ a \notin G /\ a + 1 \in 0 .. Hour /\ a \in Int
    OBVIOUS
  <2>2. a + 1 \in Older(E)
    BY <2>1 DEF Older
  <2>3. a + 1 \notin Older(G)
    <3> SUFFICES ASSUME a + 1 \in Older(G)
                 PROVE  FALSE
      OBVIOUS
    <3>1. PICK b \in G : a + 1 = b + 1
      BY DEF Older
    <3>2. b \in Int
      OBVIOUS
    <3>3. a = b
      BY <2>1, <3>1, <3>2
    <3> QED
      BY <2>1, <3>3
  <2> QED
    BY <2>2, <2>3
<1>5. \A t \in T : \E a \in S : f[a] = t
  <2> SUFFICES ASSUME NEW t \in T
               PROVE  \E a \in S : f[a] = t
    OBVIOUS
  <2>1. t \in Older(E) /\ t \notin Older(G) /\ t \in 0 .. Hour
    BY DEF Older
  <2>2. PICK a \in E : t = a + 1
    BY <2>1 DEF Older
  <2>3. a \notin G
    BY <2>1, <2>2 DEF Older
  <2> QED
    BY <2>1, <2>2, <2>3
<1>6. f \in Surjection(S, T)
  BY <1>4, <1>5, Fun_IsSurj
<1>7. Cardinality(T) <= Cardinality(S) /\ IsFiniteSet(T)
  BY <1>3, <1>6, FS_Surjection
<1>8. /\ Cardinality(T) \in Nat /\ Cardinality(S) \in Nat
      /\ Cardinality(E \ G) \in Nat
  BY <1>2, <1>3, <1>7, FS_CardinalityType
<1> QED
  BY <1>1, <1>3, <1>7, <1>8

-----------------------------------------------------------------------------
\* The initial states satisfy the inductive invariant.
LEMMA InitIInv == Init => IInv
<1> SUFFICES ASSUME Init
             PROVE  IInv
  OBVIOUS
<1> USE GatewayWatchdogAssumption, StateNames DEF Init
<1>1. TypeOK
  <2>1. NoAlert \in [state : CONCRETE_STATES \cup {"none"}, age : 0 .. Cooldown]
    BY DEF NoAlert
  <2>2. /\ failures \in 0 .. FailuresToDown /\ outage \in 0 .. FailuresToDown
        /\ restarts \in 0 .. MaxRestarts
    OBVIOUS
  <2>3. /\ executed \in SUBSET (0 .. Hour) /\ forgotten \in SUBSET executed
        /\ stuck \in {NotStuck} \cup (0 .. ManualAfter)
    OBVIOUS
  <2>4. /\ pc = "systemd" /\ told = "none" /\ lost = FALSE
        /\ through \in {"up", "down", "mixed"}
    OBVIOUS
  <2> QED
    BY <2>1, <2>2, <2>3, <2>4 DEF TypeOK
<1>2. Truth /\ Probes /\ Counted /\ Words
  BY DEF Truth, Probes, Counted, Words, NoAlert
<1>3. RecoverySpaced /\ RecoveryCapped
  <2>1. executed \ forgotten = {}
    OBVIOUS
  <2> QED
    BY <2>1, FS_EmptySet DEF RecoverySpaced, RecoveryCapped
<1> QED
  BY <1>1, <1>2, <1>3 DEF IInv

\* The probes look at the gateway as it is when each of them runs.
LEMMA ProbeSteps ==
  ASSUME IInv,
         \/ SystemdProbe \/ TcpProbe \/ ApiProbe \/ CurrentTime
         \/ ConnectionLost
  PROVE  IInv'
<1> USE StateNames DEF IInv, TypeOK, Truth, Probes, Counted, Words,
        RecoverySpaced, RecoveryCapped, truth, verdict, messages, recovery,
        Derive, Up
<1>1. CASE SystemdProbe
  BY <1>1 DEF SystemdProbe
<1>2. CASE TcpProbe
  BY <1>2 DEF TcpProbe
<1>3. CASE ApiProbe
  BY <1>3 DEF ApiProbe
<1>4. CASE CurrentTime
  BY <1>4 DEF CurrentTime
<1>5. CASE ConnectionLost
  BY <1>5 DEF ConnectionLost
<1> QED
  BY <1>1, <1>2, <1>3, <1>4, <1>5

\* A success declares the gateway healthy at once, a failure counts.
LEMMA RecordStep ==
  ASSUME IInv, Record
  PROVE  IInv'
<1> USE GatewayWatchdogAssumption, StateNames
    DEF IInv, messages, recovery, Record
<1>1. TypeOK'
  <2>1. failures' \in 0 .. FailuresToDown
    <3>1. CASE concrete = STATE_API_UP_HEALTHY
      BY <3>1, GatewayWatchdogAssumption DEF Succeed
    <3>2. CASE concrete # STATE_API_UP_HEALTHY
      <4>1. failures' = Sooner(failures + 1, FailuresToDown)
        BY <3>2 DEF Fail
      <4> QED
        BY <4>1, SoonerBound DEF TypeOK
    <3> QED
      BY <3>1, <3>2
  <2>2. outage' \in 0 .. FailuresToDown
    BY SoonerBound DEF TypeOK
  <2>3. declared' \in CONCRETE_STATES
    BY DEF TypeOK, Succeed, Fail
  <2>4. stuck' \in {NotStuck} \cup (0 .. ManualAfter)
    BY DEF TypeOK, Succeed, Fail
  <2>5. pc' \in {"wait", "alert", "recover"}
    OBVIOUS
  <2> QED
    BY <2>1, <2>2, <2>3, <2>4, <2>5 DEF TypeOK
<1>2. Truth'
  BY DEF Truth, Up
<1>3. Probes'
  BY DEF Probes
<1>4. Counted'
  <2>1. CASE concrete = STATE_API_UP_HEALTHY
    BY <2>1 DEF Counted, Probes, Succeed, TypeOK
  <2>2. CASE concrete # STATE_API_UP_HEALTHY
    <3>1. outage' <= failures'
      BY <2>2 DEF Counted, Fail, TypeOK, Sooner
    <3>2. failures' >= FailuresToDown => declared' # STATE_API_UP_HEALTHY
      BY <2>2 DEF Fail
    <3>3. through # "up"
      BY <2>2 DEF Probes
    <3> QED
      BY <3>1, <3>2, <3>3 DEF Counted
  <2> QED
    BY <2>1, <2>2
<1>5. Words'
  BY DEF Words
<1>6. RecoverySpaced' /\ RecoveryCapped'
  BY DEF RecoverySpaced, RecoveryCapped
<1> QED
  BY <1>1, <1>2, <1>3, <1>4, <1>5, <1>6

\* The restart policy admits an attempt only when those it knows of are old
\* enough and few enough.
LEMMA RecoverStep ==
  ASSUME IInv, Recover
  PROVE  IInv'
<1> USE GatewayWatchdogAssumption DEF IInv, truth, verdict, messages, Recover
<1>t. TypeOK'
  <2>1. executed' \in SUBSET (0 .. Hour) /\ forgotten' \in SUBSET executed'
    <3>1. executed \in SUBSET (0 .. Hour) /\ forgotten \in SUBSET executed
      BY DEF TypeOK
    <3>2. 0 \in 0 .. Hour
      OBVIOUS
    <3> QED
      BY <3>1, <3>2 DEF recovery
  <2> QED
    BY <2>1 DEF TypeOK
<1>1. TypeOK' /\ Truth' /\ Probes' /\ Counted' /\ Words'
  BY <1>t DEF Truth, Up, Probes, Counted, Words
<1>2. RecoverySpaced' /\ RecoveryCapped'
  <2>1. CASE ~Eligible
    BY <2>1 DEF RecoverySpaced, RecoveryCapped, recovery
  <2>2. CASE Eligible
    <3>1. /\ executed' = executed \cup {0}
          /\ forgotten \subseteq forgotten'
      BY <2>2
    <3>2. RecoverySpaced'
      <4> SUFFICES ASSUME NEW a \in executed', NEW b \in executed',
                          b < a, a - b < MinInterval
                   PROVE  a \in forgotten'
        BY DEF RecoverySpaced
      <4>1. a \in Nat /\ b \in Nat /\ a \in executed
        BY <3>1 DEF TypeOK
      <4>2. CASE b \in executed
        BY <4>1, <4>2, <3>1 DEF RecoverySpaced
      <4>3. CASE b = 0
        BY <4>1, <4>3, <3>1, <2>2 DEF Eligible, Attempts
      <4> QED
        BY <4>2, <4>3, <3>1
    <3>3. RecoveryCapped'
      <4>1. IsFiniteSet(Attempts)
        BY AgesFinite DEF TypeOK, Attempts
      <4>2. /\ IsFiniteSet(Attempts \cup {0})
            /\ Cardinality(Attempts \cup {0}) <= Cardinality(Attempts) + 1
            /\ Cardinality(Attempts \cup {0}) \in Nat
            /\ Cardinality(Attempts) \in Nat
        BY <4>1, FS_AddElement, FS_CardinalityType
      <4>3. (executed \ forgotten)' \in SUBSET (Attempts \cup {0})
        BY <3>1 DEF Attempts
      <4>4. /\ Cardinality((executed \ forgotten)')
                 <= Cardinality(Attempts \cup {0})
            /\ IsFiniteSet((executed \ forgotten)')
        BY <4>2, <4>3, FS_Subset
      <4>5. Cardinality((executed \ forgotten)') \in Nat
        BY <4>4, FS_CardinalityType
      <4> QED
        BY <4>2, <4>4, <4>5, <2>2 DEF Eligible, RecoveryCapped
    <3> QED
      BY <3>2, <3>3
  <2> QED
    BY <2>1, <2>2
<1> QED
  BY <1>1, <1>2

\* An alert that is silenced says what the operator was told last.
LEMMA AlertStep ==
  ASSUME IInv, MaybeAlert
  PROVE  IInv'
<1> USE GatewayWatchdogAssumption, StateNames
    DEF IInv, truth, verdict, recovery, MaybeAlert
<1>1. CASE Silenced
  BY <1>1 DEF Silenced, messages, TypeOK, Truth, Up, Probes, Counted, Words,
              RecoverySpaced, RecoveryCapped
<1>2. CASE ~Silenced
  BY <1>2 DEF Send, messages, TypeOK, Truth, Up, Probes, Counted, Words,
              RecoverySpaced, RecoveryCapped
<1> QED
  BY <1>1, <1>2

\* What the passing of an interval does to the recovery actions.
LEMMA AgingKeepsRecovery ==
  ASSUME IInv, executed' = Older(executed),
         forgotten' \in {Older(forgotten), Older(executed)}
  PROVE  /\ executed' \in SUBSET (0 .. Hour) /\ forgotten' \in SUBSET executed'
         /\ RecoverySpaced' /\ RecoveryCapped'
<1> USE GatewayWatchdogAssumption DEF IInv
<1>1. executed \in SUBSET (0 .. Hour) /\ forgotten \in SUBSET executed
  BY DEF TypeOK
<1>2. executed' \in SUBSET (0 .. Hour) /\ forgotten' \in SUBSET executed'
  BY <1>1, OlderAttempts
<1>3. RecoverySpaced'
  <2> SUFFICES ASSUME NEW a \in executed', NEW b \in executed',
                      b < a, a - b < MinInterval
               PROVE  a \in forgotten'
    BY DEF RecoverySpaced
  <2>1. PICK c \in executed : a = c + 1
    BY DEF Older
  <2>2. PICK d \in executed : b = d + 1
    BY DEF Older
  <2>3. c \in Int /\ d \in Int /\ a \in 0 .. Hour
    BY <1>1, <1>2
  <2>4. d < c /\ c - d < MinInterval
    BY <2>1, <2>2, <2>3
  <2>5. c \in forgotten
    BY <2>4 DEF RecoverySpaced
  <2> QED
    BY <2>1, <2>3, <2>5 DEF Older
<1>4. RecoveryCapped'
  <2>1. CASE forgotten' = Older(forgotten)
    <3>1. Cardinality(Older(executed) \ Older(forgotten))
            <= Cardinality(executed \ forgotten)
      BY <1>1, OlderAttempts
    <3>2. /\ IsFiniteSet(executed \ forgotten)
          /\ IsFiniteSet(Older(executed) \ Older(forgotten))
      BY <1>1, <1>2, <2>1, AgesFinite
    <3>3. /\ Cardinality(executed \ forgotten) \in Nat
          /\ Cardinality(Older(executed) \ Older(forgotten)) \in Nat
      BY <3>2, FS_CardinalityType
    <3> QED
      BY <2>1, <3>1, <3>3 DEF RecoveryCapped
  <2>2. CASE forgotten' = Older(executed)
    <3>1. executed' \ forgotten' = {}
      BY <2>2
    <3> QED
      BY <3>1, FS_EmptySet DEF RecoveryCapped
  <2> QED
    BY <2>1, <2>2
<1> QED
  BY <1>2, <1>3, <1>4

\* The next tick begins; ages grow.
LEMMA WakeStep ==
  ASSUME IInv, Wake
  PROVE  IInv'
<1> USE GatewayWatchdogAssumption, StateNames DEF IInv, Wake
<1>1. /\ executed' \in SUBSET (0 .. Hour) /\ forgotten' \in SUBSET executed'
      /\ RecoverySpaced' /\ RecoveryCapped'
  BY AgingKeepsRecovery
<1>2. stuck' \in {NotStuck} \cup (0 .. ManualAfter)
  BY SoonerBound DEF TypeOK, Sooner, NotStuck
<1>3. /\ alert' \in [state : CONCRETE_STATES \cup {"none"}, age : 0 .. Cooldown]
      /\ alert'.state = alert.state
  <2>1. alert.age \in 0 .. Cooldown
    BY DEF TypeOK
  <2>2. Sooner(alert.age + 1, Cooldown) \in 0 .. Cooldown
    BY <2>1, SoonerBound
  <2> QED
    BY <2>2 DEF TypeOK
<1>4. TypeOK'
  BY <1>1, <1>2, <1>3 DEF TypeOK
<1>5. Truth' /\ Probes' /\ Counted' /\ Words'
  BY <1>3 DEF Truth, Up, Probes, Counted, Words
<1> QED
  BY <1>1, <1>4, <1>5

\* The gateway changes by itself.
LEMMA GatewayStep ==
  ASSUME IInv, GatewayMoves
  PROVE  IInv'
<1> USE GatewayWatchdogAssumption, StateNames
    DEF IInv, verdict, messages, recovery, GatewayMoves
<1>1. TypeOK' /\ Words' /\ RecoverySpaced' /\ RecoveryCapped'
  BY DEF TypeOK, Words, RecoverySpaced, RecoveryCapped, Up
<1>2. Truth' /\ Probes'
  BY DEF TypeOK, Truth, Probes, Up
<1>3. Counted'
  BY DEF TypeOK, Counted, Up
<1> QED
  BY <1>1, <1>2, <1>3

\* The bot is restarted.
LEMMA RestartStep ==
  ASSUME IInv, Restart
  PROVE  IInv'
<1> USE GatewayWatchdogAssumption, StateNames DEF IInv, Restart
<1>1. /\ executed' \in SUBSET (0 .. Hour) /\ forgotten' \in SUBSET executed'
      /\ RecoverySpaced' /\ RecoveryCapped'
  BY AgingKeepsRecovery
<1>2. TypeOK'
  BY <1>1 DEF TypeOK, NotStuck, NoAlert
<1>3. Truth' /\ Probes' /\ Counted' /\ Words'
  BY DEF Truth, Up, Probes, Counted, Words, NoAlert
<1> QED
  BY <1>1, <1>2, <1>3

\* IInv is inductive.
LEMMA StepIInv == IInv /\ [Next]_vars => IInv'
<1> SUFFICES ASSUME IInv, [Next]_vars
             PROVE  IInv'
  OBVIOUS
<1>1. CASE Next
  BY <1>1, ProbeSteps, RecordStep, RecoverStep, AlertStep, WakeStep,
     GatewayStep, RestartStep DEF Next, Watchdog
<1>2. CASE UNCHANGED vars
  BY <1>2 DEF vars, IInv, TypeOK, Truth, Up, Probes, Counted, Words,
              RecoverySpaced, RecoveryCapped
<1> QED
  BY <1>1, <1>2

\* The inductive invariant holds in every reachable state.
LEMMA Invariance == Spec => []IInv
BY InitIInv, StepIInv, PTL DEF Spec

-----------------------------------------------------------------------------
\* Every variable keeps to its type, for every threshold and policy.
THEOREM TypeCorrect == Spec => []TypeOK
<1>1. IInv => TypeOK
  BY DEF IInv
<1> QED
  BY <1>1, Invariance, PTL

\* Between ticks the declared state follows the gateway: an outage of
\* FailuresToDown whole ticks is never declared healthy, and a tick without
\* an outage is never declared anything else.
THEOREM VerdictCorrect == Spec => []VerdictFollowsGateway
<1>1. IInv => VerdictFollowsGateway
  BY GatewayWatchdogAssumption
     DEF IInv, TypeOK, Counted, VerdictFollowsGateway
<1> QED
  BY <1>1, Invariance, PTL

\* Whatever the cooldown silences, the watchdog's last word is the declared
\* state, and the operator has it unless that message was lost.
THEOREM LastWordKept == Spec => []LastWord
<1>1. IInv => LastWord
  BY StateNames DEF IInv, TypeOK, Words, LastWord
<1> QED
  BY <1>1, Invariance, PTL

\* Recovery actions closer than the minimum interval mean that the earlier
\* one was forgotten.
THEOREM SpacingKept == Spec => []RecoverySpaced
<1>1. IInv => RecoverySpaced
  BY DEF IInv
<1> QED
  BY <1>1, Invariance, PTL

\* The recovery actions of a rolling hour that were not forgotten keep to
\* the limit.
THEOREM CapKept == Spec => []RecoveryCapped
<1>1. IInv => RecoveryCapped
  BY DEF IInv
<1> QED
  BY <1>1, Invariance, PTL
=============================================================================
