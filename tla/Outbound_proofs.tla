-------------------------- MODULE Outbound_proofs --------------------------
(***************************************************************************)
(* What EtoroLiveWrite guarantees for any TTL, any number of polls and any *)
(* wait at the prompt, and what SignalAlerts guarantees for any alerts,    *)
(* runners and times.                                                      *)
(***************************************************************************)
EXTENDS EtoroLiveWrite, SignalAlerts, TLAPS

Before == {"authority", "policy", "insert", "preflight", "confirm", "submit"}
After == {"reply", "accepted", "failed", "poll"}

\* The POST leaves between Before and After, and there is no order before it
\* has arrived.
Post ==
    /\ pc \in Before => wire = "unsent"
    /\ pc \in After => wire # "unsent"
    /\ pc \in {"accepted", "poll"} => order # "none"
    /\ wire # "settled" => order = "none"
    /\ order \in {"none", "pending"} => position = "none"

\* The row keeps in step with the command.
InStep ==
    /\ pc \in {"authority", "policy", "insert"} => row = NoRow
    /\ pc = "preflight" => row.status = "pending_live_write"
    /\ pc \in {"confirm", "submit", "reply", "failed", "accepted"} =>
          row.status = "awaiting_confirm"
    /\ pc = "poll" => row.status = "submitted"

\* A row that reports a position reports one that was opened, or closed, by
\* an order that is over.
Truthful ==
    /\ row.status = "filled" => position # "none" /\ order \notin Working
    /\ row.status = "closed_manual" =>
          position = "closed" /\ order \notin Working

\* Time at the prompt is all the time there is, and polls are counted.
Counters ==
    /\ killAge <= waited
    /\ pc \in {"authority", "policy", "insert", "preflight"} => waited = 0
    /\ pc \in Before \cup (After \ {"poll"}) => polls = 0
    /\ pc = "poll" => polls < PollAttempts

IInv ==
    TypeOK /\ Post /\ InStep /\ Truthful /\ Counters /\ NothingHidden

Rows == [status : ETORO_LIFECYCLE_STATUSES, event : Events]

\* Transition makes a row of its arguments.
LEMMA TransitionRow ==
  ASSUME NEW st \in ETORO_LIFECYCLE_STATUSES, NEW ev \in Events,
         Transition(st, ev)
  PROVE  row' \in Rows /\ row'.status = st /\ row'.event = ev
BY DEF Transition, Rows

\* The initial states satisfy the inductive invariant.
LEMMA InitIInv == Init => IInv
<1> SUFFICES ASSUME Init
             PROVE  IInv
  OBVIOUS
<1> USE EtoroLiveWriteAssumption DEF Init
<1>1. TypeOK
  <2>1. waited \in 0 .. MaxWait /\ killAge \in 0 .. MaxWait
    OBVIOUS
  <2>2. polls \in 0 .. PollAttempts
    OBVIOUS
  <2>3. killed \in BOOLEAN /\ ctx \in BOOLEAN
    OBVIOUS
  <2>4. /\ pc \in Stages /\ order \in Orders
        /\ wire \in {"unsent", "sent", "settled"}
        /\ position \in {"none", "open", "closed"}
    BY DEF Stages, Orders
  <2>5. row \in [status : ETORO_LIFECYCLE_STATUSES, event : Events]
                 \cup {NoRow}
    OBVIOUS
  <2> QED
    BY <2>1, <2>2, <2>3, <2>4, <2>5 DEF TypeOK
<1>2. Post /\ InStep /\ Counters
  BY DEF Post, InStep, Counters, Before, After
<1>3. row.status = "none"
  BY DEF NoRow
<1>4. Truthful /\ NothingHidden
  BY <1>3 DEF Truthful, NothingHidden
<1> QED
  BY <1>1, <1>2, <1>4 DEF IInv

\* A step that leaves the row, the wire and the order alone keeps what is
\* said of them, if the command's new place fits.
LEMMA SilentSteps ==
  ASSUME IInv, [Next]_vars,
         \/ Authority \/ LoadPolicy \/ Echo \/ ReplyOk \/ ReplyError
         \/ Crash \/ Tick \/ SavePolicy
  PROVE  IInv'
<1> USE EtoroLiveWriteAssumption DEF IInv, TypeOK, Post, InStep, Truthful,
        Counters, NothingHidden, OrderMayExist, Working, Before, After,
        policyVars, brokerVars, Stages
<1>1. CASE Authority
  BY <1>1 DEF Authority
<1>2. CASE LoadPolicy
  BY <1>2 DEF LoadPolicy
<1>3. CASE Echo
  BY <1>3 DEF Echo
<1>4. CASE ReplyOk
  BY <1>4 DEF ReplyOk
<1>5. CASE ReplyError
  BY <1>5 DEF ReplyError
<1>6. CASE Crash
  BY <1>6 DEF Crash, Over
<1>7. CASE Tick
  BY <1>7 DEF Tick
<1>8. CASE SavePolicy
  BY <1>8 DEF SavePolicy
<1> QED
  BY <1>1, <1>2, <1>3, <1>4, <1>5, <1>6, <1>7, <1>8

\* The steps of eToro: the POST arrives, the order moves on.
LEMMA BrokerSteps ==
  ASSUME IInv, Arrive \/ OrderMoves
  PROVE  IInv'
<1> USE DEF IInv, TypeOK, Post, InStep, Truthful, Counters, NothingHidden,
        OrderMayExist, Working, Before, After, policyVars, Orders
<1>1. CASE Arrive
  BY <1>1 DEF Arrive
<1>2. CASE OrderMoves
  BY <1>2 DEF OrderMoves
<1> QED
  BY <1>1, <1>2

\* What a poll may record.
LEMMA PollSays ==
  ASSUME PollTerminal
  PROVE  \/ /\ order = "executed" /\ position # "none"
            /\ Transition("filled", "poll")
         \/ Transition("broker_rejected", "poll")
         \/ order = "cancelled" /\ Transition("cancelled", "poll")
<1>1. PICK error \in BOOLEAN :
        /\ InternalStatus(error) \in TERMINAL
        /\ InternalStatus(error) = "filled" => position # "none"
        /\ Transition(InternalStatus(error), "poll")
  BY DEF PollTerminal
<1>2. "submitted" \notin TERMINAL
  BY DEF TERMINAL
<1>3. \/ InternalStatus(error) = "broker_rejected"
      \/ InternalStatus(error) = "filled" /\ order = "executed"
      \/ InternalStatus(error) = "cancelled" /\ order = "cancelled"
      \/ InternalStatus(error) = "submitted"
  BY DEF InternalStatus
<1> QED
  BY <1>1, <1>2, <1>3

\* The steps of the command that write the row.
LEMMA RowSteps ==
  ASSUME IInv,
         \/ Insert \/ Preflight \/ Abort \/ SubmitLive \/ SubmitFailed
         \/ RecordSubmitted \/ PollTerminal \/ PollAgain
  PROVE  IInv'
<1> USE EtoroLiveWriteAssumption DEF IInv, TypeOK, Post, InStep, Truthful,
        Counters, NothingHidden, OrderMayExist, Working, Before, After,
        policyVars, brokerVars, Stages
<1>t. ASSUME NEW st, NEW ev,
             st \in ETORO_LIFECYCLE_STATUSES, ev \in Events,
             Transition(st, ev)
      PROVE  /\ row' \in [status : ETORO_LIFECYCLE_STATUSES, event : Events]
             /\ row'.status = st /\ row'.event = ev
  BY <1>t, TransitionRow DEF Rows
<1>s. ETORO_LIFECYCLE_STATUSES =
        {"pending_live_write", "awaiting_confirm", "unverified",
         "closed_manual", "policy_rejected", "risk_rejected", "submitted",
         "filled", "broker_rejected", "cancelled"}
      /\ Events = {"none", "cli", "submit_failed", "poll", "operator"}
  BY DEF ETORO_LIFECYCLE_STATUSES, Events
<1>1. CASE Insert
  <2>1. CASE Transition("pending_live_write", "cli") /\ pc' = "preflight"
    BY <1>1, <2>1, <1>t, <1>s DEF Insert
  <2>2. CASE row' = row /\ pc' = "exited"
    BY <1>1, <2>2 DEF Insert
  <2> QED
    BY <1>1, <2>1, <2>2 DEF Insert
<1>2. CASE Preflight
  <2>1. CASE pc' = "confirm" /\ Transition("awaiting_confirm", "cli")
    BY <1>2, <2>1, <1>t, <1>s DEF Preflight
  <2>2. CASE pc' = "exited" /\ Transition("policy_rejected", "cli")
    BY <1>2, <2>2, <1>t, <1>s DEF Preflight
  <2>3. CASE pc' = "exited" /\ Transition("risk_rejected", "cli")
    BY <1>2, <2>3, <1>t, <1>s DEF Preflight
  <2> QED
    BY <1>2, <2>1, <2>2, <2>3 DEF Preflight, PreflightVerdicts
<1>3. CASE Abort
  BY <1>3, <1>t, <1>s DEF Abort
<1>4. CASE SubmitLive
  <2>1. CASE pc' = "reply" /\ wire' = "sent" /\ row' = row
    BY <1>4, <2>1 DEF SubmitLive
  <2>2. CASE pc' = "exited" /\ Transition("cancelled", "cli") /\ wire' = wire
    BY <1>4, <2>2, <1>t, <1>s DEF SubmitLive
  <2> QED
    BY <1>4, <2>1, <2>2 DEF SubmitLive
<1>5. CASE SubmitFailed
  BY <1>5, <1>t, <1>s DEF SubmitFailed
<1>6. CASE RecordSubmitted
  BY <1>6, <1>t, <1>s DEF RecordSubmitted
<1>7. CASE PollTerminal
  <2>1. CASE /\ order = "executed" /\ position # "none"
             /\ Transition("filled", "poll")
    BY <1>7, <2>1, <1>t, <1>s DEF PollTerminal
  <2>2. CASE Transition("broker_rejected", "poll")
    BY <1>7, <2>2, <1>t, <1>s DEF PollTerminal
  <2>3. CASE order = "cancelled" /\ Transition("cancelled", "poll")
    BY <1>7, <2>3, <1>t, <1>s DEF PollTerminal
  <2> QED
    BY <1>7, <2>1, <2>2, <2>3, PollSays
<1>8. CASE PollAgain
  <2>1. CASE polls' < PollAttempts
    BY <1>8, <2>1 DEF PollAgain
  <2>2. CASE ~(polls' < PollAttempts)
    BY <1>8, <2>2, <1>t, <1>s DEF PollAgain
  <2> QED
    BY <2>1, <2>2
<1> QED
  BY <1>1, <1>2, <1>3, <1>4, <1>5, <1>6, <1>7, <1>8

\* The operator's record: true when he writes it, and final by then.
LEMMA ReconcileStep ==
  ASSUME IInv, Reconcile
  PROVE  IInv'
<1> USE DEF IInv, TypeOK, Post, InStep, Truthful, Counters, NothingHidden,
        OrderMayExist, Before, After, policyVars, brokerVars, Orders,
        Working, Over
<1>1. /\ Outcome \in {"filled", "closed_manual", "broker_rejected"}
      /\ Outcome = "filled" <=> position = "open"
      /\ Outcome = "closed_manual" <=> position = "closed"
  BY DEF Outcome
<1>2. /\ row' \in [status : ETORO_LIFECYCLE_STATUSES, event : Events]
      /\ row'.status = Outcome /\ row'.event = "operator"
  BY <1>1, TransitionRow
  DEF Reconcile, Rows, ETORO_LIFECYCLE_STATUSES, Events
<1> QED
  BY <1>1, <1>2 DEF Reconcile

\* The inductive invariant holds throughout.
LEMMA Invariance == Spec => []IInv
<1>1. IInv /\ [Next]_vars => IInv'
  <2>1. ASSUME IInv, UNCHANGED vars
        PROVE  IInv'
    BY <2>1 DEF vars, IInv, TypeOK, Post, InStep, Truthful, Counters,
       NothingHidden, OrderMayExist
  <2> QED
    BY <2>1, SilentSteps, BrokerSteps, RowSteps, ReconcileStep
    DEF Next, Command
<1> QED
  BY <1>1, InitIInv, PTL DEF Spec

\* Every variable keeps to the values the code can give it.
THEOREM TypeCorrect == Spec => []TypeOK
<1>1. IInv => TypeOK
  BY DEF IInv
<1> QED
  BY <1>1, Invariance, PTL

\* No row that speaks of a refusal hides a position or an order that may
\* open one, except the broker_rejected of a submit that failed or of a poll
\* and the cancelled of a poll that met an order executed in part.
THEOREM NothingIsHidden == Spec => []NothingHidden
<1>1. IInv => NothingHidden
  BY DEF IInv
<1> QED
  BY <1>1, Invariance, PTL

\* No POST leaves on a policy that was withdrawn longer than TTL ago.
THEOREM StaleWithinTTL == Spec => StalePolicyBounded
<1> DEFINE Bounded == wire = "unsent" /\ wire' = "sent" => killAge <= TTL
<1>1. ASSUME IInv, [Next]_vars
      PROVE  Bounded
  <2>1. CASE SubmitLive
    <3>1. wire' = "sent" => waited <= TTL
      <4>1. CASE waited <= TTL
        BY <4>1
      <4>2. CASE ~(waited <= TTL)
        <5>1. \A digestOk \in BOOLEAN : ~NonceValid(digestOk)
          BY <4>2 DEF NonceValid
        <5> QED
          BY <2>1, <5>1, <1>1 DEF SubmitLive, IInv, Post, Before
      <4> QED
        BY <4>1, <4>2
    <3>2. killAge <= waited /\ killAge \in Int /\ waited \in Int /\ TTL \in Int
      BY <1>1, EtoroLiveWriteAssumption DEF IInv, Counters, TypeOK
    <3> QED
      BY <3>1, <3>2
  <2>2. CASE ~SubmitLive
    <3>1. UNCHANGED wire \/ wire' = "settled"
      BY <1>1, <2>2 DEF Next, Command, vars, brokerVars, Authority,
         LoadPolicy, Insert, Preflight, Echo, ReplyOk, ReplyError,
         SubmitFailed, RecordSubmitted, PollTerminal, PollAgain, Abort,
         Crash, Tick, SavePolicy, Arrive, OrderMoves, Reconcile
    <3> QED
      BY <3>1
  <2> QED
    BY <2>1, <2>2
<1>2. IInv /\ [Next]_vars => [Bounded]_vars
  BY <1>1
<1> QED
  BY <1>2, Invariance, PTL DEF Spec, StalePolicyBounded

\* An operator who records what he sees overrules a terminal status only
\* where nobody had looked at the positions: a broker_rejected or cancelled
\* written by a failed submit or by a poll. Any other one agrees with what he
\* sees.
THEOREM OverruleOnlyUnchecked == Spec => OverruledOnlyUnchecked
<1> DEFINE Kept ==
      row.status \in TERMINAL /\ row'.status # row.status =>
          \/ <<row.status, row'.status>> \in ALLOWED_TERMINAL_TRANSITIONS
          \/ row \in [status : {"broker_rejected", "cancelled"},
                      event : {"submit_failed", "poll"}]
<1>1. ASSUME IInv, [Next]_vars, row.status \in TERMINAL,
             row'.status # row.status,
             row \notin [status : {"broker_rejected", "cancelled"},
                         event : {"submit_failed", "poll"}]
      PROVE  <<row.status, row'.status>> \in ALLOWED_TERMINAL_TRANSITIONS
  <2> USE DEF IInv, TERMINAL
  <2>1. Reconcile
    <3>1. ~(Insert \/ Preflight \/ Abort \/ SubmitLive \/ SubmitFailed
            \/ RecordSubmitted \/ PollTerminal \/ PollAgain)
      <4>1. NoRow.status \notin TERMINAL
        BY DEF NoRow
      <4> QED
        BY <1>1, <4>1 DEF InStep, Insert, Preflight, Abort, SubmitLive,
           SubmitFailed, RecordSubmitted, PollTerminal, PollAgain
    <3> QED
      BY <1>1, <3>1 DEF Next, Command, vars, brokerVars, Authority,
         LoadPolicy, Echo, ReplyOk, ReplyError, Crash, Tick, SavePolicy,
         Arrive, OrderMoves
  <2>2. /\ row'.status = Outcome
        /\ Outcome = "filled" <=> position = "open"
        /\ Outcome = "closed_manual" <=> position = "closed"
        /\ Outcome \in {"filled", "closed_manual", "broker_rejected"}
    BY <2>1 DEF Reconcile, Transition, Outcome
  <2>3. /\ ~Says(row.status, Outcome) /\ wire # "sent"
        /\ order \notin Working /\ position \in {"none", "open", "closed"}
    BY <2>1, <1>1 DEF Reconcile, TypeOK
  <2>4. CASE row.status = "filled"
    BY <1>1, <2>2, <2>3, <2>4
    DEF Truthful, ALLOWED_TERMINAL_TRANSITIONS, Says
  <2>5. CASE row.status = "closed_manual"
    BY <1>1, <2>2, <2>3, <2>5 DEF Truthful, Says
  <2>6. CASE row.status \in {"cancelled", "broker_rejected"}
    <3>1. row.event \notin {"submit_failed", "poll"}
      <4>1. row \in Rows
        BY <1>1, <2>6 DEF TypeOK, Rows, NoRow
      <4> QED
        BY <1>1, <2>6, <4>1 DEF Rows
    <3>2. ~OrderMayExist
      BY <1>1, <2>6, <3>1 DEF NothingHidden
    <3>3. Outcome = "broker_rejected"
      BY <2>2, <2>3, <3>2 DEF OrderMayExist
    <3> QED
      BY <2>3, <2>6, <3>3 DEF Says, NoPosition
  <2> QED
    BY <1>1, <2>4, <2>5, <2>6
<1>2. IInv /\ [Next]_vars => [Kept]_vars
  BY <1>1
<1> QED
  BY <1>2, Invariance, PTL DEF Spec, OverruledOnlyUnchecked
-----------------------------------------------------------------------------
(* The live write implements its contract. *)

\* What a row that is written tells.
LEMMA ToldBy ==
  ASSUME NEW st \in ETORO_LIFECYCLE_STATUSES, NEW ev \in Events,
         Transition(st, ev)
  PROVE  /\ st = "pending_live_write" => Told' = "preparing"
         /\ st = "awaiting_confirm" => Told' = "asking"
         /\ st = "submitted" => Told' = "accepted"
         /\ st = "unverified" => Told' = "doubt"
         /\ st = "broker_rejected" /\ ev \in {"submit_failed", "poll"}
               => Told' = "doubt"
         /\ st = "cancelled" /\ ev = "poll" => Told' = "over"
         /\ st = "filled" => Told' = "filled"
         /\ st = "closed_manual" => Told' = "closed"
         /\ st \in {"policy_rejected", "risk_rejected"} => Told' = "denied"
         /\ st = "cancelled" /\ ev # "poll" => Told' = "denied"
         /\ st = "broker_rejected" /\ ev \notin {"submit_failed", "poll"}
               => Told' = "denied"
<1>1. row'.status = st /\ row'.event = ev
  BY TransitionRow
<1> QED
  BY <1>1 DEF Told

\* The statuses and events, spelled out.
LEMMA Vocabulary ==
  /\ ETORO_LIFECYCLE_STATUSES =
        {"pending_live_write", "awaiting_confirm", "unverified",
         "closed_manual", "policy_rejected", "risk_rejected", "submitted",
         "filled", "broker_rejected", "cancelled"}
  /\ Events = {"none", "cli", "submit_failed", "poll", "operator"}
BY DEF ETORO_LIFECYCLE_STATUSES, Events

\* What the row tells at each place of the command.
LEMMA ToldAt ==
  ASSUME IInv
  PROVE  /\ pc \in {"authority", "policy", "insert", "preflight"}
               => Told = "preparing"
         /\ pc \in {"confirm", "submit", "reply", "failed", "accepted"}
               => Told = "asking"
         /\ pc = "poll" => Told = "accepted"
<1>1. NoRow.status = "none"
  BY DEF NoRow
<1> QED
  BY <1>1 DEF IInv, InStep, Told

\* Before the POST leaves, the command asks or denies.
LEMMA ContractBefore ==
  ASSUME IInv, Insert \/ Preflight \/ Abort \/ SubmitLive
  PROVE  [Contract!Next]_(Contract!vars)
<1> USE ToldAt, Vocabulary DEF IInv, Post, Before, Contract!Next,
        Contract!vars, Contract!Possible, Contract!Open, Contract!atBroker,
        brokerVars, Working
<1>1. CASE Insert
  <2>1. CASE Transition("pending_live_write", "cli")
    BY <1>1, <2>1, ToldBy DEF Insert
  <2>2. CASE row' = row
    BY <1>1, <2>2 DEF Insert, Told
  <2> QED
    BY <1>1, <2>1, <2>2 DEF Insert
<1>2. CASE Preflight
  <2>1. CASE Transition("awaiting_confirm", "cli")
    <3>1. Contract!Ask
      BY <1>2, <2>1, ToldBy DEF Preflight, Contract!Ask
    <3> QED
      BY <3>1
  <2>2. CASE \E st \in {"policy_rejected", "risk_rejected"} :
                Transition(st, "cli")
    <3>1. Contract!Deny
      BY <1>2, <2>2, ToldBy DEF Preflight, Contract!Deny
    <3> QED
      BY <3>1
  <2> QED
    BY <1>2, <2>1, <2>2 DEF Preflight, PreflightVerdicts
<1>3. CASE Abort
  <2>1. Contract!Deny
    BY <1>3, ToldBy DEF Abort, Contract!Deny
  <2> QED
    BY <2>1
<1>4. CASE SubmitLive
  <2>1. CASE wire' = "sent" /\ row' = row
    <3>1. Contract!Send
      BY <1>4, <2>1 DEF SubmitLive, Told, Contract!Send
    <3> QED
      BY <3>1
  <2>2. CASE Transition("cancelled", "cli") /\ wire' = wire
    <3>1. Contract!Deny
      BY <1>4, <2>2, ToldBy DEF SubmitLive, Contract!Deny
    <3> QED
      BY <3>1
  <2> QED
    BY <1>4, <2>1, <2>2 DEF SubmitLive
<1> QED
  BY <1>1, <1>2, <1>3, <1>4

\* Once it has left, the command denies nothing any more.
LEMMA ContractAfter ==
  ASSUME IInv,
         SubmitFailed \/ RecordSubmitted \/ PollTerminal \/ PollAgain
  PROVE  [Contract!Next]_(Contract!vars)
<1> USE ToldAt, Vocabulary DEF IInv, Post, After, Contract!Next,
        Contract!vars, Contract!Possible, Contract!Open, Contract!atBroker,
        brokerVars
<1>1. CASE SubmitFailed
  <2>1. Contract!Doubt
    BY <1>1, ToldBy DEF SubmitFailed, Contract!Doubt
  <2> QED
    BY <2>1
<1>2. CASE RecordSubmitted
  <2>1. Contract!Accept
    BY <1>2, ToldBy DEF RecordSubmitted, Contract!Accept
  <2> QED
    BY <2>1
<1>3. CASE PollTerminal
  <2>1. CASE /\ order = "executed" /\ position # "none"
             /\ Transition("filled", "poll")
    <3>1. Contract!Fill
      BY <1>3, <2>1, ToldBy DEF PollTerminal, Working, Contract!Fill
    <3> QED
      BY <3>1
  <2>2. CASE Transition("broker_rejected", "poll")
    <3>1. Contract!Doubt
      BY <1>3, <2>2, ToldBy DEF PollTerminal, Contract!Doubt
    <3> QED
      BY <3>1
  <2>3. CASE order = "cancelled" /\ Transition("cancelled", "poll")
    <3>1. Contract!End
      BY <1>3, <2>3, ToldBy DEF PollTerminal, Working, Contract!End
    <3> QED
      BY <3>1
  <2> QED
    BY <1>3, <2>1, <2>2, <2>3, PollSays
<1>4. CASE PollAgain
  <2>1. CASE row' = row
    BY <1>4, <2>1 DEF PollAgain, Told
  <2>2. CASE Transition("unverified", "poll")
    <3>1. Contract!Doubt
      BY <1>4, <2>2, ToldBy DEF PollAgain, Contract!Doubt
    <3> QED
      BY <3>1
  <2> QED
    BY <1>4, <2>1, <2>2 DEF PollAgain
<1> QED
  BY <1>1, <1>2, <1>3, <1>4

\* The operator records what is so, over no denial and no outcome but the
\* fill of a position that has been closed since, and a cancelled order's
\* executed part.
LEMMA ContractReconcile ==
  ASSUME IInv, Reconcile
  PROVE  [Contract!Next]_(Contract!vars)
<1>1. /\ Outcome \in {"filled", "closed_manual", "broker_rejected"}
      /\ Outcome = "filled" <=> position = "open"
      /\ Outcome = "closed_manual" <=> position = "closed"
      /\ position \in {"none", "open", "closed"}
  BY DEF Outcome, IInv, TypeOK
<1>2. /\ row.status # "none" /\ wire # "sent" /\ order \notin Working
      /\ ~Says(row.status, Outcome)
      /\ Transition(Outcome, "operator")
      /\ wire' = wire /\ order' = order /\ position' = position
  BY DEF Reconcile, brokerVars
<1>3. row \in Rows
  BY <1>2 DEF IInv, TypeOK, Rows, NoRow
<1>4. \/ Told \in {"preparing", "asking", "accepted", "doubt"}
      \/ row.status = "filled" /\ Told = "filled" /\ position = "closed"
      \/ row.status = "cancelled" /\ Told = "over" /\ position # "none"
  <2>1. CASE row.status = "filled"
    BY <1>1, <1>2, <2>1 DEF IInv, Truthful, Says, Told
  <2>2. row.status # "closed_manual"
    BY <1>1, <1>2 DEF IInv, Truthful, Says
  <2>3. CASE \/ row.status \in {"policy_rejected", "risk_rejected"}
             \/ row.status = "cancelled" /\ row.event # "poll"
             \/ /\ row.status = "broker_rejected"
                /\ row.event \notin {"submit_failed", "poll"}
    <3>1. ~OrderMayExist
      BY <2>3 DEF IInv, NothingHidden
    <3>2. Outcome = "broker_rejected"
      BY <1>1, <3>1 DEF OrderMayExist
    <3> QED
      BY <1>2, <2>3, <3>2 DEF Says, NoPosition
  <2>4. CASE \/ row.status \in {"pending_live_write", "awaiting_confirm",
                                "submitted", "unverified"}
             \/ /\ row.status = "broker_rejected"
                /\ row.event \in {"submit_failed", "poll"}
    BY <2>4 DEF Told
  <2>5. CASE row.status = "cancelled" /\ row.event = "poll"
    <3>1. Outcome # "broker_rejected"
      BY <1>2, <2>5 DEF Says, NoPosition
    <3> QED
      BY <1>1, <2>5, <3>1 DEF Told
  <2> QED
    BY <1>3, <2>1, <2>2, <2>3, <2>4, <2>5, Vocabulary DEF Rows
<1>p. position # "none" => order # "none"
  BY DEF IInv, Post
<1> USE <1>1, <1>2, <1>4, <1>p, ToldBy, Vocabulary
    DEF Contract!Next, Contract!Open, Contract!atBroker
<1>5. CASE Outcome = "filled"
  <2>1. Contract!Fill
    BY <1>5 DEF Contract!Fill
  <2> QED
    BY <2>1
<1>6. CASE Outcome = "closed_manual"
  <2>1. Contract!Close
    BY <1>6 DEF Contract!Close
  <2> QED
    BY <2>1
<1>7. CASE Outcome = "broker_rejected"
  <2>1. ~Contract!Possible
    BY <1>7 DEF Contract!Possible
  <2>2. Contract!Deny
    BY <1>7, <2>1 DEF Contract!Deny
  <2> QED
    BY <2>2
<1> QED
  BY <1>1, <1>5, <1>6, <1>7

\* eToro's own steps, and those that neither write nor send.
LEMMA ContractOthers ==
  ASSUME \/ Authority \/ LoadPolicy \/ Echo \/ ReplyOk \/ ReplyError
         \/ Crash \/ Tick \/ SavePolicy \/ Arrive \/ OrderMoves
         \/ UNCHANGED vars
  PROVE  [Contract!Next]_(Contract!vars)
<1>1. CASE Arrive
  <2>1. Contract!Settle
    BY <1>1 DEF Arrive, Told, Working, Contract!Settle
  <2> QED
    BY <2>1 DEF Contract!Next
<1>2. CASE OrderMoves
  <2>1. Contract!Trade
    BY <1>2 DEF OrderMoves, Told, Working, Contract!Trade
  <2> QED
    BY <2>1 DEF Contract!Next
<1>3. CASE ~Arrive /\ ~OrderMoves
  <2>1. UNCHANGED <<row, wire, order, position>>
    BY <1>3 DEF Authority, LoadPolicy, Echo, ReplyOk, ReplyError, Crash,
       Tick, SavePolicy, brokerVars, vars
  <2> QED
    BY <2>1 DEF Contract!vars, Told
<1> QED
  BY <1>1, <1>2, <1>3

\* Every behaviour of the command, its operator and eToro, with lost and
\* late replies and crashes anywhere, is one the contract allows: what the
\* row says is true when it is written, and a denial stays true. The contract
\* counts neither the broker_rejected of a failed submit or of a poll nor the
\* cancelled of a poll as a denial.
THEOREM WriteImplementsLiveOrder == Spec => ImplementsLiveOrder
<1>1. Init => Contract!Init
  <2>1. NoRow.status = "none"
    BY DEF NoRow
  <2> QED
    BY <2>1 DEF Init, Contract!Init, Told, Working
<1>2. IInv /\ [Next]_vars => [Contract!Next]_(Contract!vars)
  BY ContractBefore, ContractAfter, ContractReconcile, ContractOthers
  DEF Next, Command
<1> QED
  BY <1>1, <1>2, Invariance, PTL
  DEF Spec, ImplementsLiveOrder, Contract!Spec

\* A denial is for good: once a row has said that nothing is at eToro (a
\* refusal, a confirmation aborted or refused, broker_rejected recorded by the
\* operator), it says so for ever, and no POST is on its way, no order works
\* and there is no position from then on, whatever the operator records later
\* (lifecycle.py:159-175). What a poll or a failed submit wrote is not such a
\* denial.
THEOREM DenialStands ==
    Spec => [](Told = "denied" => [](Told = "denied" /\ ~OrderMayExist))
<1> DEFINE Denied == Told = "denied"
           Quiet == Denied => ~OrderMayExist
<1>1. ASSUME IInv
      PROVE  Quiet
  <2>1. Denied /\ row \in Rows =>
           \/ row.status \in {"policy_rejected", "risk_rejected"}
           \/ row.status = "cancelled" /\ row.event # "poll"
           \/ /\ row.status = "broker_rejected"
              /\ row.event \notin {"submit_failed", "poll"}
    BY Vocabulary DEF Told, Rows
  <2>2. row \in Rows \/ ~Denied
    BY <1>1 DEF IInv, TypeOK, Rows, NoRow, Told
  <2> QED
    BY <1>1, <2>1, <2>2 DEF IInv, NothingHidden
<1>2. ASSUME Denied, [Contract!Next]_(Contract!vars)
      PROVE  Denied'
  BY <1>2 DEF Contract!Next, Contract!vars, Contract!Ask, Contract!Send,
     Contract!Settle, Contract!Trade, Contract!Accept, Contract!Doubt,
     Contract!Deny, Contract!End, Contract!Fill, Contract!Close,
     Contract!Open
<1>3. Spec => []Quiet
  BY <1>1, Invariance, PTL
<1>4. Spec => [][Contract!Next]_(Contract!vars)
  BY WriteImplementsLiveOrder DEF ImplementsLiveOrder, Contract!Spec
<1> HIDE DEF Denied, Quiet
<1>5. Spec => [](Denied => [](Denied /\ Quiet))
  BY <1>2, <1>3, <1>4, PTL
<1>6. Denied /\ Quiet <=> Told = "denied" /\ ~OrderMayExist
  BY DEF Denied, Quiet
<1>7. Denied <=> Told = "denied"
  BY DEF Denied
<1> QED
  BY <1>5, <1>6, <1>7, PTL
-----------------------------------------------------------------------------
(* The signal alerts. *)

ROWS ==
    [status : STATUSES \cup {"none"}, attempts : 0 .. MaxAttempts,
     wait : 0 .. MaxBackoff, age : 0 .. Horizon, held : 0 .. Lease + 1,
     dup : BOOLEAN]

LISTS == UNION {[S -> COPIES] : S \in SUBSET Alerts}

RUNS ==
    [phase : PHASES, rows : LISTS, key : Alerts \cup {NoKey},
     answer : {"none", "ok", "retry", "reject"}]

TERMINAL_ALERT == {"sent", "failed", "expired"}

\* Runner r has claimed a and has not yet recorded an answer.
Owns(r, a) == runner[r].phase \in {"send", "mark"} /\ runner[r].key = a

\* A runner that owns a row is alone, and the row is being sent, as long as
\* the row has not been re-queued.
OwnersInv ==
    \A r \in Runners, a \in Alerts :
        Owns(r, a) /\ ~outbox[a].dup =>
            /\ outbox[a].status = "sending"
            /\ \A s \in Runners : Owns(s, a) => s = r

\* An alert that has come and whose row neither carries the flag nor is
\* excused is out of delivery, or about to be marked sent.
SeenInv ==
    \A a \in seen :
        \/ a \in excused
        \/ outbox[a].dup
        \/ outbox[a].status \in TERMINAL_ALERT
        \/ /\ outbox[a].status = "sending"
           /\ \A r \in Runners :
                Owns(r, a) => runner[r].phase = "mark" /\ runner[r].answer = "ok"

AlertInv ==
    /\ AlertTypeOK /\ OwnersInv /\ SeenInv
    /\ RepeatsAreLabelled /\ CooldownHolds

\* AlertTypeOK in terms of ROWS and RUNS.
AlertTyped ==
    /\ outbox \in [Alerts -> ROWS]
    /\ runner \in [Runners -> RUNS]
    /\ deaths \in 0 .. MaxDeaths
    /\ excused \subseteq seen /\ seen \subseteq Alerts
    /\ unmarked \subseteq seen

\* The two forms of the type invariant say the same.
LEMMA AlertTyping == AlertTypeOK <=> AlertTyped
BY DEF AlertTypeOK, AlertTyped, ROWS, RUNS, LISTS

\* Ages grow past the delay and past the cooldown.
LEMMA HorizonBounds ==
  /\ Horizon \in Nat /\ Horizon > Cooldown /\ Horizon > Delay
  /\ Lease + 1 \in Nat
BY SignalAlertsAssumption DEF Horizon

\* A key that is not in the outbox counts as a row.
LEMMA NoAlertRow == NoAlert \in ROWS
BY HorizonBounds, SignalAlertsAssumption DEF NoAlert, ROWS

\* Values that statements put into a row.
LEMMA RowValues ==
  /\ 0 \in 0 .. Lease + 1 /\ 0 \in 0 .. MaxBackoff /\ 0 \in 0 .. MaxAttempts
  /\ {"pending", "sending", "sent", "failed", "expired"} \subseteq STATUSES
BY HorizonBounds, SignalAlertsAssumption DEF STATUSES, ACTIVE_STATUSES

\* What the statements make of a row.
LEMMA RequeuedRow ==
  ASSUME NEW entry \in ROWS
  PROVE  /\ Requeued(entry) \in ROWS
         /\ Requeued(entry).status = "pending"
         /\ Requeued(entry).dup
         /\ Requeued(entry).age = entry.age
<1>1. Requeued(entry) \in ROWS
  BY RowValues DEF Requeued, ROWS
<1>2. Requeued(entry).status = "pending" /\ Requeued(entry).age = entry.age
  BY DEF Requeued, ROWS
<1>3. Requeued(entry).dup
  BY DEF Requeued, ROWS
<1> QED
  BY <1>1, <1>2, <1>3

\* A row out of delivery keeps its age and its flag.
LEMMA SettledRow ==
  ASSUME NEW entry \in ROWS, NEW status \in STATUSES
  PROVE  /\ Settled(entry, status) \in ROWS
         /\ Settled(entry, status).status = status
         /\ Settled(entry, status).dup = entry.dup
         /\ Settled(entry, status).age = entry.age
<1>1. Settled(entry, status) \in ROWS
  BY RowValues DEF Settled, ROWS
<1>2. /\ Settled(entry, status).status = status
      /\ Settled(entry, status).age = entry.age
  BY DEF Settled, ROWS
<1>3. Settled(entry, status).dup = entry.dup
  BY DEF Settled, ROWS
<1> QED
  BY <1>1, <1>2, <1>3

\* So does a row that gets its answer; ok makes it sent.
LEMMA MarkedRow ==
  ASSUME NEW entry \in ROWS, NEW answer, NEW last \in BOOLEAN,
         NEW new \in Marked(entry, answer, last)
  PROVE  /\ new \in ROWS
         /\ new.status \in {"sent", "failed", "pending"}
         /\ answer = "ok" => new.status = "sent"
         /\ new.dup = entry.dup
         /\ new.age = entry.age
<1>1. CASE answer = "ok"
  <2>1. new = Settled(entry, "sent")
    BY <1>1 DEF Marked
  <2> QED
    BY <2>1, SettledRow, RowValues
<1>2. CASE answer # "ok" /\ (answer = "reject" \/ last)
  <2>1. new = Settled(entry, "failed")
    BY <1>2 DEF Marked
  <2> QED
    BY <1>2, <2>1, SettledRow, RowValues
<1>3. CASE answer # "ok" /\ ~(answer = "reject" \/ last)
  <2>1. PICK w \in 0 .. MaxBackoff :
            new = [entry EXCEPT !.status = "pending", !.held = 0, !.wait = w]
    BY <1>3 DEF Marked
  <2>2. new \in ROWS
    BY <2>1, RowValues DEF ROWS
  <2>3. new.status = "pending" /\ new.age = entry.age
    BY <2>1 DEF ROWS
  <2>4. new.dup = entry.dup
    BY <2>1 DEF ROWS
  <2> QED
    BY <1>3, <2>2, <2>3, <2>4
<1> QED
  BY <1>1, <1>2, <1>3

\* Time keeps status and flag, and an age past the cooldown stays past it.
LEMMA OlderRow ==
  ASSUME NEW entry \in ROWS
  PROVE  /\ Older(entry) \in ROWS
         /\ Older(entry).status = entry.status
         /\ Older(entry).dup = entry.dup
         /\ entry.age > Cooldown => Older(entry).age > Cooldown
<1>1. CASE entry = NoAlert
  BY <1>1, NoAlertRow DEF Older
<1>2. CASE entry # NoAlert
  <2> DEFINE age == Lesser(entry.age + 1, Horizon)
             held == IF entry.status = "sending"
                     THEN Lesser(entry.held + 1, Lease + 1) ELSE entry.held
             wait == IF entry.wait = 0 THEN 0 ELSE entry.wait - 1
  <2>1. age \in 0 .. Horizon /\ (entry.age > Cooldown => age > Cooldown)
    BY HorizonBounds, SignalAlertsAssumption DEF ROWS, Lesser
  <2>2. held \in 0 .. Lease + 1
    BY HorizonBounds DEF ROWS, Lesser
  <2>3. wait \in 0 .. MaxBackoff
    BY SignalAlertsAssumption DEF ROWS
  <2>4. Older(entry) = [entry EXCEPT !.age = age, !.held = held, !.wait = wait]
    BY <1>2 DEF Older
  <2> HIDE DEF age, held, wait
  <2> QED
    BY <2>1, <2>2, <2>3, <2>4 DEF ROWS
<1> QED
  BY <1>1, <1>2

\* The empty list, and a runner at the start of a part of its cycle.
LEMMA AtRun ==
  ASSUME NEW phase \in PHASES
  PROVE  At(phase) \in RUNS /\ At(phase).phase = phase
<1>1. Nothing \in [{} -> COPIES]
  BY DEF Nothing
<1>2. Nothing \in LISTS
  BY <1>1 DEF LISTS
<1> QED
  BY <1>2 DEF At, RUNS

\* The rest of a list is a list.
LEMMA WithoutList ==
  ASSUME NEW rows \in LISTS, NEW a
  PROVE  Without(rows, a) \in LISTS
<1>1. PICK S \in SUBSET Alerts : rows \in [S -> COPIES]
  BY DEF LISTS
<1>2. Without(rows, a) \in [S \ {a} -> COPIES]
  BY <1>1 DEF Without
<1> QED
  BY <1>2 DEF LISTS

\* The initial states satisfy the invariant.
LEMMA AlertInitInv == AlertInit => AlertInv
<1> SUFFICES ASSUME AlertInit PROVE AlertInv
  OBVIOUS
<1>1. AlertTypeOK
  <2>1. outbox \in [Alerts -> ROWS]
    BY NoAlertRow DEF AlertInit
  <2>2. runner \in [Runners -> RUNS]
    BY AtRun DEF AlertInit, PHASES
  <2> QED
    BY <2>1, <2>2, AlertTyping, SignalAlertsAssumption
    DEF AlertTyped, AlertInit
<1>2. \A r \in Runners, a \in Alerts : ~Owns(r, a)
  BY AtRun DEF AlertInit, Owns, PHASES
<1>3. CooldownHolds
  BY DEF AlertInit, CooldownHolds, NoAlert, ACTIVE_STATUSES
<1> QED
  BY <1>1, <1>2, <1>3
  DEF AlertInv, OwnersInv, SeenInv, RepeatsAreLabelled, AlertInit

\* What a step does to one row, as far as the properties tell: the flag is
\* never taken back, no row leaves the terminal statuses, and only Enqueue
\* makes a row active that was not.
RowKept(a) ==
    /\ outbox[a].dup => outbox'[a].dup
    /\ outbox[a].status \in TERMINAL_ALERT =>
          outbox'[a].status \in TERMINAL_ALERT
    /\ outbox'[a].status \in ACTIVE_STATUSES =>
          outbox[a].status \in ACTIVE_STATUSES
    /\ outbox[a].age > Cooldown => outbox'[a].age > Cooldown

\* The statements on all rows.
LEMMA ReleaseStep ==
  ASSUME AlertTyped, NEW r \in Runners, ReleaseStale(r)
  PROVE  /\ AlertTyped'
         /\ \A a \in Alerts :
              /\ RowKept(a)
              /\ \/ outbox'[a] = outbox[a]
                 \/ outbox[a].status = "sending" /\ outbox'[a].dup
<1>1. ASSUME NEW a \in Alerts
      PROVE  /\ outbox'[a] \in ROWS
             /\ RowKept(a)
             /\ \/ outbox'[a] = outbox[a]
                \/ outbox[a].status = "sending" /\ outbox'[a].dup
  <2>1. outbox[a] \in ROWS
    BY DEF AlertTyped
  <2>2. CASE Interrupted(outbox[a])
    <3>1. outbox'[a] = Requeued(outbox[a])
      BY <2>2 DEF ReleaseStale
    <3> QED
      BY <2>1, <2>2, <3>1, RequeuedRow
      DEF Interrupted, RowKept, TERMINAL_ALERT, ACTIVE_STATUSES
  <2>3. CASE ~Interrupted(outbox[a])
    <3>1. outbox'[a] = outbox[a]
      BY <2>3 DEF ReleaseStale
    <3> QED
      BY <2>1, <3>1 DEF RowKept
  <2> QED
    BY <2>2, <2>3
<1>2. outbox' \in [Alerts -> ROWS]
  BY <1>1 DEF ReleaseStale
<1>3. runner' \in [Runners -> RUNS]
  BY AtRun DEF ReleaseStale, Goto, AlertTyped, PHASES
<1> QED
  BY <1>1, <1>2, <1>3 DEF AlertTyped, ReleaseStale, arrivals

\* expire touches pending rows only.
LEMMA ExpireStep ==
  ASSUME AlertTyped, NEW r \in Runners, Expire(r)
  PROVE  /\ AlertTyped'
         /\ \A a \in Alerts :
              /\ RowKept(a)
              /\ outbox'[a] = outbox[a] \/ outbox[a].status = "pending"
<1>1. ASSUME NEW a \in Alerts
      PROVE  /\ outbox'[a] \in ROWS
             /\ RowKept(a)
             /\ outbox'[a] = outbox[a] \/ outbox[a].status = "pending"
  <2>1. outbox[a] \in ROWS
    BY DEF AlertTyped
  <2>2. CASE outbox[a].status = "pending" /\ outbox[a].age > Delay
    <3>1. outbox'[a] = Settled(outbox[a], "expired")
      BY <2>2 DEF Expire
    <3>2. "expired" \in STATUSES
      BY RowValues
    <3>3. /\ outbox'[a] \in ROWS
          /\ outbox'[a].status = "expired"
          /\ outbox'[a].dup = outbox[a].dup
          /\ outbox'[a].age = outbox[a].age
      BY <2>1, <3>1, <3>2, SettledRow
    <3> QED
      BY <2>2, <3>3 DEF RowKept, TERMINAL_ALERT, ACTIVE_STATUSES
  <2>3. CASE ~(outbox[a].status = "pending" /\ outbox[a].age > Delay)
    <3>1. outbox'[a] = outbox[a]
      BY <2>3 DEF Expire
    <3> QED
      BY <2>1, <3>1 DEF RowKept
  <2> QED
    BY <2>2, <2>3
<1>2. outbox' \in [Alerts -> ROWS]
  BY <1>1 DEF Expire
<1>3. runner' \in [Runners -> RUNS]
  BY AtRun DEF Expire, Goto, AlertTyped, PHASES
<1> QED
  BY <1>1, <1>2, <1>3 DEF AlertTyped, Expire, arrivals

\* Time touches ages only.
LEMMA TickStep ==
  ASSUME AlertTyped, AlertTick
  PROVE  /\ AlertTyped'
         /\ \A a \in Alerts :
              /\ RowKept(a)
              /\ outbox'[a].status = outbox[a].status
              /\ outbox'[a].dup = outbox[a].dup
<1>1. ASSUME NEW a \in Alerts
      PROVE  /\ outbox'[a] \in ROWS
             /\ RowKept(a)
             /\ outbox'[a].status = outbox[a].status
             /\ outbox'[a].dup = outbox[a].dup
  <2>1. outbox[a] \in ROWS /\ outbox'[a] = Older(outbox[a])
    BY DEF AlertTyped, AlertTick
  <2> QED
    BY <2>1, OlderRow DEF RowKept
<1>2. outbox' \in [Alerts -> ROWS]
  BY <1>1 DEF AlertTick
<1>3. runner' \in [Runners -> RUNS]
  BY AtRun DEF AlertTick, AlertTyped, PHASES
<1> QED
  BY <1>1, <1>2, <1>3 DEF AlertTyped, AlertTick, arrivals

\* The statements on one row.
LEMMA EnqueueStep ==
  ASSUME AlertTyped, NEW r \in Runners, NEW a \in Alerts, Enqueue(r, a)
  PROVE  /\ AlertTyped'
         /\ outbox[a] = NoAlert /\ ~outbox'[a].dup
         /\ \A b \in Alerts \ {a} : outbox'[b] = outbox[b]
<1>1. outbox' = [outbox EXCEPT ![a] = [NoAlert EXCEPT !.status = "pending"]]
  BY DEF Enqueue, AlertTyped
<1>2. /\ [NoAlert EXCEPT !.status = "pending"] \in ROWS
      /\ ~[NoAlert EXCEPT !.status = "pending"].dup
  BY NoAlertRow, RowValues DEF ROWS, NoAlert
<1>3. outbox' \in [Alerts -> ROWS]
  BY <1>1, <1>2 DEF AlertTyped
<1> QED
  BY <1>1, <1>2, <1>3 DEF AlertTyped, Enqueue, arrivals

\* A claim either takes a pending row or changes no row.
LEMMA ClaimStep ==
  ASSUME AlertTyped, NEW r \in Runners, NEW a \in Alerts, Claim(r, a)
  PROVE  /\ AlertTyped'
         /\ \A b \in Alerts \ {a} : outbox'[b] = outbox[b]
         /\ \/ /\ outbox[a].status = "pending"
               /\ outbox'[a].status = "sending"
               /\ outbox'[a].dup = outbox[a].dup
               /\ outbox'[a].age = outbox[a].age
               /\ runner'[r].phase = "send" /\ runner'[r].key = a
            \/ /\ outbox' = outbox
               /\ runner'[r].phase = "loop"
<1>1. outbox[a] \in ROWS /\ runner[r] \in RUNS
  BY DEF AlertTyped
<1>2. CASE outbox[a].status = "pending"
  <2> DEFINE claimed == [outbox[a] EXCEPT
                 !.status = "sending", !.held = 0,
                 !.attempts = Lesser(@ + 1, MaxAttempts)]
             sender == [runner[r] EXCEPT !.phase = "send", !.key = a]
  <2>1. outbox' = [outbox EXCEPT ![a] = claimed]
    BY <1>2 DEF Claim, AlertTyped
  <2>2. runner' = [runner EXCEPT ![r] = sender]
    BY <1>2 DEF Claim, AlertTyped
  <2>3. Lesser(outbox[a].attempts + 1, MaxAttempts) \in 0 .. MaxAttempts
    BY <1>1, SignalAlertsAssumption DEF ROWS, Lesser
  <2>4. claimed \in ROWS
    BY <1>1, <2>3, RowValues DEF ROWS
  <2>5. claimed.status = "sending" /\ claimed.age = outbox[a].age
    BY <1>1 DEF ROWS
  <2>6. claimed.dup = outbox[a].dup
    BY <1>1 DEF ROWS
  <2>7. sender \in RUNS /\ sender.phase = "send" /\ sender.key = a
    BY <1>1 DEF RUNS, PHASES
  <2> HIDE DEF claimed, sender
  <2>8. outbox' \in [Alerts -> ROWS] /\ runner' \in [Runners -> RUNS]
    BY <2>1, <2>2, <2>4, <2>7 DEF AlertTyped
  <2>9. /\ outbox'[a] = claimed /\ runner'[r] = sender
        /\ \A b \in Alerts \ {a} : outbox'[b] = outbox[b]
    BY <2>1, <2>2 DEF AlertTyped
  <2> QED
    BY <1>2, <2>5, <2>6, <2>7, <2>8, <2>9 DEF AlertTyped, Claim, arrivals
<1>3. CASE outbox[a].status # "pending"
  <2> DEFINE skipper == [runner[r] EXCEPT !.rows = Without(@, a)]
  <2>1. runner' = [runner EXCEPT ![r] = skipper]
    BY <1>3 DEF Claim, AlertTyped
  <2>2. Without(runner[r].rows, a) \in LISTS
    BY <1>1, WithoutList DEF RUNS
  <2>3. skipper \in RUNS /\ skipper.phase = "loop"
    BY <1>1, <2>2 DEF RUNS, Claim
  <2> HIDE DEF skipper
  <2>4. runner' \in [Runners -> RUNS] /\ runner'[r].phase = "loop"
    BY <2>1, <2>3 DEF AlertTyped
  <2> QED
    BY <1>3, <2>4 DEF AlertTyped, Claim, arrivals
<1> QED
  BY <1>2, <1>3

\* An answer is recorded in a row that is being sent, or nowhere.
LEMMA MarkStep ==
  ASSUME AlertTyped, NEW r \in Runners, NEW a \in Alerts, Mark(r, a)
  PROVE  /\ AlertTyped'
         /\ \A b \in Alerts \ {a} : outbox'[b] = outbox[b]
         /\ runner'[r].phase = "loop"
         /\ \/ /\ outbox[a].status = "sending"
               /\ outbox'[a].status \in {"sent", "failed", "pending"}
               /\ runner[r].answer = "ok" => outbox'[a].status = "sent"
               /\ outbox'[a].dup = outbox[a].dup
               /\ outbox'[a].age = outbox[a].age
            \/ /\ outbox[a].status # "sending"
               /\ outbox' = outbox
<1>1. outbox[a] \in ROWS /\ runner[r] \in RUNS
  BY DEF AlertTyped
<1>2. runner' \in [Runners -> RUNS] /\ runner'[r].phase = "loop"
  <2> DEFINE looper == [runner[r] EXCEPT !.phase = "loop", !.answer = "none",
                            !.key = NoKey, !.rows = Without(@, a)]
  <2>1. runner' = [runner EXCEPT ![r] = looper]
    BY DEF Mark, AlertTyped
  <2>2. Without(runner[r].rows, a) \in LISTS
    BY <1>1, WithoutList DEF RUNS
  <2>3. looper \in RUNS /\ looper.phase = "loop"
    BY <1>1, <2>2 DEF RUNS, PHASES
  <2> HIDE DEF looper
  <2> QED
    BY <2>1, <2>3 DEF AlertTyped
<1>3. CASE outbox[a].status = "sending"
  <2>1. LastAttempt(runner[r].rows[a]) \in BOOLEAN
    BY DEF LastAttempt
  <2>2. PICK new \in Marked(outbox[a], runner[r].answer,
                            LastAttempt(runner[r].rows[a])) :
            outbox' = [outbox EXCEPT ![a] = new]
    BY <1>3 DEF Mark, MayMark
  <2>3. /\ new \in ROWS
        /\ new.status \in {"sent", "failed", "pending"}
        /\ runner[r].answer = "ok" => new.status = "sent"
        /\ new.dup = outbox[a].dup
        /\ new.age = outbox[a].age
    BY <1>1, <2>1, <2>2, MarkedRow
  <2>4. outbox' \in [Alerts -> ROWS]
    BY <2>2, <2>3 DEF AlertTyped
  <2>5. /\ outbox'[a] = new
        /\ \A b \in Alerts \ {a} : outbox'[b] = outbox[b]
    BY <2>2 DEF AlertTyped
  <2> QED
    BY <1>2, <1>3, <2>3, <2>4, <2>5 DEF AlertTyped, Mark, arrivals
<1>4. CASE outbox[a].status # "sending"
  BY <1>2, <1>4 DEF AlertTyped, Mark, MayMark, arrivals
<1> QED
  BY <1>3, <1>4

\* The statements that leave the outbox alone.
LEMMA LocalStep ==
  ASSUME AlertTyped, NEW r \in Runners,
         ReadDue(r) \/ Finish(r) \/ RunnerDies(r)
  PROVE  /\ AlertTyped'
         /\ outbox' = outbox /\ UNCHANGED arrivals
         /\ runner'[r].phase \notin {"send", "mark"}
         /\ \A s \in Runners \ {r} : runner'[s] = runner[s]
<1>1. CASE ReadDue(r)
  <2> DEFINE due == {a \in Alerts : IsDue(outbox[a])}
             list == [a \in due |-> Copy(outbox[a])]
             looper == [At("loop") EXCEPT !.rows = list]
  <2>1. list \in LISTS
    <3>1. \A a \in due : Copy(outbox[a]) \in COPIES
      BY DEF AlertTyped, ROWS, Copy, COPIES
    <3>2. list \in [due -> COPIES] /\ due \in SUBSET Alerts
      BY <3>1
    <3> HIDE DEF due, list
    <3> QED
      BY <3>2 DEF LISTS
  <2>2. runner' = [runner EXCEPT ![r] = looper]
    BY <1>1 DEF ReadDue
  <2> HIDE DEF list
  <2>3. looper \in RUNS /\ looper.phase = "loop"
    BY <2>1, AtRun DEF RUNS, PHASES
  <2> HIDE DEF looper
  <2> QED
    BY <1>1, <2>2, <2>3 DEF AlertTyped, ReadDue, arrivals
<1>2. CASE Finish(r) \/ RunnerDies(r)
  <2>1. runner' = [runner EXCEPT ![r] = At("done")] /\ outbox' = outbox
    BY <1>2 DEF Finish, RunnerDies, Goto
  <2>2. deaths' \in 0 .. MaxDeaths /\ UNCHANGED arrivals
    BY <1>2, SignalAlertsAssumption
    DEF AlertTyped, Finish, RunnerDies, arrivals
  <2>3. At("done") \in RUNS /\ At("done").phase = "done"
    BY AtRun DEF PHASES
  <2> QED
    BY <2>1, <2>2, <2>3 DEF AlertTyped, arrivals
<1> QED
  BY <1>1, <1>2

\* Steps in which no runner comes to own a row, and rows change only before
\* they are sent or with the flag.
LEMMA QuietStep ==
  ASSUME AlertTyped, OwnersInv, SeenInv, RepeatsAreLabelled,
         UNCHANGED arrivals,
         \A s \in Runners, b \in Alerts :
            Owns(s, b)' => Owns(s, b) /\ runner'[s] = runner[s],
         \A b \in Alerts :
            /\ outbox[b].dup => outbox'[b].dup
            /\ \/ outbox'[b].dup
               \/ outbox'[b].status = outbox[b].status
               \/ outbox[b].status \in {"none", "pending"}
  PROVE  OwnersInv' /\ SeenInv' /\ RepeatsAreLabelled'
<1>1. OwnersInv'
  BY DEF OwnersInv
<1>2. SeenInv'
  <2> SUFFICES ASSUME NEW a \in seen, a \notin excused, ~outbox'[a].dup,
                      outbox'[a].status \notin TERMINAL_ALERT
               PROVE  /\ outbox'[a].status = "sending"
                      /\ \A r \in Runners : Owns(r, a)' =>
                            /\ runner'[r].phase = "mark"
                            /\ runner'[r].answer = "ok"
    BY DEF SeenInv, arrivals
  <2>1. a \in Alerts
    BY DEF AlertTyped
  <2>2. \/ outbox[a].status \in TERMINAL_ALERT
        \/ /\ outbox[a].status = "sending"
           /\ \A r \in Runners : Owns(r, a) =>
                 runner[r].phase = "mark" /\ runner[r].answer = "ok"
    BY <2>1 DEF SeenInv
  <2>3. outbox'[a].status = outbox[a].status
    BY <2>1, <2>2 DEF TERMINAL_ALERT
  <2> QED
    BY <2>1, <2>2, <2>3
<1> QED
  BY <1>1, <1>2 DEF RepeatsAreLabelled, arrivals

\* A claim finds the row pending, so nobody owns it.
LEMMA ClaimKeeps ==
  ASSUME AlertTyped, OwnersInv, SeenInv, RepeatsAreLabelled,
         NEW r \in Runners, NEW a \in Alerts, Claim(r, a)
  PROVE  OwnersInv' /\ SeenInv' /\ RepeatsAreLabelled'
<1>1. \A s \in Runners \ {r} : runner'[s] = runner[s]
  BY DEF Claim, AlertTyped
<1>2. UNCHANGED arrivals
  BY DEF Claim
<1>3. CASE outbox' = outbox /\ runner'[r].phase = "loop"
  <2>1. \A s \in Runners, b \in Alerts :
            Owns(s, b)' => Owns(s, b) /\ runner'[s] = runner[s]
    BY <1>1, <1>3 DEF Owns
  <2> QED
    BY <1>2, <1>3, <2>1, QuietStep
<1>4. CASE /\ outbox[a].status = "pending"
           /\ outbox'[a].status = "sending"
           /\ outbox'[a].dup = outbox[a].dup
           /\ runner'[r].phase = "send" /\ runner'[r].key = a
  <2>1. \A b \in Alerts \ {a} : outbox'[b] = outbox[b]
    BY ClaimStep
  <2>2. ASSUME NEW s \in Runners, NEW b \in Alerts, Owns(s, b)'
        PROVE  \/ s = r /\ b = a
               \/ s # r /\ Owns(s, b) /\ runner'[s] = runner[s]
    BY <1>1, <1>4, <2>2 DEF Owns
  <2>3. ~outbox[a].dup => \A s \in Runners : ~Owns(s, a)
    BY <1>4 DEF OwnersInv
  <2>4. OwnersInv'
    <3> SUFFICES ASSUME NEW s \in Runners, NEW b \in Alerts,
                        Owns(s, b)', ~outbox'[b].dup
                 PROVE  /\ outbox'[b].status = "sending"
                        /\ \A t \in Runners : Owns(t, b)' => t = s
      BY DEF OwnersInv
    <3>1. CASE b = a
      BY <1>4, <2>2, <2>3, <3>1
    <3>2. CASE b # a
      BY <2>1, <2>2, <3>2 DEF OwnersInv
    <3> QED
      BY <3>1, <3>2
  <2>5. SeenInv'
    <3> SUFFICES ASSUME NEW b \in seen, b \notin excused, ~outbox'[b].dup,
                        outbox'[b].status \notin TERMINAL_ALERT
                 PROVE  /\ outbox'[b].status = "sending"
                        /\ \A s \in Runners : Owns(s, b)' =>
                              /\ runner'[s].phase = "mark"
                              /\ runner'[s].answer = "ok"
      BY <1>2 DEF SeenInv, arrivals
    <3>1. b \in Alerts
      BY DEF AlertTyped
    <3>2. b # a
      BY <1>4 DEF SeenInv, TERMINAL_ALERT
    <3> QED
      BY <2>1, <2>2, <3>1, <3>2 DEF SeenInv
  <2> QED
    BY <1>2, <2>4, <2>5 DEF RepeatsAreLabelled, arrivals
<1> QED
  BY <1>3, <1>4, ClaimStep

\* A sender is alone with a row that has not been re-queued, and its alert
\* has not come before or is excused.
LEMMA SendKeeps ==
  ASSUME AlertTyped, OwnersInv, SeenInv, RepeatsAreLabelled,
         NEW r \in Runners, NEW a \in Alerts, Send(r, a)
  PROVE  AlertTyped' /\ OwnersInv' /\ SeenInv' /\ RepeatsAreLabelled'
<1>1. PICK taken \in BOOLEAN, answer \in {"ok", "retry", "reject"} :
        /\ answer = "ok" => taken
        /\ answer = "reject" => ~taken
        /\ runner' = [runner EXCEPT ![r].phase = "mark", ![r].answer = answer]
        /\ IF taken
           THEN /\ seen' = seen \cup {a}
                /\ excused' = IF answer = "retry" \/ Outdated(r, a)
                              THEN excused \cup {a} ELSE excused
                /\ unmarked' = IF /\ a \in seen \ excused'
                                  /\ ~runner[r].rows[a].dup
                               THEN unmarked \cup {a} ELSE unmarked
           ELSE UNCHANGED arrivals
  BY DEF Send
<1>2. outbox' = outbox /\ deaths' = deaths
  BY DEF Send
<1> DEFINE marker == [runner[r] EXCEPT !.phase = "mark", !.answer = answer]
<1>3. marker \in RUNS /\ marker.phase = "mark" /\ marker.answer = answer
      /\ marker.key = a
  BY DEF AlertTyped, RUNS, PHASES, Send
<1>4. runner' = [runner EXCEPT ![r] = marker]
  BY <1>1 DEF AlertTyped
<1> HIDE DEF marker
<1>5. /\ runner' \in [Runners -> RUNS] /\ runner'[r] = marker
      /\ \A s \in Runners \ {r} : runner'[s] = runner[s]
  BY <1>3, <1>4 DEF AlertTyped
<1>6. /\ seen' \subseteq Alerts /\ excused' \subseteq seen'
      /\ unmarked' \subseteq seen' /\ seen \subseteq seen'
      /\ excused \subseteq excused'
      /\ seen' \subseteq seen \cup {a}
  BY <1>1 DEF AlertTyped, arrivals
<1>7. Owns(r, a) /\ runner[r].phase = "send"
  BY DEF Send, Owns
<1>8. \A s \in Runners, b \in Alerts : Owns(s, b)' <=> Owns(s, b)
  BY <1>3, <1>5, <1>7 DEF Owns
\* Of an alert that came before without excuse and flag.
<1>9. a \in seen => a \in excused \/ outbox[a].dup
                    \/ outbox[a].status \in TERMINAL_ALERT
  BY <1>7 DEF SeenInv
<1>10. ~outbox[a].dup => /\ outbox[a].status = "sending"
                         /\ \A s \in Runners : Owns(s, a) => s = r
  BY <1>7 DEF OwnersInv
<1>11. a \in seen => a \in excused \/ outbox[a].dup
  BY <1>9, <1>10 DEF TERMINAL_ALERT
<1>12. OwnersInv'
  BY <1>2, <1>8 DEF OwnersInv
<1>13. SeenInv'
  <2> SUFFICES ASSUME NEW b \in seen', b \notin excused', ~outbox[b].dup,
                      outbox[b].status \notin TERMINAL_ALERT
               PROVE  /\ outbox[b].status = "sending"
                      /\ \A s \in Runners : Owns(s, b)' =>
                            /\ runner'[s].phase = "mark"
                            /\ runner'[s].answer = "ok"
    BY <1>2 DEF SeenInv
  <2>1. CASE b = a
    <3>1. a \notin seen
      BY <1>6, <1>11, <2>1
    <3>2. taken /\ answer = "ok"
      BY <1>1, <2>1, <3>1 DEF arrivals
    <3> QED
      BY <1>3, <1>5, <1>8, <1>10, <2>1, <3>2
  <2>2. CASE b # a
    <3>1. b \in seen /\ b \in Alerts /\ b \notin excused
      BY <1>6, <2>2
    <3>2. /\ outbox[b].status = "sending"
          /\ \A s \in Runners : Owns(s, b) =>
                runner[s].phase = "mark" /\ runner[s].answer = "ok"
      BY <3>1 DEF SeenInv
    <3>3. ~Owns(r, b)
      BY <1>7, <2>2 DEF Owns
    <3> QED
      BY <1>5, <1>8, <3>1, <3>2, <3>3
  <2> QED
    BY <2>1, <2>2
<1>14. RepeatsAreLabelled'
  <2>1. a \in seen /\ ~runner[r].rows[a].dup /\ taken => a \in excused'
    BY <1>1, <1>6, <1>11 DEF Outdated
  <2> QED
    BY <1>1, <2>1 DEF RepeatsAreLabelled, arrivals
<1> QED
  BY <1>2, <1>5, <1>6, <1>12, <1>13, <1>14 DEF AlertTyped

\* The answer of a lone sender settles the row or puts it back; whoever else
\* marks it does so after it was re-queued.
LEMMA MarkKeeps ==
  ASSUME AlertTyped, OwnersInv, SeenInv, RepeatsAreLabelled,
         NEW r \in Runners, NEW a \in Alerts, Mark(r, a)
  PROVE  OwnersInv' /\ SeenInv' /\ RepeatsAreLabelled'
<1>1. \A s \in Runners \ {r} : runner'[s] = runner[s]
  BY DEF Mark, AlertTyped
<1>2. UNCHANGED arrivals
  BY DEF Mark
<1>3. Owns(r, a)
  BY DEF Mark, Owns
<1>4. ASSUME NEW s \in Runners, NEW b \in Alerts, Owns(s, b)'
      PROVE  s # r /\ Owns(s, b) /\ runner'[s] = runner[s]
  BY <1>1, <1>4, MarkStep DEF Owns
<1>5. CASE outbox[a].dup
  <2>1. \A b \in Alerts :
            /\ outbox[b].dup => outbox'[b].dup
            /\ \/ outbox'[b].dup
               \/ outbox'[b].status = outbox[b].status
    BY <1>5, MarkStep
  <2> QED
    BY <1>2, <1>4, <2>1, QuietStep
<1>6. CASE ~outbox[a].dup
  <2>1. /\ outbox[a].status = "sending"
        /\ \A s \in Runners : Owns(s, a) => s = r
    BY <1>3, <1>6 DEF OwnersInv
  <2>2. /\ runner[r].answer = "ok" => outbox'[a].status = "sent"
        /\ \A b \in Alerts \ {a} : outbox'[b] = outbox[b]
    BY <2>1, MarkStep
  <2>3. \A s \in Runners : ~Owns(s, a)'
    BY <1>4, <2>1
  <2>4. OwnersInv'
    BY <1>4, <2>2, <2>3 DEF OwnersInv
  <2>5. SeenInv'
    <3> SUFFICES ASSUME NEW b \in seen, b \notin excused, ~outbox'[b].dup,
                        outbox'[b].status \notin TERMINAL_ALERT
                 PROVE  /\ outbox'[b].status = "sending"
                        /\ \A s \in Runners : Owns(s, b)' =>
                              /\ runner'[s].phase = "mark"
                              /\ runner'[s].answer = "ok"
      BY <1>2 DEF SeenInv, arrivals
    <3>1. b \in Alerts
      BY DEF AlertTyped
    <3>2. b # a
      BY <1>3, <1>6, <2>1, <2>2 DEF SeenInv, TERMINAL_ALERT
    <3> QED
      BY <1>4, <2>2, <3>1, <3>2 DEF SeenInv
  <2> QED
    BY <1>2, <2>4, <2>5 DEF RepeatsAreLabelled, arrivals
<1> QED
  BY <1>5, <1>6

\* Statements that keep RowKept for every row keep the cooldown.
LEMMA CooldownKept ==
  ASSUME CooldownHolds, \A a \in Alerts : RowKept(a)
  PROVE  CooldownHolds'
BY DEF CooldownHolds, RowKept

\* The row of an alert whose age and activity stay.
LEMMA RowsKept ==
  ASSUME AlertTyped, NEW a \in Alerts,
         \A b \in Alerts \ {a} : outbox'[b] = outbox[b],
         outbox[a].status \in {"pending", "sending"},
         outbox[a].dup => outbox'[a].dup,
         outbox'[a].age = outbox[a].age
  PROVE  \A b \in Alerts : RowKept(b)
BY DEF RowKept, ACTIVE_STATUSES, TERMINAL_ALERT

\* The invariant is inductive.
LEMMA AlertStepInv == AlertInv /\ [AlertNext]_alertVars => AlertInv'
<1> SUFFICES ASSUME AlertInv, [AlertNext]_alertVars
             PROVE  AlertInv'
  OBVIOUS
<1> USE DEF AlertInv
<1>1. AlertTyped
  BY AlertTyping
<1>2. AlertTyped' => AlertTypeOK'
  BY AlertTyping, PTL
<1>3. ASSUME NEW r \in Runners, ReleaseStale(r)
      PROVE  AlertInv'
  <2>1. \A s \in Runners, b \in Alerts :
            Owns(s, b)' => Owns(s, b) /\ runner'[s] = runner[s]
    BY <1>1, <1>3, AtRun DEF ReleaseStale, Goto, Owns, AlertTyped, PHASES
  <2>2. UNCHANGED arrivals
    BY <1>3 DEF ReleaseStale
  <2>3. AlertTyped' /\ CooldownHolds'
    BY <1>1, <1>3, ReleaseStep, CooldownKept
  <2>4. \A b \in Alerts :
            /\ outbox[b].dup => outbox'[b].dup
            /\ \/ outbox'[b].dup
               \/ outbox'[b].status = outbox[b].status
    BY <1>1, <1>3, ReleaseStep DEF RowKept
  <2> QED
    BY <1>1, <1>2, <2>1, <2>2, <2>3, <2>4, QuietStep
<1>4. ASSUME NEW r \in Runners, Expire(r)
      PROVE  AlertInv'
  <2>1. \A s \in Runners, b \in Alerts :
            Owns(s, b)' => Owns(s, b) /\ runner'[s] = runner[s]
    BY <1>1, <1>4, AtRun DEF Expire, Goto, Owns, AlertTyped, PHASES
  <2>2. UNCHANGED arrivals
    BY <1>4 DEF Expire
  <2>3. AlertTyped' /\ CooldownHolds'
    BY <1>1, <1>4, ExpireStep, CooldownKept
  <2>4. \A b \in Alerts :
            /\ outbox[b].dup => outbox'[b].dup
            /\ \/ outbox'[b].status = outbox[b].status
               \/ outbox[b].status = "pending"
    BY <1>1, <1>4, ExpireStep DEF RowKept
  <2> QED
    BY <1>1, <1>2, <2>1, <2>2, <2>3, <2>4, QuietStep
<1>5. ASSUME NEW r \in Runners, ReadDue(r) \/ Finish(r) \/ RunnerDies(r)
      PROVE  AlertInv'
  <2>1. \A s \in Runners, b \in Alerts :
            Owns(s, b)' => Owns(s, b) /\ runner'[s] = runner[s]
    BY <1>1, <1>5, LocalStep DEF Owns
  <2>2. AlertTyped' /\ UNCHANGED arrivals /\ outbox' = outbox
    BY <1>1, <1>5, LocalStep
  <2>3. CooldownHolds'
    BY <2>2 DEF CooldownHolds
  <2> QED
    BY <1>1, <1>2, <2>1, <2>2, <2>3, QuietStep
<1>6. ASSUME NEW r \in Runners, NEW a \in Alerts, Enqueue(r, a)
      PROVE  AlertInv'
  <2>1. /\ AlertTyped' /\ UNCHANGED arrivals /\ runner' = runner
        /\ outbox[a] = NoAlert
        /\ \A b \in Alerts \ {a} : outbox'[b] = outbox[b]
    BY <1>1, <1>6, EnqueueStep DEF Enqueue
  <2>2. outbox[a].status = "none" /\ ~outbox[a].dup
    BY <2>1 DEF NoAlert
  <2>3. CooldownHolds'
    <3>1. \A b \in Alerts \ {a} : Pair[b] = Pair[a] =>
              \/ outbox[b].status \notin ACTIVE_STATUSES
              \/ outbox[b].age > Cooldown
      <4>1. \A b \in Alerts : outbox[b].age \in Int
        BY <1>1, HorizonBounds DEF AlertTyped, ROWS
      <4> QED
        BY <1>6, <4>1, SignalAlertsAssumption DEF Enqueue, Cooling
    <3> QED
      BY <2>1, <3>1 DEF CooldownHolds
  <2>4. \A s \in Runners, b \in Alerts :
            Owns(s, b)' => Owns(s, b) /\ runner'[s] = runner[s]
    BY <2>1 DEF Owns
  <2> QED
    BY <1>1, <1>2, <2>1, <2>2, <2>3, <2>4, QuietStep
<1>7. ASSUME NEW r \in Runners, NEW a \in Alerts, Claim(r, a)
      PROVE  AlertInv'
  <2>1. AlertTyped'
    BY <1>1, <1>7, ClaimStep
  <2>2. \A b \in Alerts : RowKept(b)
    <3>1. CASE outbox' = outbox
      BY <3>1 DEF RowKept
    <3>2. CASE outbox' # outbox
      BY <1>1, <1>7, <3>2, ClaimStep, RowsKept
    <3> QED
      BY <3>1, <3>2
  <2> QED
    BY <1>1, <1>2, <1>7, <2>1, <2>2, ClaimKeeps, CooldownKept
<1>8. ASSUME NEW r \in Runners, NEW a \in Alerts, Send(r, a)
      PROVE  AlertInv'
  <2>1. CooldownHolds'
    BY <1>8 DEF Send, CooldownHolds
  <2> QED
    BY <1>1, <1>2, <1>8, <2>1, SendKeeps
<1>9. ASSUME NEW r \in Runners, NEW a \in Alerts, Mark(r, a)
      PROVE  AlertInv'
  <2>1. AlertTyped'
    BY <1>1, <1>9, MarkStep
  <2>2. \A b \in Alerts : RowKept(b)
    <3>1. CASE outbox' = outbox
      BY <3>1 DEF RowKept
    <3>2. CASE outbox' # outbox
      BY <1>1, <1>9, <3>2, MarkStep, RowsKept
    <3> QED
      BY <3>1, <3>2
  <2> QED
    BY <1>1, <1>2, <1>9, <2>1, <2>2, MarkKeeps, CooldownKept
<1>10. ASSUME AlertTick
       PROVE  AlertInv'
  <2>1. \A s \in Runners, b \in Alerts :
            Owns(s, b)' => Owns(s, b) /\ runner'[s] = runner[s]
    BY <1>1, <1>10, AtRun DEF AlertTick, Owns, AlertTyped, PHASES
  <2>2. UNCHANGED arrivals
    BY <1>10 DEF AlertTick
  <2>3. AlertTyped' /\ CooldownHolds'
    BY <1>1, <1>10, TickStep, CooldownKept
  <2>4. \A b \in Alerts :
            /\ outbox[b].dup => outbox'[b].dup
            /\ outbox'[b].status = outbox[b].status
    BY <1>1, <1>10, TickStep DEF RowKept
  <2> QED
    BY <1>1, <1>2, <2>1, <2>2, <2>3, <2>4, QuietStep
<1>11. CASE UNCHANGED alertVars
  <2>1. \A s \in Runners, b \in Alerts : Owns(s, b)' <=> Owns(s, b)
    BY <1>11 DEF alertVars, Owns
  <2> QED
    BY <1>11, <2>1 DEF alertVars, AlertTypeOK, OwnersInv, SeenInv,
       RepeatsAreLabelled, CooldownHolds
<1>12. CASE AlertNext
  BY <1>3, <1>4, <1>5, <1>6, <1>7, <1>8, <1>9, <1>10, <1>12
  DEF AlertNext, Deliver
<1> QED
  BY <1>11, <1>12

\* The alerts' invariant holds in every behaviour.
LEMMA AlertInvariance == AlertSpec => []AlertInv
BY AlertInitInv, AlertStepInv, PTL DEF AlertSpec

\* Rows, runners and histories keep to their types for any alerts, runners
\* and times.
THEOREM AlertTypes == AlertSpec => []AlertTypeOK
<1>1. AlertInv => AlertTypeOK
  BY DEF AlertInv
<1> QED
  BY <1>1, AlertInvariance, PTL

\* Whoever dies or comes late, a repeated message carries the label, but for
\* a lost answer and an outdated copy of the row (signal_alerts.py:511-547).
THEOREM RepeatsLabelled == AlertSpec => []RepeatsAreLabelled
<1>1. AlertInv => RepeatsAreLabelled
  BY DEF AlertInv
<1> QED
  BY <1>1, AlertInvariance, PTL

\* The cooldown of a symbol and action is kept for any number of alerts and
\* runners (signal_alerts.py:359-388).
THEOREM CooldownKeeps == AlertSpec => []CooldownHolds
<1>1. AlertInv => CooldownHolds
  BY DEF AlertInv
<1> QED
  BY <1>1, AlertInvariance, PTL
=============================================================================
