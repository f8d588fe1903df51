-------------------------- MODULE AuthorityGovernor --------------------------
(***************************************************************************)
(* bot/risk_authority/governor.py: propose turns the engine's decision     *)
(* into the authority of the next moment and keeps latches, in a state its *)
(* caller persists and passes back; apply_manual_reset is the operator's   *)
(* way out. The caller is not in src/: here it chains the states, gives    *)
(* each decision the authority it likes (as tools/etoro_live_write.py does *)
(* with --authority) and lets days pass. The engine names one reason per   *)
(* decision (engine.py:733-748); the reasons of a class behave alike.      *)
(***************************************************************************)
EXTENDS Integers

CONSTANT MaxToday  \* bound: UTC midnights

ASSUME AuthorityGovernorAssumption == MaxToday \in Nat

\* The authority ladder.
OFF == 0
SIGNAL_ONLY == 1
AUTO_ALLOWED == 4
Authority == OFF..AUTO_ALLOWED

\* One reason of each class: kill switches, the drawdown throttle, the day
\* latches, the auto-restorable ones, and those without a latch.
MANUAL_RESET_ONLY == {"kill", "drawdown"}
DAY_LATCH == {"daily_loss"}
AUTO_RESTORE == {"unknown"}
Reasons == MANUAL_RESET_ONLY \cup DAY_LATCH \cup AUTO_RESTORE \cup {"market"}
NoReason == "none"
NoDay == -1

VARIABLES
    today,    \* the UTC day of the decisions
    state,    \* GovernorState
    owed,     \* history: the last manual-reset reason seen since the operator
              \* reset the scope, unless a day latch followed it
    lossDay   \* history: the day of the last day latch since then

govVars == <<today, state, owed, lossDay>>

Fresh == [authority |-> AUTO_ALLOWED, latchedDay |-> NoDay,
          latched |-> NoReason, manual |-> FALSE, fresh |-> 0]

GovInit ==
    /\ today = 0
    /\ state = Fresh
    /\ owed = NoReason
    /\ lossDay = NoDay

Lower(S) == CHOOSE a \in S : \A b \in S : a <= b

\* engine.py, _compute_authority_after.
Target(reason) ==
    CASE reason = "kill" -> OFF
      [] reason \in {"drawdown", "daily_loss", "unknown"} -> SIGNAL_ONLY
      [] OTHER -> AUTO_ALLOWED

ManualClamp ==
    IF ~state.manual THEN AUTO_ALLOWED
    ELSE IF state.latched = "kill" THEN OFF ELSE SIGNAL_ONLY

InSameDay == state.latchedDay = today /\ state.latched \in DAY_LATCH

DayClamp == IF InSameDay THEN SIGNAL_ONLY ELSE AUTO_ALLOWED

Latch(reason, latchedDay, manual, fresh) ==
    [latched |-> reason, latchedDay |-> latchedDay, manual |-> manual,
     fresh |-> fresh]

\* Variant for mutation: an allowed decision clears a latch of any kind.
NextLatch_AllowFirst(reason) ==
    CASE reason = NoReason -> Latch(NoReason, NoDay, FALSE, 0)
      [] reason \in MANUAL_RESET_ONLY -> Latch(reason, today, TRUE, 0)
      [] reason \in DAY_LATCH -> Latch(reason, today, FALSE, 0)
      [] OTHER -> Latch(state.latched, state.latchedDay, state.manual, 0)

\* Variant for mutation: an unknown reading overwrites today's day latch.
NextLatch_AutoFirst(reason) ==
    CASE reason \in MANUAL_RESET_ONLY -> Latch(reason, today, TRUE, 0)
      [] reason \in DAY_LATCH -> Latch(reason, today, FALSE, 0)
      [] state.manual -> Latch(state.latched, state.latchedDay, TRUE, 0)
      [] reason \in AUTO_RESTORE -> Latch(reason, today, FALSE, 0)
      [] OTHER -> Latch(state.latched, state.latchedDay, FALSE, 0)

\* Step 5 of propose: the first case that applies.
NextLatch(reason) ==
    CASE reason \in MANUAL_RESET_ONLY -> Latch(reason, today, TRUE, 0)
      [] reason \in DAY_LATCH -> Latch(reason, today, FALSE, 0)
      [] reason \notin MANUAL_RESET_ONLY \cup DAY_LATCH /\ state.manual ->
            Latch(state.latched, state.latchedDay, TRUE, 0)
      [] reason \notin MANUAL_RESET_ONLY \cup DAY_LATCH /\ ~state.manual
            /\ InSameDay -> Latch(state.latched, state.latchedDay, FALSE, 0)
      [] reason = NoReason /\ ~state.manual /\ ~InSameDay ->
            IF state.fresh >= 2
            THEN Latch(NoReason, NoDay, FALSE, 3)
            ELSE Latch(state.latched, state.latchedDay, FALSE, state.fresh + 1)
      [] reason \in AUTO_RESTORE /\ ~state.manual /\ ~InSameDay ->
            Latch(reason, today, FALSE, 0)
      [] OTHER -> Latch(state.latched, state.latchedDay, state.manual, 0)

\* A decision taken at authority before, blocked for reason or allowed.
Propose(before, reason) ==
    /\ LET next == NextLatch(reason)
       IN  state' = [authority |-> Lower({before, Target(reason), ManualClamp,
                                          DayClamp}),
                     latchedDay |-> next.latchedDay, latched |-> next.latched,
                     manual |-> next.manual, fresh |-> next.fresh]
    /\ owed' = CASE reason \in MANUAL_RESET_ONLY -> reason
                 [] reason \in DAY_LATCH -> NoReason
                 [] OTHER -> owed
    /\ lossDay' = IF reason \in DAY_LATCH THEN today ELSE lossDay
    /\ UNCHANGED today

\* The operator re-arms the scope at the level of their choice.
ApplyManualReset(level) ==
    /\ state' = [Fresh EXCEPT !.authority = level]
    /\ owed' = NoReason
    /\ lossDay' = NoDay
    /\ UNCHANGED today

Midnight ==
    /\ today < MaxToday
    /\ today' = today + 1
    /\ UNCHANGED <<state, owed, lossDay>>

GovNext ==
    \/ \E before \in Authority, reason \in Reasons \cup {NoReason} :
           Propose(before, reason)
    \/ \E level \in Authority : ApplyManualReset(level)
    \/ Midnight

GovSpec == GovInit /\ [][GovNext]_govVars

(***************************************************************************)
(* Properties.                                                             *)
(***************************************************************************)

GovTypeOK ==
    /\ today \in 0..MaxToday
    /\ state \in [authority : Authority, latchedDay : {NoDay} \cup 0..MaxToday,
                  latched : Reasons \cup {NoReason}, manual : BOOLEAN,
                  fresh : 0..3]
    /\ owed \in MANUAL_RESET_ONLY \cup {NoReason}
    /\ lossDay \in {NoDay} \cup 0..MaxToday

\* After a kill switch or the drawdown throttle, no run of decisions, at
\* whatever authority they are asked for, gets a scope above the level that
\* reason allows until the operator resets it (governor.py:113-116). This
\* much of that promise the code keeps; a daily-loss block takes the latch
\* away, and a drawdown after a kill loosens it.
ManualLatchHolds ==
    [][owed # NoReason /\ owed' # NoReason =>
           state'.authority <= Target(owed)]_govVars

\* After a daily-loss block the scope stays at SIGNAL_ONLY or below for the
\* rest of the UTC day, unknown readings, other latches and fresh data
\* notwithstanding, unless the operator resets it (governor.py:110-112).
DayLatchHolds ==
    lossDay = today => state.authority <= SIGNAL_ONLY
=============================================================================
