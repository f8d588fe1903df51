--------------------------- MODULE SupervisedCycle ---------------------------
(***************************************************************************)
(* What a run does while it holds the cycle lock: run_supervised_cycle     *)
(* (bot/paper_loop_d2/lifecycle.py) with the lifecycle it calls            *)
(* (tools/paper_loop/m21_1extra_b2b_single_submit.py), the adapter's       *)
(* submit and flatten_paper_position (bot/brokers/ibkr_broker.py) and the  *)
(* record written at the end, composed with CycleLock and with the broker. *)
(* One symbol, of which an entry buys one share. A step here ends where    *)
(* the code next waits: connections open and close and events arrive in    *)
(* between. Every connection may fail; the broker fills, rejects and       *)
(* cancels when it likes, and reports the position when it likes.          *)
(***************************************************************************)
EXTENDS CycleLock

CONSTANT MaxEntries     \* bound: brackets placed

ASSUME SupervisedCycleAssumption == MaxEntries \in Nat

VARIABLES
    stage,      \* stage[p]: where p is in its cycle, "off" outside of it
    result,     \* result[p]: what run_lifecycle and the cycle have found
    orders,     \* the orders that are live at the broker
    position,   \* the shares held, negative when short
    reported,   \* the position as the gateway tells it
    entries,    \* brackets placed so far; the last one's number
    persisted,  \* history: the last bracket whose cycle ended PERSISTED
    late        \* history: a decision was taken on a position report that
                \* had not caught up with a fill

cycleVars == <<stage, result, orders, position, reported, entries,
               persisted, late>>
all == <<vars, cycleVars>>

Stages == {"off", "gates", "assess", "survey", "submit", "observe", "flatten",
           "recheck", "close", "final", "persist", "over"}

\* LoopState, as far as supervised cycles end in it.
Outcomes == {"none", "D0_BLOCKED", "D1_BLOCKED", "PRECHECK_FAILED",
             "FAILED_CLOSED", "PERSISTED"}

\* entry: its bracket's number, 0 for none; residual: the position it read
\* and is about to close; flat: flatten_confirmed.
NoResult == [entry |-> 0, observed |-> FALSE, residual |-> 0, flat |-> FALSE,
             outcome |-> "none"]

Order(p, number, leg, size) ==
    [run |-> p, number |-> number, leg |-> leg, size |-> size,
     cancelled |-> FALSE]

\* _make_bracket: exits that wait for their parent, one cancels the other.
Bracket(p, number) ==
    {Order(p, number, "entry", 1), Order(p, number, "target", -1),
     Order(p, number, "stop", -1)}

CycleInit ==
    /\ Init
    /\ stage = [p \in Pids |-> "off"]
    /\ result = [p \in Pids |-> NoResult]
    /\ orders = {} /\ position = 0 /\ reported = 0 /\ entries = 0
    /\ persisted = 0
    /\ late = FALSE

\* Nothing is promised once the lock was taken from a living run, or a
\* position report has misled a run.
Excused == stolen \/ late

(***************************************************************************)
(* The cycle. Proceed and End leave the lock and the broker alone.         *)
(***************************************************************************)

At(p, s) == pc[p] = "cycle" /\ stage[p] = s
MoveTo(p, s) == stage' = [stage EXCEPT ![p] = s]
UnchangedAccount == UNCHANGED <<vars, orders, position, reported, entries>>

Proceed(p, s) ==
    MoveTo(p, s) /\ UnchangedAccount /\ UNCHANGED <<result, persisted, late>>

End(p, outcome) ==
    /\ MoveTo(p, "over")
    /\ result' = [result EXCEPT ![p] = [NoResult EXCEPT !.outcome = outcome]]
    /\ persisted' = IF outcome = "PERSISTED" THEN result[p].entry ELSE persisted
    /\ UnchangedAccount /\ UNCHANGED late

\* The two gates; then _assert_paper_mode, which raises.
Gates(p) ==
    /\ At(p, "gates")
    /\ \/ \E outcome \in {"D0_BLOCKED", "D1_BLOCKED", "FAILED_CLOSED"} :
              End(p, outcome)
       \/ Proceed(p, "assess")

\* The kill switch, connection_status and the account.
Assess(p) ==
    /\ At(p, "assess")
    /\ \/ End(p, "PRECHECK_FAILED")
       \/ Proceed(p, "survey")

\* Variant for mutation: only the orders of the symbol count, and
\* openOrders() does not say which symbol an order is for.
Clean_BySymbol == reported = 0

\* No position in the symbol and no order at all.
Clean == reported = 0 /\ orders = {}

ReadPosition == late' = (late \/ reported # position)

\* reconcile before the entry.
Survey(p) ==
    /\ At(p, "survey")
    /\ \/ End(p, "PRECHECK_FAILED")
       \/ /\ Clean
          /\ MoveTo(p, "submit")
          /\ ReadPosition
          /\ UnchangedAccount /\ UNCHANGED <<result, persisted>>

\* submit: refused or failed before anything is placed, by the kill switch,
\* the policy or the connection, or a bracket placed. What it returns is not
\* looked at: B2b goes on to observe and to flatten.
Submit(p) ==
    /\ At(p, "submit")
    /\ \/ Proceed(p, "observe")
       \/ /\ entries < MaxEntries
          /\ entries' = entries + 1
          /\ orders' = orders \cup Bracket(p, entries + 1)
          /\ result' = [result EXCEPT ![p].entry = entries + 1]
          /\ MoveTo(p, "observe")
          /\ UNCHANGED <<vars, position, reported, persisted, late>>

\* The bounded poll: a position is reported, or the time is up.
Observe(p) ==
    /\ At(p, "observe")
    /\ \/ Proceed(p, "flatten")
       \/ /\ reported # 0
          /\ result' = [result EXCEPT ![p].observed = TRUE]
          /\ MoveTo(p, "flatten")
          /\ UnchangedAccount /\ UNCHANGED <<persisted, late>>

\* flatten_paper_position, to its first wait: refused, or every order asked
\* to be cancelled whose cancel does not raise.
Flatten(p) ==
    /\ At(p, "flatten")
    /\ \/ Proceed(p, "persist")
       \/ /\ \E failed \in SUBSET orders :
                 orders' = failed \cup {[o EXCEPT !.cancelled = TRUE] :
                                            o \in orders \ failed}
          /\ MoveTo(p, "recheck")
          /\ UNCHANGED <<vars, result, position, reported, entries,
                         persisted, late>>

\* Variant for mutation: the close goes out on top of live exit legs.
Cleared_Unchecked == TRUE

\* _target_open_trades finds nothing.
Cleared == orders = {}

\* Variant for mutation: no open order is taken for no position.
Flat_OrdersOnly == Cleared

Flat == Cleared /\ reported = 0

\* After the cancels: refuse while an order is left, otherwise read the
\* position. With nothing to close the final proof follows at once.
Recheck(p) ==
    /\ At(p, "recheck")
    /\ \/ Proceed(p, "persist")
       \/ /\ Cleared
          /\ result' = [result EXCEPT ![p].residual = reported,
                                      ![p].flat = reported = 0 /\ Flat]
          /\ MoveTo(p, IF reported = 0 THEN "persist" ELSE "close")
          /\ ReadPosition
          /\ UnchangedAccount /\ UNCHANGED persisted

\* The contract is qualified, and one market order for what was read.
Close(p) ==
    /\ At(p, "close")
    /\ \/ Proceed(p, "persist")
       \/ /\ orders' = orders \cup
                 {Order(p, entries, "close", -result[p].residual)}
          /\ MoveTo(p, "final")
          /\ UNCHANGED <<vars, result, position, reported, entries,
                         persisted, late>>

\* The proof on the same connection.
Final(p) ==
    /\ At(p, "final")
    /\ \/ Proceed(p, "persist")
       \/ /\ result' = [result EXCEPT ![p].flat = Flat]
          /\ MoveTo(p, "persist")
          /\ ReadPosition
          /\ UnchangedAccount /\ UNCHANGED persisted

\* persist_lifecycle and the verdict. A record that cannot be written fails
\* the cycle.
Persist(p) ==
    /\ At(p, "persist")
    /\ \/ End(p, "FAILED_CLOSED")
       \/ result[p].observed /\ result[p].flat /\ End(p, "PERSISTED")

\* KeyboardInterrupt passes every handler but the finally that releases.
Interrupt(p) ==
    /\ pc[p] = "cycle" /\ stage[p] # "over"
    /\ End(p, "none")

Cycle(p) ==
    \/ Gates(p) \/ Assess(p) \/ Survey(p) \/ Submit(p) \/ Observe(p)
    \/ Flatten(p) \/ Recheck(p) \/ Close(p) \/ Final(p) \/ Persist(p)

(***************************************************************************)
(* The lock around it.                                                     *)
(***************************************************************************)

UnchangedBroker == UNCHANGED <<orders, position, reported, entries,
                               persisted, late>>

Begin(p) ==
    Start(p) /\ UNCHANGED cycleVars

Acquire(p) ==
    /\ Create(p) \/ ReadOwner(p) \/ Probe(p) \/ Reclaim(p)
    /\ UNCHANGED cycleVars

Acquired(p) ==
    Write(p) /\ MoveTo(p, "gates") /\ UNCHANGED result /\ UnchangedBroker

\* The process and what it knew are gone.
Forget(p) ==
    /\ MoveTo(p, "off")
    /\ result' = [result EXCEPT ![p] = NoResult]
    /\ UnchangedBroker

Release(p) ==
    /\ stage[p] = "over" /\ ReleaseRead(p)
    /\ Forget(p)

Released(p) == ReleaseRemove(p) /\ UNCHANGED cycleVars

Die(p) ==
    Kill(p) /\ Forget(p)

(***************************************************************************)
(* The broker.                                                             *)
(***************************************************************************)

UnchangedByBroker == UNCHANGED <<vars, stage, result, entries, persisted, late>>

Siblings(o) == {s \in orders : s.number = o.number /\ s.leg # "close"}

\* A market order fills, or an exit whose entry has: it takes the other
\* exit with it.
Fill(o) ==
    /\ o.leg \in {"target", "stop"} => \A s \in Siblings(o) : s.leg # "entry"
    /\ position' = position + o.size
    /\ orders' = orders \ (IF o.leg \in {"target", "stop"} THEN Siblings(o)
                           ELSE {o})
    /\ UNCHANGED reported /\ UnchangedByBroker

\* An order ends unfilled: it was cancelled or, a market order, rejected. An
\* entry takes its exits with it.
Drop(o) ==
    /\ o.cancelled \/ o.leg \in {"entry", "close"}
    /\ orders' = orders \ (IF o.leg = "entry" THEN Siblings(o) ELSE {o})
    /\ UNCHANGED <<position, reported>> /\ UnchangedByBroker

Report ==
    /\ reported # position
    /\ reported' = position
    /\ UNCHANGED <<orders, position>> /\ UnchangedByBroker

-----------------------------------------------------------------------------
BrokerStep == Report \/ \E o \in orders : Fill(o) \/ Drop(o)

LockStep(p) == Acquire(p) \/ Acquired(p) \/ Release(p) \/ Released(p)

CycleNext ==
    \/ \E p \in Pids : \/ Begin(p) \/ LockStep(p) \/ Cycle(p)
                      \/ Interrupt(p) \/ Die(p)
    \/ BrokerStep

CycleSpec == CycleInit /\ [][CycleNext]_all
-----------------------------------------------------------------------------
Orders == [run : Pids, number : 0..MaxEntries,
           leg : {"entry", "target", "stop", "close"}, size : Int,
           cancelled : BOOLEAN]

Results == [entry : 0..MaxEntries, observed : BOOLEAN, residual : Int,
            flat : BOOLEAN, outcome : Outcomes]

CycleTypeOK ==
    /\ TypeOK
    /\ stage \in [Pids -> Stages]
    /\ result \in [Pids -> Results]
    /\ orders \subseteq Orders
    /\ position \in Int /\ reported \in Int
    /\ entries \in 0..MaxEntries
    /\ persisted \in 0..MaxEntries
    /\ late \in BOOLEAN

\* m21_1extra_b2b_single_submit.py: B2b "originates AT MOST ONE entry ... only
\* after proving the account has no pre-existing position or open orders". An
\* entry meets a flat account, whatever earlier runs left when they died.
CleanEntry ==
    [][entries' # entries /\ ~Excused => orders = {} /\ position = 0]_all

\* ibkr_broker.py: orders are cancelled first "so a still-live SL/TP leg
\* cannot fill mid-flatten and flip the position". Of the runs' one share
\* never two are held, and never one is owed.
OneShare == ~Excused => position \in {0, 1}

\* "... never a fake clean": a cycle reported as PERSISTED has left nothing
\* behind that could trade later; until the next entry the account is flat.
PersistedIsFlat ==
    ~Excused /\ persisted = entries => orders = {} /\ position = 0
=============================================================================
