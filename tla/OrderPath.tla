----------------------------- MODULE OrderPath -----------------------------
(***************************************************************************)
(* The order path of the scan loop (main.py) on an IBKR lane: every signal *)
(* of a cycle goes, one at a time, through RiskManager.evaluate, the       *)
(* portfolio gate, the gateway watchdog, IBKRBroker.submit and log_intent. *)
(* The process may die between any two of these steps and systemd starts   *)
(* it again; the broker moves on its own in between.                       *)
(*                                                                         *)
(* A signal is its row id in table signals (here 1, 2, ...), so signal,    *)
(* row and bracket are functions of that id: what the scanner asked for,   *)
(* the status of its execution_intents row, and what has become of its     *)
(* bracket order at the broker.                                            *)
(***************************************************************************)
EXTENDS Integers, FiniteSets

CONSTANTS
    Symbols,          \* the tickers the scanner may signal
    Mode,             \* BROKER: "ibkr_paper" or "ibkr_live"
    MaxOpen,          \* RISK_MAX_OPEN_POSITIONS
    AllowDuplicates,  \* RISK_ALLOW_DUPLICATES
    MaxSignals,       \* bound: how many signals the scanner emits
    MaxFaults         \* bound: crashes, failed reads and writes, bad replies

ASSUME OrderPathAssumption ==
    /\ Mode \in {"ibkr_paper", "ibkr_live"}
    /\ MaxOpen \in Nat \ {0}
    /\ AllowDuplicates \in BOOLEAN
    /\ MaxSignals \in Nat
    /\ MaxFaults \in Nat

Ids == 1 .. MaxSignals
Directions == {"long", "short"}
Signals == [sym : Symbols, dir : Directions]
NoSignal == [sym |-> "", dir |-> ""]

\* The statuses an execution_intents row can get. "refused" stands for what
\* submit() returns before it has placed anything (signal_only_skipped,
\* live_safety_blocked, paper_port_refused, connection_failed,
\* account_mismatch, error), "failed" for what it returns when the reply to
\* a placed bracket is no acceptance (broker_rejected, connection_failed,
\* error).
Statuses == {"risk_rejected", "broker_unready", "kill_switch_active",
             "refused", "failed", "accepted"}

BracketStates == {"none", "working", "held", "closed", "void"}
Legs == {"parent", "tp", "sl"}

VARIABLES
    pc,         \* where the scan loop is with the current signal
    cur,        \* the current signal's id; the ids after it are unused
    status,     \* the status log_intent is about to write
    recon,      \* the snapshot RiskManager stashes as checks['_recon']
    signal,     \* signal[i]: symbol and direction of signal i
    row,        \* row[i]: status of the execution_intents row, or "none"
    bracket,    \* bracket[i]: the bracket order of signal i at the broker
    kill,       \* data/kill_switch.json says active
    afterKill,  \* history: brackets placed since the switch was last thrown
    blind,      \* history: signals judged with a failed read of the intents
    faults      \* history: how many faults there have been

vars == <<pc, cur, status, recon, signal, row, bracket, kill, afterKill,
          blind, faults>>

loopVars == <<cur, signal>>
brokerVars == <<bracket>>
historyVars == <<afterKill, blind, faults>>

Stages == {"down", "idle", "reconcile", "risk", "portfolio", "ready",
           "submit", "policy", "place", "ack", "log"}

NoRecon == [failed |-> FALSE, positions |-> {}, orders |-> {}]

Init ==
    /\ pc = "down"
    /\ cur = 0
    /\ status = "none"
    /\ recon = NoRecon
    /\ signal = [i \in Ids |-> NoSignal]
    /\ row = [i \in Ids |-> "none"]
    /\ bracket = [i \in Ids |-> "none"]
    /\ kill \in BOOLEAN
    /\ afterKill = 0
    /\ blind = {}
    /\ faults = 0

-----------------------------------------------------------------------------
(* What the loop and the broker can see. *)

\* Rows with status 'accepted'. Nothing moves a row out of that status.
Accepted == {i \in Ids : row[i] = "accepted"}

\* _load_open_intents and _local_intents_from_db answer [] when they fail.
ReadIntents(ok) == IF ok THEN Accepted ELSE {}

Held(s, d) ==
    {i \in Ids : bracket[i] = "held" /\ signal[i] = [sym |-> s, dir |-> d]}

\* The account nets a symbol's longs and shorts; a bracket is one unit.
Positions ==
    {s \in Symbols :
        Cardinality(Held(s, "long")) # Cardinality(Held(s, "short"))}

\* Open orders: three legs until the parent fills, then the two exits.
OpenOrders ==
    {o \in Ids \X Legs : \/ bracket[o[1]] = "working"
                         \/ bracket[o[1]] = "held" /\ o[2] # "parent"}

\* reconcile() takes getattr(o, 'symbol', '?') of an order, and an order
\* carries no symbol: the symbol belongs to its contract.
UnknownSymbol == "?"
ReportedSymbol(o) == UnknownSymbol

-----------------------------------------------------------------------------
(* The scan loop. *)

\* systemd starts the bot; the kill switch file keeps its state.
Restart ==
    /\ pc = "down"
    /\ pc' = "idle"
    /\ UNCHANGED <<loopVars, status, recon, row, brokerVars, kill,
                   historyVars>>

\* insert_signal commits the next signal and an OrderIntent is built for it.
NewSignal ==
    /\ pc = "idle"
    /\ cur < MaxSignals
    /\ cur' = cur + 1
    /\ \E s \in Signals : signal' = [signal EXCEPT ![cur + 1] = s]
    /\ pc' = IF Mode = "ibkr_live" THEN "reconcile" ELSE "risk"
    /\ UNCHANGED <<status, recon, row, brokerVars, kill, historyVars>>

\* IBKRBroker.reconcile never raises: a failure before or after it has read
\* the orders only adds a warning to the lists as they are.
Reconcile ==
    /\ pc = "reconcile"
    /\ \/ recon' = [failed |-> FALSE, positions |-> Positions,
                    orders |-> OpenOrders]
       \/ \E seen \in {{}, OpenOrders} :
             recon' = [failed |-> TRUE, positions |-> {}, orders |-> seen]
    /\ pc' = "risk"
    /\ UNCHANGED <<loopVars, status, row, brokerVars, kill, historyVars>>

PositionConflict == signal[cur].sym \in recon.positions

OrderConflict == \E o \in recon.orders : ReportedSymbol(o) = signal[cur].sym

\* Variant for mutation: the position check of section 0 is lost.
LiveChecks_NoPositionCheck(local) ==
    /\ ~OrderConflict
    /\ Cardinality(recon.positions) + Cardinality(local) < MaxOpen

\* Section 0 of RiskManager.evaluate. A failed reconcile reaches it as two
\* empty lists.
LiveChecks(local) ==
    /\ ~PositionConflict
    /\ ~OrderConflict
    /\ Cardinality(recon.positions) + Cardinality(local) < MaxOpen

\* Variants for mutation: the cap is off by one; duplicates are let in.
IntentChecks_CapOffByOne(local) ==
    /\ Cardinality(local) <= MaxOpen
    /\ AllowDuplicates \/ \A i \in local : signal[i] # signal[cur]

IntentChecks_NoDuplicateCheck(local) ==
    Cardinality(local) < MaxOpen

\* Sections 3 and 4 of RiskManager.evaluate.
IntentChecks(local) ==
    /\ Cardinality(local) < MaxOpen
    /\ AllowDuplicates \/ \A i \in local : signal[i] # signal[cur]

RiskReads == IF Mode = "ibkr_live" THEN BOOLEAN ELSE {TRUE}

Failures(ok1, ok2) ==
    (IF ok1 THEN 0 ELSE 1) + (IF ok2 THEN 0 ELSE 1)

\* RiskManager.evaluate. The live section and the common one read the
\* intents separately; weekend and sizing decide otherOk.
RiskEvaluate ==
    /\ pc = "risk"
    /\ \E ok1 \in RiskReads, ok2 \in BOOLEAN, otherOk \in BOOLEAN :
        /\ faults' = faults + Failures(ok1, ok2)
        /\ faults' <= MaxFaults
        /\ blind' = IF ok2 THEN blind ELSE blind \cup {cur}
        /\ IF /\ Mode = "ibkr_live" => LiveChecks(ReadIntents(ok1))
              /\ IntentChecks(ReadIntents(ok2))
              /\ otherOk
           THEN pc' = "portfolio" /\ status' = status
           ELSE pc' = "log" /\ status' = "risk_rejected"
    /\ UNCHANGED <<loopVars, recon, row, brokerVars, kill, afterKill>>

SymbolsOf(ids) == {signal[i].sym : i \in ids}

\* portfolio_ctx.gather: the live lane takes the snapshot stashed by
\* RiskManager, the paper lane makes positions of the local intents.
Gather(local) ==
    [positions |-> IF Mode = "ibkr_live" THEN recon.positions
                                         ELSE SymbolsOf(local),
     orders    |-> recon.orders,
     local     |-> SymbolsOf(local)]

\* PortfolioRiskPolicy._count_open_trades. Orders of the snapshot carry no
\* parent id and no OCA group, so each leg is a trade.
CountOpenTrades(ctx) ==
    LET known == {ReportedSymbol(o) : o \in ctx.orders}
    IN  Cardinality(ctx.orders) + Cardinality(ctx.positions \ known)
            + Cardinality(ctx.local \ known)

\* PortfolioRiskPolicy.evaluate: the count, and the loss, exposure, sector
\* and streak gates as gatesOk.
PortfolioEvaluate ==
    /\ pc = "portfolio"
    /\ \E ok \in BOOLEAN, gatesOk \in BOOLEAN :
        /\ faults' = faults + Failures(ok, TRUE)
        /\ faults' <= MaxFaults
        /\ IF CountOpenTrades(Gather(ReadIntents(ok))) < MaxOpen /\ gatesOk
           THEN pc' = "ready" /\ status' = status
           ELSE pc' = "log" /\ status' = "risk_rejected"
    /\ UNCHANGED <<loopVars, recon, row, brokerVars, kill, afterKill, blind>>

\* The watchdog gate: 'ibkr' is in the broker's name on both lanes.
WatchdogGate ==
    /\ pc = "ready"
    /\ \/ pc' = "submit" /\ status' = status
       \/ pc' = "log" /\ status' = "broker_unready"
    /\ UNCHANGED <<loopVars, recon, row, brokerVars, kill, historyVars>>

\* What is_kill_switch_active may answer: a file that is missing or does not
\* parse, as it is while it is being rewritten, counts as active.
IsKillSwitchActive == {kill, TRUE}

\* Variant for mutation: submit() leaves the kill switch to its callers.
CheckKillSwitch_NotRead ==
    /\ pc = "submit"
    /\ pc' = "policy"
    /\ UNCHANGED <<loopVars, status, recon, row, brokerVars, kill,
                   historyVars>>

\* submit() reads the kill switch first, once.
CheckKillSwitch ==
    /\ pc = "submit"
    /\ \E active \in IsKillSwitchActive :
        IF active THEN pc' = "log" /\ status' = "kill_switch_active"
                  ELSE pc' = "policy" /\ status' = status
    /\ UNCHANGED <<loopVars, recon, row, brokerVars, kill, historyVars>>

\* Allocation policy, safety configuration or port, gateway, account and
\* contract: submit() returns at the first that fails.
SubmitChecks ==
    /\ pc = "policy"
    /\ \/ pc' = "place" /\ status' = status
       \/ pc' = "log" /\ status' = "refused"
    /\ UNCHANGED <<loopVars, recon, row, brokerVars, kill, historyVars>>

\* Three placeOrder calls; the last leg transmits all three.
Place ==
    /\ pc = "place"
    /\ bracket' = [bracket EXCEPT ![cur] = "working"]
    /\ afterKill' = IF kill THEN afterKill + 1 ELSE afterKill
    /\ pc' = "ack"
    /\ UNCHANGED <<loopVars, status, recon, row, kill, blind, faults>>

\* Three seconds later submit() reads the parent's log and status. A bracket
\* the broker dropped may still look pending; a bracket that lives may be
\* reported as failed (a log entry with a code, an exception).
Acknowledge ==
    /\ pc = "ack"
    /\ pc' = "log"
    /\ \/ status' = "accepted" /\ faults' = faults
       \/ /\ status' = "failed"
          /\ faults' = IF bracket[cur] = "void" THEN faults ELSE faults + 1
          /\ faults' <= MaxFaults
    /\ UNCHANGED <<loopVars, recon, row, brokerVars, kill, afterKill, blind>>

\* Variant for mutation: update_intent_status overwrites the broker's
\* status with a generic 'error'.
LogIntent_GenericError ==
    /\ pc = "log"
    /\ pc' = "idle"
    /\ status' = "none"
    /\ recon' = NoRecon
    /\ \/ row' = [row EXCEPT ![cur] = "error"] /\ faults' = faults
       \/ row' = row /\ faults < MaxFaults /\ faults' = faults + 1
    /\ UNCHANGED <<loopVars, brokerVars, kill, afterKill, blind>>

\* log_intent and update_intent_status. A failed insert returns None and
\* the loop goes on without a row.
LogIntent ==
    /\ pc = "log"
    /\ pc' = "idle"
    /\ status' = "none"
    /\ recon' = NoRecon
    /\ \/ row' = [row EXCEPT ![cur] = status] /\ faults' = faults
       \/ row' = row /\ faults < MaxFaults /\ faults' = faults + 1
    /\ UNCHANGED <<loopVars, brokerVars, kill, afterKill, blind>>

\* Any exception of the cycle, or a kill: the process ends where it is.
Crash ==
    /\ pc # "down"
    /\ faults < MaxFaults
    /\ pc' = "down"
    /\ status' = "none"
    /\ recon' = NoRecon
    /\ faults' = faults + 1
    /\ UNCHANGED <<loopVars, row, brokerVars, kill, afterKill, blind>>

-----------------------------------------------------------------------------
(* The operator and the broker. *)

ThrowKillSwitch ==
    /\ ~kill
    /\ kill' = TRUE
    /\ afterKill' = 0
    /\ UNCHANGED <<pc, loopVars, status, recon, row, brokerVars, blind,
                   faults>>

ReleaseKillSwitch ==
    /\ kill
    /\ kill' = FALSE
    /\ UNCHANGED <<pc, loopVars, status, recon, row, brokerVars,
                   historyVars>>

\* The parent fills, one exit fills, or the broker drops the bracket.
BrokerMoves(i, from, to) ==
    /\ bracket[i] = from
    /\ bracket' = [bracket EXCEPT ![i] = to]
    /\ UNCHANGED <<pc, loopVars, status, recon, row, kill, historyVars>>

Fill(i) == BrokerMoves(i, "working", "held")
Exit(i) == BrokerMoves(i, "held", "closed")
Drop(i) == BrokerMoves(i, "working", "void")

Next ==
    \/ Restart \/ NewSignal \/ Reconcile \/ RiskEvaluate
    \/ PortfolioEvaluate \/ WatchdogGate \/ CheckKillSwitch
    \/ SubmitChecks \/ Place \/ Acknowledge \/ LogIntent \/ Crash
    \/ ThrowKillSwitch \/ ReleaseKillSwitch
    \/ \E i \in Ids : Fill(i) \/ Exit(i) \/ Drop(i)

Spec == Init /\ [][Next]_vars
-----------------------------------------------------------------------------
(* Properties. *)

\* Every variable keeps to the values the code can give it.
TypeOK ==
    /\ pc \in Stages
    /\ cur \in 0 .. MaxSignals
    /\ status \in Statuses \cup {"none"}
    /\ recon \in [failed : BOOLEAN, positions : SUBSET Symbols,
                   orders : SUBSET (Ids \X Legs)]
    /\ signal \in [Ids -> Signals \cup {NoSignal}]
    /\ row \in [Ids -> Statuses \cup {"none"}]
    /\ bracket \in [Ids -> BracketStates]
    /\ kill \in BOOLEAN
    /\ afterKill \in Nat
    /\ blind \in SUBSET Ids
    /\ faults \in Nat

\* RISK_MAX_OPEN_POSITIONS bounds the accepted intents, and each time the
\* risk check reads the intents and gets [] for an answer (risk.py: the
\* except branch of _load_open_intents) the bound gives way by one only.
AcceptedCap == Cardinality(Accepted) <= MaxOpen + Cardinality(blind)

\* The bracket that is placed and whose row can still become accepted.
Flight ==
    IF pc = "ack" \/ (pc = "log" /\ status = "accepted") THEN {cur} ELSE {}

Lost == {i \in Ids : bracket[i] # "none"} \ (Accepted \cup Flight)
Dropped == {i \in Ids : bracket[i] = "void"}

\* The order path implements the contract of OrderLedger: whatever fails or
\* crashes between the risk check, the placing and the row, a bracket is
\* placed only while the accepted intents leave room and hold no twin of it,
\* and it becomes one of them unless it is dead or a fault came in between
\* (risk.py:208-227, main.py:408-444).
Ledger == INSTANCE OrderLedger WITH
    asked <- signal,
    flight <- Flight,
    ledger <- Accepted,
    lost <- Lost,
    dead <- Dropped,
    unseen <- blind
ImplementsOrderLedger == Ledger!Spec

\* The duplicate check of RiskManager.evaluate and the rows it reads keep
\* two brackets of one symbol and direction from being placed, except when
\* the first was never recorded as accepted or the second was judged on a
\* failed read.
NoDuplicateEntry ==
    ~AllowDuplicates =>
        \A i, j \in Ids :
            /\ i < j
            /\ bracket[i] # "none"
            /\ bracket[j] # "none"
            /\ signal[i] = signal[j]
            => row[i] # "accepted" \/ j \in blind

InHand(i) == i = cur /\ pc \notin {"down", "idle"}

Unrecorded(i) ==
    /\ i <= cur
    /\ ~InHand(i)
    /\ \/ row[i] = "none"
       \/ bracket[i] \in {"working", "held", "closed"} /\ row[i] # "accepted"

\* A signal that leaves the loop without a row, or whose bracket lives at
\* the broker while its row does not say accepted, costs a fault of its own:
\* a crash in mid-signal, a failed insert, or a reply misread.
UnrecordedOnlyByFaults == Cardinality({i \in Ids : Unrecorded(i)}) <= faults

\* kill_switch.py: an active switch blocks all broker submissions. submit()
\* reads it once, seconds before it places: what can still go out after the
\* switch is thrown is the one bracket in flight, whatever crashes and
\* restarts follow.
AtMostOneAfterKill == afterKill <= 1

\* On the live lane no bracket is placed in a symbol that the reconcile of
\* that signal showed the account to hold, unless that reconcile failed. If
\* the account has come to hold the symbol by the time of placing, an order
\* the reconcile did see, in that symbol, is what brought it there: the
\* seconds between reconcile() and placeOrder lose nothing else.
PositionRespected ==
    [][\A i \in Ids :
          /\ Mode = "ibkr_live"
          /\ bracket[i] = "none"
          /\ bracket'[i] = "working"
          => \/ recon.failed
             \/ /\ signal[i].sym \notin recon.positions
                /\ signal[i].sym \in Positions =>
                     \E o \in recon.orders :
                         signal[o[1]].sym = signal[i].sym]_vars

\* risk.py:176 "Fail-safe for live: if reconcile fails, block the order".
FailedReconcileBlocks ==
    Mode = "ibkr_live" /\ recon.failed => pc \notin {"place", "ack"}

\* risk.py:137-138 "Existing broker OPEN ORDER for this symbol -> block
\* (covers bracket legs not yet filled: prevents double-entry)".
OpenOrderBlocks ==
    Mode = "ibkr_live" /\ pc \in {"place", "ack"} =>
        \A o \in recon.orders : signal[o[1]].sym # signal[cur].sym
=============================================================================
