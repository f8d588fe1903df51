# Formal models of the algo trader

TLA+ models of the parts of this repository where orders, money and locks meet
concurrency and failure, checked with TLC on small instances and, for the
properties that matter most, proved with TLAPS for every value of the
constants. The models are translated from the code; where a comment or a
document says something the code does not do, a run shows it.

    tlc -config order_path_paper.cfg MCOrderPath      # check a run
    tlapm OrderPath_proofs.tla                        # check a proof

## The system

The program is a trading bot for IBKR and, by hand, eToro. One process
(`main.py`) scans the market in cycles and sends signals to a broker; threads
of it watch the gateway and write a heartbeat. Beside it run a dashboard and
the tools an operator starts from a shell. They share SQLite tables
(`data/signals.db`), small files (`data/kill_switch.json`, lock files) and the
brokers' accounts. Nothing else synchronises them.

| Part | State | Operations | What is hard | Module |
|---|---|---|---|---|
| Scan loop, `main.py` | the signal in hand | one signal at a time through risk, portfolio, watchdog, submit, log | a crash between any two steps; systemd restarts the process 10 s later | `OrderPath` |
| Signal and portfolio risk, `bot/risk.py`, `bot/portfolio_ctx.py` | none; they read `execution_intents` and the reconcile snapshot | `evaluate`, `gather`, `_count_open_trades` | failed reads that look like an empty book; stale snapshots | `OrderPath`, `OrderLedger` |
| IBKR adapter, `bot/brokers/ibkr_broker.py` | bracket orders in the account | `reconcile`, `submit`, `cancel`, flatten | the account moves by itself; replies that are late or misread | `OrderPath` (reconcile, submit), `SupervisedCycle` (connection_status, submit, flatten) |
| Kill switch, `bot/kill_switch.py` | one JSON file | throw, release, read | read once per submission, rewritten non-atomically | `OrderPath` |
| Intents store, `bot/flywheel.py` | `execution_intents` | insert, update status | a failed insert loses an order from the books | `OrderPath` |
| Gateway watchdog, `bot/gateway_watchdog.py`, `bot/recovery_executor.py`, `bot/notifier.py` | declared state, failure count, last alert, attempts | tick, alert, consider recovery | hysteresis against a changing gateway; lost messages; memory lost on restart | `GatewayWatchdog` |
| eToro live write, `tools/etoro_live_write.py`, `bot/etoro/*`, `tools/etoro_reconcile.py` | one row, one nonce, one POST | preflight, confirm, submit, poll, reconcile | lost replies, a policy that changes during the prompt, crashes | `EtoroLiveWrite`, `LiveOrder` |
| Cycle lock, `bot/paper_loop_d2/lock.py` | a lock file | acquire, release | several processes between any two system calls; kills | `CycleLock` |
| Supervised paper cycle, `bot/paper_loop_d2/*`, `tools/paper_loop/*` | one lifecycle; orders and a position at the broker | gates, single submit, observe, flatten, persist | flatten against racing fills and lagging reports; runs that die after an entry | `SupervisedCycle` |
| Allocation policy and its cache, `bot/broker_allocation.py`, `bot/runtime_policy.py`, `bot/etoro/signal_only_broker.py` | one JSON row; one cached answer per lane | enable, disable, reset, replace; ask | read-modify-write of the whole document by three programs; windows that expire; which stale answers may be served | `TradingPolicy` |
| Risk authority, `bot/risk_authority/*`, `tools/ingest_*.py` | a row per broker scope and day; the governor's state | ingest profit, ingest exposure, decide, propose, reset | two programs write one row; unknown readings; midnight; latches | `RiskAuthority`, `AuthorityGovernor` |
| Paper account, `bot/paper/*`, `bot/runtime/paper_loop.py` | cash, positions, profit; a file of events | open, close, mark, append, load | fees and losses against the cash; torn writes, retried appends | `PaperAccount`, `PaperLedger` |
| Dashboard and its authentication, `dashboard/*` | sessions, attempts, policy | log in, save policy, reset, kill switch | replayed codes, limits | its writes to modelled state only |
| Market clock, `bot/market_clock/*` | none | decide | total on malformed replies | not modelled |
| Historical store, `bot/historical/*` | a file of bars and a coverage row per symbol and timeframe; a lock row | backfill, incremental, repair, force rebuild | file and row written in two steps; a lease nobody renews; processes that die | `HistoricalStore` |
| Model registry, `bot/ml/registry/*`, `bot/ml/cli.py` | an entry per model, a pointer and a history per scope | register, promote, demote | four files written one after the other, no lock; registrations under a current model; copies written back | `ModelRegistry` |
| Signal alerts, `tools/signal_scoring/*` | an outbox in SQLite | enqueue, re-queue, expire, claim, send, mark | runners slower than their lease, lost answers, deaths between two statements | `SignalAlerts` |
| Scanner, indicators, backtesting, the rest of ML, scoring, universe, research | price files | numerical analysis | numbers, not control | not modelled |

`PROJECT.json` lists every part with its files, and under `hazards` the places
in the code the properties below are aimed at, line by line.

## OrderPath: a signal on its way to the account

One action per step of the loop in `main.py` 293-445, in the code's order:
`NewSignal`, (live lane) `Reconcile`, `RiskEvaluate`, `PortfolioEvaluate`,
`WatchdogGate`, `CheckKillSwitch`, `SubmitChecks`, `Place`, `Acknowledge`,
`LogIntent`. Between any two of them the process may `Crash` and `Restart`, the
operator may throw or release the kill switch, and brackets `Fill`, `Exit` or
`Drop`. A signal is its row id, so `signal`, `row` and `bracket` are functions
of the id: what was asked for, what the books say, and what the account holds.
Gates that do not depend on this state (weekend, sizing, loss, exposure,
sector, streak, port, account) decide freely. The statuses that mean "nothing
was placed" are one value, those that mean "the reply to a placed bracket is
no acceptance" another; the ids 888888 and 999999 that the queries leave out
belong to tests and are left out here too.

What the code does wrong on purpose of robustness is in the model: a read of
the intents that fails answers the empty list, `reconcile()` turns a failure
into empty lists, a failed insert goes unnoticed, the reply to a bracket may be
misread. Each such event but the reconcile failure is a fault, and `faults`
bounds them.

| Property | Kind | Says |
|---|---|---|
| `ImplementsOrderLedger` | refinement | the order path implements `OrderLedger` |
| `NoDuplicateEntry` | invariant | two brackets of one symbol and direction only if the first was never recorded or the second was judged blind |
| `UnrecordedOnlyByFaults` | invariant | every signal out of the loop's hands without a row, and every living bracket whose row does not say so, is paid for by a fault of its own |
| `AtMostOneAfterKill` | invariant | after the switch is thrown at most the one bracket in flight goes out, across crashes and restarts |
| `PositionRespected` | action | no live bracket in a symbol its reconcile showed as held; if the account came to hold it since, an order reconcile saw is the reason |

Runs. `order_path_paper`: two symbols, cap 2, three signals, two faults, so the
cap is reached and passed by blind signals, duplicates arise, and a bracket can
be lost from the books (3.9 million states). `order_path_live`: cap 5, because
the live count takes each leg of a bracket for a trade and a lower cap would
never let a second signal through; three signals, one fault (4.5 million
states). Symbols are interchangeable, hence the symmetry set; no liveness is
checked with it. The bounds on signals and faults end every behaviour, hence
`CHECK_DEADLOCK FALSE`.

`OrderLedger` is the contract of the book of accepted intents, in six steps: a
signal asks once; a bracket is placed when none is in flight, the book has room
for it, with one place more for each signal judged unseen, and holds no twin of
it, unless it is unseen itself; it is then recorded, or given up for lost, which
takes a dead bracket or a fault. The mapping: `ledger` are the rows with status
accepted, `flight` is the current bracket until its row is written or denies it,
`lost` the brackets that are neither, `unseen` are the blind signals. The cap
and the twins are decided at the risk check and are a guard of `Place` in the
contract, five steps later: that the verdict still holds there is what the
refinement shows. A step that took the row and the bracket apart in any other
order would match none of the six.

`AcceptedCap`, the accepted rows within `RISK_MAX_OPEN_POSITIONS` but for one for
each blind signal, is proved and not checked again. `NoDuplicateEntry` and the
refinement are checked in the paper lane and proved for both.

Two runs of the live lane expect a violation, each of what a comment promises:

- `order_path_live_reconcile`: `bot/risk.py:176` says a failed reconcile blocks
  the order. `reconcile()` never raises, so the branch is never taken.
- `order_path_live_orders`: `bot/risk.py:137-138` says an open order in the
  symbol blocks the entry. `reconcile()` reports every order's symbol as `?`.
  The duplicate check does not catch the opposite direction.

## GatewayWatchdog: the gateway and what is said about it

The thread's tick, request by request (`SystemdProbe`, `TcpProbe`, `ApiProbe` for
the connection of the API probe, `CurrentTime` for its question), the
locked update with its hysteresis (`Record`), the recovery decision
(`Recover`), the alert (`MaybeAlert`), the wait (`Wake`). The gateway moves at
any time, also between two requests; a port that closes breaks the API
connection (`GatewayMoves`), and a gateway that does not work throughout the tick
may lose it at any time (`ConnectionLost`). Time is counted in probe intervals; ages are
capped where they no longer matter. Messages may be lost, the event of a
recovery may fail to be written, and the bot may be restarted, which clears the
watchdog's and the controller's memory but not the gateway's.

| Property | Kind | Says |
|---|---|---|
| `VerdictFollowsGateway` | invariant | between ticks: never healthy after `failures_to_down` whole ticks of outage, whichever disorders they were; healthy after a tick in which the gateway worked throughout |
| `LastWord` | invariant | the dedup never leaves an older state as the last alert; the operator has the last one unless that message was lost |
| `RecoverySpaced` | invariant | recoveries are the minimum interval apart unless the controller forgot the earlier (restart, failed write) |
| `Detected` | liveness | a lasting outage is declared for good, unless the thread hangs in `reqCurrentTime`; a lasting recovery is in any case |

`RecoveryCapped`, at most `max_restarts_per_hour` remembered recoveries in an hour,
is proved and not checked again.

`gateway_watchdog` takes two failures to declare, a cooldown of three
intervals, recoveries two apart and two per four-interval hour, one restart:
each threshold is reached, passed and missed by one, and the hour holds one more
attempt than the limit allows (471 thousand states). Fairness is weak
fairness of the thread: `systemctl`, the TCP connection and `ib.connect` have
timeouts, the wait ends, `_loop` catches what a tick raises. Nothing is assumed of
the gateway. `ib.reqCurrentTime()` (`gateway_watchdog.py:190`) has no timeout,
although line 11 of the file promises a hard one: `CurrentTime` has no step while a
gateway that completed the handshake and then wedged keeps the connection. The
thread then waits with its last verdict, which may be healthy. `Detected` names
this case (`Hanging`) as the one lasting outage that need not be declared; the
model does not repair it with a fairness the code does not have.

## EtoroLiveWrite: one order with real money

The command of `tools/etoro_live_write.py` from the risk preflight to the last
poll, with the row it writes (`row`), the policy in the database (`killed`) and
the copy the command works on (`ctx`), the POST (`wire`), the order at eToro
(`order`), what it has opened (`position`) and the operator's reconciliation after
the command is over. The reply may be lost, late or an error while the order is in;
an order is executed at once or in parts and may be cancelled or rejected after a
part; the dashboard may save another policy at any time; the process may die
anywhere. A poll reads `InternalStatus`: an errorCode is `broker_rejected`
whatever the statusID says (`response_parser.py:80-84`), a partial execution is
still `submitted`. Only `filled` is checked against the positions
(`order_poller.py:99`); `broker_rejected` and `cancelled` are recorded without a
look at them.

| Property | Kind | Says |
|---|---|---|
| `NothingHidden` | invariant | while a position exists or may come, the row carries a status that denies it in three cases only: `broker_rejected` of a failed submit, `broker_rejected` of a poll, `cancelled` of a poll whose order really was cancelled, after a part of it |
| `StalePolicyBounded` | action | a POST leaves at most `ttl_seconds` after the policy began to forbid it: the nonce is what bounds the stale copy |
| `ImplementsLiveOrder` | refinement | command, operator and eToro implement `LiveOrder` |
| `PostIsResolved` | liveness | once the POST has left, the row reaches a status the runbook handles, or the process dies |

`LiveOrder` is the contract: one POST, at most one order, the position it holds,
and something that is `told`, which is true when it is told. A denial needs that
nothing is at eToro and nothing can get there any more, and no step follows it, nor
a closed position; `over` says that the order will do nothing more, not what it has
done; `doubt` is for a POST whose answer was lost or does not speak of positions.
`Told` maps the row. The refusals, the aborted confirmation and the operator's own
`broker_rejected` are denials. `broker_rejected` of a failed submit or of a poll is
doubt, as `unverified` is: the code says more there than it knows, and this is what
is left of it that is true. `cancelled` of a poll is `over`.
`OverruledOnlyUnchecked`, that an operator who records what he sees overrules no
terminal status but those a failed submit or a poll wrote without a look at the
positions, is proved and not checked again.

The command is one side of the run `outbound`, which uses a TTL of two ticks and lets the operator take four, so a
confirmation comes in time, on the last tick and too late; three polls give a
first, a middle and a last attempt (about a thousand states, all of them). The
other side is `SignalAlerts`, next.
Fairness is weak and only for the steps after the prompt, where each request
has a timeout; the operator may stay at the prompt for ever, and no poll need ever
meet a terminal status.

`etoro_rejected` expects a violation: the runbook's table
(`docs/M13_5_operator_runbook.md:70`) says of `broker_rejected` "No position
opened"; a timeout after the POST is recorded with that status, where the
design document wanted `unverified`. The poll is another way to it: an errorCode
beside statusID 0, 1 or 4, or a rejection after a partial execution. Line 71 of the
runbook says "No position" of `cancelled` too, which an order cancelled after a
part of it denies.

## SignalAlerts: messages that may arrive twice

The outbox of `tools/signal_scoring/signal_alerts.py`, and runners that put alerts
in and deliver them. A runner's cycle is `Enqueue` (any number of times; a
`--drain-only` runner not at all), `ReleaseStale`, `Expire`, `ReadDue`, then for each
row of its copy `Claim`, `Send`, `Mark`. Every statement on the database is a step
and commits on its own, so runners interleave between any two; `Enqueue` is one
transaction in the code too. Telegram takes a message or not, and answers, refuses
or fails to answer. A runner may take longer than its lease at any point, and it may
die (`RunnerDies`). Times are ages in ticks, capped where they stop to matter. Three
variables are history: `seen` (messages the operator has), `excused` (those whose
answer was lost, or that went out from an outdated copy), `unmarked` (the others
that came again without the label).

| Property | Kind | Says |
|---|---|---|
| `RepeatsAreLabelled` | invariant | a second message of an alert carries the label "possible duplicate", unless an answer was lost or the sender's copy of the row was older than its re-queueing |
| `CooldownHolds` | invariant | two alerts of one symbol and action, both younger than the cooldown, are never both pending, being sent or sent, however late a mark comes |
| `OutboxDrains` | liveness | every alert is sent, failed or expired in the end, whichever runners die |

In `outbound` this side has two alerts of one pair, two runners, one of which only
drains, a lease of no tick, so that a sender can be overtaken while it waits, two
attempts and one death: a late answer meets a row that another runner has
re-queued, claimed, failed or expired, and the next alert of the pair in its place.
`MCOutbound` lets a behaviour move one of the two modules (`side`); together they
have 525 thousand states. Fairness is weak, of the timer and of each runner: every
request and every lock of the database has a timeout. Alerts are alike and are
numbered as they come, in place of a symmetry set, which liveness forbids.

What the code does, and the model follows:

- `signal_alerts.py:21` says that two runners never send the same alert. The claim
  prevents that only within the lease; a sender that is slower is overtaken.
- Label and attempts come from the copy of the row (`signal_alerts.py:524-526`). A
  runner that read it before the re-queueing sends an unlabelled repeat. So does the
  retry after a lost answer: only an interrupted send sets the flag. `claim` does
  not look at `next_attempt_at_utc`, so an old copy also ignores the back-off.
- An alert that failed for lost answers may have been delivered, and it no longer
  counts for the cooldown. Expiry is looked at once a cycle, so a slow loop can send
  an alert later than `max_delivery_delay_minutes`.

## CycleLock: two supervised cycles

Processes that acquire, hold and release the lock of `lock.py`, one system call
per step: exclusive create, write, read, liveness probe, remove. A process may
be killed anywhere and its pid come back as a later run. The file remembers, as
history, whether the run that created it still lives; `stolen` notes that a
reclaim removed a living run's file.

| Property | Kind | Says |
|---|---|---|
| `ExclusionUnlessStolen` | invariant | two holders only after a reclaim has removed a living run's file |
| `ReleaseRemovesOwn` | action | until then release() removes the run's own file, in two calls though it is |
| `AcquireEnds` | liveness | acquire() always answers, however others come and go |

The run `cycle_lock` checks these together with the properties of
`SupervisedCycle` below, which extends this module. `cycle_lock_exclusion`
expects a violation of the lock alone, with three processes and the code's
five rounds: `lock.py:4` says the lock prevents two cycles at once; a process that
reads the file between its creation and the write of the pid takes it for
corrupt and removes it.

## SupervisedCycle: what is done under the lock

`SupervisedCycle` extends `CycleLock`: where the lock's module has the one
location "cycle", here the run goes through `run_supervised_cycle`, the
lifecycle it calls and the adapter's `flatten_paper_position`: `Gates`,
`Assess`, `Survey`, `Submit`, `Observe`, `Flatten`, `Recheck`, `Close`, `Final`,
`Persist`. A step ends where the code next waits for the broker. `Interrupt` is
a KeyboardInterrupt, which releases the lock with the position open; `Die` a
kill, which leaves the file too. The broker fills, rejects and cancels when it
likes (a bracket is three orders, its exits wait for the entry and cancel each
other), every call to it may fail, and it reports the position in its own time:
`reported` may lag behind `position`.

| Property | Kind | Says |
|---|---|---|
| `CleanEntry` | action | a bracket is placed only in an account without position and without order, whatever earlier runs left when they died |
| `OneShare` | invariant | of the one share of an entry never two are held and never one is owed, whatever fills between the steps of a flatten |
| `PersistedIsFlat` | invariant | a cycle reported as `PERSISTED` has left nothing that could trade later |

All three are excused once the lock was stolen or a run has decided on a report
that lagged (`late`): the code has no defence against either. What they do not
say is that a position is always closed. It is not: a kill switch thrown between
the entry and the flatten refuses the flatten, the emergency flatten has no
broker (the runner passes none), and an interrupted run leaves what it has. Such
a cycle ends `FAILED_CLOSED` or without a verdict, and the next run is refused by
`Survey` until somebody cleans up. `openOrders()` does not say which symbol an
order is for, so any order at all refuses an entry.

`cycle_lock` has two processes, two rounds of the acquire loop and two brackets
(440 thousand states): one run can die at any point of its cycle and another,
or its own pid's next run, meets what it left. Two processes instead of more,
because the safety of the lock is proved for any number and `AcquireEnds` is
about one process among others. Once nothing is promised any more the account
stands still and only the lock moves (`BoundedNext`). Weak fairness of the lock's
steps of each process: one that is not killed runs on. Nothing is assumed of the
broker or of the cycle.

## TradingPolicy: who may trade, and who may say so

The document in `portfolio_risk_state`, its writers, and the one reader that
decides a submission. `Enable` and `Disable` are the D0 command, `Reset` the
dashboard's manual reset, `Edit` a client of the dashboard's endpoint; each
loads the document, and later `Write`s the whole of it back, or dies
(`Abandon`). A job therefore carries what it will write from the moment of its
load. `GetSignalOnlyReason` is the reader with its cache; the database may fail
to answer; `Restart` empties the cache.

| Property | Kind | Says |
|---|---|---|
| `AllowIsCurrent` | invariant | a submission is let through only while the stored document authorizes the lane: an allowance is never served from the cache, past its window or past a kill switch |
| `RefusalIsRecent` | invariant | a refusal not due to the database follows a refusing document within the time to live |
| `KillSurvives` | action | a kill switch leaves the document only by a reset or an edit that saw it, or under a copy that another write has overtaken |

`EnabledIsTrue`, that an enable that is written authorizes the paper lane and that no
other lane comes alive with it, is proved and not checked again.

`trading_policy`: two writers, so that one can overtake the other, switches of
the whole and of the lane, windows of two instants in a clock of three, a time
to live of one: a window ends, a refusal expires, an old document from before D0
is met. The run has a second side, the model registry (below); `side` says which
of the two moves, and together they have 2.5 million states. One clock stands for the wall clock of the windows
and the monotonic clock of the cache. The eToro lane behaves as `ibkr_live` does
and is left out.

What the code does and the properties only allow for:

- All writers load outside their write transaction, so writes are lost;
  `KillSurvives` names the overtaken copy as the one way a switch is lost by a
  writer that never clears one.
- The manual reset clears the switches of `_KILL_SWITCH_SCOPES`
  (`dashboard/auth/manual_reset.py:189`), which has not been extended by the IBKR
  lanes: theirs survive a reset that reports success, while the docstring at
  line 215 speaks of every flag. A document from before D0 makes the reset fail
  its own validation.
- The dashboard's own form sends no D0 fields, so the endpoint rejects it;
  `Edit` is a client that sends a complete document.
- `get_broker` wraps the adapter once at start-up; a wrapped bot stays
  signal-only for the life of the process.

## RiskAuthority and AuthorityGovernor: what a decision rests on

Two commands write a broker scope's profit and its exposure into the same row
of `daily_state_per_broker`. Each reads the row, asks a broker, and writes back
its own columns, but the profit's command writes the exposure's columns too and
both write the shared `lifecycle_json`, so the two undo each other's work when
they overlap. A row that was absent is inserted, which fails if the other was
faster; a job that began before midnight writes yesterday's row. `decide` is
pure: `Reason` gives its answer to any request in any state, first gate first,
and the properties quantify over requests under the policy that lets most
through.

| Property | Kind | Says |
|---|---|---|
| `AllowIsInformed` | invariant | a request is allowed only when the last profit and the last exposure stored today are known for every scope, except an exposure that an overlapping profit ingestion brought back |
| `CapOnLatestReadings` | invariant | an allowed amount and the capital last read of all scopes stay within the cap, with the same exception |
| `DayLatchHolds` | invariant | after a daily loss the scope stays at SIGNAL_ONLY or below for the rest of the day, whatever other latches and fresh reads come |
| `ManualLatchHolds` | action | after a kill or a drawdown it stays at that reason's level until the operator resets it or a daily loss takes the latch away |

`AuthorityGovernor` is `propose` and `apply_manual_reset` on the state their
caller keeps; the caller is not in the repository, so decisions arrive in any
order and at any authority. The governor shares no variable with the ingestion:
`MCRiskAuthority` lets a behaviour move one of the two (`side`), so one run checks
both (1.3 million states). Two scopes, so that one is known and one is not; losses and
a capital around the caps; one midnight for the jobs, two for the latches.

What the code does and the model follows: the day latch clears
`manual_reset_required` (`governor.py:170`) although the docstring (113-116) says
only a manual reset can; a drawdown after a kill loosens the clamp from OFF to
SIGNAL_ONLY; a reading does not age (`exposure_stale` cannot fire, the maximal
ages are compared with nothing); an empty `allowed_brokers` allows every scope;
the peak of the drawdown starts anew at midnight; `daily_loss_block_active` is
never set per scope; the readers for IBKR are not wired.

## PaperAccount and PaperLedger: the simulated money

`PaperLedger` is the contract at the head of `bot/paper/account.py`: a position
is paid for once out of the balance, settled once, and its profit is what came
back less what was paid in. `PaperAccount` is the code: sizing against risk,
notional and cash, the simulated fill with slippage and commission, opening with
its refusals, closing with both commissions, the mark, the events, and the file
they are appended to. The process may die anywhere, and inside a write after any
number of whole lines and a piece of one; a line torn before its newline has the
next one glued to it. Restarting begins a fresh account and keeps the file.
The program opens positions through `RunPaperLoop`, which keeps the account and
drops the event of the open: `PaperLoopResult` (`paper_loop.py:54-63`) has no place
for it and `main.py:286` takes the account alone, although the docstring (line 24)
leaves it to the callers what to persist. Closing, and opening with the event in
hand (`OpenDirectly`), are called by the tests only, as is persisting: their caller
is the environment. A position of the loop may therefore be closed, and its close
filed, without its open ever being in the file; `silent` remembers those ids.

| Property | Kind | Says |
|---|---|---|
| `ImplementsLedger` | refinement | the account implements `PaperLedger` |
| `MoneyConserved` | invariant | cash and what open positions were paid equal the start and the realised profit |
| `ReplayBalances` | invariant | a file that loads has no line twice, and a close without its open only of a position the loop opened; the cash movements of all the others add up, across retries and restarts |
| `AcknowledgedOrRefused` | invariant | an acknowledged event is in the file, or the file is refused |

The account is one side of `paper_account`: two positions, prices that win and
lose, a commission of 20 %, so that fees decide whether an opening is
affordable, two instants, so that one process ends and another follows it with
the same files. The bounds on ids and time end every behaviour, hence
`CHECK_DEADLOCK FALSE`. Amounts are integers: the code's tolerances and
fractional quantities are left out, as are the snapshots and the file of account
states, where a second state of the same instant is dropped and reported as ok.

## HistoricalStore: bars, and what a row says of them

Processes that refresh the file of one symbol and native timeframe, as
`bot/historical/refresh.py` does: `Begin` reads the clock, `Claim` or `Refuse` is
`acquire_lock`, `Release` its end; in between `Unlink` and `Reset` (force
rebuild), `Plan`, `Fetch`, `Merge`, `Write`, `Cover`. A step ends where something
outlasts it: the file (`bars`), the row (`covered`, the instants from
`first_ts_utc` to `last_ts_utc`), the lock row. Time is counted in bars. A reply of
the provider may omit bars or give invalid rows, be refused or fail; any step may
raise (`Fail`); a process may die at any of them (`Die`), and its lock row is then
claimed, or respected when its pid is another process's by then. Four variables
are history: `overlong` (a run was overtaken after its lease and one of them is still
going on), `author` (the run that last changed the file and has not written its row,
because it is still to or because it was cut), `crossed` (the row was written last by
a run after another had changed the file), `excused` (the bars the file is known to
lack, which `Lacking` puts together when a run merges, in the run's `lost`, and
`Write` brings along with the file).

| Property | Kind | Says |
|---|---|---|
| `RefreshesExclude` | invariant | unless a run has outlived its lease, no two are between taking and giving back the lock |
| `SpanIsTrue` | invariant | the row spans exactly the bars of the file, unless the last run to change the file has not written its row, or a run that was overtaken after its lease wrote its own over a later file's |
| `HolesAreKnown` | invariant | a bar missing inside the file was, since the file was last written anew, asked for in vain or beyond the provider's cap; or lies before the range that writing asked for; or was skipped by a run that resumed from a row not the file's own |
| `NothingForgotten` | action | a stored bar goes only by a replacing run, an invalid row in its place, an unreadable file or an overlap |

The account and the store share no variable, and `MCPaperAccount` lets a behaviour
move one of the two (`side`). The store's side has two processes, a present of four
bars, a cap and a lease of two: a row lapses under its run, a pause outlasts the
cap, a run resumes from the row of a file that has gone, a run that was overtaken
puts an older file and an older row over newer ones. `Overlap = 0` lets a run resume
right behind the stored bars, where a hole would arise first; that a bar may lie
before the range a writing anew asked for takes an overlap of two bars, and is left
to the proofs, which hold for all values. Both sides together have 1.1 million
states.

The last clause of `HolesAreKnown` is about the row, not about the provider. A run
that starts late writes `{1}` over `{1,2,3}` and dies before its row: the row ends at
3, the next incremental run asks from there, and the file is `{1,3,4}`; nobody asks
for 2 again, short of a backfill. It takes a row that another run than the file's
wrote, which only a run cut between the two writes or an overlap leaves, and
`Lacking` admits the skipped bars in these two cases and no other.

What the code does, and the model follows:

- `refresh.py:110` takes a process it may not signal for a dead one (`lock.py:38`
  takes it for a living one). Refreshes of one user never meet this, and `Claimable`
  leaves it out.
- `M16_historical_data.md:149` says that two refreshes cannot run at once. The lease
  of 30 minutes is not renewed, and the release (`refresh.py:142`) clears the row
  whoever it names: the end of a run that was overtaken lets a third one in.
- `refresh.py:12` says that repair finds gaps and refetches them. It asks for the
  same tail as an incremental run.
- `missing_count`, on which the loader of the backtests gates
  (`data_loader.py:359`), is incremented by no caller; a hole the cap has left shows
  only as a note in a row whose quality is clean again after the next run.

## ModelRegistry: which model is current

One scope of the registry of trained models: an entry per model (`entries`), the
pointer to the current one, and the model the last line of
`current_history.jsonl` leaves (`told`). `Register` is a training that ends in
`register_candidate`; what matters of it is the status and the class of the reasons
that block a promotion. A promotion is `Vet` (the entry is copied and passes the
gates), `Look` (the pointer), `Copy` (the entry it names), `Demote`, `Promote`,
`Point`, `Tell`; a demotion takes the same steps without the second model. Each
step is one file, replaced atomically, and no lock holds two together: commands
interleave, and `Die` at any step. Four variables are history: `registered` (what the
last registration of a model found), `reset` (models registered since they were
promoted), `revived` (models whose entry is a copy older than their last
registration), `disturbed` (a command met another, or died between its writes).

| Property | Kind | Says |
|---|---|---|
| `OneCurrentModel` | invariant | between commands that ran whole and alone, the only active entry is that of the pointer's model, with the pointer's status unless it was registered again since |
| `HistoryTellsPointer` | invariant | between such commands the history leaves the model the pointer names |
| `PointedPassedGates` | invariant | whatever meets or dies, the pointer names a model whose last registration passed the gates (by force over a judgment reason only), or one registered again since, or one whose registration a copy undid |

`trading_policy`, side `models`: two commands and three models, one with a judgment
reason, one whose verdict may change between two registrations, one that drifts;
so a promotion demotes one model while another command promotes the third, and
registrations fall between any two steps. The policy and the registry share no
variable; each behaviour moves one of them.

What the code does, and the model follows:

- Registering a model again under its id overwrites the entry of the current model
  with a candidate's, and the pointer stays (`registry.py:305`). The id does not
  cover all that the gates look at: the dataset's hash
  (`dataset/assembler.py:603`) leaves out the flag that allows adjusted prices,
  and whether the adversarial test ran.
- A death between the four writes, or a second command, leaves two active entries,
  none, or a history that misses a promotion; nothing repairs that. `entry.py:52`
  calls a drift of the status impossible, and `storage.py:79` counts on a single
  writer, which nothing enforces.
- Drift blocks a promotion by the status alone, so a demotion, which replaces
  the status, could let a drifting model pass afterwards. It is never current, hence never
  demoted, unless its evaluation changes under one id.

## What is proved

For every value of the constants, under the assumptions named in each module
(`OrderPathAssumption` and so on: thresholds are naturals, a TTL, a retry bound
and a cap are at least one, the minimum interval fits in the hour), TLAPS checks
that the specification implies the following. Fairness is not used.

| Module | Theorems |
|---|---|
| `OrderPath_proofs` | `TypeCorrect`, `CapHolds`, `NoDuplicates`, `UnrecordedPaidFor`, `KillSwitchHolds`, `PositionsRespected`, `PathImplementsOrderLedger`, `ContractKeepsBook`, `PathKeepsBook` |
| `GatewayWatchdog_proofs` | `TypeCorrect`, `VerdictCorrect`, `LastWordKept`, `SpacingKept`, `CapKept` |
| `Outbound_proofs` | of the live write `TypeCorrect`, `NothingIsHidden`, `StaleWithinTTL`, `OverruleOnlyUnchecked`, `WriteImplementsLiveOrder`, `DenialStands`; of the alerts `AlertTypes`, `RepeatsLabelled`, `CooldownKeeps` |
| `SupervisedCycle_proofs` | of the lock `TypeCorrect`, `Exclusion`, `ReleaseOwn`; of the cycles `CycleImplementsLock`, `CyclesExclude`, `CycleTypeCorrect`, `OneShareAtMost`, `PersistedFlat`, `EntryClean` |
| `TradingPolicy_proofs` | `TypeCorrect`, `AllowCurrent`, `RefusalRecent`, `KillKept`, `EnabledTrue` |
| `RiskAuthority_proofs` | `TypeCorrect`, `AllowInformed`, `CapOnLatest`, `GovTypeCorrect`, `DayLatch`, `ManualLatch` |
| `ModelRegistry_proofs` | `RegTypes`, `GatesHold`, `OneCurrent`, `HistoryTells` |
| `PaperAccount_proofs` | `TypeInvariant`, `AccountImplementsLedger`, `MoneyIsConserved`, `ReplayIsBalanced`, `AcknowledgedIsKept`; of the store `HistTypes`, `Exclusion`, `NothingIsForgotten`, `SpanHolds`, `HolesExcused` |

The type invariants are therefore not checked again by the runs.

None of the invariants is inductive as it stands; most proof modules define an
`IInv` for all of them, prove that it holds initially and is kept by every action, and draw the
theorems from it; the store's theorems build on each other.

- `OrderPath`: between the risk check and the write of the row nothing says
  that the cap still has room. `Room` and `Fresh` do: while a signal is past
  the risk check and not blind, there is a free slot and no accepted twin of
  it. They are kept because the ids after `cur` are unused (`Unused`), the
  row of `cur` is written last (`Current`) and nobody else writes rows. `Account`
  counts: the signals a fault has to answer for, which are the unrecorded ones
  and the one whose reply was misread and whose row is about to deny it, are no
  more than the faults, and each step adds at most as many as it adds faults.
  The kill
  switch needs that the one bracket after a throw is the one between its check
  and its placing; the position property needs that the snapshot still describes
  the account, up to the orders it lists. For the refinement `Asked` adds that an
  unused id asks for nothing and that the bracket in flight was placed; the guard
  of the contract's `Place` is `Room` and `Fresh`. `ContractKeepsBook` then shows
  what the contract is worth alone: whatever implements it keeps the brackets in
  flight and booked within the cap and free of twins (`Kept`), up to the signals
  judged unseen. `PathKeepsBook` draws it for the order path, where it says more
  than `CapHolds`: the bracket whose row is still to come counts too.
- `GatewayWatchdog`: the verdict follows from counting: `failures` is at least
  the number of whole ticks of outage (`Counted`), and what the probes have
  derived agrees with the gateway if it stood still (`Truth`, `Probes`). `Words`
  says that a declared state without its alert is a tick on its way to one.
- `EtoroLiveWrite`: `Post` relates the command's place to the POST and the
  order, `Truthful` what a terminal status says to the outcome, `Counters` the
  age of the policy to the age of the nonce. The refinement needs no more: each
  step that writes the row is one that tells (`ToldBy`), from what the command's
  place says was told before (`ToldAt`). `DenialStands` follows: no step of the
  contract leaves a denial, and `NothingHidden` holds beside it at every state.
- `SignalAlerts`: `OwnersInv` says that a row without the flag which a runner is
  sending or marking is in sending and has that one runner. `SeenInv` says that an
  alert whose message has come, neither flagged nor excused, is out of delivery or
  about to be marked sent. So the only runners left that can send it again have a
  flagged row, or an outdated copy. The cooldown needs that no row comes back from
  the terminal statuses.
- `CycleLock`: `FileIsOwners` says that, unless stolen, a run past its create
  is the file's creator and lives; `RoundLeft` that a run in the acquire loop
  has not used up its rounds.
- `SupervisedCycle`: `CInv` describes the books there can be (`Book`: one share
  with its exits or with the order that closes it, or none and the exits behind
  their one entry) and what a run at each stage knows of them (`Known`: at the
  submit the account is quiet, at the close nothing but the share is left). That
  no other run disturbs this is the lock's `Exclusion`: every step of the
  composition is a step of `CycleLock` or leaves it alone (`LockStepOf`), so the
  composition implements the lock (`CycleImplementsLock`) and the lock's invariant
  and properties carry over.
- `TradingPolicy`: `Sound` says what a pending write holds, namely its own
  changes to the switches it saw; the reader's two properties need that a cached
  refusal is no younger than the last refusing document.
- `RiskAuthority`: `Follows` relates the row to the last readings and
  `HoldsExposure` a profit job's copy to the row as long as no exposure was
  stored in between; the governor's `GovIInv` names the latch that stands for
  what is owed.
- `PaperAccount`: for the refinement, an open position is not a settled one and
  was paid for with a positive amount (`Apart`); each step of the account is then
  a step of the ledger or a stutter. `Sound` carries the money: what the sum over
  the open positions gains or loses by one of them is what the cash moves by.
  The event file needs three parts, together `Kept`. `Log`
  types the emitted events and the lines. `Books`: among the events emitted since
  the restart no two are of one kind and id (`Once`), and a close comes after the open it
  settles and books what the two moved, unless the loop dropped that open. `Filed`: a file that loads has no line
  twice and no close without its open but of the loop, since an append writes what the file
  lacks in the order it was emitted; its lines were emitted since the restart,
  or their id is spent. The replay
  then balances because every settled open event can be mated with its close
  event, and the pairs taken out of the sum one by one. The induction over
  finite sets this needs (`SubsetInduction`) and the one over numbers (`UpTo`)
  are instances of well-founded induction on sets rather than on an operator;
  from them follow that a sum over a set is what is left out plus the rest
  (`SumOut`), and that what `append_events` writes is new and written once
  (`FreshIsKept`).
- `HistoricalStore`: the lock row names the one run inside (`ExclusiveRow`); hence
  nobody disturbs what a run knows at each stage of the file and of what it asked
  for (`StageFacts`), and the file is as its author left it. A row is written by the
  author or, after an overlap, by another (`crossed`). The holes need more than the
  inside of the file: `Accounted` excuses every bar missing up to the end of the
  file, and of the file each run is about to write. At a merge (`MergeAccounts`) a
  range asked for has no gap of its own (`AskedIsRange`), and with the file's own row
  it begins no later than the end of the file, so that `SpanHolds` is used here.

- `ModelRegistry`: `GatesInv` follows every copied entry to its write: what a command
  holds of a model is what its last registration found, unless a registration came
  since (`stale`). `CalmInv` says what entries, pointer and history show at each
  step of the one command that is going on, as long as nothing is disturbed.

## What is only checked

Liveness (`AcquireEnds`, `PostIsResolved`, `OutboxDrains`, `Detected`) is out of the prover's
reach. The four violations are found by TLC. Every invariant and every other
action property of the runs is a theorem.

## Plan

Done: the order path, the watchdog, the live write and the lock; then the
supervised cycle composed with the lock, the policy with its cache, the risk
authority, the paper account with its refinement, the historical store, the model registry,
the signal alerts; the contracts of the order path and of the live write.
What is left, in this order:

1. The dashboard's sessions, rate limit and replay window.
2. Contracts for the alerts' outbox and for the historical store, in the manner
   of `OrderLedger`.

## Not modelled, and why

The modelled code is the part of the repository that has state and more than
one actor. Most of its lines have neither. Numerical analysis (scanner,
indicators, scoring, backtesting, training of models) computes floating-point results from price
data; data providers, the universe registry, reports and the
dashboard's pages are input and output; scripts and command lines parse
arguments. A model of that code would restate it, so the share of all lines that
the definitions map stays small by design.

The silent failure of a kill switch write, the deletion of its file, and the
overlap of a reconciliation with a running command are named in `PROJECT.json`
as hazards that no property covers, beside the lane switches a manual reset
leaves on and the readings that do not age. A recovery that the limits skip is not
tried again before the next transition (`gateway_watchdog.py:379`); no comment
promises that it is, so no property says so. The client id the supervised cycle
shares with the scan loop, and the scan loop itself beside a supervised cycle,
are not composed: each model has its own account.
