---------------------------- MODULE PaperAccount ----------------------------
(***************************************************************************)
(* The simulated account of the paper loop: bot/runtime/paper_loop.py      *)
(* takes a signal from routing to an open position, bot/paper/closing.py   *)
(* and account.py settle it, bot/paper/storage.py keeps events and account *)
(* states in append-only files. main.py holds the account in memory and    *)
(* starts a fresh one when the process starts. Amounts are integers: the   *)
(* tolerances of the code (1e-6) and fractional quantities are left out.   *)
(* The loop hands nobody the event of an open; the program calls neither   *)
(* the close nor the storage functions, the tests do. Their caller is the  *)
(* environment here: it closes a position, of the loop or one it opened    *)
(* itself, with the entry commission it was opened with, as the tests do.  *)
(***************************************************************************)
EXTENDS Integers, SequencesExt

CONSTANTS
    Ids,        \* paper_position_id values the run may use
    Start,      \* starting_equity
    Prices,     \* entry and exit prices a signal or a close may carry
    Stops,      \* distances between the entry price and stop_loss
    RiskPct,    \* max_risk_pct
    CapPct,     \* max_position_notional_pct, in percent
    Slippage,   \* what the fill price adds to the market price
    FeePct,     \* commission, in percent of the notional
    MaxClock    \* bound: instants a run may last

ASSUME PaperAccountAssumption ==
    /\ Start \in Nat \ {0}
    /\ Prices \subseteq Nat \ {0}
    /\ Stops \subseteq Nat \ {0}
    /\ RiskPct \in 1..100 /\ CapPct \in 1..100
    /\ Slippage \in Nat
    /\ FeePct \in 0..100
    /\ MaxClock \in Nat

VARIABLES
    clock,     \* the time the callers pass as event_time_utc
    up,        \* the process is running
    cash,      \* available_paper_cash
    realized,  \* realized_pnl_cumulative
    open,      \* ids of open_positions
    position,  \* of each id: entry notional, quantity and entry commission
    closed,    \* processed_close_ids
    asOf,      \* as_of_utc
    emitted,   \* events the results have carried, in the caller's hands
    eventFile, \* events.jsonl
    acked,     \* history: events an append_events that returned ok was given
    silent,    \* history: ids the paper loop opened, their events dropped
    spent      \* history: ids that earlier processes used

vars == <<clock, up, cash, realized, open, position, closed, asOf, emitted,
          eventFile, acked, silent, spent>>
account == <<cash, realized, open, position, closed, asOf>>
files == <<eventFile, acked, silent>>

NoPosition == [entry |-> 0, quantity |-> 0, fee |-> 0]
Paid(p) == p.entry + p.fee
EmptyFile == [lines |-> <<>>, tail |-> FALSE]

Init ==
    /\ clock = 0 /\ up = TRUE
    /\ cash = Start /\ realized = 0
    /\ open = {} /\ position = [i \in Ids |-> NoPosition] /\ closed = {}
    /\ asOf = 0
    /\ emitted = <<>>
    /\ eventFile = EmptyFile /\ acked = {} /\ silent = {}
    /\ spent = {}

Tick ==
    /\ clock < MaxClock
    /\ clock' = clock + 1
    /\ UNCHANGED <<up, account, emitted, files, spent>>

(***************************************************************************)
(* The paper loop: one iteration, for one routed signal.                   *)
(***************************************************************************)

Least(S) == CHOOSE x \in S : \A y \in S : x <= y

\* The free cash is both the equity and the cash the caps are taken of.
Quantity(price, stop) ==
    Least({(cash * RiskPct) \div (100 * stop),
           (cash * CapPct) \div (100 * price),
           cash \div price})

Fill(price, stop) ==
    LET notional == Quantity(price, stop) * (price + Slippage)
    IN  [entry |-> notional, quantity |-> Quantity(price, stop),
         fee |-> (notional * FeePct) \div 100]

CanOpen(i, p) ==
    /\ i \notin open \cup closed
    /\ p.quantity > 0
    /\ cash >= Paid(p)

Event(kind, i, delta, gain) ==
    [kind |-> kind, at |-> clock, id |-> i, delta |-> delta, gain |-> gain]

\* open_position_in_account: the account after it.
OpenPosition(i, price, stop) ==
    LET p == Fill(price, stop) IN
    /\ CanOpen(i, p)
    /\ cash' = cash - Paid(p)
    /\ open' = open \cup {i}
    /\ position' = [position EXCEPT ![i] = p]
    /\ asOf' = clock
    /\ UNCHANGED <<clock, up, realized, closed, eventFile, acked, spent>>

\* An id is a hash of the order, the fill and the time: a process never
\* draws one that an earlier process used. The loop keeps the account of
\* open_position_in_account and drops its events; PaperLoopResult has none.
RunPaperLoop ==
    /\ up
    /\ \E i \in Ids \ spent, price \in Prices, stop \in Stops :
         OpenPosition(i, price, stop) /\ silent' = silent \cup {i}
    /\ emitted' = emitted

\* A caller of open_position_in_account, with the event it returns; it sizes
\* its positions as the loop does.
OpenDirectly ==
    /\ up
    /\ \E i \in Ids \ spent, price \in Prices, stop \in Stops :
         /\ OpenPosition(i, price, stop)
         /\ emitted' = Append(emitted, Event("POSITION_OPENED", i,
                              -Paid(Fill(price, stop)), 0))
    /\ silent' = silent

(***************************************************************************)
(* Settling and marking.                                                   *)
(***************************************************************************)

\* closing.py: the proceeds, and the profit net of both commissions.
Proceeds(i, price) ==
    LET out == position[i].quantity * price
    IN  out - (out * FeePct) \div 100

\* Variant for mutation: the entry commission is subtracted at the open only.
NetRealized_FeeDropped(i, price) == Proceeds(i, price) - position[i].entry

NetRealized(i, price) == Proceeds(i, price) - Paid(position[i])

\* Variant for mutation: the settled position stays among the open ones.
ClosePosition_StaysOpen(i, price) ==
    /\ up
    /\ i \in open
    /\ cash + Proceeds(i, price) >= 0
    /\ cash' = cash + Proceeds(i, price)
    /\ realized' = realized + NetRealized(i, price)
    /\ closed' = closed \cup {i}
    /\ asOf' = clock
    /\ emitted' = Append(emitted, Event("POSITION_CLOSED", i,
                         Proceeds(i, price), NetRealized(i, price)))
    /\ UNCHANGED <<clock, up, open, position, files, spent>>

ClosePosition(i, price) ==
    /\ up
    /\ i \in open \ closed
    /\ cash + Proceeds(i, price) >= 0
    /\ cash' = cash + Proceeds(i, price)
    /\ realized' = realized + NetRealized(i, price)
    /\ open' = open \ {i}
    /\ closed' = closed \cup {i}
    /\ asOf' = clock
    /\ emitted' = Append(emitted, Event("POSITION_CLOSED", i,
                         Proceeds(i, price), NetRealized(i, price)))
    /\ UNCHANGED <<clock, up, position, files, spent>>

\* mark_account values the open positions: an event and no other change.
MarkAccount ==
    /\ up
    /\ LET e == Event("POSITION_UPDATED", "account", 0, 0)
       IN  /\ ~Contains(emitted, e)
           /\ emitted' = Append(emitted, e)
    /\ UNCHANGED <<clock, up, account, files, spent>>

(***************************************************************************)
(* The file of events. A line is a record or, once torn or glued, Corrupt; *)
(* tail says that the last line lacks its newline, so that the next line   *)
(* written is glued to it.                                                 *)
(***************************************************************************)

Corrupt == [kind |-> "corrupt"]
Known(file) == ToSet(file.lines) \ {Corrupt}    \* _existing_ids

PutLines(file, records) ==
    IF records = <<>> THEN file
    ELSE [lines |-> IF file.tail
                    THEN Front(file.lines) \o <<Corrupt>> \o Tail(records)
                    ELSE file.lines \o records,
          tail |-> FALSE]

\* The write stops inside a line: before its end, or before its newline.
PutTail(file, line) ==
    [lines |-> IF file.tail THEN Front(file.lines) \o <<Corrupt>>
               ELSE Append(file.lines, line),
     tail |-> TRUE]

\* Variant for mutation: only a torn last line is noticed.
LoadOk_LastLine(file) == file.lines = <<>> \/ Last(file.lines) # Corrupt

\* _load: one line that does not parse refuses the file.
LoadOk(file) == ~Contains(file.lines, Corrupt)

\* Variant for mutation: records already in the file are written again.
Fresh_All(file, records) == records

\* What _append writes: the records whose id is neither in the file nor
\* among those of the batch before it.
Fresh(file, records) ==
    LET kept[n \in 0..Len(records)] ==
            IF n = 0 THEN <<>>
            ELSE IF records[n] \in Known(file) \cup ToSet(kept[n - 1])
            THEN kept[n - 1]
            ELSE Append(kept[n - 1], records[n])
    IN  kept[Len(records)]

AppendEvents ==
    /\ up
    /\ emitted # <<>>
    /\ eventFile' = PutLines(eventFile, Fresh(eventFile, emitted))
    /\ acked' = acked \cup ToSet(emitted)
    /\ UNCHANGED <<clock, up, account, emitted, silent, spent>>

(***************************************************************************)
(* Crash and restart.                                                      *)
(***************************************************************************)

Crash ==
    /\ up
    /\ up' = FALSE
    /\ UNCHANGED <<clock, account, emitted, files, spent>>

\* The process dies inside append_events: n lines and a piece are on disk.
CrashInAppend ==
    /\ up
    /\ \E n \in 0..(Len(Fresh(eventFile, emitted)) - 1) :
         LET new == Fresh(eventFile, emitted)
             full == PutLines(eventFile, SubSeq(new, 1, n))
         IN  eventFile' \in {full, PutTail(full, Corrupt),
                             PutTail(full, new[n + 1])}
    /\ up' = FALSE
    /\ UNCHANGED <<clock, account, emitted, acked, silent, spent>>

\* main.py opens a new account; the file stays.
Restart ==
    /\ ~up
    /\ clock < MaxClock
    /\ clock' = clock + 1
    /\ up' = TRUE
    /\ cash' = Start /\ realized' = 0
    /\ open' = {} /\ position' = [i \in Ids |-> NoPosition] /\ closed' = {}
    /\ asOf' = clock'
    /\ emitted' = <<>>
    /\ spent' = spent \cup open \cup closed
    /\ UNCHANGED files

Next ==
    \/ Tick
    \/ RunPaperLoop
    \/ OpenDirectly
    \/ \E i \in Ids, price \in Prices : ClosePosition(i, price)
    \/ MarkAccount
    \/ AppendEvents
    \/ Crash
    \/ CrashInAppend
    \/ Restart

Spec == Init /\ [][Next]_vars

(***************************************************************************)
(* Properties.                                                             *)
(***************************************************************************)

\* Types. Cash is never negative (account.py: "Operations that would drive
\* cash or equity below zero are rejected").
TypeOK ==
    /\ clock \in Nat /\ up \in BOOLEAN /\ asOf \in Nat
    /\ cash \in Nat /\ realized \in Int
    /\ open \subseteq Ids /\ closed \subseteq Ids /\ spent \subseteq Ids
    /\ silent \subseteq Ids
    /\ position \in [Ids -> [entry : Nat, quantity : Nat, fee : Nat]]
    /\ eventFile.tail \in BOOLEAN

\* The account implements the contract of PaperLedger: every position is
\* paid once and settled once, and the profit booked is what came back less
\* what was paid (account.py:4-18).
Ledger == INSTANCE PaperLedger WITH
    balance <- cash,
    stage <- [i \in Ids |-> IF i \in closed THEN "settled"
                            ELSE IF i \in open THEN "open" ELSE "new"],
    stake <- [i \in Ids |-> IF i \in open THEN Paid(position[i]) ELSE 0],
    profit <- realized
ImplementsLedger == Ledger!Spec

\* Money is conserved: cash and what is tied up in open positions are the
\* starting equity and the realised profit, whatever fees, slippage and
\* losses were met on the way (account.py:8-13).
MoneyConserved ==
    cash + SumFunctionOnSet([i \in Ids |-> Paid(position[i])], open)
        = Start + realized

\* The open events that no close event of the same id settles.
StillOpen(events) ==
    {e \in events : /\ e.kind = "POSITION_OPENED"
                    /\ ~\E f \in events : /\ f.kind = "POSITION_CLOSED"
                                           /\ f.id = e.id}

\* A file that loads holds no event twice, and a close without its open only
\* of a position the paper loop opened (paper_loop.py:164 drops that event,
\* so no caller can file it). The events of all other positions replay
\* consistently: their cash movements add up to the realised profit less
\* what the positions still open by the replay cost, across restarts and
\* retried appends (storage.py:187, replay_events_summary). A replay of the
\* loop's own positions does not balance: it books the proceeds of positions
\* that it never saw paid for.
ReplayBalances ==
    LET events == {e \in Known(eventFile) : e.id \notin silent}
        delta == [e \in events |-> e.delta]
        gain == [e \in events |-> e.gain]
    IN  LoadOk(eventFile) =>
            /\ IsInjective(eventFile.lines)
            /\ \A c \in events : c.kind = "POSITION_CLOSED" =>
                  \E o \in events : o.kind = "POSITION_OPENED" /\ o.id = c.id
            /\ SumFunction(delta)
                 = SumFunction(gain)
                     + SumFunctionOnSet(delta, StillOpen(events))

\* Nothing is lost without notice: once append_events has returned ok, an
\* event is in every later load that does not refuse the file, torn writes
\* and lines glued to them included (storage.py:18-21 "safe-reject on
\* missing/corrupt input").
AcknowledgedOrRefused ==
    LoadOk(eventFile) => acked \subseteq ToSet(eventFile.lines)
=============================================================================
