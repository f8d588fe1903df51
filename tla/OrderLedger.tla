----------------------------- MODULE OrderLedger -----------------------------
(***************************************************************************)
(* What the order path promises of the brackets it places (main.py with    *)
(* bot/risk.py): one is in flight at a time; none is placed when the book  *)
(* of accepted intents is full or holds its twin, as far as the book could *)
(* be read; and each one comes into the book, unless the broker dropped it *)
(* or something failed. OrderPath is shown to implement this module.       *)
(***************************************************************************)
EXTENDS Integers, FiniteSets

CONSTANTS
    Ids,             \* of the signals
    Signals,         \* what may be asked for
    NoSignal,        \* nothing was
    MaxOpen,         \* RISK_MAX_OPEN_POSITIONS
    AllowDuplicates  \* RISK_ALLOW_DUPLICATES

VARIABLES
    asked,   \* what each signal asks for
    flight,  \* the bracket placed and not yet booked, if any
    ledger,  \* brackets booked as accepted
    lost,    \* brackets placed that never will be
    dead,    \* brackets the broker has dropped
    unseen,  \* signals judged without sight of the ledger
    faults   \* what has failed so far

vars == <<asked, flight, ledger, lost, dead, unseen, faults>>

Placed == flight \cup ledger \cup lost

Init ==
    /\ asked = [i \in Ids |-> NoSignal]
    /\ flight = {} /\ ledger = {} /\ lost = {} /\ dead = {}
    /\ unseen = {}
    /\ faults = 0

\* A signal asks once.
Ask(i) ==
    /\ asked[i] = NoSignal
    /\ \E s \in Signals : asked' = [asked EXCEPT ![i] = s]
    /\ UNCHANGED <<flight, ledger, lost, dead, unseen, faults>>

\* The ledger has room, and no twin unless twins are allowed.
Admits(i) ==
    /\ Cardinality(ledger) < MaxOpen + Cardinality(unseen)
    /\ \/ AllowDuplicates
       \/ i \in unseen
       \/ \A j \in ledger : asked[j] # asked[i]

Place(i) ==
    /\ flight = {}
    /\ i \notin Placed
    /\ asked[i] \in Signals
    /\ Admits(i)
    /\ flight' = {i}
    /\ UNCHANGED <<asked, ledger, lost, dead, unseen, faults>>

Record ==
    /\ flight # {}
    /\ ledger' = ledger \cup flight
    /\ flight' = {}
    /\ UNCHANGED <<asked, lost, dead, unseen, faults>>

\* A bracket is not booked: it is dead, or that is a fault.
GiveUp ==
    /\ flight # {}
    /\ lost' = lost \cup flight
    /\ flight' = {}
    /\ faults' = faults + 1 \/ (flight \subseteq dead /\ faults' = faults)
    /\ UNCHANGED <<asked, ledger, dead, unseen>>

\* Reads, writes and the process fail, up to two reads in one judgment; the
\* signal being judged may so go unseen.
Fail ==
    /\ faults' \in {faults + 1, faults + 2}
    /\ \/ unseen' = unseen
       \/ \E i \in Ids \ Placed : unseen' = unseen \cup {i}
    /\ UNCHANGED <<asked, flight, ledger, lost, dead>>

Drop(i) ==
    /\ i \in Placed
    /\ dead' = dead \cup {i}
    /\ UNCHANGED <<asked, flight, ledger, lost, unseen, faults>>

Next ==
    \/ \E i \in Ids : Ask(i) \/ Place(i) \/ Drop(i)
    \/ Record \/ GiveUp \/ Fail

Spec == Init /\ [][Next]_vars
=============================================================================
