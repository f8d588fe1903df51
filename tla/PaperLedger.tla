---------------------------- MODULE PaperLedger ----------------------------
(***************************************************************************)
(* What the paper account promises (the contract written at the head of    *)
(* bot/paper/account.py): a cash-funded book. A position is paid for from  *)
(* the balance, once; it is settled once; the profit of a settlement is    *)
(* what comes back less what was paid in; the balance is never negative.   *)
(* PaperAccount is shown to implement this module.                         *)
(***************************************************************************)
EXTENDS Integers

CONSTANTS
    Ids,    \* position ids
    Start   \* starting_equity

VARIABLES
    balance,  \* free cash
    stage,    \* of each position: new, open or settled
    stake,    \* what an open position was paid for, fees included
    profit    \* realised so far

vars == <<balance, stage, stake, profit>>

Init ==
    /\ balance = Start
    /\ stage = [i \in Ids |-> "new"]
    /\ stake = [i \in Ids |-> 0]
    /\ profit = 0

\* Position i is paid for in full out of the balance.
Pay(i) ==
    /\ stage[i] = "new"
    /\ stage' = [stage EXCEPT ![i] = "open"]
    /\ balance' \in 0..(balance - 1)
    /\ stake' = [stake EXCEPT ![i] = balance - balance']
    /\ UNCHANGED profit

\* Position i is settled; the exit commission may exceed the proceeds.
Settle(i) ==
    /\ stage[i] = "open"
    /\ stage' = [stage EXCEPT ![i] = "settled"]
    /\ balance' \in Nat
    /\ stake' = [stake EXCEPT ![i] = 0]
    /\ profit' = profit + (balance' - balance) - stake[i]

\* The process starts over with a fresh account.
Renew ==
    /\ balance' = Start
    /\ stage' = [i \in Ids |-> "new"]
    /\ stake' = [i \in Ids |-> 0]
    /\ profit' = 0

Next == (\E i \in Ids : Pay(i) \/ Settle(i)) \/ Renew

Spec == Init /\ [][Next]_vars
=============================================================================
