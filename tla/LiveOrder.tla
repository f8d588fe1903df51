------------------------------ MODULE LiveOrder ------------------------------
(***************************************************************************)
(* What a live eToro write promises its operator (the vocabulary and the   *)
(* writer of bot/etoro/lifecycle.py, the runbook): there is one POST and   *)
(* at most one order, and what is told about it is true when it is told.   *)
(* A denial is final because nothing can come of the POST any more; that   *)
(* the order is over is not yet a denial, for a part of it may have been   *)
(* executed; and where nobody has looked, the answer is that nobody knows. *)
(* EtoroLiveWrite is shown to implement this module.                       *)
(***************************************************************************)

VARIABLES
    post,   \* the POST: unsent, sent or settled
    order,  \* the order: none, working, over
    held,   \* the position it opened: none, open, closed
    told    \* what the operator can read

vars == <<post, order, held, told>>
atBroker == <<post, order, held>>

Init ==
    /\ post = "unsent"
    /\ order = "none"
    /\ held = "none"
    /\ told = "preparing"

\* Something is at eToro, or may still get there.
Possible == post = "sent" \/ order = "working" \/ held # "none"

\* Told before an outcome is.
Open == {"preparing", "asking", "accepted", "doubt"}

\* The operator is asked to confirm; nothing has been sent.
Ask ==
    /\ post = "unsent"
    /\ told = "preparing"
    /\ told' = "asking"
    /\ UNCHANGED atBroker

Send ==
    /\ post = "unsent"
    /\ told = "asking"
    /\ post' = "sent"
    /\ UNCHANGED <<order, held, told>>

\* The POST makes an order, or never will.
Settle ==
    /\ post = "sent"
    /\ post' = "settled"
    /\ order' \in {"working", "none"}
    /\ UNCHANGED <<held, told>>

\* Only an order that works opens anything, all at once or in parts.
Trade ==
    /\ \/ /\ order = "working" /\ order' \in {"working", "over"}
          /\ held' \in {held, "open"}
       \/ /\ held = "open" /\ held' = "closed"
          /\ order' = order
    /\ UNCHANGED <<post, told>>

Accept ==
    /\ told = "asking"
    /\ order # "none"
    /\ told' = "accepted"
    /\ UNCHANGED atBroker

\* The answer was lost, or does not speak of positions: the operator has to
\* look for himself.
Doubt ==
    /\ told \in {"asking", "accepted"}
    /\ post # "unsent"
    /\ told' = "doubt"
    /\ UNCHANGED atBroker

\* The order will do nothing more; what it has done is not said.
End ==
    /\ told = "accepted"
    /\ order = "over"
    /\ told' = "over"
    /\ UNCHANGED atBroker

\* Nothing is at eToro and nothing will be.
Deny ==
    /\ told \in Open
    /\ ~Possible
    /\ told' = "denied"
    /\ UNCHANGED atBroker

Fill ==
    /\ told \in Open \cup {"over"}
    /\ order = "over" /\ held # "none"
    /\ told' = "filled"
    /\ UNCHANGED atBroker

Close ==
    /\ told \in Open \cup {"over", "filled"}
    /\ order = "over" /\ held = "closed"
    /\ told' = "closed"
    /\ UNCHANGED atBroker

Next ==
    \/ Ask \/ Send \/ Settle \/ Trade
    \/ Accept \/ Doubt \/ End \/ Deny \/ Fill \/ Close

Spec == Init /\ [][Next]_vars
=============================================================================
