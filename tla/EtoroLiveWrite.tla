--------------------------- MODULE EtoroLiveWrite ---------------------------
(***************************************************************************)
(* One operator command that writes to eToro with real money               *)
(* (tools/etoro_live_write.py oneshot, bot/etoro/live_broker.py, nonce.py, *)
(* order_poller.py, lifecycle.py), and the reconciliation of its           *)
(* execution_intents row (tools/etoro_reconcile.py). The command issues at *)
(* most one POST; the reply may be lost, late or an error although the     *)
(* order is in, the dashboard may change the policy while the command      *)
(* waits for the operator's CONFIRM, and the process may die anywhere.     *)
(***************************************************************************)
EXTENDS Integers

CONSTANTS
    TTL,           \* ttl_seconds of the nonce, in ticks
    PollAttempts,  \* --poll-max-attempts
    MaxWait        \* bound: ticks the operator may let pass at the prompt

ASSUME EtoroLiveWriteAssumption ==
    /\ TTL \in Nat \ {0}
    /\ PollAttempts \in Nat \ {0}
    /\ MaxWait \in Nat

\* lifecycle.py
ETORO_LIFECYCLE_STATUSES ==
    {"pending_live_write", "awaiting_confirm", "unverified", "closed_manual",
     "policy_rejected", "risk_rejected", "submitted", "filled",
     "broker_rejected", "cancelled"}
TERMINAL == {"filled", "broker_rejected", "cancelled", "closed_manual"}
ALLOWED_TERMINAL_TRANSITIONS == {<<"filled", "closed_manual">>}

\* The lifecycle events the properties tell apart.
Events == {"none", "cli", "submit_failed", "poll", "operator"}

VARIABLES
    pc,       \* where the command is
    killed,   \* the broker allocation policy in the database forbids the write
    ctx,      \* the same, in the copy the command loaded into its context
    waited,   \* ticks since the nonce was issued
    killAge,  \* history: ticks since the policy last began to forbid
    row,      \* status and last event of the execution_intents row
    wire,     \* the POST: not sent, on its way, or settled
    order,    \* the order at eToro
    position, \* what the order has opened
    polls     \* status requests made

vars == <<pc, killed, ctx, waited, killAge, row, wire, order, position, polls>>
policyVars == <<killed, killAge>>
brokerVars == <<wire, order, position>>

Stages == {"authority", "policy", "insert", "preflight", "confirm", "submit",
           "reply", "accepted", "failed", "poll", "exited", "crashed"}
Orders ==
    {"none", "pending", "partial", "executed", "cancelled", "rejected"}
Working == {"pending", "partial"}
Over == {"exited", "crashed"}

NoRow == [status |-> "none", event |-> "none"]

Init ==
    /\ pc = "authority"
    /\ killed \in BOOLEAN
    /\ ctx = FALSE
    /\ waited = 0
    /\ killAge = 0
    /\ row = NoRow
    /\ wire = "unsent"
    /\ order = "none"
    /\ position = "none"
    /\ polls = 0

\* apply_transition: refused out of a terminal status, but for the one
\* transition that is always allowed and the override. The command's own
\* transitions never start at a terminal status.
MayTransition(new, override) ==
    \/ row.status \notin TERMINAL
    \/ override
    \/ <<row.status, new>> \in ALLOWED_TERMINAL_TRANSITIONS

Transition(new, event) == row' = [status |-> new, event |-> event]
-----------------------------------------------------------------------------
(* tools/etoro_live_write.py, cmd_oneshot. *)

\* run_risk_preflight: a block is exit 4, with no row yet.
Authority ==
    /\ pc = "authority"
    /\ pc' \in {"policy", "exited"}
    /\ UNCHANGED <<policyVars, ctx, waited, row, brokerVars, polls>>

\* Keys, env flag, load_policy and validate_policy. From here on the command
\* works on its own copy of the policy.
LoadPolicy ==
    /\ pc = "policy"
    /\ \/ pc' = "insert" /\ ctx' = killed
       \/ pc' = "exited" /\ ctx' = ctx
    /\ UNCHANGED <<policyVars, waited, row, brokerVars, polls>>

Insert ==
    /\ pc = "insert"
    /\ \/ pc' = "preflight" /\ Transition("pending_live_write", "cli")
       \/ pc' = "exited" /\ row' = row
    /\ UNCHANGED <<policyVars, ctx, waited, brokerVars, polls>>

\* broker.preflight works on the copy; the gates after the policy's own
\* decide freely.
PreflightVerdicts ==
    IF ctx THEN {"policy_rejected"}
           ELSE {"ok", "policy_rejected", "risk_rejected"}

\* A refusal is the row's last status; when all gates pass the nonce is
\* issued.
Preflight ==
    /\ pc = "preflight"
    /\ \E verdict \in PreflightVerdicts :
        IF verdict = "ok"
        THEN pc' = "confirm" /\ Transition("awaiting_confirm", "cli")
        ELSE pc' = "exited" /\ Transition(verdict, "cli")
    /\ waited' = 0
    /\ UNCHANGED <<policyVars, ctx, brokerVars, polls>>

\* The operator leaves the prompt with Ctrl-C, or types something.
Abort ==
    /\ pc = "confirm"
    /\ pc' = "exited"
    /\ Transition("cancelled", "cli")
    /\ UNCHANGED <<policyVars, ctx, waited, brokerVars, polls>>

Echo ==
    /\ pc = "confirm"
    /\ pc' = "submit"
    /\ UNCHANGED <<policyVars, ctx, waited, row, brokerVars, polls>>

\* Variant for mutation: validate() forgets the expiry.
NonceValid_NoExpiry(digestOk) == digestOk

\* NonceStore.validate: the digest issued for this payload, not too old.
NonceValid(digestOk) == digestOk /\ waited <= TTL

\* submit_live up to the POST. Its preflight has passed on the same copy;
\* a refused nonce is OperatorConfirmationRequired.
SubmitLive ==
    /\ pc = "submit"
    /\ \E digestOk \in BOOLEAN :
        IF NonceValid(digestOk)
        THEN pc' = "reply" /\ wire' = "sent" /\ row' = row
        ELSE /\ pc' = "exited"
             /\ Transition("cancelled", "cli")
             /\ wire' = wire
    /\ UNCHANGED <<policyVars, ctx, waited, order, position, polls>>

\* HTTP 200 with an order id.
ReplyOk ==
    /\ pc = "reply"
    /\ order # "none"
    /\ pc' = "accepted"
    /\ UNCHANGED <<policyVars, ctx, waited, row, brokerVars, polls>>

\* An HTTP error, a body that does not parse, a timeout or a broken
\* connection: submit_live raises, whatever has become of the order.
ReplyError ==
    /\ pc = "reply"
    /\ pc' = "failed"
    /\ UNCHANGED <<policyVars, ctx, waited, row, brokerVars, polls>>

\* Variant for mutation: every exception is an aborted confirmation.
SubmitFailed_AsCancelled ==
    /\ pc = "failed"
    /\ pc' = "exited"
    /\ Transition("cancelled", "submit_failed")
    /\ UNCHANGED <<policyVars, ctx, waited, brokerVars, polls>>

\* except Exception: any failure of submit_live but a refused nonce.
SubmitFailed ==
    /\ pc = "failed"
    /\ pc' = "exited"
    /\ Transition("broker_rejected", "submit_failed")
    /\ UNCHANGED <<policyVars, ctx, waited, brokerVars, polls>>

RecordSubmitted ==
    /\ pc = "accepted"
    /\ pc' = "poll"
    /\ Transition("submitted", "cli")
    /\ UNCHANGED <<policyVars, ctx, waited, brokerVars, polls>>

\* Variant for mutation: a part of an order counts as the order.
InternalStatus_PartFills(error) ==
    CASE error -> "broker_rejected"
      [] ~error /\ order \in {"partial", "executed"} -> "filled"
      [] ~error /\ order = "cancelled" -> "cancelled"
      [] ~error /\ order = "rejected" -> "broker_rejected"
      [] OTHER -> "submitted"

\* OrderInfoResponse.internal_status: an errorCode outranks the statusID,
\* whatever the order has done.
InternalStatus(error) ==
    CASE error -> "broker_rejected"
      [] ~error /\ order = "executed" -> "filled"
      [] ~error /\ order = "cancelled" -> "cancelled"
      [] ~error /\ order = "rejected" -> "broker_rejected"
      [] OTHER -> "submitted"

\* poll_until_terminal meets a terminal status: filled only with positions,
\* the others without a look at them.
PollTerminal ==
    /\ pc = "poll"
    /\ \E error \in BOOLEAN :
        /\ InternalStatus(error) \in TERMINAL
        /\ InternalStatus(error) = "filled" => position # "none"
        /\ Transition(InternalStatus(error), "poll")
    /\ pc' = "exited"
    /\ UNCHANGED <<policyVars, ctx, waited, brokerVars, polls>>

\* Variant for mutation: an attempt that failed is not counted.
PollAgain_NotCounted ==
    /\ pc = "poll"
    /\ pc' = "poll"
    /\ UNCHANGED <<policyVars, ctx, waited, row, brokerVars, polls>>

\* An order that still works, one executed whose positions are not listed
\* yet, a reader exception or a parser error is one attempt; after the last
\* one the row is unverified.
PollAgain ==
    /\ pc = "poll"
    /\ polls' = polls + 1
    /\ IF polls' < PollAttempts
       THEN pc' = "poll" /\ row' = row
       ELSE pc' = "exited" /\ Transition("unverified", "poll")
    /\ UNCHANGED <<policyVars, ctx, waited, brokerVars>>

\* A kill, Ctrl-C outside the prompt, or a database that does not answer.
Crash ==
    /\ pc \notin Over
    /\ pc' = "crashed"
    /\ UNCHANGED <<policyVars, ctx, waited, row, brokerVars, polls>>

-----------------------------------------------------------------------------
(* The operator, the dashboard and eToro. *)

\* Only the prompt takes time that matters here.
Tick ==
    /\ pc = "confirm"
    /\ waited < MaxWait
    /\ waited' = waited + 1
    /\ killAge' = IF killed THEN killAge + 1 ELSE 0
    /\ UNCHANGED <<pc, killed, ctx, row, brokerVars, polls>>

\* A dashboard save that forbids the write (kill switch, auto-trading off,
\* etoro_live_enabled off), or allows it again.
SavePolicy ==
    /\ killed' = ~killed
    /\ killAge' = 0
    /\ UNCHANGED <<pc, ctx, waited, row, brokerVars, polls>>

\* The POST arrives, even after the command has stopped waiting for it; or
\* it is lost or refused and there never is an order.
Arrive ==
    /\ wire = "sent"
    /\ wire' = "settled"
    /\ order' \in {"pending", "none"}
    /\ UNCHANGED <<pc, policyVars, ctx, waited, row, position, polls>>

\* An order is executed at once or in parts, or ends before it is; what a
\* part has opened stays. A position is closed in the eToro web UI.
OrderMoves ==
    /\ \/ /\ order \in Working /\ order' \in {"partial", "executed"}
          /\ position' = "open"
       \/ /\ order \in Working /\ order' \in {"cancelled", "rejected"}
          /\ position' = position
       \/ /\ position = "open" /\ position' = "closed"
          /\ order' = order
    /\ UNCHANGED <<pc, policyVars, ctx, waited, row, wire, polls>>

\* What the operator records of an outcome, and the statuses that already
\* say it.
Outcome ==
    CASE position = "open" -> "filled"
      [] position = "closed" -> "closed_manual"
      [] OTHER -> "broker_rejected"

NoPosition == {"policy_rejected", "risk_rejected", "cancelled",
               "broker_rejected"}

Says(st, outcome) ==
    st = outcome \/ {st, outcome} \subseteq NoPosition

\* tools/etoro_reconcile.py by the runbook: the operator waits until the
\* command is over, looks the outcome up in the eToro web UI once it is
\* settled, and records it if the row says something else.
Reconcile ==
    /\ pc \in Over
    /\ row.status # "none"
    /\ wire # "sent"
    /\ order \notin Working
    /\ ~Says(row.status, Outcome)
    /\ \E override \in BOOLEAN : MayTransition(Outcome, override)
    /\ Transition(Outcome, "operator")
    /\ UNCHANGED <<pc, policyVars, ctx, waited, brokerVars, polls>>

Command ==
    \/ Authority \/ LoadPolicy \/ Insert \/ Preflight \/ Echo \/ SubmitLive
    \/ ReplyOk \/ ReplyError \/ SubmitFailed \/ RecordSubmitted
    \/ PollTerminal \/ PollAgain

Next ==
    \/ Command \/ Abort \/ Crash
    \/ Tick \/ SavePolicy \/ Arrive \/ OrderMoves \/ Reconcile

Spec == Init /\ [][Next]_vars

\* After the prompt the command runs on: every request has a timeout. That a
\* poll ever meets a terminal status is not asked of eToro.
AfterPrompt ==
    \/ SubmitLive \/ ReplyOk \/ ReplyError \/ SubmitFailed
    \/ RecordSubmitted \/ PollAgain

FairSpec == Spec /\ WF_vars(AfterPrompt)
-----------------------------------------------------------------------------
(* Properties. *)

\* Every variable keeps to the values the code can give it.
TypeOK ==
    /\ pc \in Stages
    /\ killed \in BOOLEAN
    /\ ctx \in BOOLEAN
    /\ waited \in 0 .. MaxWait
    /\ killAge \in 0 .. MaxWait
    /\ row \in [status : ETORO_LIFECYCLE_STATUSES, event : Events]
                 \cup {NoRow}
    /\ wire \in {"unsent", "sent", "settled"}
    /\ order \in Orders
    /\ position \in {"none", "open", "closed"}
    /\ polls \in 0 .. PollAttempts

\* eToro has a position of this POST, or may still get one.
OrderMayExist == wire = "sent" \/ order \in Working \/ position # "none"

\* M13_5_operator_runbook.md:70: broker_rejected, "No position opened."
RejectedMeansNoPosition ==
    pc = "exited" /\ row.status = "broker_rejected" => position = "none"

\* A status that tells the operator nothing is at eToro is on a row whose
\* POST has opened a position, or may still, in three cases only, which the
\* row's last event tells apart from a refusal: broker_rejected left by a
\* failed submit; broker_rejected from a poll (an errorCode outranks the
\* statusID, and a rejected order may have been executed in part); and
\* cancelled from a poll, of an order that was executed in part before.
NothingHidden ==
    OrderMayExist =>
        /\ row.status \notin {"pending_live_write", "policy_rejected",
                              "risk_rejected"}
        /\ row.status = "broker_rejected" =>
              row.event \in {"submit_failed", "poll"}
        /\ row.status = "cancelled" =>
              row.event = "poll" /\ wire = "settled" /\ order = "cancelled"

\* The context keeps the policy it loaded, so a kill switch thrown at the
\* prompt is not seen (etoro_live_write.py: one load_policy, two preflights
\* on it). The nonce's TTL is what limits this: no POST leaves when the
\* policy has forbidden the write for longer than that.
StalePolicyBounded ==
    [][wire = "unsent" /\ wire' = "sent" => killAge <= TTL]_vars

\* An operator who records what he sees never has to overrule a terminal
\* status (--allow-terminal-override) that he himself wrote, nor a filled
\* one, nor the cancelled of a command that sent nothing: only what a failed
\* submit or a poll wrote without a look at the positions.
OverruledOnlyUnchecked ==
    [][row.status \in TERMINAL /\ row'.status # row.status =>
          \/ <<row.status, row'.status>> \in ALLOWED_TERMINAL_TRANSITIONS
          \/ row \in [status : {"broker_rejected", "cancelled"},
                      event : {"submit_failed", "poll"}]]_vars

\* What the row tells its reader, who knows which events leave positions
\* unseen.
Told ==
    CASE row.status \in {"none", "pending_live_write"} -> "preparing"
      [] row.status = "awaiting_confirm" -> "asking"
      [] row.status = "submitted" -> "accepted"
      [] \/ row.status = "unverified"
         \/ /\ row.status = "broker_rejected"
            /\ row.event \in {"submit_failed", "poll"}
         -> "doubt"
      [] row.status = "cancelled" /\ row.event = "poll" -> "over"
      [] row.status = "filled" -> "filled"
      [] row.status = "closed_manual" -> "closed"
      [] OTHER -> "denied"

\* The command and the operator's records implement the contract of
\* LiveOrder: filled and closed_manual are true when they are written, and
\* of an order that is over; a refusal, an aborted confirmation and the
\* operator's own broker_rejected are final because nothing can come of the
\* POST any more; a cancelled from a poll says that the order is over, not
\* that it opened nothing; a broker_rejected from a failed submit or a poll
\* says no more than unverified does (lifecycle.py:49-61,
\* response_parser.py:79-84).
Contract ==
    INSTANCE LiveOrder
    WITH post <- wire,
         order <- CASE order = "none" -> "none"
                    [] order \in Working -> "working"
                    [] OTHER -> "over",
         held <- position,
         told <- Told
ImplementsLiveOrder == Contract!Spec

\* Once the POST has left, the row reaches a status the runbook knows what
\* to do with, unless the process dies: polling ends, whatever eToro says.
PostIsResolved ==
    wire = "sent" ~>
        (row.status \in TERMINAL \cup {"unverified"} \/ pc = "crashed")
=============================================================================
