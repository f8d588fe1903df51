----------------------------- MODULE MCOutbound -----------------------------
(* The two places that send something out once and may lose the answer, the *)
(* eToro live write and the signal alerts, for TLC. They share no variable, *)
(* so each behaviour moves one of them, chosen at the start.                *)
EXTENDS EtoroLiveWrite, SignalAlerts, TLC

VARIABLE side

outVars == <<vars, alertVars, side>>

MCPair == [a \in Alerts |-> "pair"]

\* Alerts are alike: they are numbered in the order in which they come in.
InOrder ==
    \A a, b \in Alerts : b < a /\ outbox'[a] # NoAlert => outbox'[b] # NoAlert

Writing(A) == side = "write" /\ A /\ UNCHANGED <<alertVars, side>>
Alerting(A) == side = "alerts" /\ A /\ UNCHANGED <<vars, side>>

\* The side that stands still has one initial state.
OutInit ==
    /\ Init /\ AlertInit /\ side \in {"write", "alerts"}
    /\ side = "alerts" => killed = FALSE

OutNext == Writing(Next) \/ Alerting(AlertNext /\ InOrder)

\* FairSpec and FairAlertSpec.
OutSpec ==
    /\ OutInit /\ [][OutNext]_outVars
    /\ WF_outVars(Writing(AfterPrompt))
    /\ WF_outVars(Alerting(AlertTick))
    /\ \A r \in Runners : WF_outVars(Alerting(Deliver(r)))
=============================================================================
