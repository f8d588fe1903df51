-------------------------- MODULE MCRiskAuthority --------------------------
(* The risk authority for TLC: the engine over the ingested rows, and the  *)
(* governor over the engine's decisions. They share no variable, so each   *)
(* behaviour moves one of them, chosen at the start.                       *)
EXTENDS RiskAuthority, AuthorityGovernor, TLC

VARIABLE side

MCInit == Init /\ GovInit /\ side \in {"engine", "governor"}

MCNext ==
    /\ UNCHANGED side
    /\ \/ side = "engine" /\ Next /\ UNCHANGED govVars
       \/ side = "governor" /\ GovNext /\ UNCHANGED vars

MCSpec == MCInit /\ [][MCNext]_<<vars, govVars, side>>

\* The scopes are interchangeable.
Symmetry == Permutations(Scopes)
=============================================================================
