--------------------------- MODULE MCTradingPolicy ---------------------------
(* The trading policy and the model registry for TLC. They share no        *)
(* variable, so each behaviour moves one of them, chosen at the start.     *)
EXTENDS TradingPolicy, ModelRegistry, TLC

VARIABLE side

\* The side that stands still has one initial state.
MCInit ==
    /\ Init /\ RegInit /\ side \in {"policy", "models"}
    /\ side = "models" => doc = DEFAULT_POLICY

MCNext ==
    /\ UNCHANGED side
    /\ \/ side = "policy" /\ Next /\ UNCHANGED regVars
       \/ side = "models" /\ RegNext /\ UNCHANGED vars

MCSpec == MCInit /\ [][MCNext]_<<vars, regVars, side>>

\* The writers are interchangeable, and so are the registry's commands.
Symmetry == Permutations(Writers) \cup Permutations(Clis)
=============================================================================
