--------------------------- MODULE MCPaperAccount ---------------------------
(* PaperAccount and HistoricalStore for TLC. They share no variable, so    *)
(* each behaviour moves one of them, chosen at the start.                  *)
EXTENDS PaperAccount, HistoricalStore, TLC

VARIABLE side

MCInit == Init /\ HistInit /\ side \in {"account", "store"}

MCNext ==
    /\ UNCHANGED side
    /\ \/ side = "account" /\ Next /\ UNCHANGED histVars
       \/ side = "store" /\ HistNext /\ UNCHANGED vars

MCSpec == MCInit /\ [][MCNext]_<<vars, histVars, side>>

\* The position ids are interchangeable, and so are the refresh processes.
Symmetry == Permutations(Ids) \cup Permutations(Runners)
=============================================================================
