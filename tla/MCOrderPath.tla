----------------------------- MODULE MCOrderPath -----------------------------
(* OrderPath for TLC; the cfgs choose the lane and the bounds. *)
EXTENDS OrderPath, TLC

\* The symbols are interchangeable.
Symmetry == Permutations(Symbols)
=============================================================================
