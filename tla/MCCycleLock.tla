----------------------------- MODULE MCCycleLock -----------------------------
(* CycleLock for TLC; the cfgs choose the pids and the retries. *)
EXTENDS CycleLock, TLC
=============================================================================
