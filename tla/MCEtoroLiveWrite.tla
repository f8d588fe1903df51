-------------------------- MODULE MCEtoroLiveWrite --------------------------
(* EtoroLiveWrite alone for TLC; the cfg chooses the nonce's TTL and polls. *)
EXTENDS EtoroLiveWrite, TLC
=============================================================================
