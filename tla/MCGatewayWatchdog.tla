------------------------- MODULE MCGatewayWatchdog -------------------------
(* GatewayWatchdog for TLC; the cfgs choose the thresholds, in intervals. *)
EXTENDS GatewayWatchdog, TLC
=============================================================================
