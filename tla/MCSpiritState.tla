---------------------------- MODULE MCSpiritState ----------------------------
(* SpiritState with its thresholds of 18 and 72 hours scaled down to 1 and 4: *)
(* only the order of the thresholds, the lags and the hours matters.          *)
EXTENDS SpiritState
=============================================================================
