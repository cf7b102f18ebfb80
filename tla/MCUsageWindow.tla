---------------------------- MODULE MCUsageWindow ----------------------------
(* Days of four units of six hours, and zones that are up to five of them    *)
(* apart, as UTC+14 and UTC-12 are 26 hours.                                 *)
EXTENDS UsageWindow

ZonesDayApart == {-2, 1, 3}
=============================================================================
