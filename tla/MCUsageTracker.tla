---------------------------- MODULE MCUsageTracker ----------------------------
(* Instance of UsageTracker for TLC.                                         *)
EXTENDS UsageTracker, TLC
===============================================================================
