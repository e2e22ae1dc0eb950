-------------------------- MODULE MCUsageTracking --------------------------
(* Bounded instances of UsageTracking for TLC. *)
EXTENDS UsageTracking, TLC

CONSTANTS helpful, outdated

OneSignal  == {helpful}
TwoSignals == {helpful, outdated}
=============================================================================
