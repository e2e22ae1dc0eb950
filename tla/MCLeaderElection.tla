-------------------------- MODULE MCLeaderElection --------------------------
(* Bounded instances of LeaderElection for TLC. *)
EXTENDS LeaderElection

CONSTANTS p1, p2, p3

OneProc    == {p1}
TwoProcs   == {p1, p2}
ThreeProcs == {p1, p2, p3}
NoProcs    == {}
=============================================================================
