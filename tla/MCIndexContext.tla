--------------------------- MODULE MCIndexContext ---------------------------
(* Bounded instances of IndexContext for TLC. *)
EXTENDS IndexContext, TLC

CONSTANTS p1, p2, i1

TwoProcs == {p1, p2}
OneProc  == {p1}
OneId    == {i1}
Nobody   == {}

AllOps       == Ops
AnnouncedOps == {"put", "promote", "remove", "archive", "reload"}
PatchersOnly == {"patch"}

SymmetricProcs == Permutations(Procs)
=============================================================================
