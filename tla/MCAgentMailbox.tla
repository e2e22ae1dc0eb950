--------------------------- MODULE MCAgentMailbox ---------------------------
(* Bounded instances of AgentMailbox for TLC. *)
EXTENDS AgentMailbox, TLC

CONSTANTS p1, p2, m1, m2, reader

OneProc  == {p1}
TwoProcs == {p1, p2}
OneMsg   == {m1}
TwoMsgs  == {m1, m2}
BothMarks == {reader, "persistent"}
KeepMark  == {"persistent"}

AllOps    == Ops
TalkOps   == {"read", "send", "update", "sweep"}
=============================================================================
