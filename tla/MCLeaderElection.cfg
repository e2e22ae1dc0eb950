\* Three processes, any of which may die or stop, a heartbeat write that fails,
\* a live leader that is late once: safety, and liveness under fairness.
CONSTANTS
  p1 = p1
  p2 = p2
  p3 = p3
  Nobody = Nobody
  Procs <- ThreeProcs
  Mortals <- ThreeProcs
  Stoppers <- OneProc
  MaxFaults = 1
  MaxLapses = 1
SPECIFICATION FairSpec
INVARIANTS TypeOK OrderlySingleLeader
PROPERTIES LockIsRespected LeaderReturns
CHECK_DEADLOCK FALSE
