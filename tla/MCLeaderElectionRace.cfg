CONSTANTS
  p1 = p1
  p2 = p2
  p3 = p3
  Nobody = Nobody
  Procs <- TwoProcs
  Mortals <- NoProcs
  Stoppers <- NoProcs
  MaxFaults = 0
  MaxLapses = 0
SPECIFICATION Spec
INVARIANTS SingleLeader
CHECK_DEADLOCK FALSE
