\* Two processes, every operation, a crash.
CONSTANTS
  p1 = p1
  p2 = p2
  m1 = m1
  m2 = m2
  reader = reader
  Procs <- TwoProcs
  Msgs <- OneMsg
  Marks <- BothMarks
  Keep = "persistent"
  Serve <- AllOps
  MaxCrashes = 1
SPECIFICATION Spec
INVARIANTS NoDataLoss
