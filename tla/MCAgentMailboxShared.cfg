\* Two processes that send, update, sweep and die, under fairness.
CONSTANTS
  p1 = p1
  p2 = p2
  m1 = m1
  m2 = m2
  reader = reader
  Procs <- TwoProcs
  Msgs <- TwoMsgs
  Marks <- KeepMark
  Keep = "persistent"
  Serve <- TalkOps
  MaxCrashes = 1
SPECIFICATION FairSpec
PROPERTIES OwnNeverClobbered LaterTrafficDelivers
