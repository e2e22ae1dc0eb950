\* Two polling processes under fairness: they agree with the disk in the end.
CONSTANTS
  p1 = p1
  p2 = p2
  i1 = i1
  Procs <- TwoProcs
  Ids <- OneId
  Pollers <- TwoProcs
  Mortals <- OneProc
  Serve <- AnnouncedOps
  MaxGen = 2
SPECIFICATION FairSpec
PROPERTIES EventuallyFresh
