\* Two processes patching one instruction under expectedSourceHash.
CONSTANTS
  p1 = p1
  p2 = p2
  i1 = i1
  Procs <- TwoProcs
  Ids <- OneId
  Pollers <- TwoProcs
  Mortals <- Nobody
  Serve <- PatchersOnly
  MaxGen = 2
SPECIFICATION Spec
PROPERTIES PatchNeverLosesUpdate
SYMMETRY SymmetricProcs
