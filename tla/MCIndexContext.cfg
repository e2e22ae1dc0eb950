\* Two polling processes, one instruction, two mutations, every operation,
\* crashes at every step: the safety properties.
CONSTANTS
  p1 = p1
  p2 = p2
  i1 = i1
  Procs <- TwoProcs
  Ids <- OneId
  Pollers <- TwoProcs
  Mortals <- TwoProcs
  Serve <- AllOps
  MaxGen = 2
SPECIFICATION Spec
INVARIANTS TypeOK StaleIsDetectable
PROPERTIES ReadYourWrites ImplementsCatalog
SYMMETRY SymmetricProcs
