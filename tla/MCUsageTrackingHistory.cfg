\* The history of signals across reloads and restarts.
CONSTANTS
  helpful = helpful
  outdated = outdated
  Signals <- TwoSignals
  None = None
  Null = Null
  MaxUse = 1
  MaxFaults = 0
SPECIFICATION Spec
INVARIANTS SignalHistoryDurable
