\* Three uses, of which the third is flushed by the timer, and two flushes
\* that fail or are cut short, under fairness.
CONSTANTS
  helpful = helpful
  outdated = outdated
  Signals <- OneSignal
  None = None
  Null = Null
  MaxUse = 3
  MaxFaults = 2
SPECIFICATION FairSpec
INVARIANTS TypeOK NeverOvercounts SignalKept
PROPERTIES CountersNeverFall EventuallySaved
