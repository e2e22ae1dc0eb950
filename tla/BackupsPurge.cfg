\* Two processes purge an archived instruction, each after its backup.
CONSTANTS
  Savers = {p1, p2}
  Ids = {i1}
  MaxCount = 1
  Serving = {"auto", "remove", "purge", "groom"}
  MaxMinutes = 1
  MaxJobs = 3
  Torn = Torn
  MaxFailures = 0
SPECIFICATION BkSpec
INVARIANTS BulkPurgeKeepsACopy
CHECK_DEADLOCK FALSE
