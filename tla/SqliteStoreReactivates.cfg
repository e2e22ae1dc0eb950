\* One process that archives, stops and starts; nothing fails.
CONSTANTS
  Dbs = {p1}
  DbServe = {"archive"}
  Versions = {c1}
  NoRow = NoRow
  TornFile = TornFile
  BlankFile = BlankFile
  MaxDbFaults = 0
  MaxDbDeaths = 0
SPECIFICATION SqliteSpec
PROPERTIES NeverReactivated
