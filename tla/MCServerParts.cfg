\* Every part that shares no state with another; bounds in the README.
CONSTANTS
  p1 = p1
  p2 = p2
  p3 = p3
  c1 = c1
  c2 = c2
  c3 = c3
  c4 = c4
  m1 = m1
  m2 = m2
  reader = reader
  i1 = i1
  portA = portA
  portB = portB
  Parts = {"archive", "mailbox", "handshake", "proxy", "gate", "ring", "calls", "backups", "registry", "atomic", "windows", "sqlite"}
  \* ArchiveStore
  Stores = {p1}
  StoreServe <- StoreOps
  Contents = {c1, c2, c3, c4}
  None = None
  MaxFaults = 2
  MaxStoreCrashes = 2
  \* AgentMailbox
  Procs <- OneProc
  Msgs <- TwoMsgs
  Marks <- BothMarks
  Keep = "persistent"
  Serve <- AllOps
  MaxCrashes = 1
  \* Handshake
  Options = {"handshakeFallbacks", "initFallback", "healthMixed", "disableEarlyStdinBuffer", "disableSniff"}
  HandshakeCases = {{}, {"handshakeFallbacks"}, {"initFallback"}, {"handshakeFallbacks", "initFallback", "healthMixed"}, {"disableEarlyStdinBuffer"}, {"handshakeFallbacks", "disableSniff"}}
  MaxChunks = 2
  \* FollowerProxy
  Servers = {p1, p2}
  Calls = {c1}
  Ports = {portA}
  PortOf <- OnePort
  NoServer = NoServer
  Foreign = Foreign
  MaxRetries = 3
  MaxSteals = 1
  MaxErrors = 1
  MaxExits = 2
  \* BootstrapGate
  Gates = {p1, p2, p3}
  ReferenceMode = {p3}
  AutoConfirm = {p2}
  MaxTokens = 2
  MaxStarts = 1
  \* BufferRing
  Capacity = 2
  Uses = {"auto", "manual", "memory"}
  Strategies = {"drop-oldest", "drop-newest", "resize", "error"}
  MaxEntries = 4
  MaxRestarts = 2
  MaxResizes = 1
  \* ToolCallLog
  AppendLogs = {"on", "off"}
  RingModes = {"lines", "snapshot"}
  MaxEvents = 3
  MaxFlights = 2
  MaxIoErrors = 1
  MaxDeaths = 1
  \* Backups
  Savers = {p1, p2}
  Ids = {i1}
  MaxCount = 1
  Serving = {"auto", "remove", "purge", "groom"}
  MaxMinutes = 1
  MaxJobs = 3
  Torn = Torn
  MaxFailures = 1
  \* InstanceRegistry
  Pids = {p1, p2}
  DashPorts = {portA, portB}
  NoPort = NoPort
  NoPid = NoPid
  Reasons = {"uncaughtException", "signal"}
  MaxBirths = 4
  MaxKills = 1
  MaxSlow = 1
  \* AtomicFile
  Writers = {p1, p2}
  Payloads = {c1, c2}
  NoEntry = NoEntry
  MaxAttempts = 2
  MaxWriteErrors = 2
  MaxWriterDeaths = 1
  \* BodyWindows
  MaxBody = 5
  Limits = {0, 1, 2, 3}
  Offsets <- SomeOffsets
  Texts <- SomeTexts
  MaxPatches = 2
  \* SqliteStore
  Dbs = {p1}
  DbServe <- DbOps
  Versions = {c1, c2}
  NoRow = NoRow
  TornFile = TornFile
  BlankFile = BlankFile
  MaxDbFaults = 1
  MaxDbDeaths = 1
SPECIFICATION PartsSpec
INVARIANTS
  PartsTypeOK
  OneCopyAtRest
  DiskIsTrue
  ReadyOnceAfterResult NoChunkLost
  OnceUnlessGivenUp ListensBeforeLocal
  GateHolds TokenConfirmsOnce
  RingIsLatest LinesKeepEverything
  FailureLosesNothing
  BulkRemoveKeepsACopy
  PortFilesAreTrue
  PagesCoverBody
PROPERTIES
  NothingVanishes
  MarksAreKept
  ReadyComes
  ForwardingIsLive
  NeverBelowMax
  StaleFilesGo
  ImplementsRegister
  ImplementsContract CleanMigrationIsFaithful
CHECK_DEADLOCK FALSE
