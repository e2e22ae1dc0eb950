# Index Server: verification project

Index Server is an MCP server that keeps a catalogue of instructions as JSON
files in a directory. Several server processes, one per client window, share
that directory; they share the state directory, the messaging directory and
the usage snapshot too. There is no database lock and no central process: the
processes agree through files, renames and marker files. That is where the
program is hard to get right and hard to test, and that is what the modules
here are about.

TLC model-checks the modules on small instances; TLAPS proves the main results
for every value of the constants. Paths below are relative to the repository.

    cd tla
    tlc -workers 2 -config MCIndexContext.cfg MCIndexContext
    tlc -workers 2 -config MCServerParts.cfg MCServerParts
    tlapm IndexContextProofs.tla

## The system's parts

| Part | State | Operations | Meets others through |
|---|---|---|---|
| Instruction index, `services/indexContext.ts` and `handlers/instructions.*` | `state` (byId, list, marker), `dirty`, poller snapshot; `<id>.json`, `.index-version` | ensureLoaded, writeEntry(Async), removeEntry, archive operations, touch, poll | directory and marker; calls the usage overlay and the store |
| Archive lifecycle, `services/storage/jsonFileStore.ts` | `<id>.json`, `.archive/<id>.json`, cache of a store object | write, create, remove, archive, restore, purge, updateArchived | called by the index; the same directory |
| Usage tracking, `services/indexUsage.ts` | counters in the entry, authority maps, last good snapshot, dirty flag and timer; `usage-snapshot.json` | usage_track, flush, overlay, repair | mutates entries of the index; reloads overwrite them |
| Inter-agent messaging, `services/messaging/*` | Map of messages, marker; `messages.jsonl`, `.messages-version` | send, read, ack, update, delete, purge, sweep | file and marker |
| Leader election, `dashboard/server/LeaderElection.ts` | role, timers; `leader.lock` | start, acquire, heartbeat, watch, stop | lock file, PIDs |
| Follower proxy, `server/multiInstanceStartup.ts`, `dashboard/server/ThinClient.ts`, `HttpTransport.ts` | handler proxy, leader URL, listening port, requests under way | start, forward, retry, time out, promote, listen, exit | election events, lock file, HTTP, one port |
| Instance registry, `dashboard/server/InstanceManager.ts`, `server/shutdownGuard.ts` | `dashboard-<pid>.json`, the registered port, exit timers | register, list, heal, validate, remove at exit | files, PIDs, HTTP ping |
| Atomic writes, `services/atomicFs.ts` | temporary files, the file | write, create, retry | under everything above |
| Bootstrap gating, `services/bootstrapGating.ts`, `instructions.dispatcher.ts` | latch, pending token; confirmation file | request, finalize, gate a mutation | the catalogue, every mutation tool |
| Handshake, `server/sdkServer.ts`, `server/handshake/*`, `index-server.ts` | early chunks, flags of the server object, timers | capture, replay, sniff, initialize, announce ready | stdin, the MCP SDK, stdout |
| Metrics, `utils/BufferRing.ts`, `dashboard/server/MetricsCollector.ts` | rings, queue of a log; `tool-call-events.json`, `.ndjson` | add, read, resize, save, flush, compact | timers, files |
| Backups, `services/autoBackup.ts`, `instructionsBackup.ts`, `backupZip.ts` | zip files | back up, prune, then delete | reads the directory, runs before bulk deletions |
| Body windows, `handlers/instructions.shared.ts`, `instructions.bodyPatch.ts` | none | page a body, splice a window | the client's next call |
| SQLite storage, `services/storage/sqliteStore.ts`, `migrationEngine.ts` | `instructions`, `instructions_archive`; a latch per process | write, remove, archive, restore, purge, updateArchived; migrate, export, ingest a backup | called by the index in place of the JSON store; reads and writes the JSON directory |
| Sessions, manifest, seeds | files derived from memory | rewrite, load | called at start and by timers |
| Search, graph, ranking, feedback, configuration, dashboard, logging | caches and output | queries, formatting | read the index |

What makes them hard:

- **interleaving**: between any two file-system calls of one process another
  may rename, unlink or append; no test schedules that;
- **stale state**: every process decides on memory that was read earlier, and
  learns of changes from a marker that a load or write of its own may absorb;
- **crashes**: a mutation is several calls (rename, touch; copy, unlink), and a
  process may die after each;
- **partial failure**: many errors are swallowed, some are rolled back, and the
  rollback may fail;
- **timers**: heartbeat, watcher, poller, sweep, flush, validation, retries and
  the handshake's fallbacks run between requests, in any order;
- **answers that come late**: a request that timed out may still be executed, a
  ping may come back after the process it asked has changed.

`PROJECT.json` lists the hazards at the lines where they bite, with the
properties that would catch each. Hazards the code is known to fall to, and
those nothing promises an answer for, are under "Further divergences" and
"What is not modelled" below.

What must hold of each part, modelled or not:

- index: memory that differs from the disk is found out; an answer to a
  mutation contains it; readers never go back;
- archive: an entry is never in neither place; a failed move is undone;
- SQLite: a move is whole, a call that throws changes nothing, a migration that
  reports no error has lost nothing, nothing archived comes back;
- usage: counters are monotonic, not doubled, and reach the disk;
- messaging: nothing sent is lost, nothing removed returns, a reload never
  undoes the process's own changes;
- election: one leader; a dead leader is replaced;
- follower proxy: a request has one effect unless its try was given up; who
  holds the lock serves; every call returns;
- registry: the file of a live process is true; the file of a dead one goes;
- atomic writes: a call takes effect at one moment or not at all;
- gating: nothing mutates before confirmation; a token is used once;
- handshake: no chunk is lost or doubled; readiness is announced, once, after the
  result;
- rings and logs: what is kept is the latest; a failing write loses nothing;
- backups: what is deleted in bulk is in a backup; pruning keeps its minimum;
- body windows: pages cover the body once, never split a pair, and paging ends.

## Modules

| Module | Models | Composes |
|---|---|---|
| `IndexContext` | index of several processes | implements `SharedCatalog` |
| `SharedCatalog` | what the processes promise a reader | |
| `ArchiveStore` | archive lifecycle of one id | |
| `SqliteStore` | one id in the database, in the JSON directory, and between them | the store with migrations, start and restore; implements `ArchiveContract` |
| `ArchiveContract` | what `IInstructionStore` promises of one id | |
| `UsageTracking` | counters and signals of one id in one process, its snapshot file | the index's reloads and writes, reduced to what they do to counters |
| `AgentMailbox` | mailbox of several processes | |
| `LeaderElection` | election between processes | |
| `FollowerProxy` | start-up, forwarding, promotion, listening | the election, reduced to one step, with HTTP and the port |
| `InstanceRegistry` | port files and orderly exits of several processes | registry and shut-down guard |
| `AtomicFile` | write and create of one file by several callers | implements `FileRegister` |
| `FileRegister` | what a file written so promises | |
| `BootstrapGate` | latch, tokens and gate of several processes | gating, dispatcher and catalogue view |
| `Handshake` | one process's stdin, timers and handshake frames | capture, sniffer, SDK handlers, fallbacks |
| `BufferRing` | one ring and its file | |
| `ToolCallLog` | queue, log, snapshot and ring of the tool calls | `BufferRing` reduced to its file formats, with the collector |
| `Backups` | backups of several processes and the deletions after them | directory, archive and zip files |
| `BodyWindows` | paging and splicing of one body | read and patch handlers |
| `MC…` | the instances TLC checks | extends its module |
| `MCServerParts` | all parts that share no state, in one instance | extends the twelve of them |
| `…Proofs` | theorems and proofs | extends its modules |

Definitions named like a mutation of another (`ScanFileTorn` before
`ScanFile`, marked "Mutant:") are not part of the model. Each is a bug the code
might have had, and exists to show that a property notices it.

### IndexContext

One step is one file-system call with the code around it. `BeginRead` and
`BeginOther` start a handler; `EnsureHit`, `EnsureMiss`, `ScanFile`, `LoadEnd`
are `ensureLoaded()`: the cache check, the directory read file by file, and the
installation of the new state *with the marker as it is after the scan*.
`WriteEntry`, `RemoveEntry`, `ArchiveOrRestore` are the file's rename or unlink
with what the handler does to its memory; `Touch`, `Sync`, `TouchAgain` announce
it. `PollTick` is the optional poller, `Crash` and `Restart` a process's death
and its successor.

A file's content is the number of mutations its id has seen. A marker token is
only compared with the one on disk and never recurs, so the model keeps for
each process whether its token still is the one on disk.

Properties: `StaleIsDetectable`, `ReadYourWrites`, `EventuallyFresh`,
`ImplementsCatalog`, and the disproved `PatchNeverLosesUpdate`.

### ArchiveStore

One id, since ids have separate files. Each operation works on a store object
that has just read the directory, so a move is: load, copy, unlink, and undo when the
unlink fails. Every call may fail (`MaxFaults`), the process may die
between calls (`MaxStoreCrashes`). Contents are compared only, and the run has
enough of them for every write to produce one that is nowhere. `marred` remembers that
a move could not be completed or undone: a death between copy and unlink, a
rollback that failed, or an overwriting restore whose unlink failed, which the
code leaves as they are. `OneCopyAtRest` is stated without such a move.

### SqliteStore and ArchiveContract

One id of the SQLite storage, a step being one SQL statement, one transaction
or one call on a file. `dbCall` is a client's call, `firstLoad` the first
`ensureLoaded()` of a process with the migration it may decide on, and the
actions after them are the statements in the order of the code: `selectActive`
and `moveOut` are `archive()`, `selectKept`, `collision` and `moveBack` are
`restore()`, `readJson` to `finish` are `migrateJsonToSqlite()`, `extractBackup`
before it and `unlinkJson` after it `restoreBackup()`, `readRows` to
`undoFileCopy` the export. `rowFails` and `statementFails` make any one of them
throw, with what catches it; `dbDies` ends the process anywhere. A job keeps what
it has read (`active`, `kept`), so that a step works on what may be old.
The counts that decide on a migration are of all ids; here the one id is the
whole catalogue. `ArchiveContract` is one effect per call, at one moment, and a
refusal that changes nothing; a bulk call is any series of writes and moves.

### UsageTracking

One id in one process. A `usage_track` runs without interruption; it is two
steps, `Track` or `Signal` and then `Meta`, because each may flush and the
process may die in between. `Flush` writes the record from the entry in memory,
with the last signal of the cached record. `Load` is a reload: the overlay
takes the counters of the snapshot or of the entry file, whichever total is
larger. `StartWrite` and `EndWrite` are a `writeEntryAsync()`: its record was
taken from memory before an `await`, and is assigned over memory after it.
A flush that fails (`WriteFails`) leaves the old file or, when the write in place
that follows a failed rename is cut short too, an empty one; a process may die in
one. An empty file is not the end while the process lives, which falls back on the
snapshot it read or wrote last (`Snapshot`, the cached record).
`undone` remembers that a late write has put older counters back, after which a flush
may lower what is on disk. The part of `CountersNeverFall` about the snapshot is
stated until then, and excepts a process that ends with a file cut short (`Lost`),
after which all counters are gone: see "Further divergences". The part about what the process answers is stated without restriction, since the authority maps
hold.

### AgentMailbox

A process's Map, its merge of the file (`Load`, `Remember`), and the calls.
`send` appends; every other change rewrites the file from the Map, with a touch
of the marker after it. A message is its identity and its marks; the mark
`persistent` matters to the sweep. A process that dies loses its Map.

### LeaderElection

Every call on `leader.lock` is a step: exclusive creation, the write into the
created file, the read, the unlink, the heartbeat's rename. Time is the age of
the lock: `Age` makes it stale, and counts as a lapse while the leader lives.
`elections` remembers whether two processes were ever inside
`tryAcquireLock()` at once.

### FollowerProxy

Several servers started on one lock and one port or several. `startAsLeader` and
`startAsFollower` are the two ends of `startMultiInstance()`; the election is
one step here: whoever finds the lock free takes it, a live leader may look
stale (`MaxSteals`), and a heartbeat takes the lock back. (A heartbeat whose write
fails makes a leader of `LeaderElection` a follower; it keeps its transport and
gets no proxy, so it serves as before, and there is no such step here.)
`promoted` starts to listen; `listening`,
`listenError` and `retryError` are the answers of the port, which another
program or another server may have. With the version of Express the package
names (^5.2.1) the callback of `listen()` gets the error too, so a promoted
server takes its proxy away also when its listen fails. A call is tried up to
`MaxRetries` times on a URL that is resolved once. `httpPost` delivers a
request or finds nobody; `rpc` executes it, now or after `timeout` has given it
up, and begins an answer, which `answerSent` completes; `refused` is the leader's
authentication or guard; `answered` takes the answer, a result or an error. A
leader may `exit` between the pieces of an answer. If the connection is reset the
caller's try fails; if it is closed the response is aborted, which `httpPost()` in
`ThinClient.ts` has no listener for, and the call is `cut`: nothing ever settles
it. `executed` and `givenUp` remember tries.

### InstanceRegistry

A process writes its port file at start after cleaning those of dead pids,
validates the others by ping on a timer (`validateInstances`, `checkNext`,
`pingAnswers`, `pingFails` are the steps between its awaits), heals its own file
whenever the list is asked for, and removes it in the clean-up of an orderly
exit. An exit is a guard that runs the clean-ups once and timers that end the
process later; in between it still serves. Pids are few, so that they are given
out again, to servers and to other programs.

### AtomicFile and FileRegister

A call writes a temporary file and renames or links it to its name, each a step
that may fail for a moment (it starts over, with a new temporary file, up to
`MaxAttempts`) or for good, and whose process may die. `FileRegister` is what the
other modules assume of it: a call takes effect as a whole at one moment between
its start and its end, or fails without a trace. The temporary files are not
part of it: a death may leave one behind, which nobody reads.

### BootstrapGate

The confirmation file is read once in a process's life (`latch`); the token is
in memory only. Seeds or more is all the gate wants to know of the catalogue,
each process through its own cached view. `dispatchMutation` is the gated way,
`directMutation` the tools called by their own names, which look at the
mutation flag alone.

### Handshake

Chunks of stdin rather than requests, since the first request may come in two
pieces. Until the transport is connected chunks are captured; then they are
replayed, and later ones are read by the sniffer and the transport in turn. The
sniffer may take any chunk for an initialize request (it also matches the
letters of the word in sequence). Every timer is armed and fired by its own
action in any order, and `emitReadyGlobal` is the one place that writes
`server/ready`. The options that change the order are chosen in the first state.

### BufferRing and ToolCallLog

`BufferRing` is the buffer's slots and write position as the code has them, with
its four overflow strategies, and its file in both forms. `baseline` is what a
reader should get: the entries accepted since the ring was last emptied or
loaded. `ToolCallLog` is the collector around one ring: calls are queued,
flushed to an append log (several flushes may be under way), now and then
compacted into the ring's snapshot and truncated. `raced` remembers calls that
came between the snapshot and the truncation, which the code drops from disk.

### Backups

A backup is: pick a name by `existsSync`, read the files of the directory, write
the zip; then delete (bulk remove, purge, groom) or prune (automatic). Several
processes do this at once, a write may fail, a death tears the zip it was
writing. `clobbered` and `late` remember the two ways a copy may be missing without
a failure: another process chose the same name, or the instruction came after the
files were read. `BulkRemoveKeepsACopy` excepts both.

### BodyWindows

A body is a sequence of code units of three kinds: high surrogate, low surrogate,
other. A client pages through it, may write back the page it has just read, and
others append and prepend meanwhile. The first page may be asked from any
offset, before the start of the body or past its end too; `at` is the offset
asked for next, `more` whether the last page said that there is one. Bodies and
patches hold no half pair, as text has that was stored as UTF-8.
`PagesCoverBody` is stated for limits other than 1: see "Further divergences".

### MCServerParts

Twelve parts share no state, so a run of each would be the same run twelve times
over. `MCServerParts` declares them all and lets the first state choose which one
acts; the variables of the others keep one initial value. A state of the run is a
state of one part, the state spaces add up, and a property of a part is checked
in that part's states as if it ran by itself. The fairness of a part is stated
for its states only.

## Runs

| Run | Instance | Question | Result |
|---|---|---|---|
| `index_safety` | 2 processes, 1 id, 2 mutations, every operation, deaths anywhere | is stale memory always detectable; do handlers answer from their own writes; does the system implement `SharedCatalog` | holds |
| `index_live` | the same, five operations that announce, one process may die | do polling processes converge to the disk | holds |
| `index_patch` | 2 processes patching | does `expectedSourceHash` prevent lost updates | violated |
| `election` | 3 processes, deaths, a stop, a failed heartbeat write, a late leader | one leader, its lock respected, a leader again | holds |
| `election_race` | 2 processes starting | one leader without assumptions | violated |
| `mailbox_shared` | 2 processes that send, read, update and sweep 2 messages, a death | no reload clobbers; messages reach readers | holds |
| `mailbox_loss` | 2 processes, every operation, a death | no message lost | violated |
| `usage` | 3 uses, 1 signal, two flushes that fail or are cut short, any reloads, writes and deaths | monotonic, not doubled, signal kept, saved | holds |
| `usage_history` | 1 use, 2 signals | does the signal history survive a reload | violated |
| `server_parts` | the twelve parts below | 24 properties, below | holds |
| `purge_backup` | 2 processes, 1 archived id, bulk purges | is what a bulk purge destroys in a backup | violated |
| `archive_reactivated` | 1 process on SQLite, the first migration, archiving, restarts | does a migration leave archived what is archived | violated |

`server_parts`, part by part:

| Part | Instance | Properties |
|---|---|---|
| archive | 1 process, 4 contents, 2 failing calls, 2 deaths | `OneCopyAtRest`, `NothingVanishes` |
| mailbox | 1 process, 2 messages, every operation, a death | `DiskIsTrue`, `MarksAreKept` |
| handshake | 2 chunks, 6 sets of options | `ReadyOnceAfterResult`, `NoChunkLost`, `ReadyComes` |
| proxy | 2 servers on one port, 1 call of 3 tries, a stale look, 1 listen error, 2 exits | `OnceUnlessGivenUp`, `ListensBeforeLocal`, `ForwardingIsLive` |
| gate | 3 processes, one confirming itself, one in reference mode, 2 tokens, a restart | `GateHolds`, `TokenConfirmsOnce` |
| ring | capacity 2, 4 entries, every strategy and use, 2 restarts, a resize | `RingIsLatest`, `LinesKeepEverything` |
| calls | 3 calls, 2 flushes at once, an I/O error, a death; both forms of the ring's file | `FailureLosesNothing` |
| backups | 2 processes, 1 id, 3 jobs, 2 minutes, keep 1, a failure | `BulkRemoveKeepsACopy`, `NeverBelowMax` |
| registry | 2 pids, 2 ports, 4 starts, a kill, a slow answer | `PortFilesAreTrue`, `StaleFilesGo` |
| atomic | 2 calls, 2 payloads, 2 attempts, 2 errors, a death | `ImplementsRegister` |
| sqlite | 1 process, 2 contents, every operation, migration and export, a failing statement, a death | `ImplementsContract`, `CleanMigrationIsFaithful` |
| windows | bodies up to 5 units, limits 0 to 3, offsets -1 to 2, 2 patches | `PagesCoverBody` |

`PartsTypeOK` is the types of all of them.

The violated properties are sentences of the repository's documents or tests;
`PROJECT.json` quotes them under "findings":

- **index_patch.** The hash is compared with the process's own memory and the
  write comes later: two processes patch the same version and both succeed.
- **election_race.** A lock file is empty between its creation and the write into
  it. Who reads it then takes it for corrupt, removes it, and both lead.
- **mailbox_loss.** A rewrite takes another process's append off the disk.
- **usage_history.** The overlay does not read `signalHistory` back, so a reload
  empties it in memory and the next flush on disk.
- **purge_backup.** The backup before a bulk purge holds the files of the
  directory; what is purged is in `.archive`.
- **archive_reactivated.** Archiving deletes the row and leaves the JSON file the
  row was migrated from. The next process counts more files than rows and
  migrates again: the instruction is active and archived.

### Bounds

Two processes are enough for each race between file-system calls met so far:
one in the middle of an operation, the other doing anything at all, any number
of times up to the bounds. The election has three, as the lock can be taken
from a second process by a third. One id suffices for the index because a
marker covers all ids alike and files of different ids are independent, but
the proofs are for any number; `MaxGen` 2 lets a process miss one mutation
while it reads or makes another. `MaxUse` 3 crosses the threshold of two above
which a use waits for the timer. Faults and deaths are bounded by 1 or 2: a
second one can hit the recovery from the first. One signal is
enough to tell a record that has the last one from an older record, which has none;
`SignalsAreKept` is for any number.

In `server_parts`: 3 tries let one be answered after another was given up and a
third refused, and of two servers at most one is a follower that can take a live
leader for stale; 4 entries wrap a ring of 2 twice; 4 starts over 2 pids give each
pid out again; 2 attempts have a retry and an end of retrying; bodies of 5 units
hold two pairs and a unit, so that windows of 1 to 3 units meet pairs at either
end. Three jobs with `MaxCount` 1 have two processes prune at once with a third
backup in the list. Where a theorem exists, none of these bounds matters to it.
`SqliteStore` takes one statement that fails and one death, in one operation or in
two; restarts and calls are not bounded there. The bounds stop a part in the end,
so deadlock is not checked in `server_parts` and `purge_backup`.

### Fairness

Fairness is used by the liveness properties only.

- `WF(Work(p))` (index, mailbox), `WF(Run(p))` (election), `WF(Meta)` (usage): a
  handler that has been started is run on by the event loop.
- `SF(PollTick(p))`: an interval timer that has elapsed is served between two
  requests; handling requests in between disables it again and again, and
  Node's event loop visits its timers on every turn.
- `SF(BeginRead(p))`: clients read again and again. Without reads nothing would
  ever look at the disk: the poller only marks memory as dirty unless proactive.
- `WF(Age)`: time passes. `WF(TimerFires)`: the flush timer elapses.
- `HandshakeFair`: the process comes up, and the event loop serves stdin and
  `setImmediate`. Not the timers: `ReadyComes` holds without the fallbacks.
- `ProxyFair`: the operating system answers `listen()`, requests are posted, and
  a request that is waited for on an open or a reset connection fails or times
  out (10 s). Not that a leader executes or answers. It says nothing of a call
  that was cut off: `timeout` is not enabled for it.
- `RegistryFair`: the validation timer fires, and a ping ends (3 s).

No fairness is assumed of deaths, faults, mutations or requests other than
reads. `LaterTrafficDelivers` has its own premise, that the marker a process
remembers is found outdated infinitely often: the code does not promise that a
message without later traffic is seen (see below). `EventuallySaved` is for
runs without a failing flush, and allows a reload to drop pending counts, as
the code does. `ForwardingIsLive` excepts a promoted leader that failed to listen
twice and a call cut off within its answer, and `StaleFilesGo` a directory with no server left to look. The runs that
check deadlock have none; the election may stop, when all processes are dead,
stopped, or followers whose leader is stopped.

## Proofs

| Module | Theorem | Statement |
|---|---|---|
| `IndexContextProofs` | `TypeCorrect` | `Spec => []TypeOK` |
| | `StaleDetected` | `Spec => []StaleIsDetectable` |
| | `CatalogImplemented` | `Spec => ImplementsCatalog` |
| | `AnswersContainWrites` | `Spec => ReadYourWrites` |
| | `AloneMemoryIsDisk`, `AlonePatchesLoseNothing` | for one process, clean memory is the disk, and `PatchNeverLosesUpdate` |
| `LeaderElectionProofs` | `ElectionTypeCorrect` | `Spec => []TypeOK` |
| | `OneLeaderOnly` | `Spec => []OrderlySingleLeader` |
| | `LockRespected` | `Spec => LockIsRespected` |
| `AgentMailboxProofs` | `MailboxTypeCorrect`, `OwnWritesKept` | typing; `OwnNeverClobbered` |
| | `AppendsLoseNothing` | while clients send and read, `NoDataLoss` |
| | `AloneLosesNothing`, `AloneKeepsMarks` | for one process, `DiskIsTrue` and `MarksAreKept` |
| | `AloneAnswersAreTrue` | for one process, a call answers from what is on disk |
| `ArchiveStoreProofs` | `ArchiveTypeCorrect` | `StoreSpec => []StoreTypeOK` |
| | `AloneNothingVanishes`, `AloneOneCopyAtRest` | for one process, the two properties of the archive part |
| | `AloneCrashLeavesACopy` | for one process, a death in a move leaves the entry in both places |
| | `SqliteTypeCorrect` | `SqliteSpec => []SqliteTypeOK` |
| | `AloneImplementsContract` | for one process, `SqliteSpec => ImplementsContract` |
| | `AloneMigrationIsFaithful` | for one process, `CleanMigrationIsFaithful` |
| | `FreshDatabaseNeverReactivates` | for one process without JSON files, `NeverReactivated` |
| `UsageTrackingProofs` | `UsageTypeCorrect` | `Spec => []TypeOK` |
| | `NothingCountedTwice`, `SignalsAreKept` | `NeverOvercounts`; `SignalKept` |
| | `CountersAreMonotonic` | `Spec => CountersNeverFall` |
| `ServersProofs` | `ProxyTyped`, `ProxyExecutesOnce`, `ProxyListensFirst` | typing; `OnceUnlessGivenUp`; `ListensBeforeLocal` |
| | `RegistryTypeCorrect`, `RegistryIsTrue` | typing; `PortFilesAreTrue` |
| | `GateTypeCorrect`, `GateAlwaysHolds`, `GateTokensConfirmOnce` | typing; `GateHolds`; `TokenConfirmsOnce` |
| | `HandshakeTypeCorrect`, `HandshakeLosesNothing`, `HandshakeReadyOnce` | typing; `NoChunkLost`; `ReadyOnceAfterResult` |
| `FilesProofs` | `AtomicTypeCorrect`, `AtomicImplementsRegister` | typing; `AtomicSpec => ImplementsRegister` |
| | `BackupsTypeCorrect`, `BulkRemoveIsBackedUp` | typing; `BulkRemoveKeepsACopy` |
| | `PruningKeepsMax` | `BkSpec => NeverBelowMax` |
| | `PageSplicedBack` | a page spliced back over its window changes nothing, for any body, offset and limit |
| | `PagesCover` | `WindowsSpec => []PagesCoverBody` |
| | `RingTypeCorrect`, `ReadersGetTheLatest`, `LinesLoseNothing` | typing; `RingIsLatest`; `LinesKeepEverything` |
| | `CallLogTypeCorrect`, `FailedWritesLoseNothing` | typing; `FailureLosesNothing` |
| `ServerPartsProofs` | `PartsAreTheirSpecs` | `PartsSpec` implies the specification of each of its twelve parts |
| | `PartsTypeCorrect` | `PartsSpec => []PartsTypeOK` |
| | `PartsKeepTheirPromises`, `AlonePartsKeepTheirPromises` | `PartsSpec` implies every safety property of the run: of nine parts as they are, of three for one process each |

They rest on the ASSUMEs of the modules, which say that a constant is a subset
of another, that a "no value" is no value, and that a bound is a number; on no
finiteness; and on what a theorem names: `Procs = {p}`, `Stores = {p}` and
`Dbs = {p}` for the "alone" results, `Serve` for `AppendsLoseNothing`, and for
`FreshDatabaseNeverReactivates` that there is no JSON file and nobody exports or
ingests. The runs that find a violation have their counterparts here, which say
what it takes: `index_patch` and `mailbox_loss` a second process
(`AlonePatchesLoseNothing`, `AloneLosesNothing`), `election_race` two elections at
a time (`OneLeaderOnly`), `archive_reactivated` a file that is left over.

- **StaleDetected.** The property is not inductive: a load that ends installs what
  the scan has read. The invariant adds the same statement for the scan in
  progress: what was read and is not on disk any more is not announced yet, or
  the next tick will find out (`ScanIsDetectable`), and that a dead process has
  no state. Each step is then looked at once for the process that makes it and
  once for all others: a mutation is unannounced until its touch, and a touch
  empties `polled`.
- **CatalogImplemented.** No view and no scan is ahead of the disk, and what a
  scan has read is not older than the view it will replace (`OnlyForward`). A step
  then mutates, advances, dies, starts or stutters in `SharedCatalog`.
- **OneLeaderOnly.** Orderly means that elections never overlapped and no live
  leader was late. While that is so, at most one process is in the course of an
  election, a leader's lock is its own and fresh, and who is about to unlink a
  lock or write a new one does so while nobody leads (`Order`). Disorder is never forgotten, so
  the invariant is `TypeOK /\ (Orderly => Order)`. `LockRespected` follows from
  it step by step.
- **AloneLosesNothing.** For a process alone a Map that has been loaded is the
  file (`MapIsFile`), a call applies itself to such a Map only, and a message
  about to be sent was never sent before (`SendsNew`).
- **AnswersContainWrites.** What a handler owes (`mine`) is on disk from the
  mutation on, generations only grow, and a handler about to end with a reload has
  no state in memory and has read, of the file it changed, nothing older
  (`OwnWrite`). So only the end of a scan can answer, and with what was read.
- **AlonePatchesLoseNothing.** For a process alone clean memory is the disk, what a
  scan has read still is, and a body that follows an `ensureLoaded()` works on the
  disk's catalogue (`BodySeesDisk`): the hash that matches the memory matches the file.
- **AloneKeepsMarks.** With `MapIsFile`, a rewrite from the Map is a rewrite of the file.
- **AloneOneCopyAtRest** and its companions. Where the process is in a move
  determines what is in which place: after the copy both hold the same content,
  before it and between calls they differ unless marred.
- **AloneImplementsContract.** Each step belongs to an operation (`Fits`); what a
  SELECT has read still holds in the transaction after it, since nobody else
  writes (`StillHolds`); and a migration at a step has brought over what comes
  before it (`Carried`). A transaction then maps to the call's one effect, a
  failing statement to a refusal, a death to the contract's, all else to a
  stutter. `AloneMigrationIsFaithful` is `Carried` at the last step.
- **NothingCountedTwice.** The copies the property names are refilled from two
  it does not: the draft of a write in flight and the cached record. With those
  and their types the bound by `tracked` is inductive: overlay and repair choose
  one of the copies, `Restored` is a maximum of them, and a use adds one on both
  sides.
- **CountersAreMonotonic.** The copies of the counters, on disk, in the record, in
  memory and in a write in flight, are copies of one history, hence ordered
  (`Chain`). A counter with an authority is nowhere larger than there; one without
  is in memory the larger of the two on disk (`Ages`). An overlay and a repair then
  choose what is no older than what a client was told, and memory is ahead of the
  snapshot until a late write has put older counts back (`Ahead`). "On disk" is
  what the process reads back, the cached record where the file is empty, and a
  process that is loaded has cached what is in the file (`Remembered`): so only a
  process that ends with a file cut short loses it, and loses it whole.
- **SignalsAreKept.** As long as no flush has failed, the last signal is in the
  snapshot and in the cached record that the next flush takes it from, which a
  loaded catalogue has (`SignalInv`).
- **FreshDatabaseNeverReactivates.** The files stay absent, so a migration has
  nothing to carry and goes from reading to its end (`NoFiles`).
- **ProxyExecutesOnce.** Every try before the present one was given up if it was
  delivered (`SentTry`), a request or an execution has a try that was made
  (`TryCounted`), and a call made to the server's own handler was never sent
  (`OwnHandler`). So two executions are of two tries, and the earlier is given up.
- **ProxyListensFirst.** A server that is new or a follower does not listen yet
  (`LocalInv`), so a promotion finds its proxy in place.
- **RegistryIsTrue.** The registered port of a running process is the one it
  listens on, and a process whose exit timers run has a file only if it is
  recorded as `unclean`; a removal by name can then take a file away but never
  put a wrong one there.
- **GateAlwaysHolds, GateTokensConfirmOnce.** The file, the latches and the views
  each stand for evidence that was given (`GateInv`); tokens are numbered in the
  order of issue, so a new one was never used (`TokenInv`).
- **HandshakeLosesNothing, HandshakeReadyOnce.** Once up, nothing captured is
  left, so reading stdin cannot overtake the replay (`ChunkInv`). The flag that
  admits the emitter, a waiting `setImmediate` and a send under way each have a
  result on stdout behind them, and a written `ready` has its flag (`OpenInv`).
- **AtomicImplementsRegister.** A call about to publish has its payload in its
  temporary file (`WriterInv`); publishing maps to `Succeed`, any other step of
  a call to a stutter or to its end.
- **BulkRemoveIsBackedUp.** A job that deletes has its files in an archive that no
  pruning lists, because pruning lists automatic backups and the names differ in
  kind (`BulkInv`).
- **PruningKeepsMax.** Each process prunes from a list it made before, while others
  prune too. What a list holds that had enough newer names in it still has enough
  newer automatic backups (`PruneInv`), because what was removed meanwhile was
  older by the same rule: so the newest are never touched.
- **ReadersGetTheLatest, LinesLoseNothing.** The slots, read from the write
  position on, are the last entries accepted (`Sound`); a ring that loads, is
  resized or is cut to what fits is refilled with the end of such a sequence, and
  the end of an end is an end. The file holds every number below `next`.
- **FailedWritesLoseNothing.** A batch is in flight until its write has ended, a
  failing one goes back to the queue, and what a flush is about to truncate from
  the log is in the snapshot it has written (`SnapshotCovers`). What the property
  excepts is the ring whose file is read back as something else (`Trusted`).
- **PagesCover.** Both ends of a window are boundaries, a window starts where the last
  one ended, and what was given is the concatenation (`WindowInv`). It needs that a
  body holds no half pair, which the code's texts have and patches preserve.
- **PartsAreTheirSpecs.** A step of the composition is a step of the part that acts
  and a stutter of the others. A theorem about a part is therefore one about the
  model that TLC explores.

Only model-checked: liveness (`EventuallyFresh`, `LeaderReturns`,
`LaterTrafficDelivers`, `EventuallySaved`, `ReadyComes`, `ForwardingIsLive`,
`StaleFilesGo`), which is out of the prover's reach. Every invariant and every
action property of a passing run is a theorem, for one process where the run has
one and the property needs it: the archive, the mailbox's `DiskIsTrue` and
`MarksAreKept`, and the SQLite store.

## Further divergences

Met while modelling; none is a run of its own. Paths are under `src/` of the
repository unless they begin with `docs/`.

*Index, archive, usage, mailbox, election*

- Resurrection: a process that still holds a purged message writes it back with
  its next rewrite (`DiskIsTrue` fails with two processes; docs/messaging.md:31
  calls the merge additive).
- Stale sweep: a process sweeps a message that another has just made
  persistent (`agentMailbox.ts:320`).
- Absorbed marker: a message or an instruction changed between a load and the
  reading of the marker after it stays unseen until the next touch
  (`agentMailbox.ts:66`, `indexContext.ts:345`). For the index the poller finds
  out, and is off by default.
- Replaced while archived: `archive()` copies the entry its store object has
  cached and unlinks whatever `<id>.json` is by then (`jsonFileStore.ts:356`): with
  two stores a version written in between is in neither place, where
  `storage/types.ts:259` says "Atomic". `NothingVanishes` fails with `Stores` of two.
- Both copies: a death between copy and unlink leaves both, and the next
  restore is refused as a collision (`jsonFileStore.ts:350`); indexContext.ts:866 says
  that an entry is never in both "at rest". `OneCopyAtRest` fails without `~marred`.
- Lost heartbeat: a leader whose heartbeat write fails becomes a follower of
  itself without a watcher (`LeaderElection.ts:183`); `LeaderReturns` therefore
  speaks of states in which somebody watches.
- Torn snapshot: a flush whose temporary file or rename fails writes the snapshot in
  place (`usageSnapshotFile.ts:73`), which truncates it first. If that write fails too
  (a full disk) or the process dies in it, the file is empty or torn and reads as
  `{}`. A process that lives falls back on its cached record; one that ends before
  its next flush leaves every counter and signal gone. `indexUsage.ts:280` says "Both
  writers are atomic". The temporary name is one for all processes, too.
- Late leader: while a leader is late with its heartbeat two processes lead. Nothing
  but `LeaderReturns` is promised then.
- A mailbox call whose append or rewrite fails has changed the Map already and
  throws (`agentMailbox.ts:102`): the message may still reach the disk with the next
  rewrite, and a removed one returns with the next load. The mailbox's runs are of
  a disk that works.

*Servers*

- `multiInstanceStartup.ts:85` says "starting HTTP transport before removing
  proxy"; a listen that fails removes it too, since Express 5 calls back with the
  error. After a second failure (:105) the leader keeps lock and heartbeat and
  never listens: its own calls are served, its followers' fail.
- `docs/mcp-index-leader-follower-spec.md:269` expects no duplicate; a try given
  up after ten seconds is sent again though its first may still be executed.
  The URL is resolved once, so the tries after a failover ask the dead leader.
- A call that waits for ever: `httpPost()` listens to `data` and `end` of the response
  and to `error` and `timeout` of the request (`ThinClient.ts:220`). A leader that ends
  after its headers and before the end of its answer, with its connection closed
  and not reset, leaves no `end`, no error and no socket to time out: the call neither
  fails nor is tried again. docs/multi_instance_design.md:661 says "in-flight calls
  to a dead leader fail". `EveryCallReturns` fails without `"cut"`.
- An unlink by name after a ping (`InstanceManager.ts:292`) may take the true file of a
  process that has registered since; it is written again when that process is asked
  for the list.
- A recycled pid whose port another dashboard took stays listed; a process that
  is alive but slow is unlisted until it is asked for the list itself; a list
  asked for between clean-ups and exit writes the file again. The code's
  comment at `InstanceManager.ts:289` covers the first.
- Of several exits under way the one with the shortest timer gives the code.

*Session*

- `protocol.ts:25` says made-up results need `handshakeFallbacks`; the sniffer asks
  for `initFallback` alone (`stdinSniffer.ts:114`), and always answers id 1.
- `docs/deployment.md:15` says reference mode blocks mutation; the direct tools
  look at the mutation flag only. A process that looked before the file was
  written stays gated until it restarts (`bootstrapGating.ts:36`).

*Files*

- The header of `atomicFs.ts` (:32) names a direct write as last resort, :61 says
  there is none; there is none.
- `docs/architecture.md:649` says a failed backup aborts a purge; the groomer goes
  on (`instructions.groom.ts:219`). `instructionsBackup.ts:9` says processes cannot
  clobber each other's backups; the name is chosen by `existsSync` and written
  later, so the second of two zips may replace the first, the only one with what was
  removed (`BulkRemoveKeepsACopy` fails without `clobbered`). Within a minute "-1.zip" sorts before ".zip" and is pruned first; a torn
  zip counts as a backup.
- The tool-call ring is saved as one document and, with the default
  `bufferRing.append`, read back as lines (`MetricsCollector.ts:434`,
  `BufferRing.ts:495`): after a restart nothing is found, and the next save writes
  the file without what it held. docs/metrics_file_storage.md:49 says "Persistent
  across restarts". `FailureLosesNothing` is stated without a restart then.
- Data cleared from a ring comes back at the next start; a ring that appends
  appends again what it loads; a growing ring of capacity 1 outgrows its target;
  a death while loading leaves the file shortened.
- With `bodyLimit` 1 at a surrogate pair a page is empty and `nextOffset` does not
  move: a client that follows it never ends (`instructions.shared.ts:77`;
  docs/tools.md:1016 says "surrogate-safe").

*SQLite*

- A migration of an archived entry is a write and then `archive()`
  (`migrationEngine.ts:139`). If the id is in `instructions_archive` already, as
  it is at every run but the first, the INSERT meets the primary key: the entry
  stays active, and the error is in the list. A failing statement or a death
  between the two has the same effect, where `types.ts:259` and the comment at
  `migrationEngine.ts:118` speak of atomicity.
- The SELECTs of `archive()`, `restore()` and `updateArchived()` come before BEGIN
  IMMEDIATE (`sqliteStore.ts:608`, `:638`, `:681`). With two processes a move works on a row that
  another has replaced or purged since; the contract is checked for one.
- An id that is active and archived in the JSON directory is archived only after
  a migration or an export, whose archived copy overwrites the active one. A
  clean ingest then deletes the file (`AdminPanel.ts:391`).
- A file without an id, a title or a body is skipped with no error
  (`jsonFileStore.ts:69`; `BlankFile` in the model), and a clean ingest deletes it
  with the others, under a comment that files are kept "when something failed".

## What is not modelled, and why

- Several processes on one usage snapshot: documented as last writer wins
  (docs/multi_instance_design.md:517).
- The synchronous and asynchronous loads are one model; validation,
  classification and schema migration of a file's content; hashes, the manifest
  and the automatic split of long bodies: pure functions of one content.
- SQLite's own recovery: a transaction is one step, happens or does not.
  Full-text search, and the tables of usage, messages and embeddings, which no
  operation on instructions reads; the dashboard's reset and WAL maintenance.
- The hash of a body ignores white space at the ends of lines and of the body
  (`canonical.ts:20`); in `BodyWindows` a patch is accepted for the same body only.
- SQLite's writer of the usage snapshot falls back on the JSON file.
- A failing append or rewrite of the mailbox, and what a process does after it.
- Swallowed touch errors: as a death between the mutation and the touch.
- The non-atomic fallback of `rewriteMessages()` when renames keep failing.
- Message ids that coincide between processes; the opt-in rate limiter.
- An import of `express` that fails after the lock was taken.
- Restoring a backup over the JSON storage (a copy of files; with SQLite it is in
  `SqliteStore`); sessions and sockets of the dashboard; feedback files: one
  process reads and rewrites one file without a step of another in between.
- Output, formatting, search, export, dashboards, configuration: no shared state.
  They are most of the repository's lines.

## Plan

Done: index, archive, SQLite storage, usage, mailbox, election, proxy, registry, atomic files,
gate, handshake, rings, tool-call log, backups and windows, with their theorems.

Next, in this order:

1. An abstract mailbox (a set of messages) that a process alone implements, and
   `LeaderElection` shown to implement the one-step election of `FollowerProxy`
   while it is orderly.
2. Usage of several processes on one snapshot, stating what last writer wins keeps.
3. Two stores on one directory or one database, with `updateArchived()` against a
   purge, stating what is left of the contract.
