----------------------------- MODULE ToolCallLog -----------------------------
(***************************************************************************)
(* How the metrics collector keeps tool-call events on disk                *)
(* (dashboard/server/MetricsCollector.ts): each call is added to a ring in *)
(* memory (module BufferRing; here a sequence that never overflows) and,   *)
(* with the append log on, queued, appended to a log by batches, and now   *)
(* and then compacted: the ring is saved as a snapshot and the log         *)
(* emptied.  With the log off the snapshot alone is written, by a timer.   *)
(*                                                                         *)
(* A flush runs while calls go on and other flushes start, since nothing   *)
(* serializes them.  Whether one is due (by number or by time) and whether *)
(* it compacts is left open.                                               *)
(***************************************************************************)
EXTENDS Naturals, Sequences, FiniteSets, Functions

CONSTANTS
  AppendLogs,  \* values of INDEX_SERVER_TOOLCALL_APPEND_LOG: subset of {"on", "off"}
  RingModes,   \* how the ring reads its file: subset of {"lines", "snapshot"}
  MaxEvents,   \* bound: tool calls
  MaxFlights,  \* bound: flushes under way at once
  MaxIoErrors, \* bound: writes that fail
  MaxDeaths    \* bound: restarts

ASSUME TclAssumption ==
  /\ AppendLogs \subseteq {"on", "off"} /\ RingModes \subseteq {"lines", "snapshot"}
  /\ MaxEvents \in Nat

Events == 1 .. MaxEvents
Stages == {"writing", "written", "truncating"}

VARIABLES
  appendLog, ringMode,   \* options
  events,      \* toolCallEvents, oldest first
  ringRead,    \* whether the ring has read its file in this life
  queue,       \* pendingAppendEvents
  flights,     \* flushes under way: [batch, compacts, stage, upTo], with the
               \* calls made when its snapshot was taken
  saveDue,     \* setTimeout(saveToDisk, 0) pending: "no" or "yes"
  logFile,     \* tool-call-events.ndjson
  snapFile,    \* tool-call-events.json; <<0>> when there is none
  recorded,    \* tool calls made
  ioErrors, deaths,
  health,      \* persistenceHealth: "good" or "degraded"
  mine,        \* history: events recorded in this life, or on disk at its start
  raced        \* history: events recorded after a flush took its snapshot, and
               \* in the log when that flush emptied it

tclVars == <<appendLog, ringMode, events, ringRead, queue, flights, saveDue,
             logFile, snapFile, recorded, ioErrors, deaths, health, mine, raced>>

NoSnapshot == <<0>>
Saved      == IF snapFile = NoSnapshot THEN <<>> ELSE snapFile
OnDisk     == Range(logFile) \cup Range(Saved)

TclInit ==
  /\ appendLog \in AppendLogs /\ ringMode \in RingModes
  /\ events = <<>> /\ queue = <<>> /\ logFile = <<>> /\ snapFile = NoSnapshot
  /\ ringRead = "no" /\ saveDue = "no"
  /\ flights = {} /\ recorded = 0 /\ ioErrors = 0 /\ deaths = 0
  /\ health = "good" /\ mine = {} /\ raced = {}

(***************************************************************************)
(* The first read by a ring that expects lines: it finds none in a         *)
(* snapshot, and what it held is gone.                                     *)
(***************************************************************************)
Access ==
  IF ringMode = "lines" /\ ringRead = "no" /\ snapFile # NoSnapshot THEN <<>> ELSE events

(***************************************************************************)
(* A tool call, and the flush it may start.                                *)
(***************************************************************************)
Flight(batch, compacts) == [batch |-> batch, compacts |-> compacts, stage |-> "writing", upTo |-> 0]

flushToolCallEvents(q) ==
  /\ q # <<>> /\ Cardinality(flights) < MaxFlights
  /\ \E compacts \in {"yes", "no"} : flights' = flights \cup {Flight(q, compacts)}
  /\ queue' = <<>>

recordToolCall ==
  LET e == recorded + 1
  IN /\ recorded < MaxEvents
     /\ recorded' = e
     /\ events' = Append(events, e)
     /\ mine' = mine \cup {e}
     /\ IF appendLog = "on"
        THEN /\ \/ flushToolCallEvents(Append(queue, e))
                \/ queue' = Append(queue, e) /\ UNCHANGED flights
             /\ UNCHANGED saveDue
        ELSE /\ saveDue' \in {saveDue, "yes"}
             /\ UNCHANGED <<queue, flights>>
     /\ UNCHANGED <<appendLog, ringMode, ringRead, logFile, snapFile, ioErrors,
                    deaths, health, raced>>

(* Any of the getters of the collector.                                    *)
readEvents ==
  /\ events' = Access
  /\ ringRead' = "yes"
  /\ UNCHANGED <<appendLog, ringMode, queue, flights, saveDue, logFile, snapFile,
                 recorded, ioErrors, deaths, health, mine, raced>>

(***************************************************************************)
(* A flush: the batch reaches the log; the callback saves a snapshot of    *)
(* the ring when the flush compacts; the log is emptied.                   *)
(***************************************************************************)
FlightMoves(f, stage) ==
  flights' = (flights \ {f})
             \cup {[f EXCEPT !.stage = stage,
                             !.upTo = IF stage = "truncating" THEN recorded ELSE 0]}
FlightEnds(f)         == flights' = flights \ {f}

recordPersistenceRecovery == health' = "good"
recordPersistenceFailure ==
  /\ ioErrors < MaxIoErrors /\ ioErrors' = ioErrors + 1
  /\ health' = "degraded"

saveSnapshot ==
  /\ snapFile' = Access /\ events' = Access /\ ringRead' = "yes"

appendLands(f) ==
  /\ f.stage = "writing"
  /\ logFile' = logFile \o f.batch
  /\ FlightMoves(f, "written")
  /\ UNCHANGED <<appendLog, ringMode, events, ringRead, queue, saveDue, snapFile,
                 recorded, ioErrors, deaths, health, mine, raced>>

(* Mutant: the batch is dropped.                                           *)
appendFailsDrops(f) ==
  /\ f.stage = "writing"
  /\ recordPersistenceFailure
  /\ FlightEnds(f)
  /\ UNCHANGED <<appendLog, ringMode, events, ringRead, queue, saveDue, logFile, snapFile,
                 recorded, deaths, mine, raced>>

(* The batch goes back to the head of the queue.                           *)
appendFails(f) ==
  /\ f.stage = "writing"
  /\ recordPersistenceFailure
  /\ queue' = f.batch \o queue
  /\ FlightEnds(f)
  /\ UNCHANGED <<appendLog, ringMode, events, ringRead, saveDue, logFile, snapFile,
                 recorded, deaths, mine, raced>>

appended(f) ==
  /\ f.stage = "written"
  /\ \/ /\ f.compacts = "no"
        /\ recordPersistenceRecovery /\ FlightEnds(f)
        /\ UNCHANGED <<snapFile, events, ringRead, ioErrors>>
     \/ /\ f.compacts = "yes"
        /\ saveSnapshot /\ FlightMoves(f, "truncating")
        /\ UNCHANGED <<ioErrors, health>>
     \/ /\ f.compacts = "yes"                          \* the snapshot fails
        /\ events' = Access /\ ringRead' = "yes"
        /\ recordPersistenceFailure /\ FlightEnds(f)
        /\ UNCHANGED snapFile
  /\ UNCHANGED <<appendLog, ringMode, queue, saveDue, logFile, recorded, deaths,
                 mine, raced>>

truncated(f) ==
  /\ f.stage = "truncating"
  /\ FlightEnds(f)
  /\ \/ /\ logFile' = <<>>
        /\ raced' = raced \cup {e \in Range(logFile) : e > f.upTo}
        /\ recordPersistenceRecovery /\ UNCHANGED ioErrors
     \/ recordPersistenceFailure /\ UNCHANGED <<logFile, raced>>
  /\ UNCHANGED <<appendLog, ringMode, events, ringRead, queue, saveDue, snapFile,
                 recorded, deaths, mine>>

(* With the log off: the timer of recordToolCall.                          *)
saveTimer ==
  /\ saveDue = "yes" /\ saveDue' = "no"
  /\ \/ saveSnapshot /\ recordPersistenceRecovery /\ UNCHANGED ioErrors
     \/ /\ events' = Access /\ ringRead' = "yes"
        /\ recordPersistenceFailure /\ UNCHANGED snapFile
  /\ UNCHANGED <<appendLog, ringMode, queue, flights, logFile, recorded, deaths,
                 mine, raced>>

(* A new process: the ring's file, if it can be read so early, and then    *)
(* what the log holds.  What was queued or being written is lost, though   *)
(* a batch may still have reached the log.                                 *)
restartCollector ==
  /\ deaths < MaxDeaths /\ deaths' = deaths + 1
  /\ events' = (IF ringMode = "snapshot" THEN Saved ELSE <<>>)
               \o (IF appendLog = "on" THEN logFile ELSE <<>>)
  /\ ringRead' = "no" /\ queue' = <<>> /\ flights' = {} /\ saveDue' = "no"
  /\ health' = "good" /\ mine' = OnDisk
  /\ UNCHANGED <<appendLog, ringMode, logFile, snapFile, recorded, ioErrors, raced>>

TclNext ==
  \/ recordToolCall \/ readEvents \/ saveTimer \/ restartCollector
  \/ \E f \in flights :
       appendLands(f) \/ appendFails(f) \/ appended(f) \/ truncated(f)

TclSpec == TclInit /\ [][TclNext]_tclVars

(***************************************************************************)
(* Properties.                                                             *)
(***************************************************************************)
TclTypeOK ==
  /\ appendLog \in AppendLogs /\ ringMode \in RingModes
  /\ events \in Seq(Events) /\ queue \in Seq(Events) /\ logFile \in Seq(Events)
  /\ snapFile \in Seq(Events) \cup {NoSnapshot}
  /\ \A f \in flights :
       f.batch \in Seq(Events) /\ f.compacts \in {"yes", "no"} /\ f.stage \in Stages
       /\ f.upTo \in 0 .. MaxEvents
  /\ recorded \in 0 .. MaxEvents /\ health \in {"good", "degraded"}

(* A write that fails loses no event: with the log on, whatever the        *)
(* process recorded or found on disk is queued, being written or on disk,  *)
(* but for what another flush appends between a compaction's snapshot and  *)
(* the moment it empties the log.  A ring that reads its file as lines, as *)
(* it does by default, keeps this until the first restart.                 *)
InFlight == UNION {Range(f.batch) : f \in {g \in flights : g.stage = "writing"}}

FailureLosesNothing ==
  appendLog = "on" /\ (ringMode = "snapshot" \/ deaths = 0) =>
    mine \ raced \subseteq Range(queue) \cup InFlight \cup OnDisk
=============================================================================
