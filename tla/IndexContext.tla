---------------------------- MODULE IndexContext ----------------------------
(***************************************************************************)
(* The instruction catalogue of several index-server processes that share  *)
(* one instructions directory (src/src/services/indexContext.ts and the    *)
(* mutation handlers built on it).                                         *)
(*                                                                         *)
(* On disk there is one JSON file per instruction and the marker file      *)
(* .index-version.  Each process keeps the catalogue in memory (`state`),  *)
(* a `dirty` flag, and the marker it believes the memory corresponds to.   *)
(* A process runs one handler at a time; the processes interleave between  *)
(* any two file-system calls, so a load is a file-by-file scan and a write *)
(* is a rename, then a touch of the marker, then a read-back of it.        *)
(*                                                                         *)
(* A file's content is abstracted to a generation: n counts the mutations  *)
(* of the id, live says whether the file exists after the n-th.  A marker  *)
(* token is only ever compared with the one on disk, and every touch       *)
(* writes one that never occurred before; so of a remembered token the     *)
(* model keeps whether it still is the one on disk (matched, polled).      *)
(***************************************************************************)
EXTENDS Naturals, FiniteSets

CONSTANTS Procs,    \* the server processes sharing the directory
          Ids,      \* instruction ids
          Pollers,  \* the processes with INDEX_SERVER_ENABLE_INDEX_SERVER_POLLER
          Serve,    \* the operations that clients ask for
          Mortals,  \* the processes that may crash
          MaxGen    \* bound: mutations per id

\* The operations, by what they do to the catalogue.
ReadOps    == {"read", "reload"}
PutOps     == {"put", "patch", "promote"}          \* rename over the file
WriteOps   == PutOps \cup {"add"}                  \* writeEntry / writeEntryAsync
ArchiveOps == {"archive", "restore", "purge", "updateArchived"}
Ops        == ReadOps \cup WriteOps \cup ArchiveOps \cup {"remove"}

\* Operations that change no active file, yet touch the marker.
QuietOps   == {"purge", "updateArchived"}

ASSUME IndexContextAssumption ==
    /\ Pollers \subseteq Procs
    /\ Mortals \subseteq Procs
    /\ Ids # {}
    /\ Serve \subseteq Ops
    /\ MaxGen \in Nat

VARIABLES
  disk,    \* disk[id]: the generation of <dir>/<id>.json
  torn,    \* ids whose file changed in a process that died before the touch
  loaded,  \* loaded[p]: `state !== null`
  view,    \* view[p]: state.byId; after invalidate() what it last held
  matched, \* processes whose state.versionToken is the token on disk
  dirty,   \* dirty[p]
  polled,  \* processes whose lastSeenToken is the token on disk
  pc,      \* pc[p]: where p's current handler is
  job,     \* job[p]: the handler's operation and arguments
  todo,    \* todo[p]: files the running scan has still to read
  part     \* part[p]: what the running scan has read

vars == <<disk, torn, loaded, view, matched, dirty, polled, pc, job, todo, part>>

Gens  == [n : Nat, live : BOOLEAN]
Views == [Ids -> Gens]

\* "pre": the handler's first ensureLoaded(); "dup": the one after EEXIST;
\* "post": the one that ends the handler.
Phases     == {"pre", "dup", "post"}
PCs        == {"idle", "ensure", "scan", "body", "look", "touch", "sync", "again", "down"}

NoGen == [n |-> 0, live |-> FALSE]
AnyId == CHOOSE i \in Ids : TRUE
NoJob == [op |-> "read", id |-> AnyId, want |-> 0, phase |-> "pre", mine |-> 0]
Jobs  == [op : Ops, id : Ids, want : Nat, phase : Phases, mine : Nat]

Init ==
  /\ disk \in [Ids -> {NoGen, [n |-> 0, live |-> TRUE]}]
  /\ torn = {}
  /\ loaded = [p \in Procs |-> FALSE]
  /\ view = [p \in Procs |-> [i \in Ids |-> NoGen]]
  /\ matched = {}
  /\ dirty = [p \in Procs |-> FALSE]
  /\ polled = Pollers
  /\ pc = [p \in Procs |-> "idle"]
  /\ job = [p \in Procs |-> NoJob]
  /\ todo = [p \in Procs |-> {}]
  /\ part = [p \in Procs |-> [i \in Ids |-> NoGen]]

---------------------------------------------------------------------------
\* Helpers of the actions

\* The cache short-circuit of ensureLoaded(): not dirty and the marker on
\* disk is the one the memory carries.
CacheValid(p) == loaded[p] /\ ~dirty[p] /\ p \in matched

Goto(p, l)   == pc' = [pc EXCEPT ![p] = l]
Finish(p)    == Goto(p, "idle") /\ job' = [job EXCEPT ![p] = NoJob]

\* invalidate(): state = null; dirty = true.
Invalidate(p) == /\ loaded' = [loaded EXCEPT ![p] = FALSE]
                 /\ dirty'  = [dirty EXCEPT ![p] = TRUE]

\* Mutant: the marker is written only once, when it does not exist yet.
TouchNothing == torn' = {} /\ UNCHANGED <<matched, polled>>

\* touchIndexVersion(): a token nobody has seen before.  Whatever an earlier
\* crash left unannounced is announced by it too.
TouchIndexVersion == matched' = {} /\ polled' = {} /\ torn' = {}

\* Mutant: the record loses a field on its way to disk.
NextGenBare(id, l) == [n |-> disk[id].n + 1]

NextGen(id, l) == [n |-> disk[id].n + 1, live |-> l]

\* materializeWrittenEntry(): the written entry goes into the live state, or,
\* without one, the next ensureLoaded() is forced to reload.
Materialize(p, id, g) ==
  /\ view'  = IF loaded[p] THEN [view EXCEPT ![p][id] = g] ELSE view
  /\ dirty' = [dirty EXCEPT ![p] = @ \/ ~loaded[p]]

---------------------------------------------------------------------------
\* Starting a handler

\* A request arrives at an idle process.  patch carries the sourceHash
\* (generation) that its caller once read from any of the servers.
Begin(p, o, id, w) ==
  /\ pc[p] = "idle"
  /\ job' = [job EXCEPT ![p] = [op |-> o, id |-> id, want |-> w,
                                phase |-> "pre", mine |-> 0]]
  /\ IF o = "reload" THEN Invalidate(p) ELSE UNCHANGED <<loaded, dirty>>
  /\ Goto(p, IF o \in ArchiveOps \cup {"add"} THEN "body" ELSE "ensure")
  /\ UNCHANGED <<disk, torn, view, matched, polled, todo, part>>

BeginRead(p) == Begin(p, "read", AnyId, 0)

BeginOther(p) ==
  \E o \in Serve \ {"read"}, id \in Ids :
    \E w \in IF o = "patch" THEN {view[q][id].n : q \in Procs} ELSE {0} :
      Begin(p, o, id, w)

---------------------------------------------------------------------------
\* ensureLoaded() / ensureLoadedAsync()

\* What follows an ensureLoaded(): a first one leads to the handler's body
\* (a read has none), the one after EEXIST to a look-up, a final one ends it.
Continue(p) ==
  IF job[p].phase = "pre" /\ job[p].op \notin ReadOps
  THEN Goto(p, "body") /\ job' = job
  ELSE IF job[p].phase = "dup"
  THEN Goto(p, "look") /\ job' = job
  ELSE Finish(p)

\* Served from memory.
EnsureHit(p) ==
  /\ pc[p] = "ensure" /\ CacheValid(p)
  /\ Continue(p)
  /\ UNCHANGED <<disk, torn, loaded, view, matched, dirty, polled, todo, part>>

\* Mutant: what the process has seen of a live file is kept, not read again.
EnsureMissMemo(p) ==
  /\ pc[p] = "ensure" /\ ~CacheValid(p)
  /\ Goto(p, "scan")
  /\ todo' = [todo EXCEPT ![p] = {i \in Ids : ~view[p][i].live}]
  /\ part' = [part EXCEPT ![p] = view[p]]
  /\ UNCHANGED <<disk, torn, loaded, view, matched, dirty, polled, job>>

\* Not served from memory: the directory is scanned anew.
EnsureMiss(p) ==
  /\ pc[p] = "ensure" /\ ~CacheValid(p)
  /\ Goto(p, "scan")
  /\ todo' = [todo EXCEPT ![p] = Ids]
  /\ part' = [part EXCEPT ![p] = [i \in Ids |-> NoGen]]
  /\ UNCHANGED <<disk, torn, loaded, view, matched, dirty, polled, job>>

\* Mutant: writes are not atomic, and a file being written is skipped.
ScanFileTorn(p, id) ==
  /\ pc[p] = "scan" /\ id \in todo[p]
  /\ part' = [part EXCEPT ![p][id] =
                IF \E q \in Procs : pc[q] = "touch" /\ job[q].id = id
                THEN NoGen ELSE disk[id]]
  /\ todo' = [todo EXCEPT ![p] = @ \ {id}]
  /\ UNCHANGED <<disk, torn, loaded, view, matched, dirty, polled, pc, job>>

\* The loader reads one file.
ScanFile(p, id) ==
  /\ pc[p] = "scan" /\ id \in todo[p]
  /\ part' = [part EXCEPT ![p][id] = disk[id]]
  /\ todo' = [todo EXCEPT ![p] = @ \ {id}]
  /\ UNCHANGED <<disk, torn, loaded, view, matched, dirty, polled, pc, job>>

\* Mutant: the poller's snapshot is refreshed along with the memory.
LoadEndPrimesPoller(p) ==
  /\ pc[p] = "scan" /\ todo[p] = {}
  /\ view'   = [view EXCEPT ![p] = part[p]]
  /\ loaded' = [loaded EXCEPT ![p] = TRUE]
  /\ matched' = matched \cup {p} /\ polled' = polled \cup (Pollers \cap {p})
  /\ dirty'  = [dirty EXCEPT ![p] = FALSE]
  /\ part'   = [part EXCEPT ![p] = [i \in Ids |-> NoGen]]
  /\ Continue(p)
  /\ UNCHANGED <<disk, torn, todo>>

\* The new state is installed with the marker as it is AFTER the scan.
LoadEnd(p) ==
  /\ pc[p] = "scan" /\ todo[p] = {}
  /\ view'   = [view EXCEPT ![p] = part[p]]
  /\ loaded' = [loaded EXCEPT ![p] = TRUE]
  /\ matched' = matched \cup {p}
  /\ dirty'  = [dirty EXCEPT ![p] = FALSE]
  /\ part'   = [part EXCEPT ![p] = [i \in Ids |-> NoGen]]
  /\ Continue(p)
  /\ UNCHANGED <<disk, torn, polled, todo>>

---------------------------------------------------------------------------
\* Handler bodies: the first file-system effect of each mutation

\* The active file of the job's id changes to a new generation.
Mutate(p, l) ==
  /\ disk[job[p].id].n < MaxGen
  /\ disk' = [disk EXCEPT ![job[p].id] = NextGen(job[p].id, l)]
  /\ job'  = [job EXCEPT ![p].mine = disk[job[p].id].n + 1, ![p].want = 0]
  /\ Goto(p, "touch")

\* writeEntry(): rename (or, for a create, link) the new file into place and
\* materialize it.  add must find no file; patch must find its caller's
\* sourceHash in memory; promote and put overwrite whatever is there.
MayWrite(p) ==
  LET id == job[p].id IN
  CASE job[p].op = "add"   -> ~disk[id].live
    [] job[p].op = "patch" -> view[p][id].live /\ view[p][id].n = job[p].want
    [] OTHER               -> TRUE

WriteEntry(p) ==
  /\ pc[p] = "body" /\ job[p].op \in WriteOps /\ MayWrite(p)
  /\ Mutate(p, TRUE)
  /\ Materialize(p, job[p].id, NextGen(job[p].id, TRUE))
  /\ UNCHANGED <<torn, loaded, matched, polled, todo, part>>

\* createOnly answered EEXIST: the handler looks the id up instead.
AddDuplicate(p) ==
  /\ pc[p] = "body" /\ job[p].op = "add" /\ disk[job[p].id].live
  /\ job' = [job EXCEPT ![p].phase = "dup", ![p].mine = disk[job[p].id].n]
  /\ Goto(p, "ensure")
  /\ UNCHANGED <<disk, torn, loaded, view, matched, dirty, polled, todo, part>>

\* It is visible, or the cache is dropped and the directory read once more.
LookDuplicate(p) ==
  /\ pc[p] = "look"
  /\ IF view[p][job[p].id].live
     THEN Finish(p) /\ UNCHANGED <<loaded, dirty>>
     ELSE /\ Invalidate(p)
          /\ job' = [job EXCEPT ![p].phase = "post"]
          /\ Goto(p, "ensure")
  /\ UNCHANGED <<disk, torn, view, matched, polled, todo, part>>

\* removeEntry(): unlink the file if it exists, mark dirty.
RemoveEntry(p) ==
  /\ pc[p] = "body" /\ job[p].op = "remove"
  /\ disk[job[p].id].live
  /\ Mutate(p, FALSE)
  /\ dirty' = [dirty EXCEPT ![p] = TRUE]
  /\ UNCHANGED <<torn, loaded, view, matched, polled, todo, part>>

\* removeEntry() of an id that only the (stale) memory still shows.
RemoveGone(p) ==
  /\ pc[p] = "body" /\ job[p].op = "remove"
  /\ ~disk[job[p].id].live /\ view[p][job[p].id].live
  /\ dirty' = [dirty EXCEPT ![p] = TRUE]
  /\ job' = [job EXCEPT ![p].mine = disk[job[p].id].n]
  /\ Goto(p, "touch")
  /\ UNCHANGED <<disk, torn, loaded, view, matched, polled, todo, part>>

\* archiveEntry() and restoreEntry() move the file out of or into the active
\* directory, over a file that is there in mode "overwrite", and invalidate.
ArchiveOrRestore(p) ==
  /\ pc[p] = "body" /\ job[p].op \in {"archive", "restore"}
  /\ job[p].op = "archive" => disk[job[p].id].live
  /\ Mutate(p, job[p].op = "restore")
  /\ Invalidate(p)
  /\ UNCHANGED <<torn, view, matched, polled, todo, part>>

\* purgeEntry() and updateArchivedEntry() only concern the archive.
ArchiveOnly(p) ==
  /\ pc[p] = "body" /\ job[p].op \in QuietOps
  /\ IF job[p].op = "purge" THEN Invalidate(p) ELSE UNCHANGED <<loaded, dirty>>
  /\ Goto(p, "touch")
  /\ UNCHANGED <<disk, torn, view, matched, polled, job, todo, part>>

\* Every way a body ends without an effect: not found, precondition failed,
\* collision on restore, a write that failed after its retries.
BodyFails(p) ==
  /\ pc[p] = "body"
  /\ Finish(p)
  /\ UNCHANGED <<disk, torn, loaded, view, matched, dirty, polled, todo, part>>

---------------------------------------------------------------------------
\* Announcing a mutation

\* The touch that follows every mutation.  After a remove the handler also
\* invalidates and reloads; an archive operation is done.
Touch(p) ==
  /\ pc[p] = "touch"
  /\ TouchIndexVersion
  /\ \/ /\ job[p].op \in WriteOps
        /\ Goto(p, "sync") /\ UNCHANGED <<loaded, dirty, job>>
     \/ /\ job[p].op = "remove"
        /\ Invalidate(p) /\ Goto(p, "ensure")
        /\ job' = [job EXCEPT ![p].phase = "post"]
     \/ /\ job[p].op \in ArchiveOps
        /\ Finish(p) /\ UNCHANGED <<loaded, dirty>>
  /\ UNCHANGED <<disk, view, todo, part>>

\* The rest of syncTouchedVersionIntoState(): the marker now on disk, which
\* another process may have touched since, becomes the memory's marker.
Sync(p) ==
  /\ pc[p] = "sync"
  /\ matched' = IF loaded[p] THEN matched \cup {p} ELSE matched
  /\ IF job[p].op = "promote" THEN Finish(p) ELSE Goto(p, "again") /\ job' = job
  /\ UNCHANGED <<disk, torn, loaded, view, dirty, polled, todo, part>>

\* The handlers of add, put and patch touch once more, invalidate and reload.
TouchAgain(p) ==
  /\ pc[p] = "again"
  /\ TouchIndexVersion
  /\ Invalidate(p)
  /\ job' = [job EXCEPT ![p].phase = "post"]
  /\ Goto(p, "ensure")
  /\ UNCHANGED <<disk, view, todo, part>>

---------------------------------------------------------------------------
\* Poller, crash, restart

\* Mutant: the tick takes the new snapshot and forgets to mark the memory.
PollTickForgets(p) ==
  /\ p \in Pollers /\ pc[p] = "idle" /\ p \notin polled
  /\ polled' = polled \cup {p}
  /\ UNCHANGED <<disk, torn, loaded, view, matched, dirty, pc, job, todo, part>>

\* A tick that finds the marker changed since the last one.  (The proactive
\* reload is an ensureLoaded(), which is what a BeginRead after it does.)
PollTick(p) ==
  /\ p \in Pollers /\ pc[p] = "idle" /\ p \notin polled
  /\ polled' = polled \cup {p}
  /\ dirty' = [dirty EXCEPT ![p] = TRUE]
  /\ UNCHANGED <<disk, torn, loaded, view, matched, pc, job, todo, part>>

\* A file was changed and the marker has not been touched since.
Announcing(p) == pc[p] = "touch" /\ job[p].op \notin QuietOps

\* The process dies; a mutation it had not yet announced stays so.
Crash(p) ==
  /\ p \in Mortals /\ pc[p] # "down"
  /\ torn' = IF Announcing(p) THEN torn \cup {job[p].id} ELSE torn
  /\ loaded' = [loaded EXCEPT ![p] = FALSE]
  /\ dirty'  = [dirty EXCEPT ![p] = FALSE]
  /\ view'   = [view EXCEPT ![p] = [i \in Ids |-> NoGen]]
  /\ matched' = matched \ {p}
  /\ part'   = [part EXCEPT ![p] = [i \in Ids |-> NoGen]]
  /\ todo'   = [todo EXCEPT ![p] = {}]
  /\ Goto(p, "down")
  /\ job' = [job EXCEPT ![p] = NoJob]
  /\ UNCHANGED <<disk, polled>>

\* A new process starts, and startIndexVersionPoller() primes its snapshot.
Restart(p) ==
  /\ pc[p] = "down"
  /\ polled' = polled \cup (Pollers \cap {p})
  /\ Goto(p, "idle")
  /\ UNCHANGED <<disk, torn, loaded, view, matched, dirty, job, todo, part>>

---------------------------------------------------------------------------
\* What the event loop does with a handler once it has been started.
Work(p) ==
  \/ EnsureHit(p) \/ EnsureMiss(p)
  \/ \E id \in Ids : ScanFile(p, id)
  \/ LoadEnd(p)
  \/ WriteEntry(p) \/ AddDuplicate(p) \/ LookDuplicate(p) \/ RemoveEntry(p) \/ RemoveGone(p)
  \/ ArchiveOrRestore(p) \/ ArchiveOnly(p) \/ BodyFails(p)
  \/ Touch(p) \/ Sync(p) \/ TouchAgain(p)

Step(p) == BeginRead(p) \/ BeginOther(p) \/ Work(p) \/ PollTick(p) \/ Crash(p) \/ Restart(p)

Next == \E p \in Procs : Step(p)

Spec == Init /\ [][Next]_vars

\* A started handler runs on.  The event loop serves an elapsed interval timer
\* between two requests, and clients keep reading: both happen again and again
\* although other requests are handled too.
Fairness == \A p \in Procs : /\ WF_vars(Work(p))
                             /\ SF_vars(PollTick(p))
                             /\ SF_vars(BeginRead(p))

FairSpec == Spec /\ Fairness

---------------------------------------------------------------------------
\* Properties

\* Every variable has its type.
TypeOK ==
  /\ disk \in Views /\ torn \subseteq Ids
  /\ loaded \in [Procs -> BOOLEAN] /\ dirty \in [Procs -> BOOLEAN]
  /\ view \in [Procs -> Views] /\ part \in [Procs -> Views]
  /\ matched \subseteq Procs /\ polled \subseteq Pollers
  /\ pc \in [Procs -> PCs] /\ job \in [Procs -> Jobs]
  /\ todo \in [Procs -> SUBSET Ids]

\* The file of id has changed and no touch has followed yet.
Unannounced(id) == id \in torn \/ \E q \in Procs : Announcing(q) /\ job[q].id = id

\* With the poller on, memory that differs from the disk is always about to
\* be found out: the change is not announced yet, or the memory is already
\* marked dirty, or the next poll tick will mark it.  (A load or a write of
\* the process itself may absorb the marker of a change it has not read; the
\* poller compares with its own snapshot and not with the memory's marker.)
StaleIsDetectable ==
  \A p \in Pollers :
    loaded[p] /\ ~dirty[p] /\ p \in polled =>
      \A id \in Ids : view[p][id] = disk[id] \/ Unannounced(id)

\* A handler that ends with a reload (add, put, patch, remove) answers from a
\* catalogue that contains its own mutation, or a later one of the same id.
ReadYourWrites ==
  [][\A p \in Procs :
       pc[p] # "idle" /\ pc'[p] = "idle" /\ job[p].phase = "post" =>
         loaded'[p] /\ view'[p][job[p].id].n >= job[p].mine]_vars

\* Once the mutations have stopped (MaxGen), a polling process that stays up
\* shows the catalogue on disk, unless a crash left a change unannounced.
EventuallyFresh ==
  \A p \in Pollers :
    <>[](pc[p] # "down") => <>[](torn # {} \/ view[p] = disk)

\* docs/tools.md:1002: "Lost-update protection. Pass the `sourceHash` you read
\* as `expectedSourceHash`.  If the entry changed in the meantime the patch is
\* refused and nothing is written".
PatchNeverLosesUpdate ==
  [][\A p \in Procs :
       job[p].op = "patch" /\ pc[p] = "body" /\ pc'[p] = "touch" =>
         disk[job[p].id].n = job[p].want]_vars

---------------------------------------------------------------------------
\* Refinement: the processes implement a shared catalogue whose readers only
\* move forward.
Catalog == INSTANCE SharedCatalog WITH
             newest <- [i \in Ids |-> disk[i].n],
             shown  <- [p \in Procs |-> [i \in Ids |-> view[p][i].n]],
             up     <- {p \in Procs : pc[p] # "down"}

ImplementsCatalog == Catalog!Spec
=============================================================================
